------------------------ MODULE QueueManager_proof ------------------------
(***************************************************************************)
(* The invariants of QueueManager, for any users, files, priorities, sizes *)
(* and settings.                                                           *)
(***************************************************************************)
EXTENDS QueueManager, TLAPS

(* The four invariants together are inductive; none is without the others. *)
IInv == TypeOK /\ RecordsAgree /\ OneItemPerFile /\ DownloadsSound

-----------------------------------------------------------------------------
(* addSegment makes no block numbers up. *)
LEMMA AddSegmentType ==
    ASSUME NEW N, NEW done \in SUBSET (N \X N), NEW seg \in N \X N
    PROVE  AddSegment(done, seg) \in SUBSET (N \X N)
  BY DEF AddSegment, Begin, End

(* What getNextSegment offers lies in the file, and is the whole file where the tree has one leaf. *)
LEMMA FreeChunksType ==
    ASSUME NEW i, NEW done \in SUBSET (Positions \X Positions),
           NEW grain \in {1, Blocks}, NEW s \in FreeChunks(i, done, grain)
    PROVE  /\ s \in Positions \X Positions
           /\ End(s) <= Blocks
           /\ grain = Blocks => s \in {NoSegment, <<0, Blocks>>}
  <1> USE QueueAssumption DEF Positions, Begin, End, NoSegment
  <1>1. CASE ~MultiChunk /\ grain = Blocks
    BY <1>1 DEF FreeChunks, SingleWhole
  <1>2. CASE ~MultiChunk /\ grain # Blocks
    <2>1. s \in SingleChunk(done, Blocks)
      BY <1>2 DEF FreeChunks
    <2> QED
      BY <1>2, <2>1 DEF SingleChunk
  <1>3. CASE MultiChunk /\ grain = Blocks
    BY <1>3 DEF FreeChunks, WholeFile
  <1>4. CASE MultiChunk /\ grain # Blocks
    <2>1. PICK n \in 1 .. Blocks : s \in NextChunk(done, Busy(i), Blocks, n)
      BY <1>4 DEF FreeChunks
    <2> QED
      BY <1>4, <2>1 DEF NextChunk
  <1> QED
    BY <1>1, <1>2, <1>3, <1>4

(* What is left of a slow download, checked with a full tree, begins and ends on blocks of the file. *)
LEMMA OverlappingType ==
    ASSUME IInv, NEW i \in Queued, NEW done, NEW s \in Overlapping(i, done, 1)
    PROVE  s \in Positions \X Positions /\ End(s) <= Blocks /\ Begin(s) < End(s)
  <1> USE QueueAssumption DEF IInv
  <1>1. PICK v \in fileQueue[i].downloads :
            /\ s = <<Begin(dl[v].segment) + (dl[v].pos - (dl[v].pos % 1)), End(dl[v].segment)>>
            /\ dl[v].pos < Length(dl[v].segment)
    BY DEF Overlapping, SlowChunks
  <1>2. v \in Users /\ dl[v] # NoDownload /\ dl[v] \in Download /\ InBounds(v)
    BY DEF RecordsAgree, DownloadsSound, TypeOK, QueueItem
  <1>3. /\ dl[v].segment \in Positions \X Positions /\ dl[v].pos \in Positions
        /\ End(dl[v].segment) <= Blocks
    BY <1>2 DEF InBounds, Download
  <1>4. dl[v].pos % 1 = 0
    BY <1>3 DEF Positions
  <1> QED
    BY <1>1, <1>3, <1>4 DEF Positions, Begin, End, Length

-----------------------------------------------------------------------------
LEMMA InitIInv == Init => IInv
  BY QueueAssumption
  DEF Init, IInv, TypeOK, RecordsAgree, OneItemPerFile, DownloadsSound, InBounds, Queued, Gone, Has

LEMMA AddItemIInv ==
    ASSUME IInv, NEW t \in Targets, NEW r \in Roots \cup {ListRoot}, NEW p \in Priorities,
           NEW u \in Users, r = ListRoot \/ WithRoot(r) = {}, AddItem(t, r, p, u)
    PROVE  IInv'
  <1> USE QueueAssumption DEF IInv
  <1>1. PICK i \in Items :
            /\ Unused(i)
            /\ fileQueue' = [j \in Queued \cup {i} |->
                                IF j = i
                                THEN [target |-> t, root |-> r, prio |-> p, sources |-> {u},
                                      badSources |-> {}, done |-> {}, downloads |-> {}]
                                ELSE fileQueue[j]]
            /\ userQueue' = userQueue \cup {<<p, u, i>>}
            /\ UNCHANGED <<running, dl, trees, temp, failed>>
            /\ At(t) = {}
    BY DEF AddItem
  <1>2. Queued' = Queued \cup {i} /\ i \notin Queued
    BY <1>1 DEF Queued, Unused
  <1>3. TypeOK'
    BY <1>1, <1>2 DEF TypeOK, QueueItem, Download
  <1>4. RecordsAgree'
    BY <1>1, <1>2 DEF RecordsAgree, Unused
  <1>5. OneItemPerFile'
    BY <1>1, <1>2 DEF OneItemPerFile, IsFile, At, WithRoot
  <1>6. DownloadsSound'
    BY <1>1, <1>2 DEF DownloadsSound, InBounds, Unused, Has
  <1> QED
    BY <1>3, <1>4, <1>5, <1>6

LEMMA AddSourceIInv ==
    ASSUME IInv, NEW i \in Queued, NEW u \in Users, AddSource(i, u)
    PROVE  IInv'
  <1> USE QueueAssumption DEF IInv, AddSource
  <1>1. Queued' = Queued
    BY DEF Queued, TypeOK
  <1>2. TypeOK'
    <2>1. fileQueue[i] \in QueueItem
      BY DEF TypeOK
    <2>2. fileQueue' \in [Queued -> QueueItem]
      BY <2>1 DEF TypeOK, QueueItem
    <2>3. userQueue' \subseteq Priorities \X Users \X Items
      BY <2>1 DEF TypeOK, QueueItem, Entry
    <2> QED
      BY <1>1, <2>2, <2>3 DEF TypeOK
  <1>3. RecordsAgree'
    BY <1>1 DEF RecordsAgree, TypeOK
  <1>4. OneItemPerFile'
    BY <1>1 DEF OneItemPerFile, IsFile, TypeOK
  <1>5. DownloadsSound'
    BY <1>1 DEF DownloadsSound, InBounds, Has, TypeOK
  <1> QED
    BY <1>2, <1>3, <1>4, <1>5

LEMMA RemoveIInv ==
    ASSUME IInv, NEW t \in Targets, Remove(t)
    PROVE  IInv'
  <1> USE QueueAssumption, NullAssumption DEF IInv
  <1>1. PICK i \in Queued :
            /\ IF Finished(i) THEN UNCHANGED <<userQueue, running, failed>> ELSE LeaveUserQueue(i)
            /\ temp' = IF fileQueue[i].downloads # {} THEN temp
                       ELSE DropTemp(fileQueue[i].root, NoItem)
            /\ fileQueue' = [j \in Queued \ {i} |-> fileQueue[j]]
            /\ UNCHANGED <<dl, trees>>
    BY DEF Remove, At
  <1>2. Queued' = Queued \ {i}
    BY <1>1 DEF Queued
  <1>3. TypeOK'
    BY <1>1, <1>2 DEF TypeOK, LeaveUserQueue, Missing, DropTemp, QueueItem
  <1>4. \A u \in Users : running'[u] = running[u] \/ running'[u] = NoItem
    BY <1>1 DEF LeaveUserQueue, TypeOK
  <1>5. \A u \in Users : running'[u] # running[u] => running[u] = i
    BY <1>1 DEF LeaveUserQueue, TypeOK
  <1>6. RecordsAgree'
    BY <1>1, <1>2, <1>4, <1>5 DEF RecordsAgree, TypeOK
  <1>7. OneItemPerFile'
    BY <1>1, <1>2 DEF OneItemPerFile, IsFile
  <1>8. \A u \in Users : Has(u, "file", {"running"}) => temp'[dl[u].root] # Gone
    BY <1>1 DEF DropTemp, OpenElsewhere, DownloadsSound, InBounds, TypeOK, Has
  <1>9. DownloadsSound'
    BY <1>1, <1>2, <1>4, <1>8 DEF DownloadsSound, InBounds, Has, TypeOK
  <1> QED
    BY <1>3, <1>6, <1>7, <1>9

(* What becomes of an item that loses a source. *)
LostSource(x, i, u) ==
    /\ x \in QueueItem
    /\ x.target = fileQueue[i].target
    /\ x.root = fileQueue[i].root
    /\ x.done = fileQueue[i].done
    /\ x.sources = fileQueue[i].sources \ {u}
    /\ x.badSources = fileQueue[i].badSources \cup {u}
    /\ x.downloads = IF running[u] = i THEN fileQueue[i].downloads \ {u} ELSE fileQueue[i].downloads

LEMMA WithoutSourceType ==
    ASSUME TypeOK, NEW i \in Queued, NEW u \in Users
    PROVE  LostSource(WithoutSource(i, u), i, u)
  <1>1. fileQueue[i] \in QueueItem
    BY DEF TypeOK
  <1> QED
    BY <1>1 DEF LostSource, WithoutSource, QueueItem

LEMMA RemoveSourceIInv ==
    ASSUME IInv, NEW t \in Paths, NEW u \in Users, RemoveSource(t, u)
    PROVE  IInv'
  <1> USE QueueAssumption DEF IInv
  <1>1. PICK i \in Queued :
            /\ u \in fileQueue[i].sources
            /\ fileQueue' = [fileQueue EXCEPT ![i] = WithoutSource(i, u)]
            /\ running' = [running EXCEPT ![u] = IF @ = i THEN NoItem ELSE @]
            /\ userQueue' \subseteq userQueue
            /\ failed' = failed \/ failed' = failed \cup Missing({Entry(i, u)})
            /\ UNCHANGED <<dl, trees, temp>>
    BY DEF RemoveSource, At
  <1>2. Queued' = Queued
    BY <1>1 DEF Queued, TypeOK
  <1>3. TypeOK'
    <2>1. WithoutSource(i, u) \in QueueItem
      BY WithoutSourceType DEF LostSource
    <2>2. fileQueue' \in [Queued -> QueueItem]
      BY <1>1, <2>1 DEF TypeOK
    <2> QED
      BY <1>1, <1>2, <2>2 DEF TypeOK, Missing
  <1>4. LostSource(fileQueue'[i], i, u) /\ \A j \in Queued \ {i} : fileQueue'[j] = fileQueue[j]
    <2>1. fileQueue'[i] = WithoutSource(i, u) /\ \A j \in Queued \ {i} : fileQueue'[j] = fileQueue[j]
      BY <1>1 DEF TypeOK
    <2> QED
      BY <2>1, WithoutSourceType
  <1>5. \A j \in Queued : /\ fileQueue'[j].target = fileQueue[j].target
                          /\ fileQueue'[j].root = fileQueue[j].root
    BY <1>4 DEF LostSource
  <1>6. \A v \in Users : running'[v] = IF v = u /\ running[u] = i THEN NoItem ELSE running[v]
    BY <1>1 DEF TypeOK
  <1>7. RecordsAgree'
    <2>1. \A j \in Queued, v \in Users : v \in fileQueue'[j].downloads <=> running'[v] = j
      BY <1>4, <1>6 DEF RecordsAgree, TypeOK, LostSource
    <2>2. \A j \in Queued : fileQueue'[j].downloads \subseteq fileQueue'[j].sources
      BY <1>4 DEF RecordsAgree, LostSource
    <2> QED
      BY <1>1, <1>2, <1>6, <2>1, <2>2 DEF RecordsAgree, TypeOK
  <1>8. OneItemPerFile'
    <2>1. \A j \in Queued : fileQueue'[j].sources \cap fileQueue'[j].badSources = {}
      BY <1>4 DEF OneItemPerFile, LostSource
    <2> QED
      BY <1>2, <1>5, <2>1 DEF OneItemPerFile, IsFile
  <1>9. DownloadsSound'
    BY <1>1, <1>2, <1>5, <1>6 DEF DownloadsSound, InBounds, Has, TypeOK
  <1> QED
    BY <1>3, <1>7, <1>8, <1>9

LEMMA RemoveUserIInv ==
    ASSUME IInv, NEW u \in Users, RemoveUser(u)
    PROVE  IInv'
  <1> USE QueueAssumption DEF IInv
  <1> DEFINE drop == {i \in Queued : Suitable(i) /\ \E p \in Priorities : <<p, u, i>> \in userQueue}
                        \cup ({running[u]} \ {NoItem})
             lists == {i \in drop : ~IsFile(i)}
             gone == {Entry(i, u) : i \in drop}
  <1>1. /\ drop \subseteq Queued /\ lists \subseteq drop
        /\ running[u] \in Queued => running[u] \in drop
    BY DEF RemoveUser, TypeOK
  <1>2. /\ fileQueue' = [i \in Queued \ lists |->
                            IF i \in drop THEN WithoutSource(i, u) ELSE fileQueue[i]]
        /\ userQueue' = userQueue \ gone
        /\ running' = [running EXCEPT ![u] = NoItem]
        /\ failed' = failed \cup Missing(gone)
        /\ UNCHANGED <<dl, trees, temp>>
    BY DEF RemoveUser
  <1> HIDE DEF drop, lists, gone
  <1>3. Queued' = Queued \ lists
    BY <1>1, <1>2 DEF Queued
  <1>4. TypeOK'
    <2>1. \A i \in Queued : WithoutSource(i, u) \in QueueItem
      BY WithoutSourceType DEF LostSource
    <2>2. fileQueue' \in [Queued \ lists -> QueueItem]
      BY <1>2, <2>1 DEF TypeOK
    <2> QED
      BY <1>1, <1>2, <1>3, <2>2 DEF TypeOK, Missing
  <1>5. \A i \in Queued \ lists :
            IF i \in drop THEN LostSource(fileQueue'[i], i, u) ELSE fileQueue'[i] = fileQueue[i]
    <2>1. \A i \in Queued \ lists :
            fileQueue'[i] = IF i \in drop THEN WithoutSource(i, u) ELSE fileQueue[i]
      BY <1>2
    <2> QED
      BY <2>1, WithoutSourceType
  <1>6. \A i \in Queued \ lists : /\ fileQueue'[i].target = fileQueue[i].target
                                  /\ fileQueue'[i].root = fileQueue[i].root
    BY <1>5 DEF LostSource
  <1>7. \A v \in Users : running'[v] = IF v = u THEN NoItem ELSE running[v]
    BY <1>2 DEF TypeOK
  <1>8. RecordsAgree'
    <2>1. \A i \in Queued \ lists, v \in Users : v \in fileQueue'[i].downloads <=> running'[v] = i
      <3> TAKE i \in Queued \ lists, v \in Users
      <3>1. v \in fileQueue[i].downloads <=> running[v] = i
        BY DEF RecordsAgree
      <3>2. NoItem # i
        BY DEF TypeOK
      <3>3. CASE i \in drop
        <4>1. fileQueue'[i].downloads =
                IF running[u] = i THEN fileQueue[i].downloads \ {u} ELSE fileQueue[i].downloads
          BY <1>5, <3>3 DEF LostSource
        <4> QED
          BY <1>7, <3>1, <3>2, <4>1
      <3>4. CASE i \notin drop
        BY <1>1, <1>5, <1>7, <3>1, <3>2, <3>4
      <3> QED
        BY <3>3, <3>4
    <2>2. \A i \in Queued \ lists : fileQueue'[i].downloads \subseteq fileQueue'[i].sources
      <3> TAKE i \in Queued \ lists
      <3>1. CASE i \notin drop
        BY <1>5, <3>1 DEF RecordsAgree
      <3>2. CASE i \in drop
        <4>1. u \in fileQueue[i].downloads <=> running[u] = i
          BY DEF RecordsAgree
        <4>2. fileQueue[i].downloads \subseteq fileQueue[i].sources
          BY DEF RecordsAgree
        <4> QED
          BY <1>5, <3>2, <4>1, <4>2 DEF LostSource
      <3> QED
        BY <3>1, <3>2
    <2> QED
      BY <1>2, <1>3, <1>7, <2>1, <2>2 DEF RecordsAgree, TypeOK
  <1>9. OneItemPerFile'
    <2>1. \A i \in Queued \ lists : fileQueue'[i].sources \cap fileQueue'[i].badSources = {}
      BY <1>5 DEF OneItemPerFile, LostSource
    <2> QED
      BY <1>3, <1>6, <2>1 DEF OneItemPerFile, IsFile
  <1>10. DownloadsSound'
    BY <1>2, <1>3, <1>6, <1>7 DEF DownloadsSound, InBounds, Has, TypeOK
  <1> QED
    BY <1>4, <1>8, <1>9, <1>10

LEMMA SetPriorityIInv ==
    ASSUME IInv, NEW t \in Targets, NEW p \in Priorities, SetPriority(t, p)
    PROVE  IInv'
  <1> USE QueueAssumption DEF IInv
  <1>1. PICK i \in Queued :
            /\ fileQueue' = [fileQueue EXCEPT ![i].prio = p]
            /\ userQueue' = (userQueue \ Entries(i)) \cup {<<p, u, i>> : u \in fileQueue[i].sources}
            /\ failed' = failed \cup Missing(Entries(i))
            /\ UNCHANGED <<running, dl, trees, temp>>
    BY DEF SetPriority, At
  <1>2. Queued' = Queued
    BY <1>1 DEF Queued, TypeOK
  <1>3. TypeOK'
    BY <1>1, <1>2 DEF TypeOK, QueueItem, Missing
  <1>4. RecordsAgree' /\ OneItemPerFile' /\ DownloadsSound'
    BY <1>1, <1>2 DEF RecordsAgree, OneItemPerFile, DownloadsSound, InBounds, IsFile, Has, TypeOK, QueueItem
  <1> QED
    BY <1>3, <1>4

LEMMA MoveIInv ==
    ASSUME IInv, NEW s \in Paths, NEW t \in Paths, Move(s, t)
    PROVE  IInv'
  <1> USE QueueAssumption DEF IInv
  <1>1. PICK i \in Queued :
            /\ IsFile(i) /\ fileQueue[i].downloads = {} /\ At(t) = {}
            /\ fileQueue' = [fileQueue EXCEPT ![i].target = t]
            /\ UNCHANGED <<userQueue, running, dl, trees, temp, failed>>
    BY DEF Move, At
  <1>2. Queued' = Queued
    BY <1>1 DEF Queued, TypeOK
  <1>3. TypeOK'
    BY <1>1, <1>2 DEF TypeOK, QueueItem, Targets
  <1>4. RecordsAgree'
    BY <1>1, <1>2 DEF RecordsAgree, TypeOK, QueueItem
  <1>5. OneItemPerFile'
    BY <1>1, <1>2 DEF OneItemPerFile, IsFile, At, TypeOK, QueueItem
  <1>6. DownloadsSound'
    BY <1>1, <1>2 DEF DownloadsSound, InBounds, RecordsAgree, Has, TypeOK, QueueItem
  <1> QED
    BY <1>3, <1>4, <1>5, <1>6

-----------------------------------------------------------------------------
(* A download is credited to the item its user runs, if that is still queued. *)
LEMMA CreditedItem ==
    ASSUME IInv, NEW u \in Users, NEW i \in At(dl[u].path), running[u] \in Queued
    PROVE  running[u] = i
  BY DEF IInv, DownloadsSound, InBounds, OneItemPerFile, At

LEMMA SetFileIInv ==
    ASSUME IInv, NEW u \in Users, SetFile(u)
    PROVE  IInv'
  <1> USE QueueAssumption, NullAssumption DEF IInv
  <1>1. /\ dl[u] \in Download
        /\ dl' = [dl EXCEPT ![u].state = "running", ![u].overlapped = FALSE]
        /\ UNCHANGED <<fileQueue, userQueue, running, trees, failed>>
    BY DEF SetFile, TypeOK
  <1>2. Queued' = Queued
    BY <1>1 DEF Queued
  <1>3. /\ dl' \in [Users -> Download \cup {NoDownload}]
        /\ dl'[u] = [dl[u] EXCEPT !.state = "running", !.overlapped = FALSE]
        /\ dl'[u] \in Download /\ dl'[u].of = dl[u].of
        /\ \A v \in Users \ {u} : dl'[v] = dl[v]
    BY <1>1 DEF TypeOK, Download
  <1>4. /\ \A r \in Roots : temp'[r] # Gone \/ temp'[r] = temp[r]
        /\ temp' \in [Roots -> (SUBSET Whole) \cup {Gone}]
        /\ dl[u].type = "file" => temp'[dl[u].root] # Gone /\ Length(dl[u].segment) >= 0
    <2>1. CASE UNCHANGED temp /\ dl[u].type # "file"
      BY <2>1 DEF TypeOK
    <2>2. CASE /\ dl[u].type = "file" /\ Length(dl[u].segment) >= 0
               /\ temp' = [temp EXCEPT ![dl[u].root] = @ \ Gone]
      <3>1. dl[u].root \in Roots
        BY <1>1, <2>2 DEF DownloadsSound, InBounds
      <3>2. temp[dl[u].root] \ Gone \in SUBSET Whole
        BY <3>1 DEF TypeOK, Gone
      <3>3. Gone \notin SUBSET Whole
        BY DEF Gone, Whole
      <3> QED
        BY <2>2, <3>1, <3>2, <3>3 DEF TypeOK
    <2> QED
      BY <2>1, <2>2 DEF SetFile
  <1>5. TypeOK'
    BY <1>1, <1>2, <1>3, <1>4 DEF TypeOK
  <1>6. RecordsAgree' /\ OneItemPerFile'
    <2>1. \A v \in Users : dl[v] # NoDownload => dl'[v] # NoDownload /\ dl'[v].of = dl[v].of
      BY <1>3
    <2> QED
      BY <1>1, <1>2, <2>1 DEF RecordsAgree, OneItemPerFile, IsFile
  <1>7. DownloadsSound'
    <2>1. \A v \in Users : running'[v] \in Queued' => dl'[v].path = fileQueue'[running'[v]].target
      BY <1>1, <1>2, <1>3 DEF DownloadsSound, InBounds, Download
    <2>2. ASSUME NEW v \in Users, dl'[v] # NoDownload
          PROVE  InBounds(v)'
      <3>1. CASE v = u
        BY <1>1, <1>3, <1>4, <3>1 DEF DownloadsSound, InBounds, Download, Has
      <3>2. CASE v # u
        BY <1>3, <1>4, <2>2, <3>2 DEF DownloadsSound, InBounds, Has
      <3> QED
        BY <3>1, <3>2
    <2> QED
      BY <2>1, <2>2 DEF DownloadsSound, InBounds
  <1> QED
    BY <1>5, <1>6, <1>7

(* Another block fits into the segment, and into the file. *)
LEMMA ReceiveFits ==
    ASSUME IInv, NEW u \in Users, Receive(u)
    PROVE  LET d == dl[u]
               from == Begin(d.segment) + d.pos
           IN  /\ d.pos + d.grain <= Length(d.segment)
               /\ from \in Nat /\ from + d.grain <= Blocks
               /\ d.pos + d.grain \in Positions
  <1> USE QueueAssumption DEF IInv
  <1> DEFINE d == dl[u]
             from == Begin(d.segment) + d.pos
  <1>1. d \in Download /\ d # NoDownload /\ d.pos < Length(d.segment)
    BY DEF Receive, Has, TypeOK
  <1>2. /\ End(d.segment) <= Blocks
        /\ d.grain = Blocks => d.segment \in {NoSegment, <<0, Blocks>>} /\ d.pos \in {0, Blocks}
    BY <1>1 DEF DownloadsSound, InBounds
  <1>3. d.pos + d.grain <= Length(d.segment)
    <2>1. CASE d.grain = 1
      BY <1>1, <2>1 DEF Download, Positions, Length
    <2>2. CASE d.grain = Blocks
      BY <1>1, <1>2, <2>2 DEF Download, Positions, Length, NoSegment
    <2> QED
      BY <1>1, <2>1, <2>2 DEF Download
  <1> QED
    BY <1>1, <1>2, <1>3 DEF Download, Positions, Length, Begin, End

LEMMA ReceiveIInv ==
    ASSUME IInv, NEW u \in Users, Receive(u)
    PROVE  IInv'
  <1> USE QueueAssumption, NullAssumption DEF IInv
  <1> DEFINE d == dl[u]
             from == Begin(d.segment) + d.pos
  <1>1. /\ d \in Download /\ d.type = "file" /\ d.state = "running" /\ d # NoDownload
        /\ d.pos < Length(d.segment)
        /\ temp' = [temp EXCEPT ![d.root] = @ \cup BlocksOf(<<from, from + d.grain>>)]
        /\ dl' = [dl EXCEPT ![u].pos = @ + d.grain]
        /\ UNCHANGED <<fileQueue, userQueue, running, trees, failed>>
    BY DEF Receive, Has, TypeOK
  <1>2. Queued' = Queued
    BY <1>1 DEF Queued
  <1>3. /\ d.root \in Roots /\ temp[d.root] # Gone
        /\ End(d.segment) <= Blocks
        /\ d.grain = Blocks => d.segment \in {NoSegment, <<0, Blocks>>} /\ d.pos \in {0, Blocks}
    BY <1>1 DEF DownloadsSound, InBounds, Has
  <1>5. d.pos + d.grain <= Length(d.segment)
    BY ReceiveFits
  <1>6. from \in Nat /\ from + d.grain <= Blocks /\ d.pos + d.grain \in Positions
    BY ReceiveFits
  <1>7. BlocksOf(<<from, from + d.grain>>) \subseteq Whole
    BY <1>1, <1>6 DEF BlocksOf, Begin, End, Whole, Download
  <1>8. /\ temp' \in [Roots -> (SUBSET Whole) \cup {Gone}]
        /\ \A r \in Roots : temp[r] # Gone => temp'[r] # Gone
    <2>1. temp[d.root] \cup BlocksOf(<<from, from + d.grain>>) \in SUBSET Whole
      BY <1>3, <1>7 DEF TypeOK
    <2>2. Gone \notin SUBSET Whole
      BY DEF Gone, Whole
    <2> HIDE DEF from, d
    <2> QED
      BY <1>1, <1>3, <2>1, <2>2 DEF TypeOK
  <1>9. /\ dl'[u] = [d EXCEPT !.pos = @ + d.grain]
        /\ dl'[u] \in Download
        /\ dl' \in [Users -> Download \cup {NoDownload}]
        /\ \A v \in Users \ {u} : dl'[v] = dl[v]
    BY <1>1, <1>6 DEF TypeOK, Download
  <1> HIDE DEF from
  <1>10. TypeOK'
    BY <1>1, <1>2, <1>8, <1>9 DEF TypeOK
  <1>11. RecordsAgree' /\ OneItemPerFile'
    BY <1>1, <1>2, <1>9 DEF RecordsAgree, OneItemPerFile, IsFile, TypeOK, Download
  <1>12. DownloadsSound'
    <2>1. \A v \in Users : running'[v] \in Queued' => dl'[v].path = fileQueue'[running'[v]].target
      BY <1>1, <1>2, <1>9 DEF DownloadsSound, InBounds, Download
    <2>2. ASSUME NEW v \in Users, dl'[v] # NoDownload
          PROVE  InBounds(v)'
      <3>1. CASE v = u
        <4>1. /\ dl'[u].segment = d.segment /\ dl'[u].pos = d.pos + d.grain
              /\ dl'[u].grain = d.grain /\ dl'[u].root = d.root
          BY <1>1, <1>9 DEF Download
        <4>2. d.grain = Blocks => d.pos + d.grain = Blocks
          BY <1>1, <1>3 DEF Length, NoSegment, Download, Positions
        <4>3. Length(d.segment) >= 0
          BY <1>1 DEF DownloadsSound, InBounds, Has
        <4> QED
          BY <1>3, <1>5, <1>8, <3>1, <4>1, <4>2, <4>3 DEF InBounds
      <3>2. CASE v # u
        BY <1>8, <1>9, <2>2, <3>2 DEF DownloadsSound, InBounds, Has
      <3> QED
        BY <3>1, <3>2
    <2> QED
      BY <2>1, <2>2 DEF DownloadsSound, InBounds
  <1> QED
    BY <1>10, <1>11, <1>12

(* All of a Download but the mark that another one runs over it. *)
SameDownload(x, y) ==
    /\ x.type = y.type /\ x.path = y.path /\ x.root = y.root /\ x.segment = y.segment
    /\ x.grain = y.grain /\ x.pos = y.pos /\ x.state = y.state /\ x.overlap = y.overlap
    /\ x.of = y.of

LEMMA MarkedDownload ==
    ASSUME NEW x \in Download, NEW m \in BOOLEAN
    PROVE  /\ [x EXCEPT !.overlapped = m] \in Download
           /\ SameDownload([x EXCEPT !.overlapped = m], x)
  BY DEF Download, SameDownload

LEMMA InBoundsKept ==
    ASSUME NEW v \in Users, dl[v] # NoDownload, InBounds(v), SameDownload(dl'[v], dl[v]),
           Has(v, "file", {"running"}) => temp'[dl[v].root] # Gone
    PROVE  InBounds(v)'
  BY DEF InBounds, SameDownload, Has

(* Dropping the temporary file of a root spares those that others have open. *)
LEMMA DropTempKept ==
    ASSUME TypeOK, NEW r \in Roots \cup {ListRoot}, NEW w, temp' = DropTemp(r, w)
    PROVE  /\ temp' \in [Roots -> (SUBSET Whole) \cup {Gone}]
           /\ \A v \in Users \ {w} : Has(v, "file", {"running"}) /\ dl[v].root \in Roots =>
                temp'[dl[v].root] = temp[dl[v].root]
  <1>1. CASE UNCHANGED temp
    BY <1>1 DEF TypeOK
  <1>2. CASE /\ r \in Roots /\ ~OpenElsewhere(r, w) /\ temp' = [temp EXCEPT ![r] = Gone]
    BY <1>2 DEF TypeOK, OpenElsewhere
  <1> QED
    BY <1>1, <1>2 DEF DropTemp

LEMMA TempVanishesIInv ==
    ASSUME IInv, NEW r \in Roots, TempVanishes(r)
    PROVE  IInv'
  <1> USE QueueAssumption, NullAssumption DEF IInv
  <1>1. /\ temp' = DropTemp(r, NoItem)
        /\ UNCHANGED <<fileQueue, userQueue, running, dl, trees, failed>>
    BY DEF TempVanishes, DropTemp
  <1>2. Queued' = Queued
    BY <1>1 DEF Queued
  <1>3. TypeOK'
    BY <1>1, <1>2, DropTempKept DEF TypeOK
  <1>4. RecordsAgree' /\ OneItemPerFile'
    BY <1>1, <1>2 DEF RecordsAgree, OneItemPerFile, IsFile
  <1>5. \A v \in Users : dl[v] # NoDownload /\ Has(v, "file", {"running"}) => temp'[dl[v].root] # Gone
    BY <1>1, DropTempKept DEF DownloadsSound, InBounds, Has
  <1>6. DownloadsSound'
    BY <1>1, <1>2, <1>5, InBoundsKept DEF DownloadsSound, SameDownload
  <1> QED
    BY <1>3, <1>4, <1>6

(* The two steps after which nothing more is said of the program. *)
LEMMA LastStepIInv ==
    ASSUME IInv, NEW u \in Users, FollowDangling(u) \/ GetSecond(u)
    PROVE  IInv'
  <1> USE DEF IInv
  <1>0. /\ UNCHANGED <<fileQueue, userQueue, running, dl, trees, temp>>
        /\ failed' \subseteq failed \cup {"getNext", "addDownload", "second"}
    BY DEF FollowDangling, GetSecond, AlreadyRunning
  <1>1. Queued' = Queued
    BY <1>0 DEF Queued
  <1>2. TypeOK'
    BY <1>0, <1>1 DEF TypeOK
  <1>3. RecordsAgree' /\ OneItemPerFile' /\ DownloadsSound'
    BY <1>0, <1>1 DEF RecordsAgree, OneItemPerFile, DownloadsSound, InBounds, IsFile, Has
  <1> QED
    BY <1>2, <1>3

(***************************************************************************)
(* The common part of every putDownload: u's Download goes, those of       *)
(* others stay as they are but for their marks, and so do their files.     *)
(***************************************************************************)
Ends(u) ==
    /\ dl' \in [Users -> Download \cup {NoDownload}]
    /\ dl'[u] = NoDownload
    /\ \A v \in Users \ {u} : IF dl[v] = NoDownload THEN dl'[v] = NoDownload
                              ELSE dl'[v] # NoDownload /\ SameDownload(dl'[v], dl[v])
    /\ temp' \in [Roots -> (SUBSET Whole) \cup {Gone}]
    /\ \A v \in Users \ {u} : Has(v, "file", {"running"}) /\ dl[v].root \in Roots =>
                                temp'[dl[v].root] = temp[dl[v].root]
    /\ running' \in [Users -> Items \cup {NoItem}]
    /\ running'[u] \notin Queued'
    /\ \A v \in Users : running'[v] = running[v] \/ running'[v] = NoItem
    /\ Queued' \subseteq Queued
    /\ \A i \in Queued' : /\ fileQueue'[i].target = fileQueue[i].target
                          /\ fileQueue'[i].root = fileQueue[i].root
                          /\ fileQueue'[i].sources = fileQueue[i].sources
                          /\ fileQueue'[i].badSources = fileQueue[i].badSources

LEMMA EndsSound ==
    ASSUME IInv, NEW u \in Users, Ends(u)
    PROVE  DownloadsSound' /\ OneItemPerFile'
  <1> USE QueueAssumption DEF IInv
  <1>1. \A v \in Users : running'[v] \in Queued' => v # u /\ running'[v] = running[v]
    BY DEF Ends, TypeOK
  <1>2. \A v \in Users : running'[v] \in Queued' => dl'[v].path = fileQueue'[running'[v]].target
    <2> TAKE v \in Users
    <2> HAVE running'[v] \in Queued'
    <2>1. v # u /\ running'[v] = running[v] /\ running[v] \in Queued
      BY <1>1 DEF Ends
    <2>2. dl[v] # NoDownload /\ dl[v].path = fileQueue[running[v]].target
      BY <2>1 DEF RecordsAgree, DownloadsSound
    <2> QED
      BY <2>1, <2>2 DEF Ends, SameDownload
  <1>3. \A v \in Users : dl'[v] # NoDownload => InBounds(v)'
    <2> TAKE v \in Users
    <2> HAVE dl'[v] # NoDownload
    <2>1. v # u /\ dl[v] # NoDownload /\ SameDownload(dl'[v], dl[v])
      BY DEF Ends
    <2>2. InBounds(v)
      BY <2>1 DEF DownloadsSound
    <2>3. Has(v, "file", {"running"}) => temp'[dl[v].root] # Gone
      BY <2>1, <2>2 DEF Ends, InBounds, Has
    <2> QED
      BY <2>1, <2>2, <2>3, InBoundsKept
  <1>4. DownloadsSound'
    BY <1>2, <1>3 DEF DownloadsSound
  <1>5. OneItemPerFile'
    BY DEF Ends, OneItemPerFile, IsFile
  <1> QED
    BY <1>4, <1>5

LEMMA EndsConsistent ==
    ASSUME IInv, NEW u \in Users, Ends(u), fileQueue' \in [Queued' -> QueueItem],
           \A i \in Queued', v \in Users : v \in fileQueue'[i].downloads <=> running'[v] = i
    PROVE  RecordsAgree'
  <1> USE QueueAssumption DEF IInv
  <1>1. \A i \in Queued', v \in Users : running'[v] = i => running[v] = i /\ v # u
    BY DEF Ends, TypeOK
  <1>2. \A i \in Queued' : fileQueue'[i].downloads \subseteq fileQueue'[i].sources
    <2>1. \A i \in Queued' : fileQueue'[i].downloads \subseteq Users
      BY DEF QueueItem
    <2> QED
      BY <1>1, <2>1 DEF RecordsAgree, Ends
  <1>3. \A v \in Users : running'[v] \in Queued' => dl'[v] # NoDownload /\ dl'[v].of = running'[v]
    BY <1>1 DEF RecordsAgree, Ends, SameDownload
  <1> QED
    BY <1>2, <1>3 DEF RecordsAgree

LEMMA PutOrphanIInv ==
    ASSUME IInv, NEW u \in Users, PutOrphan(u)
    PROVE  IInv'
  <1> USE QueueAssumption DEF IInv
  <1>1. /\ dl[u] \in Download /\ At(dl[u].path) = {}
        /\ dl' = [dl EXCEPT ![u] = NoDownload]
        /\ temp' = temp \/ temp' = DropTemp(dl[u].root, u)
        /\ UNCHANGED <<fileQueue, userQueue, running, trees, failed>>
    BY DEF PutOrphan, TypeOK
  <1>2. Queued' = Queued
    BY <1>1 DEF Queued
  <1>3. running[u] \notin Queued
    BY <1>1 DEF DownloadsSound, At
  <1>4. /\ temp' \in [Roots -> (SUBSET Whole) \cup {Gone}]
        /\ \A v \in Users \ {u} : Has(v, "file", {"running"}) /\ dl[v].root \in Roots =>
                                    temp'[dl[v].root] = temp[dl[v].root]
    <2>1. dl[u].root \in Roots \cup {ListRoot}
      BY <1>1 DEF Download
    <2> QED
      BY <1>1, <2>1, DropTempKept DEF TypeOK
  <1>5. Ends(u)
    BY <1>1, <1>2, <1>3, <1>4 DEF Ends, TypeOK, SameDownload
  <1>6. TypeOK'
    BY <1>1, <1>2, <1>5 DEF TypeOK, Ends
  <1>7. RecordsAgree'
    BY <1>1, <1>2, <1>5, EndsConsistent DEF RecordsAgree, TypeOK
  <1> QED
    BY <1>5, <1>6, <1>7, EndsSound

(* An item whose blocks and downloads change is otherwise the same. *)
LEMMA ItemKept ==
    ASSUME NEW q \in QueueItem, NEW b, NEW w
    PROVE  LET n == [q EXCEPT !.done = b, !.downloads = w]
           IN  /\ n.target = q.target /\ n.root = q.root /\ n.sources = q.sources
               /\ n.badSources = q.badSources /\ n.done = b /\ n.downloads = w
  BY DEF QueueItem

(* When only downloads of i end, the other items' downloads still match what is running. *)
LEMMA OthersRun ==
    ASSUME IInv, NEW i \in Queued, Queued' \subseteq Queued,
           \A j \in Queued' \ {i} : fileQueue'[j] = fileQueue[j],
           \A v \in Users : \/ running'[v] = running[v]
                            \/ running'[v] = NoItem /\ running[v] \notin Queued \ {i},
           i \in Queued' => \A v \in Users : v \in fileQueue'[i].downloads <=> running'[v] = i
    PROVE  \A j \in Queued', v \in Users : v \in fileQueue'[j].downloads <=> running'[v] = j
  <1> USE QueueAssumption DEF IInv
  <1> TAKE j \in Queued', v \in Users
  <1>1. CASE j = i
    BY <1>1
  <1>2. CASE j # i
    <2>1. j \in Queued /\ j # NoItem /\ (v \in fileQueue[j].downloads <=> running[v] = j)
      BY DEF RecordsAgree, TypeOK
    <2>2. fileQueue'[j] = fileQueue[j]
      BY <1>2
    <2> QED
      BY <1>2, <2>1, <2>2
  <1> QED
    BY <1>1, <1>2

LEMMA FinishTreeIInv ==
    ASSUME IInv, NEW u \in Users, FinishTree(u)
    PROVE  IInv'
  <1> USE QueueAssumption DEF IInv
  <1>1. PICK i \in At(dl[u].path) :
            /\ dl[u] \in Download /\ dl[u].type = "tree" /\ dl[u] # NoDownload
            /\ trees' = trees \cup {dl[u].root}
            /\ fileQueue' = [fileQueue EXCEPT ![i].downloads = @ \ {u}]
            /\ running' = [running EXCEPT ![u] = NoItem]
            /\ dl' = [dl EXCEPT ![u] = NoDownload]
            /\ UNCHANGED <<userQueue, temp, failed>>
    BY DEF FinishTree, TypeOK, Has, StopRunning
  <1>2. i \in Queued /\ Queued' = Queued
    BY <1>1 DEF Queued, At
  <1>3. /\ fileQueue' \in [Queued -> QueueItem]
        /\ fileQueue'[i] = [fileQueue[i] EXCEPT !.downloads = @ \ {u}]
        /\ \A j \in Queued \ {i} : fileQueue'[j] = fileQueue[j]
    <2>1. fileQueue \in [Queued -> QueueItem] /\ fileQueue[i] \in QueueItem
      BY <1>2 DEF TypeOK
    <2>2. [fileQueue[i] EXCEPT !.downloads = @ \ {u}] \in QueueItem
      BY <2>1 DEF QueueItem
    <2> QED
      BY <1>1, <1>2, <2>1, <2>2
  <1>4. Ends(u)
    BY <1>1, <1>2, <1>3 DEF Ends, TypeOK, SameDownload, QueueItem
  <1>5. TypeOK'
    BY <1>1, <1>2, <1>3, <1>4 DEF TypeOK, Ends, DownloadsSound, InBounds
  <1>6. \A j \in Queued, v \in Users : v \in fileQueue'[j].downloads <=> running'[v] = j
    <2>1. fileQueue'[i].downloads = fileQueue[i].downloads \ {u}
      BY <1>2, <1>3 DEF TypeOK, QueueItem
    <2>2. running[u] \in Queued => running[u] = i
      BY <1>1, CreditedItem
    <2>3. \A v \in Users : running'[v] = IF v = u THEN NoItem ELSE running[v]
      BY <1>1 DEF TypeOK
    <2>4. \A v \in Users : v \in fileQueue'[i].downloads <=> running'[v] = i
      BY <1>2, <2>1, <2>3 DEF RecordsAgree, TypeOK
    <2> QED
      BY <1>2, <1>3, <2>2, <2>3, <2>4, OthersRun
  <1>7. RecordsAgree'
    BY <1>2, <1>3, <1>4, <1>6, EndsConsistent
  <1> QED
    BY <1>4, <1>5, <1>7, EndsSound

(* What LeaveUserQueue leaves running: nothing of the item it is called for. *)
LEMMA LeaveUserQueueRunning ==
    ASSUME IInv, NEW i \in Queued, LeaveUserQueue(i)
    PROVE  /\ running' \in [Users -> Items \cup {NoItem}]
           /\ \A v \in Users : running'[v] = IF running[v] = i THEN NoItem ELSE running[v]
  <1>1. \A v \in Users : running[v] = i => v \in fileQueue[i].sources
    BY DEF IInv, RecordsAgree
  <1> QED
    BY <1>1 DEF IInv, LeaveUserQueue, TypeOK

LEMMA FinishListIInv ==
    ASSUME IInv, NEW u \in Users, FinishList(u)
    PROVE  IInv'
  <1> USE QueueAssumption DEF IInv
  <1>1. PICK i \in At(dl[u].path) :
            /\ LeaveUserQueue(i)
            /\ fileQueue' = [j \in Queued \ {i} |-> fileQueue[j]]
            /\ dl' = [dl EXCEPT ![u] = NoDownload]
            /\ UNCHANGED <<trees, temp>>
    BY DEF FinishList
  <1>2. i \in Queued /\ Queued' = Queued \ {i}
    BY <1>1 DEF Queued, At
  <1>3. /\ running' \in [Users -> Items \cup {NoItem}]
        /\ \A v \in Users : running'[v] = IF running[v] = i THEN NoItem ELSE running[v]
    BY <1>1, <1>2, LeaveUserQueueRunning
  <1>4. running[u] \in Queued => running[u] = i
    BY <1>1, CreditedItem
  <1>5. Ends(u)
    BY <1>1, <1>2, <1>3, <1>4 DEF Ends, TypeOK, SameDownload
  <1>6. TypeOK'
    BY <1>1, <1>2, <1>5 DEF TypeOK, Ends, LeaveUserQueue, Missing
  <1>7. RecordsAgree'
    BY <1>1, <1>2, <1>3, <1>5, <1>6, EndsConsistent DEF RecordsAgree, TypeOK
  <1> QED
    BY <1>5, <1>6, <1>7, EndsSound

LEMMA FinishSegmentIInv ==
    ASSUME IInv, NEW u \in Users, FinishSegment(u)
    PROVE  IInv'
  <1> USE QueueAssumption DEF IInv
  <1> DEFINE done(i) == AddSegment(fileQueue[i].done, dl[u].segment)
             mine(i) == {v \in fileQueue[i].downloads :
                            running[v] = i /\ v \in fileQueue[i].sources}
  <1>1. /\ dl[u] \in Download /\ dl[u] # NoDownload
        /\ dl' = [dl EXCEPT ![u] = NoDownload]
        /\ UNCHANGED trees
    BY DEF FinishSegment, Has, TypeOK
  <1>2. PICK i \in At(dl[u].path) :
            \/ /\ fileQueue' = [fileQueue EXCEPT ![i].done = done(i), ![i].downloads = @ \ {u}]
               /\ StopRunning(u)
               /\ UNCHANGED <<userQueue, temp, failed>>
            \/ /\ LeaveUserQueue(i)
               /\ temp' = DropTemp(dl[u].root, u)
               /\ fileQueue' = IF KeepFinishedFiles
                               THEN [fileQueue EXCEPT ![i].done = done(i), ![i].downloads = @ \ mine(i)]
                               ELSE [j \in Queued \ {i} |-> fileQueue[j]]
    BY DEF FinishSegment
  <1>3. i \in Queued /\ fileQueue[i] \in QueueItem
    BY DEF At, TypeOK
  <1>4. running[u] \in Queued => running[u] = i
    BY <1>1, CreditedItem
  <1>5. done(i) \in SUBSET (Positions \X Positions)
    <2>1. fileQueue[i].done \in SUBSET (Positions \X Positions) /\ dl[u].segment \in Positions \X Positions
      BY <1>1, <1>3 DEF QueueItem, Download
    <2> QED
      BY <2>1, AddSegmentType
  <1>6. \A v \in Users : v \in fileQueue[i].downloads <=> v \in mine(i)
    BY <1>3 DEF RecordsAgree
  <1> HIDE DEF done, mine
  <1>7. dl[u].root \in Roots \cup {ListRoot}
    BY <1>1 DEF Download
  <1>8. CASE /\ fileQueue' = [fileQueue EXCEPT ![i].done = done(i), ![i].downloads = @ \ {u}]
             /\ StopRunning(u)
             /\ UNCHANGED <<userQueue, temp, failed>>
    <2>1. Queued' = Queued
      BY <1>8 DEF Queued, TypeOK
    <2>2. /\ fileQueue' \in [Queued -> QueueItem]
          /\ fileQueue'[i] = [fileQueue[i] EXCEPT !.done = done(i), !.downloads = @ \ {u}]
          /\ fileQueue'[i].downloads = fileQueue[i].downloads \ {u}
          /\ \A j \in Queued \ {i} : fileQueue'[j] = fileQueue[j]
      BY <1>3, <1>5, <1>8 DEF TypeOK, QueueItem
    <2>3. running' \in [Users -> Items \cup {NoItem}]
          /\ \A v \in Users : running'[v] = IF v = u THEN NoItem ELSE running[v]
      BY <1>8 DEF TypeOK, StopRunning
    <2>4. /\ fileQueue'[i].target = fileQueue[i].target /\ fileQueue'[i].root = fileQueue[i].root
          /\ fileQueue'[i].sources = fileQueue[i].sources
          /\ fileQueue'[i].badSources = fileQueue[i].badSources
      <3>1. fileQueue'[i] = [fileQueue[i] EXCEPT !.done = done(i), !.downloads = fileQueue[i].downloads \ {u}]
        BY <2>2
      <3> QED
        BY <1>3, <3>1, ItemKept
    <2>5. Ends(u)
      BY <1>1, <1>3, <1>8, <2>1, <2>2, <2>3, <2>4 DEF Ends, TypeOK, SameDownload
    <2>6. TypeOK'
      BY <1>1, <1>8, <2>1, <2>2, <2>5 DEF TypeOK, Ends
    <2>7. \A v \in Users : v \in fileQueue'[i].downloads <=> running'[v] = i
      BY <1>3, <2>2, <2>3 DEF RecordsAgree, TypeOK
    <2>8. \A j \in Queued, v \in Users : v \in fileQueue'[j].downloads <=> running'[v] = j
      BY <1>3, <1>4, <2>1, <2>2, <2>3, <2>7, OthersRun
    <2> QED
      BY <2>1, <2>2, <2>5, <2>6, <2>8, EndsConsistent, EndsSound
  <1>9. CASE /\ LeaveUserQueue(i)
             /\ temp' = DropTemp(dl[u].root, u)
             /\ fileQueue' = IF KeepFinishedFiles
                             THEN [fileQueue EXCEPT ![i].done = done(i), ![i].downloads = @ \ mine(i)]
                             ELSE [j \in Queued \ {i} |-> fileQueue[j]]
    <2>1. /\ Queued' = IF KeepFinishedFiles THEN Queued ELSE Queued \ {i}
          /\ fileQueue' \in [Queued' -> QueueItem]
          /\ \A j \in Queued' \ {i} : fileQueue'[j] = fileQueue[j]
          /\ i \in Queued' =>
                /\ fileQueue'[i] = [fileQueue[i] EXCEPT !.done = done(i), !.downloads = @ \ mine(i)]
                /\ fileQueue'[i].downloads = fileQueue[i].downloads \ mine(i)
      <3>1. CASE KeepFinishedFiles
        <4>1. Queued' = Queued
          BY <1>9, <3>1 DEF Queued, TypeOK
        <4> QED
          BY <1>3, <1>5, <1>9, <3>1, <4>1 DEF TypeOK, QueueItem
      <3>2. CASE ~KeepFinishedFiles
        <4>1. Queued' = Queued \ {i}
          BY <1>9, <3>2 DEF Queued
        <4> QED
          BY <1>9, <3>2, <4>1 DEF TypeOK
      <3> QED
        BY <3>1, <3>2
    <2>2. /\ running' \in [Users -> Items \cup {NoItem}]
          /\ \A v \in Users : running'[v] = IF running[v] = i THEN NoItem ELSE running[v]
      BY <1>3, <1>9, LeaveUserQueueRunning
    <2>3. /\ temp' \in [Roots -> (SUBSET Whole) \cup {Gone}]
          /\ \A v \in Users \ {u} : Has(v, "file", {"running"}) /\ dl[v].root \in Roots =>
                                      temp'[dl[v].root] = temp[dl[v].root]
      BY <1>7, <1>9, DropTempKept
    <2>4. i \in Queued' =>
            /\ fileQueue'[i].target = fileQueue[i].target /\ fileQueue'[i].root = fileQueue[i].root
            /\ fileQueue'[i].sources = fileQueue[i].sources
            /\ fileQueue'[i].badSources = fileQueue[i].badSources
      <3> HAVE i \in Queued'
      <3>1. PICK b, w : fileQueue'[i] = [fileQueue[i] EXCEPT !.done = b, !.downloads = w]
        BY <2>1
      <3> QED
        BY <1>3, <3>1, ItemKept
    <2>5. Ends(u)
      <3>1. \A v \in Users : running'[v] = running[v] \/ running'[v] = NoItem
        BY <2>2
      <3>2. Queued' \subseteq Queued
        BY <2>1
      <3>3. running'[u] \notin Queued'
        BY <1>3, <1>4, <2>2, <3>2 DEF TypeOK
      <3>4. \A j \in Queued' : /\ fileQueue'[j].target = fileQueue[j].target
                               /\ fileQueue'[j].root = fileQueue[j].root
                               /\ fileQueue'[j].sources = fileQueue[j].sources
                               /\ fileQueue'[j].badSources = fileQueue[j].badSources
        BY <2>1, <2>4
      <3> QED
        BY <1>1, <2>2, <2>3, <3>1, <3>2, <3>3, <3>4 DEF Ends, TypeOK, SameDownload
    <2>6. TypeOK'
      BY <1>1, <1>9, <2>1, <2>5 DEF TypeOK, Ends, LeaveUserQueue, Missing
    <2>7. \A j \in Queued', v \in Users : v \in fileQueue'[j].downloads <=> running'[v] = j
      <3>1. i \in Queued' => \A v \in Users : v \in fileQueue'[i].downloads <=> running'[v] = i
        BY <1>3, <1>6, <2>1, <2>2 DEF TypeOK
      <3> QED
        BY <1>3, <2>1, <2>2, <3>1, OthersRun
    <2> QED
      BY <2>1, <2>5, <2>6, <2>7, EndsConsistent, EndsSound
  <1> QED
    BY <1>2, <1>8, <1>9

(***************************************************************************)
(* The end of a download that was not finished, at a position within the   *)
(* file: a download it ran over loses its mark, and nothing else changes   *)
(* for the other users.                                                    *)
(***************************************************************************)
LEMMA PutUnfinishedIInv ==
    ASSUME IInv, NEW u \in Users, dl[u] # NoDownload, NEW pos \in Positions,
           Begin(dl[u].segment) + pos \in Positions, PutUnfinished(u, pos)
    PROVE  IInv'
  <1> USE QueueAssumption, NullAssumption DEF IInv
  <1> DEFINE d == dl[u]
             got == <<Begin(d.segment), Begin(d.segment) + pos>>
             partial == d.type = "file" /\ pos > 0
             done(i) == IF partial THEN AddSegment(fileQueue[i].done, got) ELSE fileQueue[i].done
             others(i) == {v \in fileQueue[i].downloads \ {u} : Contains(dl[v].segment, d.segment)}
  <1>1. PICK i \in At(d.path) :
            /\ fileQueue' = [fileQueue EXCEPT ![i].done = IF partial THEN AddSegment(@, got) ELSE @,
                                              ![i].downloads = @ \ {u}]
            /\ failed' = failed \/ failed' = failed \cup {"putDownload"}
            /\ StopRunning(u)
            /\ \/ \E v \in others(i) : dl' = Marked(NoDownload, u, v, FALSE)
               \/ dl' = [dl EXCEPT ![u] = NoDownload]
            /\ UNCHANGED <<userQueue, trees, temp>>
    BY DEF PutUnfinished
  <1>2. d \in Download /\ i \in Queued /\ fileQueue[i] \in QueueItem
    BY DEF TypeOK, At
  <1>3. running[u] \in Queued => running[u] = i
    BY <1>2, CreditedItem
  <1>4. done(i) \in SUBSET (Positions \X Positions)
    <2>1. fileQueue[i].done \in SUBSET (Positions \X Positions) /\ got \in Positions \X Positions
      BY <1>2 DEF QueueItem, Download, Begin
    <2> QED
      BY <2>1, AddSegmentType
  <1>5. fileQueue' = [fileQueue EXCEPT ![i] = [fileQueue[i] EXCEPT !.done = done(i), !.downloads = @ \ {u}]]
    BY <1>1, <1>2 DEF TypeOK
  <1>6. \A v \in others(i) : v \in Users \ {u} /\ dl[v] # NoDownload /\ dl[v] \in Download
    BY <1>2 DEF RecordsAgree, TypeOK, QueueItem
  <1> HIDE DEF done, others, partial, got
  <1>7. /\ dl' \in [Users -> Download \cup {NoDownload}]
        /\ dl'[u] = NoDownload
        /\ \A v \in Users \ {u} : IF dl[v] = NoDownload THEN dl'[v] = NoDownload
                                  ELSE dl'[v] # NoDownload /\ SameDownload(dl'[v], dl[v])
    <2>1. CASE dl' = [dl EXCEPT ![u] = NoDownload]
      BY <2>1 DEF TypeOK, SameDownload
    <2>2. ASSUME NEW v \in others(i), dl' = Marked(NoDownload, u, v, FALSE)
          PROVE  <1>7!:
      <3>1. dl' = [dl EXCEPT ![u] = NoDownload, ![v] = [dl[v] EXCEPT !.overlapped = FALSE]]
        BY <1>6, <2>2 DEF Marked, TypeOK
      <3>2. /\ [dl[v] EXCEPT !.overlapped = FALSE] \in Download
            /\ SameDownload([dl[v] EXCEPT !.overlapped = FALSE], dl[v])
        BY <1>6, MarkedDownload
      <3> QED
        BY <1>6, <3>1, <3>2 DEF TypeOK, SameDownload
    <2> QED
      BY <1>1, <2>1, <2>2
  <1>8. Queued' = Queued
    BY <1>5 DEF Queued, TypeOK
  <1>9. /\ fileQueue' \in [Queued -> QueueItem]
        /\ fileQueue'[i] = [fileQueue[i] EXCEPT !.done = done(i), !.downloads = @ \ {u}]
        /\ \A j \in Queued \ {i} : fileQueue'[j] = fileQueue[j]
    BY <1>2, <1>4, <1>5 DEF TypeOK, QueueItem
  <1>10. /\ fileQueue'[i].target = fileQueue[i].target /\ fileQueue'[i].root = fileQueue[i].root
         /\ fileQueue'[i].sources = fileQueue[i].sources
         /\ fileQueue'[i].badSources = fileQueue[i].badSources
         /\ fileQueue'[i].downloads = fileQueue[i].downloads \ {u}
    <2>1. fileQueue'[i] = [fileQueue[i] EXCEPT !.done = done(i), !.downloads = fileQueue[i].downloads \ {u}]
      BY <1>9
    <2> QED
      BY <1>2, <2>1, ItemKept
  <1>11. running' \in [Users -> Items \cup {NoItem}]
         /\ \A v \in Users : running'[v] = IF v = u THEN NoItem ELSE running[v]
    BY <1>1 DEF TypeOK, StopRunning
  <1>12. Ends(u)
    <2>1. \A j \in Queued : /\ fileQueue'[j].target = fileQueue[j].target
                            /\ fileQueue'[j].root = fileQueue[j].root
                            /\ fileQueue'[j].sources = fileQueue[j].sources
                            /\ fileQueue'[j].badSources = fileQueue[j].badSources
      BY <1>9, <1>10
    <2>2. temp' = temp
      BY <1>1
    <2>3. running'[u] \notin Queued
      BY <1>11 DEF TypeOK
    <2> QED
      BY <1>7, <1>8, <1>11, <2>1, <2>2, <2>3 DEF Ends, TypeOK
  <1>13. TypeOK'
    BY <1>1, <1>8, <1>9, <1>12 DEF TypeOK, Ends
  <1>14. \A j \in Queued, v \in Users : v \in fileQueue'[j].downloads <=> running'[v] = j
    <2>1. \A v \in Users : v \in fileQueue'[i].downloads <=> running'[v] = i
      BY <1>2, <1>10, <1>11 DEF RecordsAgree, TypeOK
    <2> QED
      BY <1>2, <1>3, <1>8, <1>9, <1>11, <2>1, OthersRun
  <1>15. RecordsAgree'
    BY <1>8, <1>9, <1>12, <1>14, EndsConsistent
  <1> QED
    BY <1>12, <1>13, <1>15, EndsSound

LEMMA FailDownloadIInv ==
    ASSUME IInv, NEW u \in Users, FailDownload(u)
    PROVE  IInv'
  <1> USE QueueAssumption DEF IInv
  <1>1. dl[u] # NoDownload /\ dl[u] \in Download /\ PutUnfinished(u, dl[u].pos)
    BY DEF FailDownload, TypeOK
  <1>2. InBounds(u)
    BY <1>1 DEF DownloadsSound
  <1>3. dl[u].pos \in Positions /\ Begin(dl[u].segment) + dl[u].pos \in Positions
    BY <1>1, <1>2 DEF InBounds, Download, Positions, Length, Begin, End
  <1> QED
    BY <1>1, <1>3, PutUnfinishedIInv

(* The position that resetPos leaves is at most the length of the file. *)
LEMMA BadBlockIInv ==
    ASSUME IInv, NEW u \in Users, BadBlock(u)
    PROVE  IInv'
  <1> USE QueueAssumption DEF IInv
  <1> DEFINE b == Begin(dl[u].segment)
             pos == b - (b % dl[u].grain)
  <1>1. dl[u] # NoDownload /\ dl[u] \in Download /\ PutUnfinished(u, pos) /\ Has(u, "file", {"running"})
    BY DEF BadBlock, TypeOK, Has
  <1>2. InBounds(u)
    BY <1>1 DEF DownloadsSound
  <1>3. b \in 0 .. Blocks
    BY <1>1, <1>2 DEF InBounds, Download, Positions, Length, Begin, End
  <1>4. dl[u].grain \in Nat \ {0}
    BY <1>1 DEF Download
  <1> HIDE DEF b
  <1>5. pos \in 0 .. Blocks
    <2>1. b % dl[u].grain \in 0 .. b
      BY <1>3, <1>4
    <2> QED
      BY <1>3, <2>1
  <1> HIDE DEF pos
  <1>6. pos \in Positions /\ b + pos \in Positions
    BY <1>3, <1>5 DEF Positions
  <1> QED
    BY <1>1, <1>6, PutUnfinishedIInv DEF b

(* A new Download is well formed, and its segment lies in the file. *)
LEMMA StartsType ==
    ASSUME IInv, NEW i \in Queued, NEW done \in SUBSET (Positions \X Positions),
           NEW d \in Starts(i, done)
    PROVE  /\ d \in Download
           /\ d.of = i /\ d.path = fileQueue[i].target /\ d.root = fileQueue[i].root
           /\ d.state = "snd" /\ d.pos = 0
           /\ End(d.segment) <= Blocks
           /\ d.grain = Blocks => d.segment \in {NoSegment, <<0, Blocks>>}
           /\ d.type # "list" => d.root \in Roots
  <1> USE QueueAssumption DEF IInv
  <1> DEFINE grain == GrainOf(i)
             new(type, s, over) ==
                [type |-> type, path |-> fileQueue[i].target, root |-> fileQueue[i].root,
                 segment |-> s, grain |-> grain, pos |-> 0, state |-> "snd",
                 overlap |-> over, overlapped |-> over, of |-> i]
             Good(s) == /\ s \in Positions \X Positions
                        /\ End(s) <= Blocks
                        /\ grain = Blocks => s \in {NoSegment, <<0, Blocks>>}
  <1>1. grain \in {1, Blocks} /\ i \in Items /\ fileQueue[i] \in QueueItem
    BY DEF GrainOf, TypeOK
  <1>2. \E type \in {"file", "tree", "list"}, over \in BOOLEAN : \E s :
            /\ d = new(type, s, over)
            /\ type = "list" <=> ~IsFile(i)
            /\ \/ s = NoSegment
               \/ s \in FreeChunks(i, done, grain)
               \/ grain = 1 /\ s \in Overlapping(i, done, grain)
    <2>1. CASE ~IsFile(i)
      <3>1. d = new("list", NoSegment, FALSE)
        BY <2>1 DEF Starts
      <3> QED
        BY <2>1, <3>1
    <2>2. ASSUME IsFile(i), NEW s \in FreeChunks(i, done, grain), d = new("file", s, FALSE)
          PROVE  <1>2!:
      BY <2>2
    <2>3. ASSUME IsFile(i), NEW s \in Overlapping(i, done, grain), grain = 1, d = new("file", s, TRUE)
          PROVE  <1>2!:
      BY <2>3
    <2>4. ASSUME IsFile(i), d = new("tree", NoSegment, FALSE)
          PROVE  <1>2!:
      BY <2>4
    <2> QED
      BY <2>1, <2>2, <2>3, <2>4 DEF Starts
  <1>3. PICK type, over, s :
            /\ type \in {"file", "tree", "list"} /\ over \in BOOLEAN
            /\ d = new(type, s, over)
            /\ type = "list" <=> ~IsFile(i)
            /\ \/ s = NoSegment
               \/ s \in FreeChunks(i, done, grain)
               \/ grain = 1 /\ s \in Overlapping(i, done, grain)
    BY <1>2
  <1>4. Good(s)
    <2>1. CASE s = NoSegment
      BY <2>1 DEF NoSegment, Positions, End
    <2>2. CASE s \in FreeChunks(i, done, grain)
      BY <1>1, <2>2, FreeChunksType
    <2>3. CASE grain = 1 /\ s \in Overlapping(i, done, grain)
      <3>1. s \in Overlapping(i, done, 1)
        BY <2>3
      <3>2. s \in Positions \X Positions /\ End(s) <= Blocks /\ Begin(s) < End(s)
        BY <3>1, OverlappingType
      <3>3. Blocks = 1 => s = <<0, Blocks>>
        BY <3>2 DEF Positions, Begin, End
      <3> QED
        BY <2>3, <3>2, <3>3
    <2> QED
      BY <1>3, <2>1, <2>2, <2>3
  <1> HIDE DEF grain
  <1>5. fileQueue[i].root \in Roots \cup {ListRoot} /\ fileQueue[i].target \in Targets
    BY <1>1 DEF QueueItem
  <1>6. d \in Download
    BY <1>1, <1>4, <1>5, <1>3 DEF Download, Positions
  <1> QED
    BY <1>4, <1>5, <1>6, <1>3 DEF IsFile

(* Nothing is left of an earlier download of a user who has none. *)
LEMMA GetDownloadAsserts ==
    ASSUME IInv, NEW u \in Users, GetDownload(u)
    PROVE  running[u] = NoItem /\ UNCHANGED failed
  <1>1. /\ dl[u] = NoDownload /\ ~Dangling(u)
        /\ failed' = failed \cup AlreadyRunning(u)
    BY DEF GetDownload
  <1>2. running[u] \notin Queued
    BY <1>1 DEF IInv, RecordsAgree
  <1>3. running[u] = NoItem
    BY <1>1, <1>2 DEF Dangling
  <1> QED
    BY <1>1, <1>3 DEF AlreadyRunning

LEMMA GetDownloadIInv ==
    ASSUME IInv, NEW u \in Users, GetDownload(u)
    PROVE  IInv'
  <1> USE QueueAssumption, NullAssumption DEF IInv
  <1>1. PICK i, done, d :
            /\ i \in Items /\ done \in SUBSET (Positions \X Positions) /\ d \in Starts(i, done)
            /\ dl[u] = NoDownload /\ ~Dangling(u) /\ NextFor(u, i)
            /\ \/ dl' = [dl EXCEPT ![u] = d]
               \/ \E v \in fileQueue[i].downloads : dl' = Marked(d, u, v, TRUE)
            /\ fileQueue' = [fileQueue EXCEPT ![i].done = done, ![i].downloads = @ \cup {u}]
            /\ running' = [running EXCEPT ![u] = i]
            /\ UNCHANGED <<userQueue, trees, temp, failed>>
    <2>1. PICK i \in Items : 
             /\ NextFor(u, i)
             /\ LET done == IF IsFile(i) /\ HasBytes(i) /\ temp[fileQueue[i].root] = Gone
                            THEN {} ELSE fileQueue[i].done
                IN  /\ \E d \in Starts(i, done) :
                         \/ ~d.overlap /\ dl' = [dl EXCEPT ![u] = d]
                         \/ /\ d.overlap
                            /\ \E v \in fileQueue[i].downloads :
                                 Contains(dl[v].segment, d.segment) /\ dl' = Marked(d, u, v, TRUE)
                    /\ fileQueue' = [fileQueue EXCEPT ![i].done = done, ![i].downloads = @ \cup {u}]
             /\ running' = [running EXCEPT ![u] = i]
      BY DEF GetDownload
    <2>2. fileQueue[i].done \in SUBSET (Positions \X Positions)
      BY <2>1 DEF NextFor, TypeOK, QueueItem
    <2>3. dl[u] = NoDownload /\ ~Dangling(u) /\ UNCHANGED <<userQueue, trees, temp, failed>>
      BY GetDownloadAsserts DEF GetDownload
    <2> QED
      BY <2>1, <2>2, <2>3
  <1>2. i \in Queued /\ fileQueue[i] \in QueueItem
    BY <1>1 DEF NextFor, TypeOK
  <1>3. /\ d \in Download
        /\ d.of = i /\ d.path = fileQueue[i].target /\ d.root = fileQueue[i].root
        /\ d.state = "snd" /\ d.pos = 0
        /\ End(d.segment) <= Blocks
        /\ d.grain = Blocks => d.segment \in {NoSegment, <<0, Blocks>>}
        /\ d.type # "list" => d.root \in Roots
    BY <1>1, <1>2, StartsType
  <1>4. running[u] = NoItem /\ u \in fileQueue[i].sources
    <2>1. <<fileQueue[i].prio, u, i>> \in userQueue
      BY <1>1 DEF NextFor, Entry
    <2> QED
      BY <1>1, <1>2, <2>1, GetDownloadAsserts DEF Dangling
  <1>5. \A v \in fileQueue[i].downloads : v \in Users \ {u} /\ dl[v] \in Download /\ dl[v] # NoDownload
    BY <1>1, <1>2 DEF RecordsAgree, TypeOK, QueueItem
  <1>6. /\ dl' \in [Users -> Download \cup {NoDownload}]
        /\ dl'[u] = d
        /\ \A v \in Users \ {u} : IF dl[v] = NoDownload THEN dl'[v] = NoDownload
                                  ELSE dl'[v] # NoDownload /\ SameDownload(dl'[v], dl[v])
    <2>1. CASE dl' = [dl EXCEPT ![u] = d]
      BY <1>3, <2>1 DEF TypeOK, SameDownload
    <2>2. ASSUME NEW v \in fileQueue[i].downloads, dl' = Marked(d, u, v, TRUE)
          PROVE  <1>6!:
      <3>1. dl' = [dl EXCEPT ![u] = d, ![v] = [dl[v] EXCEPT !.overlapped = TRUE]]
        BY <1>5, <2>2 DEF Marked, TypeOK
      <3>2. /\ [dl[v] EXCEPT !.overlapped = TRUE] \in Download
            /\ SameDownload([dl[v] EXCEPT !.overlapped = TRUE], dl[v])
        BY <1>5, MarkedDownload
      <3> QED
        BY <1>3, <1>5, <3>1, <3>2 DEF TypeOK, SameDownload
    <2> QED
      BY <1>1, <2>1, <2>2
  <1>7. Queued' = Queued
    BY <1>1 DEF Queued, TypeOK
  <1>8. /\ fileQueue' \in [Queued -> QueueItem]
        /\ fileQueue'[i] = [fileQueue[i] EXCEPT !.done = done, !.downloads = fileQueue[i].downloads \cup {u}]
        /\ \A j \in Queued \ {i} : fileQueue'[j] = fileQueue[j]
    BY <1>1, <1>2 DEF TypeOK, QueueItem
  <1>9. /\ fileQueue'[i].target = fileQueue[i].target /\ fileQueue'[i].root = fileQueue[i].root
        /\ fileQueue'[i].sources = fileQueue[i].sources
        /\ fileQueue'[i].badSources = fileQueue[i].badSources
        /\ fileQueue'[i].downloads = fileQueue[i].downloads \cup {u}
    BY <1>2, <1>8, ItemKept
  <1>10. running' \in [Users -> Items \cup {NoItem}]
         /\ \A v \in Users : running'[v] = IF v = u THEN i ELSE running[v]
    BY <1>1 DEF TypeOK
  <1>11. TypeOK'
    BY <1>1, <1>6, <1>7, <1>8, <1>10 DEF TypeOK
  <1>12. RecordsAgree'
    <2>1. ASSUME NEW j \in Queued, NEW v \in Users
          PROVE  v \in fileQueue'[j].downloads <=> running'[v] = j
      <3>1. v \in fileQueue[j].downloads <=> running[v] = j
        BY DEF RecordsAgree
      <3>2. CASE j = i
        BY <1>9, <1>10, <3>1, <3>2
      <3>3. CASE j # i
        <4>1. j # NoItem
          BY DEF TypeOK
        <4> QED
          BY <1>4, <1>8, <1>10, <3>1, <3>3, <4>1
      <3> QED
        BY <3>2, <3>3
    <2>2. \A j \in Queued : fileQueue'[j].downloads \subseteq fileQueue'[j].sources
      <3> TAKE j \in Queued
      <3>1. fileQueue[j].downloads \subseteq fileQueue[j].sources
        BY DEF RecordsAgree
      <3>2. CASE j = i
        BY <1>4, <1>9, <3>1, <3>2
      <3>3. CASE j # i
        BY <1>8, <3>1, <3>3
      <3> QED
        BY <3>2, <3>3
    <2>3. \A v \in Users : running'[v] \in Queued => dl'[v] # NoDownload /\ dl'[v].of = running'[v]
      BY <1>3, <1>6, <1>10 DEF RecordsAgree, SameDownload
    <2> QED
      BY <1>7, <2>1, <2>2, <2>3 DEF RecordsAgree
  <1>13. OneItemPerFile'
    <2>1. \A j \in Queued : /\ fileQueue'[j].target = fileQueue[j].target
                            /\ fileQueue'[j].root = fileQueue[j].root
                            /\ fileQueue'[j].sources = fileQueue[j].sources
                            /\ fileQueue'[j].badSources = fileQueue[j].badSources
      BY <1>8, <1>9
    <2> QED
      BY <1>7, <2>1 DEF OneItemPerFile, IsFile
  <1>14. DownloadsSound'
    <2>1. ASSUME NEW v \in Users, running'[v] \in Queued
          PROVE  dl'[v].path = fileQueue'[running'[v]].target
      <3>1. \A j \in Queued : fileQueue'[j].target = fileQueue[j].target
        BY <1>8, <1>9
      <3>2. CASE v = u
        BY <1>2, <1>3, <1>6, <1>10, <3>1, <3>2
      <3>3. CASE v # u
        BY <1>6, <1>10, <2>1, <3>1, <3>3 DEF DownloadsSound, RecordsAgree, SameDownload
      <3> QED
        BY <3>2, <3>3
    <2>2. ASSUME NEW v \in Users, dl'[v] # NoDownload
          PROVE  InBounds(v)'
      <3>1. CASE v = u
        BY <1>3, <1>6, <3>1 DEF InBounds, Has
      <3>2. CASE v # u
        <4>1. dl[v] # NoDownload /\ InBounds(v) /\ SameDownload(dl'[v], dl[v])
          BY <1>6, <2>2, <3>2 DEF DownloadsSound
        <4>2. Has(v, "file", {"running"}) => temp'[dl[v].root] # Gone
          BY <1>1, <4>1 DEF InBounds
        <4> QED
          BY <4>1, <4>2, InBoundsKept
      <3> QED
        BY <3>1, <3>2
    <2> QED
      BY <1>7, <2>1, <2>2 DEF DownloadsSound
  <1> QED
    BY <1>11, <1>12, <1>13, <1>14

-----------------------------------------------------------------------------
LEMMA UserStepIInv == IInv /\ UserStep => IInv'
  <1> USE QueueAssumption DEF IInv
  <1> SUFFICES ASSUME IInv, UserStep PROVE IInv'
    OBVIOUS
  <1>1. ASSUME NEW t \in Paths, NEW r \in Roots, NEW u \in Users, AddToItem(t, r, u)
        PROVE  IInv'
    BY <1>1, AddSourceIInv DEF AddToItem, At, WithRoot
  <1>2. ASSUME NEW t \in Paths, NEW r \in Roots, NEW u \in Users, NEW p \in Priorities,
               AddFile(t, r, p, u)
        PROVE  IInv'
    BY <1>2, AddItemIInv DEF AddFile, Targets
  <1>3. ASSUME NEW u \in Users, AddList(u)
        PROVE  IInv'
    BY <1>3, AddItemIInv DEF AddList, Targets, Priorities
  <1>4. ASSUME NEW u \in Users, RemoveUser(u)
        PROVE  IInv'
    BY <1>4, RemoveUserIInv
  <1>5. ASSUME NEW t \in Targets, Remove(t)
        PROVE  IInv'
    BY <1>5, RemoveIInv
  <1>6. ASSUME NEW t \in Targets, NEW p \in Priorities, SetPriority(t, p)
        PROVE  IInv'
    BY <1>6, SetPriorityIInv
  <1>7. ASSUME NEW t \in Paths, NEW u \in Users, Readd(t, u)
        PROVE  IInv'
    BY <1>7, AddSourceIInv DEF Readd, At
  <1>8. ASSUME NEW t \in Paths, NEW u \in Users, RemoveSource(t, u)
        PROVE  IInv'
    BY <1>8, RemoveSourceIInv DEF Targets
  <1>9. ASSUME NEW s \in Paths, NEW t \in Paths, Move(s, t)
        PROVE  IInv'
    BY <1>9, MoveIInv
  <1>10. ASSUME NEW r \in Roots, TempVanishes(r)
         PROVE  IInv'
    BY <1>10, TempVanishesIInv
  <1> QED
    BY <1>1, <1>2, <1>3, <1>4, <1>5, <1>6, <1>7, <1>8, <1>9, <1>10 DEF UserStep

LEMMA SocketStepIInv == IInv /\ SocketStep => IInv'
  <1> SUFFICES ASSUME IInv, SocketStep PROVE IInv'
    OBVIOUS
  <1>1. ASSUME NEW r \in Roots, NEW u \in Users, SearchResult(r, u)
        PROVE  IInv'
    BY <1>1, AddSourceIInv DEF SearchResult, WithRoot
  <1>2. ASSUME NEW u \in Users,
               \/ GetDownload(u) \/ GetSecond(u) \/ FollowDangling(u) \/ SetFile(u) \/ Receive(u)
               \/ FinishTree(u) \/ FinishList(u) \/ FinishSegment(u)
               \/ FailDownload(u) \/ BadBlock(u) \/ PutOrphan(u)
        PROVE  IInv'
    BY <1>2, GetDownloadIInv, LastStepIInv, SetFileIInv, ReceiveIInv, FinishTreeIInv,
       FinishListIInv, FinishSegmentIInv, FailDownloadIInv, BadBlockIInv, PutOrphanIInv
  <1> QED
    BY <1>1, <1>2 DEF SocketStep

LEMMA StutterIInv == IInv /\ UNCHANGED vars => IInv'
  BY DEF IInv, vars, TypeOK, RecordsAgree, OneItemPerFile, DownloadsSound, InBounds,
         Queued, IsFile, Has

(***************************************************************************)
(* The inductive invariant, for every instance: what is running, what is   *)
(* queued and what the Downloads do stay consistent through every action.  *)
(***************************************************************************)
THEOREM Invariance == Spec => []IInv
  <1>1. IInv /\ [Next]_vars => IInv'
    BY UserStepIInv, SocketStepIInv, StutterIInv DEF Next
  <1> QED
    BY InitIInv, <1>1, PTL DEF Spec

(* Every variable keeps its type; in particular the segments and positions stay on the blocks. *)
THEOREM TypeCorrect == Spec => []TypeOK
  <1>1. IInv => TypeOK
    BY DEF IInv
  <1> QED
    BY Invariance, <1>1, PTL

(* What the other steps can find wrong is no assertion of addDownload. *)
Remarks == {"userQueue.remove", "getNext", "putDownload"}

LEMMA UserStepAsserts == UserStep => failed' \subseteq failed \cup Remarks
  <1> USE DEF Remarks, Missing
  <1> SUFFICES ASSUME UserStep PROVE failed' \subseteq failed \cup Remarks
    OBVIOUS
  <1>1. ASSUME NEW i, NEW u, AddSource(i, u) PROVE failed' \subseteq failed \cup Remarks
    BY <1>1 DEF AddSource
  <1>2. ASSUME NEW t, NEW r, NEW p, NEW u, AddItem(t, r, p, u) PROVE failed' \subseteq failed \cup Remarks
    BY <1>2 DEF AddItem
  <1>3. ASSUME NEW t, Remove(t) PROVE failed' \subseteq failed \cup Remarks
    BY <1>3 DEF Remove, LeaveUserQueue
  <1>4. ASSUME NEW t, NEW u, RemoveSource(t, u) PROVE failed' \subseteq failed \cup Remarks
    BY <1>4 DEF RemoveSource
  <1>5. ASSUME NEW u, RemoveUser(u) PROVE failed' \subseteq failed \cup Remarks
    BY <1>5 DEF RemoveUser
  <1>6. ASSUME NEW t, NEW p, SetPriority(t, p) PROVE failed' \subseteq failed \cup Remarks
    BY <1>6 DEF SetPriority
  <1>7. ASSUME NEW s, NEW t, Move(s, t) PROVE failed' \subseteq failed \cup Remarks
    BY <1>7 DEF Move
  <1>8. ASSUME NEW r, TempVanishes(r) PROVE failed' \subseteq failed \cup Remarks
    BY <1>8 DEF TempVanishes
  <1> HIDE DEF Remarks, Missing
  <1> QED
    BY <1>1, <1>2, <1>3, <1>4, <1>5, <1>6, <1>7, <1>8
    DEF UserStep, AddToItem, AddFile, AddList, Readd

LEMMA SocketStepAsserts ==
    ASSUME IInv, SocketStep
    PROVE  failed' \subseteq failed \cup Remarks \/ "second" \in failed'
  <1> USE DEF Remarks, Missing
  <1>1. ASSUME NEW r, NEW u, SearchResult(r, u) PROVE failed' \subseteq failed \cup Remarks
    BY <1>1 DEF SearchResult, AddSource
  <1>2. ASSUME NEW u \in Users, GetDownload(u) PROVE failed' \subseteq failed \cup Remarks
    BY <1>2, GetDownloadAsserts
  <1>3. ASSUME NEW u, GetSecond(u) PROVE "second" \in failed'
    BY <1>3 DEF GetSecond
  <1>4. ASSUME NEW u, FollowDangling(u) \/ SetFile(u) \/ Receive(u) \/ PutOrphan(u)
        PROVE  failed' \subseteq failed \cup Remarks
    BY <1>4 DEF FollowDangling, SetFile, Receive, PutOrphan
  <1>5. ASSUME NEW u, FinishTree(u) \/ FinishList(u) \/ FinishSegment(u)
        PROVE  failed' \subseteq failed \cup Remarks
    BY <1>5 DEF FinishTree, FinishList, FinishSegment, LeaveUserQueue
  <1>6. ASSUME NEW u, FailDownload(u) \/ BadBlock(u)
        PROVE  failed' \subseteq failed \cup Remarks
    BY <1>6 DEF FailDownload, BadBlock, PutUnfinished
  <1> HIDE DEF Remarks, Missing
  <1> QED
    BY <1>1, <1>2, <1>3, <1>4, <1>5, <1>6 DEF SocketStep

(***************************************************************************)
(* As long as no user gets a second Download while he has one,             *)
(* UserQueue::running, the download lists of the items and the Downloads   *)
(* agree, however the earlier ones ended; so addDownload's assertion fails *)
(* for no user who has none. That a user may ask while he has one is a     *)
(* step of the model, and its last.                                        *)
(***************************************************************************)
THEOREM RunningAgrees == Spec => []RunningConsistent
  <1>1. Init => RunningConsistent
    BY InitIInv DEF Init, IInv, RunningConsistent
  <1>2. IInv /\ RunningConsistent /\ [Next]_vars => RunningConsistent'
    <2> SUFFICES ASSUME IInv, RunningConsistent, [Next]_vars PROVE RunningConsistent'
      OBVIOUS
    <2>1. RecordsAgree'
      BY UserStepIInv, SocketStepIInv, StutterIInv DEF Next, IInv
    <2>2. "addDownload" \in failed' => "second" \in failed'
      <3>1. CASE UNCHANGED vars
        BY <3>1 DEF vars, RunningConsistent, Doubled
      <3>2. CASE Next
        <4>1. "addDownload" \notin failed
          BY <3>2 DEF Next, RunningConsistent
        <4> QED
          BY <3>2, <4>1, UserStepAsserts, SocketStepAsserts DEF Next, Remarks
      <3> QED
        BY <3>1, <3>2
    <2> QED
      BY <2>1, <2>2 DEF RunningConsistent, Doubled
  <1> QED
    BY <1>1, <1>2, Invariance, PTL DEF Spec

(* add, move and addSource never queue one target, or one file, twice. *)
THEOREM QueuedOnce == Spec => []OneItemPerFile
  <1>1. IInv => OneItemPerFile
    BY DEF IInv
  <1> QED
    BY Invariance, <1>1, PTL

(* A Download stays inside its segment, its segment inside the file, and it is credited to its item. *)
THEOREM DownloadsStaySound == Spec => []DownloadsSound
  <1>1. IInv => DownloadsSound
    BY DEF IInv
  <1> QED
    BY Invariance, <1>1, PTL

-----------------------------------------------------------------------------
(***************************************************************************)
(* What the steps do to the Downloads and the items, kind by kind, for the *)
(* proofs about the contents of the queue.                                 *)
(***************************************************************************)
LEMMA NextIInv == IInv /\ [Next]_vars => IInv'
  BY UserStepIInv, SocketStepIInv, StutterIInv DEF Next

(* The steps that end u's Download. *)
Ending(u) ==
    \/ PutOrphan(u) \/ FinishTree(u) \/ FinishList(u)
    \/ FinishSegment(u) \/ FailDownload(u) \/ BadBlock(u)

(* x is the item q after fewer users download it, and maybe other blocks are done. *)
Lessened(x, q) ==
    /\ x.target = q.target /\ x.root = q.root
    /\ x.sources = q.sources /\ x.prio = q.prio
    /\ x.downloads \subseteq q.downloads

(***************************************************************************)
(* What they have in common, for the other users: their Downloads go on    *)
(* with the temporary files they have open, and the items stay what they   *)
(* are.                                                                    *)
(***************************************************************************)
Leaves(u) ==
    /\ dl[u] # NoDownload /\ dl'[u] = NoDownload
    /\ \A v \in Users \ {u} : IF dl[v] = NoDownload THEN dl'[v] = NoDownload
                              ELSE dl'[v] # NoDownload /\ SameDownload(dl'[v], dl[v])
    /\ \A v \in Users \ {u} : Has(v, "file", {"running"}) /\ dl[v].root \in Roots =>
                                temp'[dl[v].root] = temp[dl[v].root]
    /\ \A r \in Roots : temp'[r] = temp[r] \/ temp'[r] = Gone
    /\ \A v \in Users : running'[v] = running[v] \/ running'[v] = NoItem
    /\ Queued' \subseteq Queued
    /\ \A i \in Queued' : Lessened(fileQueue'[i], fileQueue[i])

(* Deleting the temporary file of a root leaves the others. *)
LEMMA DropTempOthers ==
    ASSUME TypeOK, NEW r \in Roots \cup {ListRoot}, NEW w, temp' = DropTemp(r, w)
    PROVE  \A x \in Roots : temp'[x] = temp[x] \/ temp'[x] = Gone
  BY DEF DropTemp, TypeOK

LEMMA PutOrphanLeaves ==
    ASSUME IInv, NEW u \in Users, PutOrphan(u)
    PROVE  Leaves(u)
  <1> USE DEF IInv
  <1>1. /\ dl[u] \in Download /\ dl[u] # NoDownload
        /\ dl' = [dl EXCEPT ![u] = NoDownload]
        /\ temp' = temp \/ temp' = DropTemp(dl[u].root, u)
        /\ UNCHANGED <<fileQueue, userQueue, running, trees, failed>>
    BY DEF PutOrphan, TypeOK
  <1>2. dl[u].root \in Roots \cup {ListRoot}
    BY <1>1 DEF Download
  <1>3. Queued' = Queued
    BY <1>1 DEF Queued
  <1>4. \A r \in Roots : temp'[r] = temp[r] \/ temp'[r] = Gone
    BY <1>1, <1>2, DropTempOthers
  <1>5. \A v \in Users \ {u} : Has(v, "file", {"running"}) /\ dl[v].root \in Roots =>
                                temp'[dl[v].root] = temp[dl[v].root]
    BY <1>1, <1>2, DropTempKept
  <1> QED
    BY <1>1, <1>3, <1>4, <1>5 DEF Leaves, Lessened, TypeOK, SameDownload

LEMMA FinishTreeLeaves ==
    ASSUME IInv, NEW u \in Users, FinishTree(u)
    PROVE  Leaves(u)
  <1> USE DEF IInv
  <1>1. PICK i \in Queued :
            /\ dl[u] # NoDownload
            /\ fileQueue' = [fileQueue EXCEPT ![i].downloads = @ \ {u}]
            /\ running' = [running EXCEPT ![u] = NoItem]
            /\ dl' = [dl EXCEPT ![u] = NoDownload]
            /\ UNCHANGED temp
    BY DEF FinishTree, StopRunning, Has, At
  <1>2. Queued' = Queued
    BY <1>1 DEF Queued
  <1>3. \A j \in Queued : fileQueue[j] \in QueueItem
    BY DEF TypeOK
  <1>4. /\ fileQueue'[i] = [fileQueue[i] EXCEPT !.downloads = fileQueue[i].downloads \ {u}]
        /\ \A j \in Queued \ {i} : fileQueue'[j] = fileQueue[j]
    BY <1>1 DEF TypeOK
  <1>5. \A j \in Queued : Lessened(fileQueue'[j], fileQueue[j])
    <2>1. Lessened(fileQueue'[i], fileQueue[i])
      BY <1>1, <1>3, <1>4 DEF Lessened, QueueItem
    <2>2. \A j \in Queued \ {i} : Lessened(fileQueue'[j], fileQueue[j])
      BY <1>1, <1>3, <1>4 DEF Lessened
    <2> QED
      BY <2>1, <2>2
  <1> QED
    BY <1>1, <1>2, <1>5 DEF Leaves, Lessened, TypeOK, SameDownload

LEMMA FinishListLeaves ==
    ASSUME IInv, NEW u \in Users, FinishList(u)
    PROVE  Leaves(u)
  <1> USE DEF IInv
  <1>1. PICK i \in Queued :
            /\ dl[u] # NoDownload
            /\ LeaveUserQueue(i)
            /\ fileQueue' = [j \in Queued \ {i} |-> fileQueue[j]]
            /\ dl' = [dl EXCEPT ![u] = NoDownload]
            /\ UNCHANGED temp
    BY DEF FinishList, Has, At
  <1>2. Queued' = Queued \ {i}
    BY <1>1 DEF Queued
  <1>3. \A v \in Users : running'[v] = IF running[v] = i THEN NoItem ELSE running[v]
    BY <1>1, LeaveUserQueueRunning
  <1> QED
    BY <1>1, <1>2, <1>3 DEF Leaves, Lessened, TypeOK, SameDownload

LEMMA FinishSegmentLeaves ==
    ASSUME IInv, NEW u \in Users, FinishSegment(u)
    PROVE  Leaves(u)
  <1> USE DEF IInv
  <1> DEFINE done(i) == AddSegment(fileQueue[i].done, dl[u].segment)
             mine(i) == {v \in fileQueue[i].downloads :
                            running[v] = i /\ v \in fileQueue[i].sources}
  <1>1. /\ dl[u] \in Download /\ dl[u] # NoDownload
        /\ dl' = [dl EXCEPT ![u] = NoDownload]
    BY DEF FinishSegment, Has, TypeOK
  <1>2. PICK i \in Queued :
            \/ /\ fileQueue' = [fileQueue EXCEPT ![i].done = done(i), ![i].downloads = @ \ {u}]
               /\ StopRunning(u)
               /\ UNCHANGED <<userQueue, temp, failed>>
            \/ /\ LeaveUserQueue(i)
               /\ temp' = DropTemp(dl[u].root, u)
               /\ fileQueue' = IF KeepFinishedFiles
                               THEN [fileQueue EXCEPT ![i].done = done(i), ![i].downloads = @ \ mine(i)]
                               ELSE [j \in Queued \ {i} |-> fileQueue[j]]
    BY DEF FinishSegment, At
  <1> HIDE DEF done, mine
  <1>3. dl[u].root \in Roots \cup {ListRoot}
    BY <1>1 DEF Download
  <1>4. /\ \A r \in Roots : temp'[r] = temp[r] \/ temp'[r] = Gone
        /\ \A v \in Users \ {u} : Has(v, "file", {"running"}) /\ dl[v].root \in Roots =>
                                temp'[dl[v].root] = temp[dl[v].root]
    BY <1>2, <1>3, DropTempOthers, DropTempKept
  <1>5. \A v \in Users : running'[v] = running[v] \/ running'[v] = NoItem
    BY <1>2, LeaveUserQueueRunning DEF StopRunning, TypeOK
  <1>6. Queued' \subseteq Queued
    BY <1>2 DEF Queued
  <1>7. \A j \in Queued : fileQueue[j] \in QueueItem
    BY DEF TypeOK
  <1>8. /\ \A j \in Queued' \ {i} : fileQueue'[j] = fileQueue[j]
        /\ i \in Queued' => \E w : fileQueue'[i] = [fileQueue[i] EXCEPT !.done = done(i),
                                                        !.downloads = fileQueue[i].downloads \ w]
    <2>1. CASE fileQueue' = [fileQueue EXCEPT ![i].done = done(i), ![i].downloads = @ \ {u}]
      BY <1>6, <2>1 DEF TypeOK
    <2>2. CASE fileQueue' = [fileQueue EXCEPT ![i].done = done(i), ![i].downloads = @ \ mine(i)]
      BY <1>6, <2>2 DEF TypeOK
    <2>3. CASE fileQueue' = [j \in Queued \ {i} |-> fileQueue[j]]
      BY <2>3 DEF Queued
    <2> QED
      BY <1>2, <2>1, <2>2, <2>3
  <1>9. \A j \in Queued' : Lessened(fileQueue'[j], fileQueue[j])
    <2>1. ASSUME i \in Queued' PROVE Lessened(fileQueue'[i], fileQueue[i])
      <3>1. PICK w : fileQueue'[i] = [fileQueue[i] EXCEPT !.done = done(i),
                                                        !.downloads = fileQueue[i].downloads \ w]
        BY <1>8, <2>1
      <3> QED
        BY <1>7, <3>1 DEF Lessened, QueueItem
    <2>2. \A j \in Queued' \ {i} : Lessened(fileQueue'[j], fileQueue[j])
      BY <1>8 DEF Lessened
    <2> QED
      BY <2>1, <2>2
  <1> QED
    BY <1>1, <1>4, <1>5, <1>6, <1>9 DEF Leaves, Lessened, TypeOK, SameDownload

LEMMA PutUnfinishedLeaves ==
    ASSUME IInv, NEW u \in Users, dl[u] # NoDownload, NEW pos, PutUnfinished(u, pos)
    PROVE  Leaves(u)
  <1> USE NullAssumption DEF IInv
  <1> DEFINE d == dl[u]
             got == <<Begin(d.segment), Begin(d.segment) + pos>>
             partial == d.type = "file" /\ pos > 0
             done(i) == IF partial THEN AddSegment(fileQueue[i].done, got) ELSE fileQueue[i].done
  <1>1. PICK i \in Queued :
            /\ fileQueue' = [fileQueue EXCEPT ![i].done = IF partial THEN AddSegment(@, got) ELSE @,
                                              ![i].downloads = @ \ {u}]
            /\ StopRunning(u)
            /\ \/ \E v \in fileQueue[i].downloads \ {u} : dl' = Marked(NoDownload, u, v, FALSE)
               \/ dl' = [dl EXCEPT ![u] = NoDownload]
            /\ UNCHANGED temp
    BY DEF PutUnfinished, At
  <1>2. /\ fileQueue'[i] = [fileQueue[i] EXCEPT !.done = done(i), !.downloads = fileQueue[i].downloads \ {u}]
        /\ \A j \in Queued \ {i} : fileQueue'[j] = fileQueue[j]
        /\ Queued' = Queued
    BY <1>1 DEF TypeOK, Queued
  <1> HIDE DEF done, partial, got
  <1>3. \A j \in Queued : fileQueue[j] \in QueueItem
    BY DEF TypeOK
  <1>4. \A j \in Queued : Lessened(fileQueue'[j], fileQueue[j])
    <2>1. Lessened(fileQueue'[i], fileQueue[i])
      BY <1>2, <1>3 DEF Lessened, QueueItem
    <2>2. \A j \in Queued \ {i} : Lessened(fileQueue'[j], fileQueue[j])
      BY <1>1, <1>2, <1>3 DEF Lessened
    <2> QED
      BY <2>1, <2>2
  <1>5. /\ dl'[u] = NoDownload
        /\ \A v \in Users \ {u} : IF dl[v] = NoDownload THEN dl'[v] = NoDownload
                                  ELSE dl'[v] # NoDownload /\ SameDownload(dl'[v], dl[v])
    <2>1. CASE dl' = [dl EXCEPT ![u] = NoDownload]
      BY <2>1 DEF TypeOK, SameDownload
    <2>2. ASSUME NEW v \in fileQueue[i].downloads \ {u}, dl' = Marked(NoDownload, u, v, FALSE)
          PROVE  <1>5!:
      <3>1. v \in Users \ {u} /\ dl[v] # NoDownload /\ dl[v] \in Download
        BY <1>3 DEF RecordsAgree, TypeOK, QueueItem
      <3>2. dl' = [dl EXCEPT ![u] = NoDownload, ![v] = [dl[v] EXCEPT !.overlapped = FALSE]]
        BY <2>2, <3>1 DEF Marked, TypeOK
      <3>3. /\ [dl[v] EXCEPT !.overlapped = FALSE] \in Download
            /\ SameDownload([dl[v] EXCEPT !.overlapped = FALSE], dl[v])
        BY <3>1, MarkedDownload
      <3> QED
        BY <3>1, <3>2, <3>3 DEF TypeOK, SameDownload
    <2> QED
      BY <1>1, <2>1, <2>2
  <1>6. \A v \in Users : running'[v] = running[v] \/ running'[v] = NoItem
    BY <1>1 DEF StopRunning, TypeOK
  <1> QED
    BY <1>1, <1>2, <1>4, <1>5, <1>6 DEF Leaves

LEMMA EndingLeaves ==
    ASSUME IInv, NEW u \in Users, Ending(u)
    PROVE  Leaves(u)
  <1>1. CASE FailDownload(u)
    BY <1>1, PutUnfinishedLeaves DEF FailDownload
  <1>2. CASE BadBlock(u)
    BY <1>2, PutUnfinishedLeaves DEF BadBlock, Has
  <1> QED
    BY <1>1, <1>2, PutOrphanLeaves, FinishTreeLeaves, FinishListLeaves, FinishSegmentLeaves DEF Ending

-----------------------------------------------------------------------------
(* A path is of one of the files that may be queued, anything else of a file list. *)
Placed(t, r) == IF t \in Paths THEN \E p \in Placements : p[2] = r ELSE r = ListRoot

(***************************************************************************)
(* A step that no socket thread takes on its Download: the Downloads and   *)
(* the files they have open stay, nobody starts to run anything, an item   *)
(* keeps its file and its blocks, and a new one has none.                  *)
(***************************************************************************)
Aside ==
    /\ UNCHANGED dl
    /\ \A r \in Roots : temp'[r] = temp[r] \/ temp'[r] = Gone
    /\ \A v \in Users : Has(v, "file", {"running"}) /\ dl[v].root \in Roots =>
                        temp'[dl[v].root] = temp[dl[v].root]
    /\ \A v \in Users : running'[v] \in Queued' => running'[v] = running[v] /\ running[v] \in Queued
    /\ \A i \in Queued' :
          \/ /\ i \in Queued
             /\ fileQueue'[i].done = fileQueue[i].done
             /\ fileQueue'[i].root = fileQueue[i].root
             /\ \/ fileQueue'[i].target = fileQueue[i].target
                \/ IsFile(i) /\ {fileQueue[i].target, fileQueue'[i].target} \subseteq Paths
          \/ /\ i \notin Queued
             /\ fileQueue'[i].done = {}
             /\ Placed(fileQueue'[i].target, fileQueue'[i].root)

LEMMA AddItemAside ==
    ASSUME IInv, NEW t, NEW r, NEW p, NEW u, AddItem(t, r, p, u), Placed(t, r)
    PROVE  Aside
  <1>1. PICK i \in Items :
            /\ Unused(i)
            /\ fileQueue' = [j \in Queued \cup {i} |->
                                IF j = i
                                THEN [target |-> t, root |-> r, prio |-> p, sources |-> {u},
                                      badSources |-> {}, done |-> {}, downloads |-> {}]
                                ELSE fileQueue[j]]
            /\ UNCHANGED <<running, dl, trees, temp, failed>>
    BY DEF AddItem
  <1>2. Queued' = Queued \cup {i} /\ i \notin Queued
    BY <1>1 DEF Queued, Unused
  <1> QED
    BY <1>1, <1>2 DEF Aside, Unused

LEMMA AddSourceAside ==
    ASSUME IInv, NEW i \in Queued, NEW u \in Users, AddSource(i, u)
    PROVE  Aside
  <1>1. Queued' = Queued /\ fileQueue[i] \in QueueItem
    BY DEF AddSource, Queued, IInv, TypeOK
  <1> QED
    BY <1>1 DEF AddSource, Aside, QueueItem, IInv, TypeOK

LEMMA RemoveAside ==
    ASSUME IInv, NEW t \in Targets, Remove(t)
    PROVE  Aside
  <1> USE QueueAssumption DEF IInv
  <1>1. PICK i \in Queued :
            /\ UNCHANGED running \/ LeaveUserQueue(i)
            /\ temp' = temp \/ temp' = DropTemp(fileQueue[i].root, NoItem)
            /\ fileQueue' = [j \in Queued \ {i} |-> fileQueue[j]]
            /\ UNCHANGED <<dl, trees>>
    BY DEF Remove, At
  <1>2. Queued' = Queued \ {i} /\ fileQueue[i] \in QueueItem
    BY <1>1 DEF Queued, TypeOK
  <1>3. fileQueue[i].root \in Roots \cup {ListRoot}
    BY <1>2 DEF QueueItem
  <1>4. \A r \in Roots : temp'[r] = temp[r] \/ temp'[r] = Gone
    BY <1>1, <1>3, DropTempOthers
  <1>5. \A v \in Users : Has(v, "file", {"running"}) /\ dl[v].root \in Roots =>
                            temp'[dl[v].root] = temp[dl[v].root]
    BY <1>1, <1>3, DropTempKept, NullAssumption
  <1>6. \A v \in Users : running'[v] = running[v] \/ running'[v] = NoItem
    BY <1>1, LeaveUserQueueRunning
  <1> QED
    BY <1>1, <1>2, <1>4, <1>5, <1>6 DEF Aside, TypeOK

LEMMA RemoveSourceAside ==
    ASSUME IInv, NEW t \in Paths, NEW u \in Users, RemoveSource(t, u)
    PROVE  Aside
  <1> USE QueueAssumption DEF IInv
  <1>1. PICK i \in Queued :
            /\ fileQueue' = [fileQueue EXCEPT ![i] = WithoutSource(i, u)]
            /\ running' = [running EXCEPT ![u] = IF @ = i THEN NoItem ELSE @]
            /\ UNCHANGED <<dl, trees, temp>>
    BY DEF RemoveSource, At
  <1>2. Queued' = Queued /\ fileQueue[i] \in QueueItem
    BY <1>1 DEF Queued, TypeOK
  <1>3. /\ fileQueue'[i].done = fileQueue[i].done /\ fileQueue'[i].root = fileQueue[i].root
        /\ fileQueue'[i].target = fileQueue[i].target
    BY <1>1, <1>2 DEF WithoutSource, QueueItem, TypeOK
  <1> QED
    BY <1>1, <1>2, <1>3 DEF Aside, TypeOK

LEMMA RemoveUserAside ==
    ASSUME IInv, NEW u \in Users, RemoveUser(u)
    PROVE  Aside
  <1> USE QueueAssumption DEF IInv
  <1>1. PICK drop, lists :
            /\ fileQueue' = [i \in Queued \ lists |->
                                IF i \in drop THEN WithoutSource(i, u) ELSE fileQueue[i]]
            /\ running' = [running EXCEPT ![u] = NoItem]
            /\ UNCHANGED <<dl, trees, temp>>
    BY DEF RemoveUser
  <1>2. Queued' = Queued \ lists
    BY <1>1 DEF Queued
  <1>3. \A i \in Queued : /\ WithoutSource(i, u).done = fileQueue[i].done
                          /\ WithoutSource(i, u).root = fileQueue[i].root
                          /\ WithoutSource(i, u).target = fileQueue[i].target
    BY DEF WithoutSource, QueueItem, TypeOK
  <1>4. \A i \in Queued' : fileQueue'[i] = WithoutSource(i, u) \/ fileQueue'[i] = fileQueue[i]
    BY <1>1, <1>2
  <1>5. \A i \in Queued' : /\ fileQueue'[i].done = fileQueue[i].done
                           /\ fileQueue'[i].root = fileQueue[i].root
                           /\ fileQueue'[i].target = fileQueue[i].target
    BY <1>2, <1>3, <1>4
  <1> QED
    BY <1>1, <1>2, <1>5 DEF Aside, TypeOK

LEMMA SetPriorityMoveAside ==
    ASSUME IInv,
           \/ \E t \in Targets, p \in Priorities : SetPriority(t, p)
           \/ \E s, t \in Paths : Move(s, t)
    PROVE  Aside
  <1> USE DEF IInv
  <1>1. PICK i \in Queued :
            /\ \/ \E p : fileQueue' = [fileQueue EXCEPT ![i].prio = p]
               \/ /\ IsFile(i) /\ fileQueue[i].target \in Paths
                  /\ \E t \in Paths : fileQueue' = [fileQueue EXCEPT ![i].target = t]
            /\ UNCHANGED <<running, dl, trees, temp>>
    BY DEF SetPriority, Move, At
  <1>2. Queued' = Queued /\ fileQueue[i] \in QueueItem
    BY <1>1 DEF Queued, TypeOK
  <1> QED
    BY <1>1, <1>2 DEF Aside, TypeOK, QueueItem

LEMMA TempVanishesAside ==
    ASSUME IInv, NEW r \in Roots, TempVanishes(r)
    PROVE  Aside
  <1>1. /\ temp' = DropTemp(r, NoItem)
        /\ UNCHANGED <<fileQueue, userQueue, running, dl, trees, failed>>
    BY QueueAssumption DEF TempVanishes, DropTemp
  <1>2. Queued' = Queued
    BY <1>1 DEF Queued
  <1>3. \A x \in Roots : temp'[x] = temp[x] \/ temp'[x] = Gone
    BY <1>1, DropTempOthers DEF IInv
  <1>4. \A v \in Users : Has(v, "file", {"running"}) /\ dl[v].root \in Roots =>
                            temp'[dl[v].root] = temp[dl[v].root]
    BY <1>1, DropTempKept, NullAssumption DEF IInv
  <1> QED
    BY <1>1, <1>2, <1>3, <1>4 DEF Aside

(* What the interface, the hubs and the timers do is aside of the Downloads. *)
LEMMA UserStepAside == IInv /\ UserStep => Aside
  <1> SUFFICES ASSUME IInv, UserStep PROVE Aside
    OBVIOUS
  <1>1. ASSUME NEW t \in Paths, NEW r \in Roots, NEW u \in Users, AddToItem(t, r, u)
        PROVE  Aside
    BY <1>1, AddSourceAside DEF AddToItem, At, WithRoot
  <1>2. ASSUME NEW t \in Paths, NEW u \in Users, Readd(t, u)
        PROVE  Aside
    BY <1>2, AddSourceAside DEF Readd, At
  <1>3. ASSUME NEW t \in Paths, NEW r \in Roots, NEW u \in Users, NEW p \in Priorities,
               AddFile(t, r, p, u)
        PROVE  Aside
    BY <1>3, AddItemAside DEF AddFile, Placed
  <1>4. ASSUME NEW u \in Users, AddList(u)
        PROVE  Aside
    BY <1>4, AddItemAside, QueueAssumption DEF AddList, Placed
  <1> QED
    BY <1>1, <1>2, <1>3, <1>4, RemoveAside, RemoveSourceAside, RemoveUserAside, SetPriorityMoveAside,
       TempVanishesAside DEF UserStep

LEMMA OtherStepAside ==
    ASSUME IInv, \/ \E r \in Roots, u \in Users : SearchResult(r, u)
                 \/ \E u \in Users : FollowDangling(u) \/ GetSecond(u)
                 \/ UNCHANGED vars
    PROVE  Aside
  <1>1. CASE \E u \in Users : FollowDangling(u) \/ GetSecond(u)
    <2>1. UNCHANGED <<fileQueue, running, dl, temp>>
      BY <1>1 DEF FollowDangling, GetSecond
    <2> QED
      BY <2>1 DEF Aside, Queued
  <1>2. ASSUME NEW r \in Roots, NEW u \in Users, SearchResult(r, u)
        PROVE  Aside
    BY <1>2, AddSourceAside DEF SearchResult, WithRoot
  <1>3. CASE UNCHANGED vars
    <2>1. UNCHANGED <<fileQueue, running, dl, temp>>
      BY <1>3 DEF vars
    <2> QED
      BY <2>1 DEF Aside, Queued
  <1> QED
    BY <1>1, <1>2, <1>3

LEMMA StepKinds ==
    ASSUME IInv, [Next]_vars
    PROVE  \/ Aside
           \/ \E u \in Users : GetDownload(u) \/ SetFile(u) \/ Receive(u) \/ Ending(u)
  BY UserStepAside, OtherStepAside DEF Next, SocketStep, Ending
=============================================================================
