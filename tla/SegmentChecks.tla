---------------------------- MODULE SegmentChecks ----------------------------
(***************************************************************************)
(* The loops of QueueItem.cpp over bytes, compared in every state of a     *)
(* queued file with the closed forms of Segments, which count in blocks:   *)
(* the loops count in bytes and meet a short last block.                   *)
(***************************************************************************)
EXTENDS SegmentStates, Sequences

LOCAL S == INSTANCE SequencesExt

CONSTANTS
    BlockSize,      \* bytes in a tree block
    Size,           \* bytes in the file
    MaxParts        \* the parts that fit into what getPartialInfo sends: 510 numbers

(* Util::roundDown rounds to the nearest multiple. *)
RoundDown(n, blockSize) == ((n + (blockSize \div 2)) \div blockSize) * blockSize
RoundUp(n, blockSize) == ((n + blockSize - 1) \div blockSize) * blockSize
Lesser(m, n) == IF m < n THEN m ELSE n

ASSUME SizeAssumption ==
    /\ {BlockSize, Size, MaxParts} \subseteq Nat \ {0}
    /\ Blocks = RoundUp(Size, BlockSize) \div BlockSize

InBytes(s) == <<BlockSize * Begin(s), Lesser(Size, BlockSize * End(s))>>
AllInBytes(T) == {InBytes(s) : s \in T}

-----------------------------------------------------------------------------
(* QueueItem::addSegment as it is written, over the set in its order. *)
AddSegmentLoop(d, seg) ==
    LET Join(acc, s) == IF acc # <<>> /\ End(S!Last(acc)) >= Begin(s)
                        THEN Append(S!Front(acc), <<Begin(S!Last(acc)), End(s)>>)
                        ELSE Append(acc, s)
    IN  S!ToSet(S!FoldLeft(Join, <<>>, S!SetToSortSeq(d \cup {seg}, Before)))

BlockAt(start, cur) == <<start, Lesser(Size, start + cur)>>

(* Its test of a block: one of a single tree block must be done as a whole to be passed over. *)
Taken(d, b, blockSize, start, cur) ==
    LET block == BlockAt(start, cur)
    IN  \/ \E s \in d : IF cur <= blockSize THEN Begin(s) <= start /\ End(s) >= End(block)
                                            ELSE Overlaps(block, s)
        \/ \E s \in b : Overlaps(block, s)

(* QueueItem::getNextSegment with MULTI_CHUNK: the search for a block of the wanted size. *)
NextChunkLoop(d, b, blockSize, target) ==
    LET RECURSIVE From(_, _)
        From(start, cur) ==
            IF start >= Size THEN NoSegment
            ELSE IF ~Taken(d, b, blockSize, start, cur) THEN BlockAt(start, cur)
            ELSE IF cur > blockSize THEN From(start, cur - blockSize)
            ELSE From(End(BlockAt(start, cur)), target)
    IN  From(0, target)

(* Slip: parts are joined over what lies between them. *)
WithPartAcross(needed, s) ==
    IF needed # <<>> THEN Append(S!Front(needed), <<Begin(S!Last(needed)), End(s)>>)
    ELSE Append(needed, s)

(* neededParts, with one more part: adjoining ones become one. *)
WithPart(needed, s) ==
    IF needed # <<>> /\ Begin(s) = End(S!Last(needed)) /\ End(s) > Begin(s)
    THEN Append(S!Front(needed), <<Begin(S!Last(needed)), End(s)>>)
    ELSE Append(needed, s)

(***************************************************************************)
(* QueueItem::getNextSegment for a partial source, with what it has said   *)
(* it has: all that it has of the blocks of the wanted size that are free, *)
(* and of these one at random. Here the wanted size stays as it is.        *)
(***************************************************************************)
PartialChunks(d, b, parts, target) ==
    LET theirs == [j \in DOMAIN parts |-> InBytes(parts[j])]
        starts == [k \in 1 .. RoundUp(Size, target) \div target |-> (k - 1) * target]
        Needed(needed, start) ==
            LET block == BlockAt(start, target)
                AddPart(acc, p) ==
                    IF \/ Begin(p) <= start /\ start < End(p)
                       \/ start <= Begin(p) /\ Begin(p) < End(block)
                    THEN WithPart(acc, <<IF start < Begin(p) THEN Begin(p) ELSE start,
                                         Lesser(End(block), End(p))>>)
                    ELSE acc
            IN  IF Taken(d, b, BlockSize, start, target) THEN needed
                ELSE S!FoldLeft(AddPart, needed, theirs)
        all == S!FoldLeft(Needed, <<>>, starts)
    IN  IF all = <<>> THEN {NoSegment}
        ELSE {<<Begin(s), Lesser(End(s), Begin(s) + target)>> : s \in S!ToSet(all)}

(* QueueItem::getNextSegment without it, for an item with no download. *)
SingleChunkLoop(d, blockSize) ==
    LET order == S!SetToSortSeq(d, Before)
        start == IF d # {} /\ Begin(order[1]) = 0 THEN RoundDown(End(order[1]), blockSize) ELSE 0
        end == IF d # {} /\ Begin(order[1]) > 0 THEN RoundUp(Begin(order[1]), blockSize)
               ELSE IF Len(order) > 1 THEN RoundUp(Begin(order[2]), blockSize) ELSE Size
    IN  <<start, Lesser(Size, end)>>

(* QueueItem::getPartialInfo: the first done segments in blocks, as sent to other sources of the file. *)
PartialInfo(d) ==
    LET order == S!SetToSortSeq(d, Before)
    IN  [n \in 1 .. Lesser(Len(order), MaxParts) |->
            <<Begin(order[n]) \div BlockSize, (End(order[n]) - 1) \div BlockSize + 1>>]

(* Slip: a part that begins in a done segment needs nothing. *)
IsSourceByStart(d, parts) ==
    \E j \in DOMAIN parts :
        ~\E s \in d : Begin(s) <= Begin(parts[j]) * BlockSize /\ Begin(parts[j]) * BlockSize < End(s)

(* QueueItem::isSource(partsInfo): the done segments and the parts are walked through together. *)
IsSource(d, parts) ==
    LET order == S!SetToSortSeq(d, Before)
        RECURSIVE Walk(_, _)
        Walk(i, j) ==
            IF j > Len(parts) THEN FALSE
            ELSE IF i <= Len(order) /\ End(order[i]) <= Begin(parts[j]) * BlockSize THEN Walk(i + 1, j)
            ELSE \/ i > Len(order)
                 \/ ~(Begin(order[i]) <= Begin(parts[j]) * BlockSize
                        /\ End(order[i]) >= End(parts[j]) * BlockSize)
                 \/ Walk(i, j + 1)
    IN  Walk(1, 1)

-----------------------------------------------------------------------------
(* Counted in bytes or in blocks, by loop or at once, addSegment gives the same segments. *)
AddSegmentAgrees ==
    \A s \in AllSegments :
        AllInBytes(AddSegment(done, s)) = AddSegmentLoop(AllInBytes(done), InBytes(s))

(* getNextSegment too: in every setting, for every wanted size, with and without a tree. *)
NextSegmentAgrees ==
    LET d == AllInBytes(done) b == AllInBytes(busy) IN
    /\ \A n \in 1 .. Blocks :
        AllInBytes(NextChunk(done, busy, Blocks, n)) = {NextChunkLoop(d, b, BlockSize, n * BlockSize)}
    /\ AllInBytes(WholeFile(done, busy, Blocks)) = {NextChunkLoop(d, b, Size, Size)}
    /\ ~Complete(done, Blocks) =>
        /\ AllInBytes(SingleChunk(done, Blocks)) = {SingleChunkLoop(d, BlockSize)}
        /\ LET s == SingleChunkLoop(d, Size) IN
            AllInBytes(SingleWhole(done, Blocks)) = {IF Length(s) = 0 THEN NoSegment ELSE s}

(***************************************************************************)
(* QueueItem.h:205, "Is specified parts needed by this download?": a       *)
(* partial source that has a block that is not done yet is never turned    *)
(* away. parts is what another downloader of the file that has the blocks  *)
(* of have says in getPartialInfo.                                         *)
(***************************************************************************)
Separate(T) == \A s, t \in T : s # t => End(s) < Begin(t) \/ End(t) < Begin(s)
Haves == {T \in SUBSET AllSegments : Separate(T)}
NeededIsSource ==
    \A have \in Haves :
        ~(Covered(have) \subseteq Covered(done)) => IsSource(AllInBytes(done), PartialInfo(AllInBytes(have)))

(***************************************************************************)
(* What is asked of a partial source it has, and it is neither done nor    *)
(* being downloaded (QueueItem.h:219), in whole blocks (the assertions at  *)
(* QueueItem.cpp:200), and no more than wanted; a source that has a free   *)
(* block is not sent away when single blocks are wanted. When more is      *)
(* wanted it may be: a block of that size that is partly taken is passed   *)
(* over.                                                                   *)
(***************************************************************************)
PartialSegmentIsTheirs ==
    \A have \in Haves, n \in 1 .. Blocks :
        LET parts == PartialInfo(AllInBytes(have))
            free == Covered(have) \ (Covered(done) \cup Covered(busy))
            asked == PartialChunks(AllInBytes(done), AllInBytes(busy), parts, n * BlockSize)
        IN  /\ asked \ {NoSegment} \subseteq
                    {InBytes(s) : s \in {t \in AllSegments : BlocksOf(t) \subseteq free /\ Length(t) <= n}}
            /\ n = 1 => (NoSegment \in asked <=> free = {})
==============================================================================
