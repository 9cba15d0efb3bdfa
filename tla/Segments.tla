------------------------------ MODULE Segments ------------------------------
(***************************************************************************)
(* Segment.h and the segment arithmetic of QueueItem.cpp, counted in tree  *)
(* blocks: every segment the queue stores or hands out starts and ends on  *)
(* a block boundary (the last block may be short), so a segment is a pair  *)
(* <<start, end>> of block numbers, end excluded.                          *)
(*                                                                         *)
(* The loops of the code are written here in closed form, so that they can *)
(* be used in proofs; SegmentChecks compares them with the loops.          *)
(***************************************************************************)
EXTENDS Integers

Begin(s) == s[1]
End(s) == s[2]
Length(s) == s[2] - s[1]

NoSegment == <<0, 0>>

BlocksOf(s) == Begin(s) .. End(s) - 1
Covered(S) == UNION {BlocksOf(s) : s \in S}

Overlaps(s, t) == Begin(s) < End(t) /\ Begin(t) < End(s)

(* A slow download's segment contains the faster one's when both end at the same place. *)
Contains(s, t) == Begin(s) <= Begin(t) /\ End(s) = End(t)

(* operator<: by start, then by size. *)
Before(s, t) ==
    \/ Begin(s) < Begin(t)
    \/ Begin(s) = Begin(t) /\ End(s) < End(t)

(* s is the element just before t in the ordered set S. *)
Precedes(S, s, t) == Before(s, t) /\ ~\E x \in S : Before(s, x) /\ Before(x, t)

(* Slips: adjoining segments are left apart; everything in between is counted in. *)
AddSegmentApart(done, seg) ==
    {d \in done \cup {seg} : \A e \in done \cup {seg} : BlocksOf(d) \subseteq BlocksOf(e) => d = e}
AddSegmentHull(done, seg) ==
    LET b == Covered(done \cup {seg})
    IN  {<<p[1], p[2] + 1>> : p \in {q \in b \X b : \A z \in b : q[1] <= z /\ z <= q[2]}}

(***************************************************************************)
(* QueueItem::addSegment: insert, then merge from left to right every      *)
(* element that begins no later than the previous one ends. The merged     *)
(* segment takes the end of the RIGHT element, whichever ends last.        *)
(***************************************************************************)
AddSegment(done, seg) ==
    LET S == done \cup {seg}
        Joins(s, t) == Precedes(S, s, t) /\ End(s) >= Begin(t)
        Firsts == {t \in S : ~\E s \in S : Joins(s, t)}
        Lasts == {s \in S : ~\E t \in S : Joins(s, t)}
        OneRun(f, l) == /\ ~Before(l, f)
                        /\ ~\E g \in Firsts : Before(f, g) /\ ~Before(l, g)
    IN  {<<Begin(p[1]), End(p[2])>> :
            p \in {q \in Firsts \X Lasts : OneRun(q[1], q[2])}}

(* Slip: the last block is there. *)
CompleteAtEnd(done, size) == \E s \in done : End(s) = size

(* QueueItem::isFinished for a file of size blocks. *)
Complete(done, size) == done = {<<0, size>>}

(***************************************************************************)
(* QueueItem::getNextSegment with MULTI_CHUNK and no partial source: the   *)
(* first block that is neither done nor being downloaded, extended as far  *)
(* as such blocks go, up to target blocks; no blocks when there is none.   *)
(* busy is the set of segments of the item's downloads. The one result is  *)
(* given as a set.                                                         *)
(***************************************************************************)
NextChunk(done, busy, size, target) ==
    LET free == (0 .. size - 1) \ (Covered(done) \cup Covered(busy))
        Fits(c) == /\ Begin(c) \in free /\ \A b \in free : Begin(c) <= b
                   /\ Begin(c) < End(c) /\ BlocksOf(c) \subseteq free
                   /\ Length(c) <= target
                   /\ Length(c) = target \/ End(c) \notin free
    IN  IF free = {} THEN {NoSegment} ELSE {c \in (0 .. size) \X (0 .. size) : Fits(c)}

(* Slip: a running download counts only when it holds the whole file. *)
WholeFileShared(done, busy, size) ==
    IF <<0, size>> \in done \cup busy THEN {NoSegment} ELSE {<<0, size>>}

(* The same with a tree of one leaf: the only block is the whole file. *)
WholeFile(done, busy, size) ==
    IF \/ \E d \in done : Begin(d) = 0 /\ End(d) >= size
       \/ \E b \in busy : Overlaps(<<0, size>>, b)
    THEN {NoSegment}
    ELSE {<<0, size>>}

(* Slip: the second segment is not looked at. *)
SingleChunkToEnd(done, size) ==
    {<<IF Begin(s) = 0 THEN End(s) ELSE 0, size>> :
        s \in {t \in done : ~\E x \in done : Before(x, t)} \cup ({NoSegment} \ done)}

(***************************************************************************)
(* QueueItem::getNextSegment without MULTI_CHUNK, for an item that has no  *)
(* download: the gap before the first done segment, the one between the    *)
(* first and the second, or what follows the only one.                     *)
(***************************************************************************)
SingleChunk(done, size) ==
    LET firsts == {s \in done : ~\E t \in done : Before(t, s)}
        AtZero == {s \in firsts : Begin(s) = 0}
        UpTo(e) == IF e < size THEN e ELSE size
    IN  (IF done = {} THEN {<<0, size>>} ELSE {})
        \cup {<<0, UpTo(Begin(s))>> : s \in firsts \ AtZero}
        \cup {<<End(s), size>> : s \in {t \in AtZero : done = {t}}}
        \cup {<<End(p[1]), UpTo(Begin(p[2]))>> :
                  p \in {q \in AtZero \X done : Precedes(done, q[1], q[2])}}

(* The same with a tree of one leaf: roundDown, which rounds to the nearest, decides. *)
SingleWhole(done, size) ==
    IF \E s \in done : /\ Begin(s) = 0 /\ End(s) + size \div 2 >= size
                       /\ ~\E t \in done : Before(t, s)
    THEN {NoSegment}
    ELSE {<<0, size>>}
=============================================================================
