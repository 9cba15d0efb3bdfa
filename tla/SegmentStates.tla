---------------------------- MODULE SegmentStates ----------------------------
(***************************************************************************)
(* The states of one queued file as downloads take segments of it and give *)
(* them back, whole, in part, or late, after the queue has forgotten them. *)
(* Counted in blocks, with the closed forms of Segments; SegmentChecks     *)
(* compares them in each of these states with the loops over bytes.        *)
(***************************************************************************)
EXTENDS Segments, FiniteSets

CONSTANTS
    Blocks,         \* tree blocks in the file
    MaxBusy,        \* the most downloads at a time
    MaxLate         \* the most forgotten ones

ASSUME StatesAssumption == {Blocks, MaxBusy} \subseteq Nat \ {0} /\ MaxLate \in Nat

VARIABLES
    done,   \* QueueItem::done
    busy,   \* the segments of QueueItem::downloads
    late    \* the segments of downloads whose source has been removed

vars == <<done, busy, late>>

Whole == 0 .. Blocks - 1
AllSegments == {s \in (0 .. Blocks) \X (0 .. Blocks) : Begin(s) < End(s)}

-----------------------------------------------------------------------------
Init == done = {} /\ busy = {} /\ late = {}

(* getNextSegment and addDownload. *)
Take(n) ==
    /\ Cardinality(busy) < MaxBusy
    /\ \E s \in NextChunk(done, busy, Blocks, n) \ {NoSegment} : busy' = busy \cup {s}
    /\ UNCHANGED <<done, late>>

(* The same for an overlap, from the block that the slow download s is in. *)
TakeOver(s, pos) ==
    /\ Cardinality(busy) < MaxBusy /\ pos < Length(s)
    /\ NextChunk(done, busy, Blocks, 1) = {NoSegment}
    /\ busy' = busy \cup {<<Begin(s) + pos, End(s)>>}
    /\ UNCHANGED <<done, late>>

(* Slip: more than the segment may count as done. *)
PutBeyond(s, pos) ==
    /\ done' = IF pos = 0 THEN done ELSE AddSegment(done, <<Begin(s), Begin(s) + pos>>)
    /\ \/ s \in busy /\ busy' = busy \ {s} /\ UNCHANGED late
       \/ s \in late /\ late' = late \ {s} /\ UNCHANGED busy

(* putDownload: what arrived counts as done. *)
Put(s, pos) ==
    /\ pos <= Length(s)
    /\ done' = IF pos = 0 THEN done ELSE AddSegment(done, <<Begin(s), Begin(s) + pos>>)
    /\ \/ s \in busy /\ busy' = busy \ {s} /\ UNCHANGED late
       \/ s \in late /\ late' = late \ {s} /\ UNCHANGED busy

(* removeSource: the download goes on for a while. *)
Forget(s) ==
    /\ Cardinality(late) < MaxLate
    /\ busy' = busy \ {s} /\ late' = late \cup {s}
    /\ UNCHANGED done

Next ==
    \/ \E n \in 1 .. Blocks : Take(n)
    \/ \E s \in busy : Forget(s) \/ \E pos \in 0 .. Blocks : TakeOver(s, pos)
    \/ \E s \in busy \cup late, pos \in 0 .. Blocks : Put(s, pos)

Spec == Init /\ [][Next]_vars

-----------------------------------------------------------------------------
(* Every segment is in the file, and none is empty. *)
TypeOK == done \subseteq AllSegments /\ busy \subseteq AllSegments /\ late \subseteq AllSegments

(***************************************************************************)
(* QueueItem.h:219: the next segment is neither done nor being downloaded, *)
(* and it is empty only if there is none.                                  *)
(***************************************************************************)
NextSegmentIsFree ==
    LET free == Whole \ (Covered(done) \cup Covered(busy)) IN
    /\ \A n \in 1 .. Blocks : \A s \in NextChunk(done, busy, Blocks, n) :
        BlocksOf(s) \subseteq free /\ (BlocksOf(s) = {} <=> free = {})
    /\ ~Complete(done, Blocks) => \A s \in SingleChunk(done, Blocks) :
        BlocksOf(s) # {} /\ BlocksOf(s) \cap Covered(done) = {}

(***************************************************************************)
(* addSegment makes nothing up, and forgets blocks only in one case: a     *)
(* segment lies inside another one and ends before it.                     *)
(***************************************************************************)
NothingMadeUp ==
    \A s \in AllSegments :
        LET sum == AddSegment(done, s) IN
        /\ Covered(sum) \subseteq Covered(done) \cup BlocksOf(s)
        /\ \A t \in sum, u \in sum : t # u => End(t) < Begin(u) \/ End(u) < Begin(t)
        /\ \/ Covered(sum) = Covered(done) \cup BlocksOf(s)
           \/ \E t \in done : Begin(t) < Begin(s) /\ End(s) < End(t)
           \/ \E t \in done : Begin(s) < Begin(t) /\ End(t) < End(s)
==============================================================================
