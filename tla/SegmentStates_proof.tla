------------------------ MODULE SegmentStates_proof ------------------------
(***************************************************************************)
(* What holds of the segments of one queued file through any order of      *)
(* downloads, for a file of any size.                                      *)
(***************************************************************************)
EXTENDS SegmentStates, Segments_proof

(* What is done lies apart: no two of its segments overlap or adjoin. *)
Apart == \A s, t \in done : s # t => End(s) < Begin(t) \/ End(t) < Begin(s)

(* The invariant: without the second part, addSegment could lose blocks. *)
SegInv == TypeOK /\ Apart

-----------------------------------------------------------------------------
(* In blocks of the file, for the theorems about the operators. *)
LEMMA InFile ==
    ASSUME TypeOK
    PROVE  /\ Blocks \in Nat /\ Blocks > 0
           /\ done \in SUBSET ((0 .. Blocks) \X (0 .. Blocks))
           /\ \A s \in done \cup busy \cup late : s \in AllSegments
           /\ \A s \in AllSegments : s \in (0 .. Blocks) \X (0 .. Blocks) /\ Begin(s) < End(s)
  BY StatesAssumption DEF TypeOK, AllSegments

(* addSegment of a segment that is not empty leaves no empty one. *)
LEMMA AddSegmentFull ==
    ASSUME TypeOK, NEW seg \in AllSegments, NEW d \in AddSegment(done, seg)
    PROVE  d \in AllSegments
  <1> DEFINE S == done \cup {seg}
             Runs == {q \in S \X S : IsRun(S, q[1], q[2])}
  <1>1. AddSegment(done, seg) = {<<Begin(q[1]), End(q[2])>> : q \in Runs}
    BY AddSegmentRuns
  <1>2. PICK q \in Runs : d = <<Begin(q[1]), End(q[2])>>
    <2> HIDE DEF Runs
    <2> QED
      BY <1>1
  <1>3. q[1] \in S /\ q[2] \in S /\ ~Before(q[2], q[1])
    BY DEF IsRun
  <1>4. \A s \in S : s \in (0 .. Blocks) \X (0 .. Blocks) /\ Begin(s) < End(s)
    BY InFile
  <1>5. Begin(q[1]) <= Begin(q[2]) /\ Begin(q[2]) < End(q[2])
    <2>1. q[1] \in (0 .. Blocks) \X (0 .. Blocks) /\ q[2] \in (0 .. Blocks) \X (0 .. Blocks)
      BY <1>3, <1>4
    <2> QED
      BY <1>3, <1>4, <2>1 DEF Before, Begin, End
  <1>6. Begin(q[1]) \in 0 .. Blocks /\ Begin(q[2]) \in 0 .. Blocks /\ End(q[2]) \in 0 .. Blocks
    BY <1>3, <1>4 DEF Begin, End
  <1>7. Begin(d) = Begin(q[1]) /\ End(d) = End(q[2]) /\ d \in (0 .. Blocks) \X (0 .. Blocks)
    BY <1>2, <1>6 DEF Begin, End
  <1>8. Begin(d) < End(d)
    BY <1>5, <1>6, <1>7
  <1> QED
    BY <1>7, <1>8 DEF AllSegments

(* The invariant for what addSegment returns. *)
LEMMA AddSegmentInv ==
    ASSUME TypeOK, NEW seg \in AllSegments
    PROVE  /\ AddSegment(done, seg) \subseteq AllSegments
           /\ \A t, u \in AddSegment(done, seg) : t # u => End(t) < Begin(u) \/ End(u) < Begin(t)
  <1>1. AddSegment(done, seg) \subseteq AllSegments
    BY AddSegmentFull
  <1>2. seg \in (0 .. Blocks) \X (0 .. Blocks)
    BY InFile
  <1> QED
    BY <1>1, <1>2, InFile, AddSegmentSeparates

-----------------------------------------------------------------------------
LEMMA TakeInv ==
    ASSUME SegInv, NEW n \in 1 .. Blocks, Take(n)
    PROVE  SegInv'
  <1> USE DEF SegInv
  <1>1. PICK s \in NextChunk(done, busy, Blocks, n) \ {NoSegment} : busy' = busy \cup {s}
    BY DEF Take
  <1>2. n \in Nat \ {0}
    BY InFile
  <1> DEFINE free == (0 .. Blocks - 1) \ (Covered(done) \cup Covered(busy))
  <1>3. PICK c \in (0 .. Blocks) \X (0 .. Blocks) :
                /\ NextChunk(done, busy, Blocks, n) = {c}
                /\ free # {} => Begin(c) \in BlocksOf(c)
    BY <1>2, InFile, NextChunkIsFree
  <1>4. s = c /\ free # {}
    <2>1. free = {} => NextChunk(done, busy, Blocks, n) = {NoSegment}
      BY DEF NextChunk
    <2> HIDE DEF free
    <2> QED
      BY <1>1, <1>3, <2>1
  <1>5. s \in AllSegments
    <2>1. Begin(c) \in BlocksOf(c)
      BY <1>3, <1>4
    <2>2. Begin(c) < End(c)
      BY <2>1 DEF BlocksOf, Begin, End
    <2> QED
      BY <1>4, <2>2 DEF AllSegments
  <1> QED
    BY <1>1, <1>5 DEF Take, TypeOK, Apart

LEMMA TakeOverInv ==
    ASSUME SegInv, NEW s \in busy, NEW pos \in 0 .. Blocks, TakeOver(s, pos)
    PROVE  SegInv'
  <1>1. s \in (0 .. Blocks) \X (0 .. Blocks)
    BY InFile DEF SegInv
  <1>2. Begin(s) + pos \in 0 .. Blocks /\ End(s) \in 0 .. Blocks /\ Begin(s) + pos < End(s)
    <2>1. Begin(s) \in 0 .. Blocks /\ End(s) \in 0 .. Blocks /\ Blocks \in Nat
      BY <1>1, InFile DEF SegInv, Begin, End
    <2>2. pos < End(s) - Begin(s)
      BY DEF TakeOver, Begin, End, Length
    <2> QED
      BY <2>1, <2>2
  <1>3. <<Begin(s) + pos, End(s)>> \in AllSegments
    BY <1>2 DEF AllSegments, Begin, End
  <1> QED
    BY <1>3 DEF TakeOver, SegInv, TypeOK, Apart

LEMMA PutInv ==
    ASSUME SegInv, NEW s \in busy \cup late, NEW pos \in 0 .. Blocks, Put(s, pos)
    PROVE  SegInv'
  <1>1. busy' \subseteq busy /\ late' \subseteq late
    BY DEF Put
  <1>2. CASE pos = 0
    <2>1. done' = done
      BY <1>2 DEF Put
    <2> QED
      BY <1>1, <2>1 DEF SegInv, TypeOK, Apart
  <1>3. CASE pos # 0
    <2> DEFINE seg == <<Begin(s), Begin(s) + pos>>
    <2>1. done' = AddSegment(done, seg)
      BY <1>3 DEF Put
    <2>2. s \in (0 .. Blocks) \X (0 .. Blocks)
      BY InFile DEF SegInv
    <2>3. Begin(s) \in 0 .. Blocks /\ Begin(s) + pos \in 0 .. Blocks /\ Begin(s) < Begin(s) + pos
      <3>1. Begin(s) \in 0 .. Blocks /\ End(s) \in 0 .. Blocks /\ Blocks \in Nat
        BY <2>2, InFile DEF SegInv, Begin, End
      <3>2. pos <= End(s) - Begin(s)
        BY DEF Put, Begin, End, Length
      <3> QED
        BY <1>3, <3>1, <3>2
    <2>4. seg \in AllSegments
      BY <2>3 DEF AllSegments, Begin, End
    <2> HIDE DEF seg
    <2>5. done' \subseteq AllSegments /\ Apart'
      BY <2>1, <2>4, AddSegmentInv DEF SegInv, Apart
    <2> QED
      BY <1>1, <2>5 DEF SegInv, TypeOK
  <1> QED
    BY <1>2, <1>3

LEMMA ForgetInv ==
    ASSUME SegInv, NEW s \in busy, Forget(s)
    PROVE  SegInv'
  BY DEF SegInv, Forget, TypeOK, Apart

LEMMA SegStep == SegInv /\ [Next]_vars => SegInv'
  <1> SUFFICES ASSUME SegInv, [Next]_vars PROVE SegInv'
    OBVIOUS
  <1>1. CASE Next
    BY <1>1, TakeInv, TakeOverInv, PutInv, ForgetInv DEF Next
  <1>2. CASE UNCHANGED vars
    BY <1>2 DEF vars, SegInv, TypeOK, Apart
  <1> QED
    BY <1>1, <1>2

LEMMA SegInvariance == Spec => []SegInv
  <1>1. Init => SegInv
    BY DEF Init, SegInv, TypeOK, Apart
  <1> QED
    BY <1>1, SegStep, PTL DEF Spec

(***************************************************************************)
(* Every segment that is done, being downloaded, or late, is a segment of  *)
(* the file and not empty: overlaps, parts and late answers included.      *)
(***************************************************************************)
THEOREM SegmentsTyped == Spec => []TypeOK
  <1>1. SegInv => TypeOK
    BY DEF SegInv
  <1> QED
    BY <1>1, SegInvariance, PTL

-----------------------------------------------------------------------------
(* In what lies apart no segment lies inside another, and with one more only that one can. *)
LEMMA NestedIsNew ==
    ASSUME SegInv, NEW seg \in AllSegments,
           NEW s \in done \cup {seg}, NEW t \in done \cup {seg},
           Begin(s) < Begin(t), End(t) < End(s)
    PROVE  \/ \E x \in done : Begin(x) < Begin(seg) /\ End(seg) < End(x)
           \/ \E x \in done : Begin(seg) < Begin(x) /\ End(x) < End(seg)
  <1>1. \A x \in done \cup {seg} : x \in (0 .. Blocks) \X (0 .. Blocks) /\ Begin(x) < End(x)
    BY InFile DEF SegInv
  <1>2. CASE s \in done /\ t \in done
    <2>1. End(s) < Begin(t) \/ End(t) < Begin(s) \/ s = t
      BY <1>2 DEF SegInv, Apart
    <2>2. /\ Begin(s) \in Nat /\ End(s) \in Nat /\ Begin(t) \in Nat /\ End(t) \in Nat
          /\ Begin(t) < End(t)
      BY <1>1 DEF Begin, End
    <2> QED
      BY <2>1, <2>2
  <1>3. CASE s \notin done /\ t \notin done
    <2>1. Begin(s) \in Nat
      BY <1>1 DEF Begin
    <2> QED
      BY <1>3, <2>1
  <1> QED
    BY <1>2, <1>3

(***************************************************************************)
(* NothingMadeUp always holds: addSegment makes nothing up, leaves its     *)
(* segments apart, and forgets blocks only when the new segment lies       *)
(* strictly inside a done one, or one of these inside it.                  *)
(***************************************************************************)
THEOREM NothingIsMadeUp == Spec => []NothingMadeUp
  <1>1. SegInv => NothingMadeUp
    <2> SUFFICES ASSUME SegInv, NEW s \in AllSegments
                 PROVE  LET sum == AddSegment(done, s) IN
                        /\ Covered(sum) \subseteq Covered(done) \cup BlocksOf(s)
                        /\ \A t \in sum, u \in sum : t # u => End(t) < Begin(u) \/ End(u) < Begin(t)
                        /\ \/ Covered(sum) = Covered(done) \cup BlocksOf(s)
                           \/ \E t \in done : Begin(t) < Begin(s) /\ End(s) < End(t)
                           \/ \E t \in done : Begin(s) < Begin(t) /\ End(t) < End(s)
      BY DEF NothingMadeUp
    <2>1. /\ Blocks \in Nat /\ done \in SUBSET ((0 .. Blocks) \X (0 .. Blocks))
          /\ s \in (0 .. Blocks) \X (0 .. Blocks)
      BY InFile DEF SegInv
    <2>2. Covered(AddSegment(done, s)) \subseteq Covered(done) \cup BlocksOf(s)
      BY <2>1, AddSegmentCovers
    <2>3. \A t \in AddSegment(done, s), u \in AddSegment(done, s) :
                t # u => End(t) < Begin(u) \/ End(u) < Begin(t)
      BY AddSegmentInv DEF SegInv
    <2>4. \/ Covered(AddSegment(done, s)) = Covered(done) \cup BlocksOf(s)
          \/ \E x, y \in done \cup {s} : Begin(x) < Begin(y) /\ End(y) < End(x)
      BY <2>1, AddSegmentKeeps
    <2> QED
      BY <2>2, <2>3, <2>4, NestedIsNew
  <1> QED
    BY <1>1, SegInvariance, PTL

-----------------------------------------------------------------------------
(* What is not finished leaves room before, between or after its first two segments. *)
LEMMA SingleChunkIsFree ==
    ASSUME SegInv, ~Complete(done, Blocks), NEW s \in SingleChunk(done, Blocks)
    PROVE  BlocksOf(s) # {} /\ BlocksOf(s) \cap Covered(done) = {}
  <1> DEFINE firsts == {x \in done : ~\E y \in done : Before(y, x)}
             AtZero == {x \in firsts : Begin(x) = 0}
             UpTo(e) == IF e < Blocks THEN e ELSE Blocks
  <1>1. \/ done = {} /\ s = <<0, Blocks>>
        \/ \E f \in firsts \ AtZero : s = <<0, UpTo(Begin(f))>>
        \/ \E f \in AtZero : done = {f} /\ s = <<End(f), Blocks>>
        \/ \E f \in AtZero, t \in done : Precedes(done, f, t) /\ s = <<End(f), UpTo(Begin(t))>>
    BY DEF SingleChunk
  <1>2. /\ Blocks \in Nat /\ Blocks > 0
        /\ \A x \in done : /\ x = <<Begin(x), End(x)>>
                           /\ Begin(x) \in 0 .. Blocks /\ End(x) \in 0 .. Blocks /\ Begin(x) < End(x)
    <2>1. \A x \in done : x \in (0 .. Blocks) \X (0 .. Blocks) /\ Begin(x) < End(x)
      BY InFile DEF SegInv
    <2> QED
      BY <2>1, InFile DEF SegInv, Begin, End
  <1>3. SUFFICES ASSUME s[1] \in Nat, s[2] \in Nat,
                        s[1] < s[2], \A x \in done : End(x) <= s[1] \/ s[2] <= Begin(x)
                 PROVE  BlocksOf(s) # {} /\ BlocksOf(s) \cap Covered(done) = {}
    <2> SUFFICES /\ s[1] \in Nat /\ s[2] \in Nat /\ s[1] < s[2]
                 /\ \A x \in done : End(x) <= s[1] \/ s[2] <= Begin(x)
      OBVIOUS
    <2>1. CASE done = {} /\ s = <<0, Blocks>>
      BY <1>2, <2>1
    <2>2. ASSUME NEW f \in firsts \ AtZero, s = <<0, UpTo(Begin(f))>>
          PROVE  /\ s[1] \in Nat /\ s[2] \in Nat /\ s[1] < s[2]
                 /\ \A x \in done : End(x) <= s[1] \/ s[2] <= Begin(x)
      <3>1. f \in done /\ Begin(f) # 0 /\ \A x \in done : ~Before(x, f)
        OBVIOUS
      <3>2. \A x \in done : Begin(f) <= Begin(x)
        BY <1>2, <3>1 DEF Before
      <3>3. s[1] = 0 /\ s[2] = Begin(f)
        BY <1>2, <2>2, <3>1
      <3> QED
        BY <1>2, <3>1, <3>2, <3>3
    <2>3. ASSUME NEW f \in AtZero, done = {f}, s = <<End(f), Blocks>>
          PROVE  /\ s[1] \in Nat /\ s[2] \in Nat /\ s[1] < s[2]
                 /\ \A x \in done : End(x) <= s[1] \/ s[2] <= Begin(x)
      <3>1. f \in done /\ Begin(f) = 0
        OBVIOUS
      <3>2. End(f) # Blocks
        BY <1>2, <2>3, <3>1 DEF Complete
      <3> QED
        BY <1>2, <2>3, <3>1, <3>2
    <2>4. ASSUME NEW f \in AtZero, NEW t \in done, Precedes(done, f, t), s = <<End(f), UpTo(Begin(t))>>
          PROVE  /\ s[1] \in Nat /\ s[2] \in Nat /\ s[1] < s[2]
                 /\ \A x \in done : End(x) <= s[1] \/ s[2] <= Begin(x)
      <3>1. f \in done /\ Begin(f) = 0 /\ Before(f, t)
        BY <2>4 DEF Precedes
      <3>2. f # t
        BY <1>2, <3>1 DEF Before
      <3>3. End(f) < Begin(t)
        <4>1. End(f) < Begin(t) \/ End(t) < Begin(f)
          BY <3>1, <3>2 DEF SegInv, Apart
        <4> QED
          BY <1>2, <3>1, <4>1
      <3>4. s[1] = End(f) /\ s[2] = Begin(t)
        BY <1>2, <2>4, <3>3
      <3>5. ASSUME NEW x \in done PROVE End(x) <= s[1] \/ s[2] <= Begin(x)
        <4>1. CASE Before(f, x)
          <5>1. ~Before(x, t)
            BY <2>4, <4>1 DEF Precedes
          <5> QED
            BY <1>2, <3>4, <5>1 DEF Before
        <4>2. CASE ~Before(f, x)
          <5>1. ~Before(x, f)
            OBVIOUS
          <5>2. x = f
            BY <1>2, <3>1, <4>2, <5>1 DEF Before
          <5> QED
            BY <1>2, <3>4, <5>2
        <4> QED
          BY <4>1, <4>2
      <3> QED
        BY <1>2, <3>3, <3>4, <3>5
    <2> HIDE DEF firsts, AtZero, UpTo
    <2> QED
      BY <1>1, <2>1, <2>2, <2>3, <2>4
  <1>4. BlocksOf(s) = s[1] .. s[2] - 1
    BY DEF BlocksOf, Begin, End
  <1>5. s[1] \in BlocksOf(s)
    BY <1>3, <1>4
  <1>6. ASSUME NEW b \in BlocksOf(s), NEW x \in done, b \in BlocksOf(x) PROVE FALSE
    <2>1. b \in s[1] .. s[2] - 1 /\ b \in Begin(x) .. End(x) - 1
      BY <1>4, <1>6 DEF BlocksOf
    <2>2. Begin(x) \in Nat /\ End(x) \in Nat
      BY <1>2
    <2> QED
      BY <1>3, <2>1, <2>2
  <1> QED
    BY <1>5, <1>6 DEF Covered

(***************************************************************************)
(* NextSegmentIsFree always holds: with MULTI_CHUNK and without it, what   *)
(* getNextSegment gives out is neither done nor being downloaded, and is   *)
(* empty only if nothing is left; whatever was taken over, given back in   *)
(* part, or came late, in a file of any size.                              *)
(***************************************************************************)
THEOREM NextSegmentStaysFree == Spec => []NextSegmentIsFree
  <1>1. SegInv => NextSegmentIsFree
    <2> SUFFICES ASSUME SegInv PROVE NextSegmentIsFree
      OBVIOUS
    <2> DEFINE free == Whole \ (Covered(done) \cup Covered(busy))
    <2>1. ASSUME NEW n \in 1 .. Blocks, NEW s \in NextChunk(done, busy, Blocks, n)
          PROVE  BlocksOf(s) \subseteq free /\ (BlocksOf(s) = {} <=> free = {})
      <3>1. n \in Nat \ {0} /\ Blocks \in Nat
        BY InFile DEF SegInv
      <3>2. PICK c \in (0 .. Blocks) \X (0 .. Blocks) :
                /\ NextChunk(done, busy, Blocks, n) = {c}
                /\ BlocksOf(c) \subseteq free
                /\ free # {} => Begin(c) \in BlocksOf(c)
        BY <3>1, NextChunkIsFree DEF Whole
      <3> HIDE DEF free
      <3>3. s = c
        BY <3>2
      <3> QED
        BY <3>2, <3>3
    <2>2. ASSUME ~Complete(done, Blocks), NEW s \in SingleChunk(done, Blocks)
          PROVE  BlocksOf(s) # {} /\ BlocksOf(s) \cap Covered(done) = {}
      BY <2>2, SingleChunkIsFree
    <2> QED
      BY <2>1, <2>2 DEF NextSegmentIsFree
  <1> QED
    BY <1>1, SegInvariance, PTL
=============================================================================
