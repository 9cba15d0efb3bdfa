--------------------------- MODULE Segments_proof ---------------------------
(***************************************************************************)
(* What addSegment does to the blocks of a file, for a file of any size    *)
(* and any segments.                                                       *)
(***************************************************************************)
EXTENDS Segments, FiniteSetTheorems, TLAPS

-----------------------------------------------------------------------------
(* Sets of block numbers have a first and a last element. *)
LEMMA LeastNumber ==
    ASSUME NEW n \in Nat, NEW T \in SUBSET (0 .. n), T # {}
    PROVE  \E m \in T : \A k \in T : m <= k
  <1> DEFINE Upto == {0 .. m : m \in T}
  <1>1. IsWellFoundedOn(StrictSubsetOrdering(0 .. n), FiniteSubsetsOf(0 .. n))
    BY FS_StrictSubsetOrderingWellFounded
  <1>2. Upto \subseteq FiniteSubsetsOf(0 .. n) /\ Upto # {}
    <2>1. ASSUME NEW m \in T PROVE IsFiniteSet(0 .. m)
      BY FS_Interval
    <2>2. ASSUME NEW m \in T PROVE 0 .. m \in SUBSET (0 .. n)
      OBVIOUS
    <2> QED
      BY <2>1, <2>2 DEF FiniteSubsetsOf
  <1>3. PICK x \in Upto : \A y \in Upto : ~(<<y, x>> \in StrictSubsetOrdering(0 .. n))
    <2> HIDE DEF Upto
    <2> QED
      BY <1>1, <1>2, WFMin
  <1>4. PICK m \in T : x = 0 .. m
    OBVIOUS
  <1>5. ASSUME NEW k \in T, k < m PROVE FALSE
    <2>1. 0 .. k \subseteq 0 .. m /\ 0 .. k # 0 .. m
      BY <1>5
    <2>2. <<0 .. k, 0 .. m>> \in StrictSubsetOrdering(0 .. n)
      BY <2>1 DEF StrictSubsetOrdering
    <2> QED
      BY <1>3, <1>4, <2>2
  <1> QED
    BY <1>5

LEMMA GreatestNumber ==
    ASSUME NEW n \in Nat, NEW T \in SUBSET (0 .. n), T # {}
    PROVE  \E m \in T : \A k \in T : k <= m
  <1> DEFINE mirror == {n - k : k \in T}
  <1>1. mirror \in SUBSET (0 .. n) /\ mirror # {}
    <2>1. \A k \in T : n - k \in 0 .. n
      OBVIOUS
    <2> QED
      BY <2>1
  <1>2. PICK x \in mirror : \A y \in mirror : x <= y
    <2> HIDE DEF mirror
    <2> QED
      BY <1>1, LeastNumber
  <1>3. PICK m \in T : x = n - m
    OBVIOUS
  <1>4. ASSUME NEW k \in T PROVE k <= m
    <2>1. n - k \in mirror
      OBVIOUS
    <2> HIDE DEF mirror
    <2>2. n - m <= n - k
      BY <1>2, <1>3, <2>1
    <2>3. k \in 0 .. n /\ m \in 0 .. n
      OBVIOUS
    <2> QED
      BY <2>2, <2>3
  <1> QED
    BY <1>4

-----------------------------------------------------------------------------
(* Sets of segments have a first and a last element. *)
LEMMA FirstSegment ==
    ASSUME NEW n \in Nat, NEW C \in SUBSET ((0 .. n) \X (0 .. n)), C # {}
    PROVE  \E s \in C : \A x \in C : ~Before(x, s)
  <1> DEFINE begins == {s[1] : s \in C}
  <1>1. begins \in SUBSET (0 .. n) /\ begins # {}
    OBVIOUS
  <1>2. PICK b \in begins : \A x \in begins : b <= x
    <2> HIDE DEF begins
    <2> QED
      BY <1>1, LeastNumber
  <1> DEFINE ends == {s[2] : s \in {t \in C : t[1] = b}}
  <1>3. ends \in SUBSET (0 .. n) /\ ends # {}
    OBVIOUS
  <1>4. PICK e \in ends : \A x \in ends : e <= x
    <2> HIDE DEF ends
    <2> QED
      BY <1>3, LeastNumber
  <1>5. PICK s \in C : s[1] = b /\ s[2] = e
    OBVIOUS
  <1>6. ASSUME NEW x \in C PROVE ~Before(x, s)
    <2>1. x[1] \in begins /\ (x[1] = b => x[2] \in ends)
      OBVIOUS
    <2>2. b <= x[1] /\ (x[1] = b => e <= x[2])
      BY <1>2, <1>4, <2>1
    <2> QED
      BY <1>5, <2>2 DEF Before, Begin, End
  <1> QED
    BY <1>6

LEMMA LastSegment ==
    ASSUME NEW n \in Nat, NEW C \in SUBSET ((0 .. n) \X (0 .. n)), C # {}
    PROVE  \E s \in C : \A x \in C : ~Before(s, x)
  <1> DEFINE begins == {s[1] : s \in C}
  <1>1. begins \in SUBSET (0 .. n) /\ begins # {}
    OBVIOUS
  <1>2. PICK b \in begins : \A x \in begins : x <= b
    <2> HIDE DEF begins
    <2> QED
      BY <1>1, GreatestNumber
  <1> DEFINE ends == {s[2] : s \in {t \in C : t[1] = b}}
  <1>3. ends \in SUBSET (0 .. n) /\ ends # {}
    OBVIOUS
  <1>4. PICK e \in ends : \A x \in ends : x <= e
    <2> HIDE DEF ends
    <2> QED
      BY <1>3, GreatestNumber
  <1>5. PICK s \in C : s[1] = b /\ s[2] = e
    OBVIOUS
  <1>6. ASSUME NEW x \in C PROVE ~Before(s, x)
    <2>1. x[1] \in begins /\ (x[1] = b => x[2] \in ends)
      OBVIOUS
    <2>2. x[1] <= b /\ (x[1] = b => x[2] <= e)
      BY <1>2, <1>4, <2>1
    <2> QED
      BY <1>5, <2>2 DEF Before, Begin, End
  <1> QED
    BY <1>6

(* operator< is a total order. *)
LEMMA BeforeTotal ==
    ASSUME NEW n \in Nat, NEW r \in (0 .. n) \X (0 .. n), NEW s \in (0 .. n) \X (0 .. n),
           NEW t \in (0 .. n) \X (0 .. n)
    PROVE  /\ s = t \/ Before(s, t) \/ Before(t, s)
           /\ ~(Before(s, t) /\ Before(t, s))
           /\ Before(r, s) /\ Before(s, t) => Before(r, t)
           /\ ~Before(s, r) /\ Before(s, t) => Before(r, t)
  BY DEF Before, Begin, End

-----------------------------------------------------------------------------
(***************************************************************************)
(* A run of adjoining segments, from its first to its last, has no hole:   *)
(* the last segment of it that begins at or before a block either holds    *)
(* the block, or ends before it and the next one begins after it, which    *)
(* would be where a new run begins.                                        *)
(***************************************************************************)
LEMMA RunHasNoHole ==
    ASSUME NEW n \in Nat, NEW S \in SUBSET ((0 .. n) \X (0 .. n)),
           NEW f \in S, NEW l \in S, ~Before(l, f),
           \A t \in S : Before(f, t) /\ ~Before(l, t) =>
                \E s \in S : Precedes(S, s, t) /\ End(s) >= Begin(t),
           NEW b \in Begin(f) .. End(l) - 1
    PROVE  \E s \in S : b \in BlocksOf(s)
  <1> SUFFICES ASSUME \A s \in S : b \notin BlocksOf(s)
               PROVE  FALSE
    OBVIOUS
  <1> DEFINE C == {s \in S : ~Before(s, f) /\ ~Before(l, s) /\ Begin(s) <= b}
  <1>1. f \in C /\ C \in SUBSET ((0 .. n) \X (0 .. n))
    BY DEF Before, Begin, End
  <1>2. PICK s \in C : \A x \in C : ~Before(s, x)
    <2> HIDE DEF C
    <2> QED
      BY <1>1, LastSegment
  <1>3. b \in Int /\ End(s) <= b /\ b < End(l)
    BY DEF BlocksOf, Begin, End
  <1>4. s # l /\ Before(s, l)
    <2>1. s # l /\ ~Before(l, s) /\ s \in S /\ l \in S
      BY <1>3 DEF End
    <2> QED
      BY <2>1, BeforeTotal
  <1> DEFINE D == {t \in S : Before(s, t)}
  <1>5. l \in D /\ D \in SUBSET ((0 .. n) \X (0 .. n))
    BY <1>4
  <1>6. PICK t \in D : \A x \in D : ~Before(x, t)
    <2> HIDE DEF D
    <2> QED
      BY <1>5, FirstSegment
  <1>7. ~Before(l, t)
    BY <1>5, <1>6
  <1>8. Before(f, t)
    <2>1. ~Before(s, f) /\ Before(s, t) /\ s \in S /\ t \in S
      OBVIOUS
    <2> QED
      BY <2>1, BeforeTotal
  <1>9. t \notin C
    BY <1>2
  <1>10. Begin(t) > b
    <2>1. ~Before(t, f)
      BY <1>8, BeforeTotal
    <2> QED
      BY <1>3, <1>7, <1>9, <2>1 DEF Begin
  <1>11. PICK p \in S : Precedes(S, p, t) /\ End(p) >= Begin(t)
    BY <1>7, <1>8
  <1>12. p = s
    <2>1. Before(p, t) /\ ~(Before(p, s) /\ Before(s, t))
      BY <1>11 DEF Precedes
    <2>2. ~Before(s, p)
      BY <1>6, <2>1
    <2>3. s \in S /\ Before(s, t)
      OBVIOUS
    <2> QED
      BY <2>1, <2>2, <2>3, BeforeTotal
  <1> QED
    BY <1>3, <1>10, <1>11, <1>12 DEF Begin, End

(***************************************************************************)
(* addSegment makes nothing up: whatever it merges, in whatever order the  *)
(* segments came and however they lie to each other, a block that is done  *)
(* afterwards was done before or is in the new segment.                    *)
(***************************************************************************)
THEOREM AddSegmentCovers ==
    ASSUME NEW n \in Nat, NEW done \in SUBSET ((0 .. n) \X (0 .. n)),
           NEW seg \in (0 .. n) \X (0 .. n)
    PROVE  Covered(AddSegment(done, seg)) \subseteq Covered(done) \cup BlocksOf(seg)
  <1> DEFINE S == done \cup {seg}
             Joins(s, t) == Precedes(S, s, t) /\ End(s) >= Begin(t)
             Firsts == {t \in S : ~\E s \in S : Joins(s, t)}
             Lasts == {s \in S : ~\E t \in S : Joins(s, t)}
             OneRun(f, l) == /\ ~Before(l, f)
                             /\ ~\E g \in Firsts : Before(f, g) /\ ~Before(l, g)
  <1>1. SUFFICES ASSUME NEW d \in AddSegment(done, seg), NEW b \in BlocksOf(d)
                 PROVE  \E s \in S : b \in BlocksOf(s)
    BY DEF Covered
  <1>2. PICK f \in Firsts, l \in Lasts : d = <<Begin(f), End(l)>> /\ OneRun(f, l)
    <2>1. PICK p \in {q \in Firsts \X Lasts : OneRun(q[1], q[2])} : d = <<Begin(p[1]), End(p[2])>>
      BY DEF AddSegment
    <2>2. p[1] \in Firsts /\ p[2] \in Lasts /\ OneRun(p[1], p[2])
      <3> HIDE DEF Firsts, Lasts, OneRun
      <3> QED
        BY <2>1
    <2> HIDE DEF Firsts, Lasts, OneRun
    <2> QED
      BY <2>1, <2>2
  <1>3. \A t \in S : Before(f, t) /\ ~Before(l, t) =>
                \E s \in S : Precedes(S, s, t) /\ End(s) >= Begin(t)
    BY <1>2
  <1>4. S \in SUBSET ((0 .. n) \X (0 .. n)) /\ f \in S /\ l \in S /\ ~Before(l, f)
    BY <1>2
  <1>5. b \in Begin(f) .. End(l) - 1
    BY <1>2 DEF BlocksOf, Begin, End
  <1> QED
    <2> HIDE DEF S
    <2> QED
      BY <1>3, <1>4, <1>5, RunHasNoHole

-----------------------------------------------------------------------------
(* The runs that addSegment makes one segment of each: where they begin, where they end. *)
RunFirsts(S) == {t \in S : ~\E s \in S : Precedes(S, s, t) /\ End(s) >= Begin(t)}
RunLasts(S) == {s \in S : ~\E t \in S : Precedes(S, s, t) /\ End(s) >= Begin(t)}
IsRun(S, f, l) ==
    /\ f \in RunFirsts(S) /\ l \in RunLasts(S)
    /\ ~Before(l, f)
    /\ ~\E g \in RunFirsts(S) : Before(f, g) /\ ~Before(l, g)

LEMMA AddSegmentRuns ==
    ASSUME NEW done, NEW seg
    PROVE  LET S == done \cup {seg}
               Runs == {q \in S \X S : IsRun(S, q[1], q[2])}
           IN  AddSegment(done, seg) = {<<Begin(q[1]), End(q[2])>> : q \in Runs}
  <1> DEFINE S == done \cup {seg}
             Run(f, l) == /\ ~Before(l, f)
                          /\ ~\E g \in RunFirsts(S) : Before(f, g) /\ ~Before(l, g)
             Runs == {q \in S \X S : IsRun(S, q[1], q[2])}
  <1>1. AddSegment(done, seg) =
            {<<Begin(p[1]), End(p[2])>> :
                p \in {q \in RunFirsts(S) \X RunLasts(S) : Run(q[1], q[2])}}
    BY DEF AddSegment, RunFirsts, RunLasts
  <1>2. \A f, l : IsRun(S, f, l) <=> f \in RunFirsts(S) /\ l \in RunLasts(S) /\ Run(f, l)
    BY DEF IsRun
  <1>3. RunFirsts(S) \subseteq S /\ RunLasts(S) \subseteq S
    BY DEF RunFirsts, RunLasts
  <1> HIDE DEF S, Run
  <1>4. {q \in RunFirsts(S) \X RunLasts(S) : Run(q[1], q[2])} = Runs
    BY <1>2, <1>3
  <1> HIDE DEF Runs
  <1>5. AddSegment(done, seg) = {<<Begin(q[1]), End(q[2])>> : q \in Runs}
    BY <1>1, <1>4
  <1> QED
    BY <1>5 DEF Runs, S

(* What comes after the end of a run begins later than it ends, and a new run begins there. *)
LEMMA AfterRun ==
    ASSUME NEW n \in Nat, NEW S \in SUBSET ((0 .. n) \X (0 .. n)),
           NEW l \in RunLasts(S), NEW t \in S, Before(l, t)
    PROVE  /\ End(l) < Begin(t)
           /\ \E g \in RunFirsts(S) : Before(l, g) /\ ~Before(t, g)
  <1> DEFINE D == {x \in S : Before(l, x)}
  <1>1. l \in S /\ t \in D /\ D \in SUBSET ((0 .. n) \X (0 .. n))
    BY DEF RunLasts
  <1>2. PICK g \in D : \A x \in D : ~Before(x, g)
    <2> HIDE DEF D
    <2> QED
      BY <1>1, FirstSegment
  <1>3. g \in S /\ Before(l, g) /\ ~Before(t, g) /\ Precedes(S, l, g)
    BY <1>1, <1>2 DEF Precedes
  <1>4. ~(End(l) >= Begin(g))
    BY <1>3 DEF RunLasts
  <1>5. End(l) < Begin(t)
    <2>1. Begin(g) <= Begin(t) /\ Begin(g) \in Int /\ Begin(t) \in Int /\ End(l) \in Int
      BY <1>1, <1>3 DEF Before, Begin, End
    <2> QED
      BY <1>4, <2>1
  <1>6. g \in RunFirsts(S)
    <2> SUFFICES ASSUME NEW p \in S, Precedes(S, p, g), End(p) >= Begin(g) PROVE FALSE
      BY <1>3 DEF RunFirsts
    <2>1. p = l
      <3>1. ~Before(p, l) /\ ~Before(l, p)
        BY <1>1, <1>2, <1>3 DEF Precedes
      <3> QED
        BY <1>1, <3>1, BeforeTotal
    <2> QED
      BY <1>4, <2>1
  <1> QED
    BY <1>3, <1>5, <1>6

(* Every segment is in some run. *)
LEMMA RunAround ==
    ASSUME NEW n \in Nat, NEW S \in SUBSET ((0 .. n) \X (0 .. n)), NEW s \in S
    PROVE  \E f, l \in S : IsRun(S, f, l) /\ ~Before(s, f) /\ ~Before(l, s)
  <1> DEFINE F == {f \in RunFirsts(S) : ~Before(s, f)}
             L == {l \in RunLasts(S) : ~Before(l, s)}
  <1>1. F \in SUBSET ((0 .. n) \X (0 .. n)) /\ L \in SUBSET ((0 .. n) \X (0 .. n))
    BY DEF RunFirsts, RunLasts
  <1>2. F # {} /\ L # {}
    <2>1. PICK a \in S : \A x \in S : ~Before(x, a)
      BY FirstSegment
    <2>2. PICK z \in S : \A x \in S : ~Before(z, x)
      BY LastSegment
    <2>3. a \in F /\ z \in L
      BY <2>1, <2>2 DEF RunFirsts, RunLasts, Precedes
    <2> QED
      BY <2>3
  <1>3. PICK f \in F : \A x \in F : ~Before(f, x)
    <2> HIDE DEF F
    <2> QED
      BY <1>1, <1>2, LastSegment
  <1>4. PICK l \in L : \A x \in L : ~Before(x, l)
    <2> HIDE DEF L
    <2> QED
      BY <1>1, <1>2, FirstSegment
  <1>5. f \in S /\ l \in S /\ ~Before(s, f) /\ ~Before(l, s)
    BY DEF RunFirsts, RunLasts
  <1>6. ~Before(l, f)
    BY <1>5, BeforeTotal
  <1>7. ASSUME NEW g \in RunFirsts(S), Before(f, g), ~Before(l, g)
        PROVE  FALSE
    <2>1. g \in S /\ Before(s, g)
      BY <1>3, <1>7 DEF RunFirsts
    <2> DEFINE D == {x \in S : Before(x, g)}
    <2>2. s \in D /\ D \in SUBSET ((0 .. n) \X (0 .. n))
      BY <2>1
    <2>3. PICK p \in D : \A x \in D : ~Before(p, x)
      <3> HIDE DEF D
      <3> QED
        BY <2>2, LastSegment
    <2>4. p \in S /\ Before(p, g) /\ ~Before(p, s) /\ Precedes(S, p, g)
      BY <2>2, <2>3 DEF Precedes
    <2>5. p \in RunLasts(S)
      <3> SUFFICES ASSUME NEW t \in S, Precedes(S, p, t), End(p) >= Begin(t) PROVE FALSE
        BY <2>4 DEF RunLasts
      <3>1. t = g
        <4>1. ~Before(t, g) /\ ~Before(g, t)
          BY <2>1, <2>4 DEF Precedes
        <4> QED
          BY <2>1, <4>1, BeforeTotal
      <3> QED
        BY <2>4, <3>1 DEF RunFirsts
    <2>6. ~Before(p, l)
      BY <1>4, <2>4, <2>5
    <2> QED
      BY <1>5, <1>7, <2>1, <2>4, <2>6, BeforeTotal
  <1> QED
    BY <1>5, <1>6, <1>7 DEF IsRun

(***************************************************************************)
(* addSegment forgets nothing, unless one segment lies inside another one  *)
(* and touches neither of its ends: only then does the end of the right    *)
(* one, which the merged segment takes, come before the end of the left.   *)
(***************************************************************************)
THEOREM AddSegmentKeeps ==
    ASSUME NEW n \in Nat, NEW done \in SUBSET ((0 .. n) \X (0 .. n)),
           NEW seg \in (0 .. n) \X (0 .. n),
           ~\E s, t \in done \cup {seg} : Begin(s) < Begin(t) /\ End(t) < End(s)
    PROVE  Covered(AddSegment(done, seg)) = Covered(done) \cup BlocksOf(seg)
  <1> DEFINE S == done \cup {seg}
  <1>1. SUFFICES ASSUME NEW s \in S, NEW b \in BlocksOf(s)
                 PROVE  \E d \in AddSegment(done, seg) : b \in BlocksOf(d)
    BY AddSegmentCovers DEF Covered
  <1>2. S \in SUBSET ((0 .. n) \X (0 .. n))
    OBVIOUS
  <1>3. PICK f, l \in S : IsRun(S, f, l) /\ ~Before(s, f) /\ ~Before(l, s)
    <2> HIDE DEF S
    <2> QED
      BY <1>2, RunAround
  <1>4. <<Begin(f), End(l)>> \in AddSegment(done, seg)
    <2> DEFINE Runs == {q \in S \X S : IsRun(S, q[1], q[2])}
    <2>1. AddSegment(done, seg) = {<<Begin(q[1]), End(q[2])>> : q \in Runs}
      BY AddSegmentRuns
    <2>2. <<f, l>> \in Runs
      BY <1>3
    <2> HIDE DEF Runs
    <2> QED
      BY <2>1, <2>2
  <1>5. Begin(f) <= Begin(s) /\ End(s) <= End(l)
    BY <1>2, <1>3 DEF Before, Begin, End
  <1>6. b \in BlocksOf(<<Begin(f), End(l)>>)
    BY <1>2, <1>5 DEF BlocksOf, Begin, End
  <1> QED
    BY <1>4, <1>6

(***************************************************************************)
(* What addSegment leaves never overlaps or adjoins, whatever it was given *)
(* (isFinished, which compares with one segment of the whole size, and the *)
(* list of parts sent to other sources depend on it).                      *)
(***************************************************************************)
THEOREM AddSegmentSeparates ==
    ASSUME NEW n \in Nat, NEW done \in SUBSET ((0 .. n) \X (0 .. n)),
           NEW seg \in (0 .. n) \X (0 .. n)
    PROVE  \A t, u \in AddSegment(done, seg) : t # u => End(t) < Begin(u) \/ End(u) < Begin(t)
  <1> DEFINE S == done \cup {seg}
  <1>1. S \in SUBSET ((0 .. n) \X (0 .. n))
    OBVIOUS
  <1>2. ASSUME NEW d \in AddSegment(done, seg)
        PROVE  \E f, l : IsRun(S, f, l) /\ d = <<Begin(f), End(l)>>
    <2> DEFINE Runs == {q \in S \X S : IsRun(S, q[1], q[2])}
    <2>1. AddSegment(done, seg) = {<<Begin(q[1]), End(q[2])>> : q \in Runs}
      BY AddSegmentRuns
    <2>2. PICK q \in Runs : d = <<Begin(q[1]), End(q[2])>>
      BY <2>1
    <2> QED
      BY <2>2
  <1> HIDE DEF S
  <1>3. ASSUME NEW f, NEW l, NEW g, NEW m, IsRun(S, f, l), IsRun(S, g, m), Before(f, g)
        PROVE  End(l) < Begin(g)
    <2>1. l \in RunLasts(S) /\ g \in S /\ Before(l, g)
      BY <1>3 DEF IsRun, RunFirsts
    <2> QED
      BY <1>1, <2>1, AfterRun
  <1>4. ASSUME NEW f, NEW l, NEW m, IsRun(S, f, l), IsRun(S, f, m), Before(l, m)
        PROVE  FALSE
    <2>1. l \in RunLasts(S) /\ l \in S /\ m \in S /\ f \in S /\ ~Before(l, f)
      BY <1>4 DEF IsRun, RunLasts, RunFirsts
    <2>2. PICK g \in RunFirsts(S) : Before(l, g) /\ ~Before(m, g)
      BY <1>1, <1>4, <2>1, AfterRun
    <2>3. g \in S
      BY DEF RunFirsts
    <2>4. Before(f, g)
      BY <1>1, <2>1, <2>2, <2>3, BeforeTotal
    <2> QED
      BY <1>4, <2>2, <2>4 DEF IsRun
  <1>5. \A f, l : IsRun(S, f, l) => f \in (0 .. n) \X (0 .. n) /\ l \in (0 .. n) \X (0 .. n)
    BY <1>1 DEF IsRun, RunFirsts, RunLasts
  <1> SUFFICES ASSUME NEW t \in AddSegment(done, seg), NEW u \in AddSegment(done, seg), t # u
               PROVE  End(t) < Begin(u) \/ End(u) < Begin(t)
    OBVIOUS
  <1>6. PICK f, l : IsRun(S, f, l) /\ t = <<Begin(f), End(l)>>
    BY <1>2
  <1>7. PICK g, m : IsRun(S, g, m) /\ u = <<Begin(g), End(m)>>
    BY <1>2
  <1>8. f # g
    <2> SUFFICES ASSUME f = g PROVE FALSE
      OBVIOUS
    <2>1. l = m
      BY <1>4, <1>5, <1>6, <1>7, BeforeTotal
    <2> QED
      BY <1>6, <1>7, <2>1
  <1>9. Before(f, g) \/ Before(g, f)
    BY <1>5, <1>6, <1>7, <1>8, BeforeTotal
  <1>10. Begin(t) = Begin(f) /\ End(t) = End(l) /\ Begin(u) = Begin(g) /\ End(u) = End(m)
    BY <1>6, <1>7 DEF Begin, End
  <1> QED
    BY <1>3, <1>6, <1>7, <1>9, <1>10

-----------------------------------------------------------------------------
(***************************************************************************)
(* QueueItem.h:219, "Next segment that is not done and not being           *)
(* downloaded": for a file of any size, getNextSegment has one answer with *)
(* MULTI_CHUNK, whatever is done and whatever is being downloaded. It      *)
(* begins with the first free block, holds only free blocks and no more    *)
(* than are wanted, and is empty only if nothing is free. So the action of *)
(* QueueManager that asks is never disabled for want of an answer, and     *)
(* what is given out is nobody else's.                                     *)
(***************************************************************************)
THEOREM NextChunkIsFree ==
    ASSUME NEW size \in Nat, NEW done, NEW busy, NEW target \in Nat \ {0}
    PROVE  LET free == (0 .. size - 1) \ (Covered(done) \cup Covered(busy))
           IN  \E c \in (0 .. size) \X (0 .. size) :
                /\ NextChunk(done, busy, size, target) = {c}
                /\ BlocksOf(c) \subseteq free /\ Length(c) <= target
                /\ free # {} => Begin(c) \in BlocksOf(c) /\ \A b \in free : Begin(c) <= b
  <1> DEFINE free == (0 .. size - 1) \ (Covered(done) \cup Covered(busy))
             Fits(c) == /\ Begin(c) \in free /\ \A b \in free : Begin(c) <= b
                        /\ Begin(c) < End(c) /\ BlocksOf(c) \subseteq free
                        /\ Length(c) <= target
                        /\ Length(c) = target \/ End(c) \notin free
             chunks == (0 .. size) \X (0 .. size)
  <1>1. NextChunk(done, busy, size, target) = IF free = {} THEN {NoSegment} ELSE {c \in chunks : Fits(c)}
    BY DEF NextChunk
  <1>2. free \in SUBSET (0 .. size) /\ \A b \in free : b + 1 \in 0 .. size
    OBVIOUS
  <1>3. CASE free = {}
    <2>1. NoSegment \in chunks /\ BlocksOf(NoSegment) = {} /\ Length(NoSegment) <= target
      BY DEF NoSegment, BlocksOf, Begin, End, Length
    <2> HIDE DEF free
    <2> QED
      BY <1>1, <1>3, <2>1 DEF free
  <1>4. CASE free # {}
    <2> HIDE DEF free
    <2>1. PICK first \in free : \A b \in free : first <= b
      BY <1>2, <1>4, LeastNumber
    <2>2. first \in 0 .. size /\ first + 1 \in 0 .. size /\ \A m \in 0 .. size : m \in Nat
      BY <1>2
    <2> DEFINE T == {m \in 0 .. size : first < m /\ m <= first + target /\ first .. m - 1 \subseteq free}
    <2>3. first + 1 \in T /\ T \in SUBSET (0 .. size)
      <3>1. first .. (first + 1) - 1 = {first}
        BY <2>2
      <3> QED
        BY <2>2, <3>1
    <2>4. PICK last \in T : \A m \in T : m <= last
      <3> HIDE DEF T
      <3> QED
        BY <2>3, GreatestNumber
    <2> DEFINE c == <<first, last>>
    <2>5. Begin(c) = first /\ End(c) = last /\ BlocksOf(c) = first .. last - 1 /\ Length(c) = last - first
      BY DEF Begin, End, BlocksOf, Length
    <2>6. ASSUME last \in free, last - first # target PROVE FALSE
      <3>1. last + 1 \in 0 .. size /\ last \in Nat
        BY <1>2, <2>2, <2>6
      <3>2. first < last + 1 /\ last + 1 <= first + target
        BY <2>2, <2>6, <3>1
      <3>3. first .. (last + 1) - 1 \subseteq free
        <4>1. first .. (last + 1) - 1 = (first .. last - 1) \cup {last}
          BY <2>2, <3>1
        <4> QED
          BY <2>6, <4>1
      <3>4. last + 1 \in T
        BY <3>1, <3>2, <3>3
      <3> QED
        BY <2>4, <3>1, <3>4
    <2>7. Fits(c) /\ c \in chunks
      <3>1. last \in 0 .. size /\ first < last /\ last <= first + target /\ first .. last - 1 \subseteq free
        OBVIOUS
      <3>2. last - first <= target /\ (last - first = target \/ last \notin free)
        BY <2>2, <2>6, <3>1
      <3> QED
        BY <2>1, <2>2, <2>5, <3>1, <3>2
    <2>8. ASSUME NEW d \in chunks, Fits(d) PROVE d = c
      <3>1. Begin(d) \in free /\ (\A b \in free : Begin(d) <= b) /\ Begin(d) \in Nat /\ End(d) \in 0 .. size
        BY <2>8 DEF Begin, End
      <3>2. Begin(d) = first
        BY <2>1, <2>2, <3>1
      <3>3. End(d) \in T /\ BlocksOf(d) = first .. End(d) - 1
        BY <2>2, <2>8, <3>1, <3>2 DEF BlocksOf, Length, Begin, End
      <3>4. End(d) <= last /\ last \in Nat
        BY <2>2, <2>4, <3>3
      <3>5. ASSUME End(d) < last PROVE FALSE
        <4>1. End(d) \in first .. last - 1
          BY <2>2, <3>1, <3>3, <3>4, <3>5
        <4>2. End(d) \in free
          BY <4>1
        <4>3. End(d) - first = target
          BY <2>8, <3>2, <4>2 DEF Length, Begin, End
        <4> QED
          BY <2>2, <3>1, <3>4, <3>5, <4>3
      <3>6. End(d) = last
        BY <3>1, <3>4, <3>5
      <3> QED
        BY <3>2, <3>6 DEF Begin, End
    <2> HIDE DEF c, T
    <2>9. {d \in chunks : Fits(d)} = {c}
      BY <2>7, <2>8
    <2>10. first \in BlocksOf(c)
      <3>1. last \in 0 .. size /\ first < last
        BY DEF T
      <3> QED
        BY <2>2, <2>5, <3>1
    <2> QED
      BY <1>1, <1>4, <2>5, <2>7, <2>9, <2>10 DEF free
  <1> QED
    BY <1>3, <1>4
=============================================================================
