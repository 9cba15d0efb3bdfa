------------------------- MODULE UploadSlots_proof -------------------------
(***************************************************************************)
(* How uploads and connections hang together in UploadSlots, for any       *)
(* users, connections, slots and settings.                                 *)
(***************************************************************************)
EXTENDS UploadSlots, FiniteSetTheorems, TLAPS

-----------------------------------------------------------------------------
(* A finite set of numbers can be listed in order, and such a list leaves nothing out. *)
Increasing(f) == \A m, n \in DOMAIN f : m < n => f[m] < f[n]

LEMMA IncreasingExists ==
    ASSUME NEW K \in SUBSET Nat, IsFiniteSet(K)
    PROVE  \E f \in [1 .. Cardinality(K) -> K] : Increasing(f)
  <1> DEFINE size == Cardinality(K)
             upto(n) == {k \in K : k <= n}
             rank == [n \in K |-> Cardinality(upto(n))]
  <1>1. size \in Nat /\ \A k \in K : k \in Nat
    BY FS_CardinalityType
  <1>2. \A n \in K : IsFiniteSet(upto(n)) /\ Cardinality(upto(n)) \in 1 .. size
    <2> SUFFICES ASSUME NEW n \in K PROVE IsFiniteSet(upto(n)) /\ Cardinality(upto(n)) \in 1 .. size
      OBVIOUS
    <2>1. IsFiniteSet(upto(n)) /\ Cardinality(upto(n)) <= size
      BY FS_Subset
    <2>2. Cardinality(upto(n)) \in Nat /\ Cardinality(upto(n)) # 0
      BY <2>1, FS_CardinalityType, FS_EmptySet
    <2> QED
      BY <1>1, <2>1, <2>2
  <1>3. \A m, n \in K : m < n => rank[m] < rank[n]
    <2> SUFFICES ASSUME NEW m \in K, NEW n \in K, m < n PROVE rank[m] < rank[n]
      OBVIOUS
    <2>1. upto(m) \in SUBSET upto(n) /\ upto(m) # upto(n)
      <3>1. m \in Nat /\ n \in Nat /\ \A k \in K : k <= m => k <= n
        BY <1>1
      <3>2. n \in upto(n) /\ n \notin upto(m)
        BY <3>1
      <3> QED
        BY <3>1, <3>2
    <2>2. Cardinality(upto(m)) <= Cardinality(upto(n)) /\ Cardinality(upto(m)) # Cardinality(upto(n))
      BY <1>2, <2>1, FS_Subset
    <2>3. Cardinality(upto(m)) \in Int /\ Cardinality(upto(n)) \in Int
      BY <1>2, <1>1
    <2> QED
      BY <2>2, <2>3
  <1>4. rank \in [K -> 1 .. size]
    BY <1>2
  <1> HIDE DEF rank, size, upto
  <1>5. ASSUME NEW r \in 1 .. size PROVE \E n \in K : rank[n] = r
    <2> SUFFICES ASSUME \A n \in K : rank[n] # r PROVE FALSE
      OBVIOUS
    <2> DEFINE T == (1 .. size) \ {r}
    <2>1. IsFiniteSet(1 .. size) /\ Cardinality(1 .. size) = size
      BY <1>1, FS_Interval
    <2>2. IsFiniteSet(T) /\ Cardinality(T) = size - 1
      <3>1. r \in 1 .. size
        OBVIOUS
      <3>2. IsFiniteSet(T) /\ Cardinality(T) = Cardinality(1 .. size) - 1
        BY <2>1, <3>1, FS_RemoveElement
      <3> QED
        BY <2>1, <3>2
    <2>3. rank \in [K -> T]
      BY <1>4
    <2>4. Cardinality(T) < Cardinality(K)
      BY <1>1, <2>2 DEF size
    <2> HIDE DEF T
    <2>5. PICK x, y \in K : x # y /\ rank[x] = rank[y]
      BY <2>2, <2>3, <2>4, FS_PigeonHole
    <2>6. x < y \/ y < x
      BY <2>5
    <2>7. rank[x] \in Int /\ rank[y] \in Int
      BY <1>4, <1>1
    <2> QED
      BY <1>3, <2>5, <2>6, <2>7
  <1> DEFINE f == [r \in 1 .. size |-> CHOOSE n \in K : rank[n] = r]
  <1>6. \A r \in 1 .. size : f[r] \in K /\ rank[f[r]] = r
    BY <1>5
  <1>7. f \in [1 .. size -> K]
    BY <1>6
  <1> HIDE DEF f
  <1>8. ASSUME NEW m \in 1 .. size, NEW n \in 1 .. size, m < n PROVE f[m] < f[n]
    <2>1. f[m] \in K /\ f[n] \in K /\ rank[f[m]] = m /\ rank[f[n]] = n
      BY <1>6
    <2>2. f[m] \in Nat /\ f[n] \in Nat /\ m \in Int /\ n \in Int
      <3>1. m \in Int /\ n \in Int
        BY <1>1
      <3>2. \A k \in K : k \in Nat
        BY <1>1
      <3> QED
        BY <2>1, <3>1, <3>2
    <2>3. f[m] # f[n]
      BY <1>8, <2>1, <2>2
    <2>4. ~(f[n] < f[m])
      <3>1. f[n] < f[m] => rank[f[n]] < rank[f[m]]
        BY <1>3, <2>1
      <3> QED
        BY <1>8, <2>1, <2>2, <3>1
    <2> QED
      BY <2>2, <2>3, <2>4
  <1> QED
    BY <1>7, <1>8 DEF Increasing, size

LEMMA IncreasingOnto ==
    ASSUME NEW K \in SUBSET Nat, IsFiniteSet(K), NEW f \in [1 .. Cardinality(K) -> K], Increasing(f),
           NEW k \in K
    PROVE  \E m \in 1 .. Cardinality(K) : f[m] = k
  <1> SUFFICES ASSUME \A m \in 1 .. Cardinality(K) : f[m] # k PROVE FALSE
    OBVIOUS
  <1> DEFINE size == Cardinality(K)
  <1>1. size \in Nat
    BY FS_CardinalityType
  <1>2. IsFiniteSet(1 .. size) /\ Cardinality(1 .. size) = size
    BY <1>1, FS_Interval
  <1>3. IsFiniteSet(K \ {k}) /\ Cardinality(K \ {k}) = size - 1
    BY FS_RemoveElement
  <1>4. f \in [1 .. size -> K \ {k}]
    OBVIOUS
  <1>5. PICK x, y \in 1 .. size : x # y /\ f[x] = f[y]
    BY <1>1, <1>2, <1>3, <1>4, FS_PigeonHole
  <1>6. x < y \/ y < x
    BY <1>1, <1>5
  <1>7. f[x] \in Nat /\ f[y] \in Nat
    OBVIOUS
  <1> QED
    BY <1>5, <1>6, <1>7 DEF Increasing

-----------------------------------------------------------------------------
(* What serving a connection, or loading its counter, makes of its fields. *)
Served(x, slot, by) == [x EXCEPT !.slot = slot, !.by = by, !.upload = "active"]
Counted(x, n) == [x EXCEPT !.upload = "none", !.phase = "counting", !.saw = n]

LEMMA ServedFields ==
    ASSUME NEW x \in Connection, NEW slot \in Kinds, NEW by \in {"free", "forced"}
    PROVE  /\ Served(x, slot, by) \in Connection
           /\ Served(x, slot, by).slot = slot /\ Served(x, slot, by).by = by
           /\ Served(x, slot, by).upload = "active"
           /\ Served(x, slot, by).user = x.user /\ Served(x, slot, by).phase = x.phase
  BY DEF Connection, Served

LEMMA CountedFields ==
    ASSUME NEW x \in Connection, NEW n
    PROVE  /\ Counted(x, n).phase = "counting" /\ Counted(x, n).upload = "none"
           /\ Counted(x, n).user = x.user /\ Counted(x, n).slot = x.slot /\ Counted(x, n).by = x.by
  BY DEF Connection, Counted

-----------------------------------------------------------------------------
(* The uploads list of ConnectionManager has a user once. *)
OneUploadEach == \A c, d \in Up : conn[c].user = conn[d].user => c = d

ConnType == conn \in [Conns -> Connection \cup {NoConn}]

(* What a lost connection must leave behind needs the other two. *)
IInv == ConnType /\ OneUploadEach /\ UploadIsListed

USE NoConnAssumption DEF IInv, ConnType, OneUploadEach, UploadIsListed, Open, Up

-----------------------------------------------------------------------------
LEMMA InitIInv == Init => IInv
  BY DEF Init

LEMMA ConnectIInv ==
    ASSUME IInv, NEW c \in Conns, NEW u \in Users, Connect(c, u)
    PROVE  IInv'
  <1>1. ConnType'
    BY DEF Connect, Connection
  <1>2. OneUploadEach'
    BY DEF Connect
  <1>3. UploadIsListed'
    BY DEF Connect
  <1> QED
    BY <1>1, <1>2, <1>3

(* A step that leaves users and phases alone, and makes no upload of a lost connection delayed. *)
LEMMA UploadChanges ==
    ASSUME IInv, ConnType',
           \A c \in Conns : (conn[c] = NoConn) = (conn'[c] = NoConn),
           \A c \in Open : conn'[c].user = conn[c].user /\ conn'[c].phase = conn[c].phase,
           \A c \in Open : conn'[c].upload = "delayed" => conn[c].phase = "up"
    PROVE  IInv'
  <1>1. Open' = Open /\ Up' = Up
    OBVIOUS
  <1>2. OneUploadEach'
    BY <1>1
  <1>3. UploadIsListed'
    BY <1>1
  <1> QED
    BY <1>2, <1>3

LEMMA ServeIInv ==
    ASSUME IInv, NEW c \in Up, NEW slot \in Kinds, NEW by \in {"free", "forced"}, Serve(c, slot, by)
    PROVE  IInv'
  <1> DEFINE served == Served(conn[c], slot, by)
  <1>1. conn' = [conn EXCEPT ![c] = served]
    BY DEF Serve, Served
  <1>2. conn[c] \in Connection
    OBVIOUS
  <1>3. served \in Connection
    BY <1>2, ServedFields
  <1>4. /\ served.upload = "active"
        /\ served.user = conn[c].user /\ served.phase = conn[c].phase
    BY <1>2, ServedFields
  <1> HIDE DEF served
  <1>5. ConnType'
    BY <1>1, <1>3
  <1>6. conn'[c] = served /\ \A d \in Conns : d # c => conn'[d] = conn[d]
    BY <1>1
  <1> QED
    BY <1>3, <1>4, <1>5, <1>6, UploadChanges

LEMMA PrepareFileIInv ==
    ASSUME IInv, NEW c \in Conns, NEW asked \in {"file", "small", "partial"}, PrepareFile(c, asked)
    PROVE  IInv'
  <1>1. c \in Up /\ conn[c] \in Connection
    BY DEF PrepareFile, MayAsk
  <1>2. CASE \E slot \in Kinds, by \in {"free", "forced"} : Serve(c, slot, by)
    BY <1>1, <1>2, ServeIInv
  <1>3. CASE Refuse(c)
    BY <1>3 DEF Refuse
  <1>4. (\E slot \in Kinds, by \in {"free", "forced"} : Serve(c, slot, by)) \/ Refuse(c)
    BY <1>1 DEF PrepareFile, Kinds, Connection
  <1> QED
    BY <1>2, <1>3, <1>4

LEMMA TransmitDoneIInv ==
    ASSUME IInv, NEW c \in Conns, TransmitDone(c)
    PROVE  IInv'
  <1>1. PICK kept \in {"none", "delayed"} : conn' = [conn EXCEPT ![c].upload = kept]
    BY DEF TransmitDone
  <1>2. c \in Up /\ conn[c] \in Connection
    BY DEF TransmitDone
  <1>3. ConnType'
    BY <1>1, <1>2 DEF Connection
  <1>4. \A d \in Conns : d # c => conn'[d] = conn[d]
    BY <1>1
  <1>5. /\ conn'[c] # NoConn
        /\ conn'[c].user = conn[c].user /\ conn'[c].phase = conn[c].phase
    BY <1>1, <1>2, <1>3 DEF Connection
  <1> QED
    BY <1>2, <1>3, <1>4, <1>5, UploadChanges

(***************************************************************************)
(* The delayed upload that is removed is the one of this connection, for   *)
(* only connections that ConnectionManager holds have one, and it holds    *)
(* one for each user.                                                      *)
(***************************************************************************)
LEMMA LetGoIInv ==
    ASSUME IInv, NEW c \in Conns, LetGo(c)
    PROVE  IInv'
  <1> DEFINE delayed == {d \in Open : conn[d].user = conn[c].user /\ conn[d].upload = "delayed"}
  <1>1. c \in Up /\ conn[c] \in Connection
    BY DEF LetGo
  <1>2. delayed \subseteq {c}
    BY <1>1
  <1>3. \/ conn' = [conn EXCEPT ![c].upload = "none", ![c].phase = "failed"]
        \/ conn[c].upload # "delayed" /\ conn' = [conn EXCEPT ![c].phase = "failed"]
    BY <1>1, <1>2 DEF LetGo
  <1>4. ConnType'
    BY <1>1, <1>3 DEF Connection
  <1>5. \A d \in Conns : d # c => conn'[d] = conn[d]
    BY <1>3
  <1>6. conn'[c] # NoConn /\ conn'[c].phase = "failed" /\ conn'[c].upload # "delayed"
    BY <1>1, <1>3, <1>4 DEF Connection
  <1>7. Up' \subseteq Up \ {c}
    BY <1>5, <1>6
  <1>8. OneUploadEach'
    BY <1>5, <1>7
  <1>9. UploadIsListed'
    BY <1>5, <1>6
  <1> QED
    BY <1>4, <1>8, <1>9

(* A lost connection that goes away, or whose counter is loaded. *)
LEMMA LoadCounterIInv ==
    ASSUME IInv, NEW c \in Conns, counters \in [Kinds -> 0 .. 255], LoadCounter(c)
    PROVE  IInv'
  <1>1. c \in Open /\ conn[c] \in Connection /\ conn[c].phase = "failed"
    BY DEF LoadCounter
  <1>2. conn[c].slot # "none" => counters[conn[c].slot] \in 0 .. 255
    BY <1>1 DEF Connection
  <1>3. ConnType'
    BY <1>1, <1>2 DEF LoadCounter, Connection
  <1>4. \A d \in Conns : d # c => conn'[d] = conn[d]
    BY DEF LoadCounter
  <1>5. \/ conn'[c] = NoConn
        \/ conn'[c].phase = "counting" /\ conn'[c].upload = "none"
    <2>1. conn'[c] = NoConn \/ conn'[c] = Counted(conn[c], counters[conn[c].slot])
      BY DEF LoadCounter, Counted
    <2> QED
      BY <1>1, <2>1, CountedFields
  <1>6. Up' \subseteq Up \ {c}
    BY <1>4, <1>5
  <1>7. OneUploadEach'
    BY <1>4, <1>6
  <1>8. UploadIsListed'
    BY <1>4, <1>5
  <1> QED
    BY <1>3, <1>7, <1>8

LEMMA StoreCounterIInv ==
    ASSUME IInv, NEW c \in Conns, StoreCounter(c)
    PROVE  IInv'
  <1>1. conn' = [conn EXCEPT ![c] = NoConn]
    BY DEF StoreCounter
  <1>2. OneUploadEach' /\ UploadIsListed'
    BY <1>1
  <1>3. ConnType'
    BY <1>1
  <1> QED
    BY <1>2, <1>3

LEMMA SecondIInv ==
    ASSUME IInv, Second
    PROVE  IInv'
  <1>1. PICK D \in SUBSET {c \in Open : conn[c].upload = "delayed"} :
            conn' = [c \in Conns |-> IF c \in D THEN [conn[c] EXCEPT !.upload = "none"] ELSE conn[c]]
    BY DEF Second
  <1>2. \A c \in D : conn[c] \in Connection
    OBVIOUS
  <1>3. ConnType'
    BY <1>1, <1>2 DEF Connection
  <1>4. \A c \in Conns \ D : conn'[c] = conn[c]
    BY <1>1
  <1>5. \A c \in D : /\ conn'[c] # NoConn /\ conn'[c].upload = "none"
                     /\ conn'[c].user = conn[c].user /\ conn'[c].phase = conn[c].phase
    <2> SUFFICES ASSUME NEW c \in D
                 PROVE  /\ conn'[c] # NoConn /\ conn'[c].upload = "none"
                        /\ conn'[c].user = conn[c].user /\ conn'[c].phase = conn[c].phase
      OBVIOUS
    <2>1. conn'[c] = [conn[c] EXCEPT !.upload = "none"]
      BY <1>1
    <2>2. conn'[c] \in Connection
      BY <1>2, <2>1 DEF Connection
    <2> QED
      BY <1>2, <2>1, <2>2 DEF Connection
  <1> QED
    BY <1>3, <1>4, <1>5, UploadChanges

-----------------------------------------------------------------------------
(* The counters stay bytes, whatever is lost. *)
CountersType == counters \in [Kinds -> 0 .. 255]

LEMMA NextCountersType ==
    ASSUME IInv, CountersType, [Next]_vars
    PROVE  CountersType'
  <1>1. \A n \in Int : Byte(n) \in 0 .. 255
    BY DEF Byte
  <1>2. ASSUME NEW c \in Conns, NEW slot, NEW by, Serve(c, slot, by)
        PROVE  CountersType'
    <2>1. counters' = Switched(conn[c].slot, slot)
      BY <1>2 DEF Serve
    <2>2. \A k \in Kinds : /\ counters[k] \in 0 .. 255
                           /\ Byte(counters[k] + 1) \in 0 .. 255 /\ Byte(counters[k] - 1) \in 0 .. 255
      <3> SUFFICES ASSUME NEW k \in Kinds
                   PROVE  /\ counters[k] \in 0 .. 255 /\ Byte(counters[k] + 1) \in 0 .. 255
                          /\ Byte(counters[k] - 1) \in 0 .. 255
        OBVIOUS
      <3>1. counters[k] \in 0 .. 255
        BY DEF CountersType
      <3>2. counters[k] + 1 \in Int /\ counters[k] - 1 \in Int
        BY <3>1
      <3> QED
        BY <1>1, <3>1, <3>2
    <2> QED
      BY <2>1, <2>2 DEF CountersType, Switched
  <1>3. ASSUME NEW c \in Conns, StoreCounter(c)
        PROVE  CountersType'
    <2>1. conn[c] \in Connection
      BY <1>3 DEF StoreCounter
    <2>2. conn[c].saw - 1 \in Int
      BY <2>1 DEF Connection
    <2>3. Byte(conn[c].saw - 1) \in 0 .. 255
      BY <1>1, <2>2
    <2> QED
      BY <1>3, <2>3 DEF StoreCounter, CountersType
  <1>4. ASSUME NEW c \in Conns, NEW asked, PrepareFile(c, asked)
        PROVE  CountersType'
    <2>1. Refuse(c) \/ \E slot \in Kinds, by \in {"free", "forced", conn[c].by} : Serve(c, slot, by)
      BY <1>4 DEF PrepareFile, Kinds
    <2> QED
      BY <1>2, <2>1 DEF Refuse, CountersType
  <1>5. CASE UNCHANGED counters
    BY <1>5 DEF CountersType
  <1> QED
    BY <1>3, <1>4, <1>5
    DEF Next, vars, Connect, TransmitDone, LetGo, LoadCounter, Second, Minute,
        ReserveSlot, UnreserveSlot, UserDisconnected

LEMMA NextIInv ==
    ASSUME IInv, CountersType, [Next]_vars
    PROVE  IInv'
  <1>1. ASSUME NEW c \in Conns, NEW u \in Users, Connect(c, u)
        PROVE  IInv'
    BY <1>1, ConnectIInv
  <1>2. ASSUME NEW c \in Conns, NEW asked \in {"file", "small", "partial"}, PrepareFile(c, asked)
        PROVE  IInv'
    BY <1>2, PrepareFileIInv
  <1>3. ASSUME NEW c \in Conns, TransmitDone(c) \/ LetGo(c) \/ LoadCounter(c) \/ StoreCounter(c)
        PROVE  IInv'
    BY <1>3, TransmitDoneIInv, LetGoIInv, LoadCounterIInv, StoreCounterIInv DEF CountersType
  <1>4. CASE Second
    BY <1>4, SecondIInv
  <1>5. CASE UNCHANGED conn
    BY <1>5
  <1> QED
    BY <1>1, <1>2, <1>3, <1>4, <1>5
    DEF Next, vars, Minute, ReserveSlot, UnreserveSlot, UserDisconnected

(***************************************************************************)
(* UploadIsListed in every reachable state: the assertion of removeUpload  *)
(* holds however connections of a user follow each other.                  *)
(***************************************************************************)
THEOREM ListedUploads == Spec => []UploadIsListed
  <1>1. Init => IInv /\ CountersType
    BY InitIInv DEF Init, CountersType
  <1>2. IInv /\ CountersType /\ [Next]_vars => (IInv /\ CountersType)'
    BY NextIInv, NextCountersType
  <1>3. IInv => UploadIsListed
    OBVIOUS
  <1> QED
    BY <1>1, <1>2, <1>3, PTL DEF Spec

-----------------------------------------------------------------------------
(* The kind of slot that a connection object stands for in the counters. *)
SlotOf(c) == IF conn[c] = NoConn THEN "none" ELSE conn[c].slot

LEMMA HoldersOf ==
    \A k \in Kinds : /\ Holders(k) = {c \in Conns : SlotOf(c) = k}
                     /\ Holders(k)' = {c \in Conns : SlotOf(c)' = k}
  BY DEF Holders, SlotOf, Kinds

(* How the number of holders of a kind changes with the slot of one connection. *)
LEMMA HoldersChange ==
    ASSUME NEW c \in Conns, \A d \in Conns : d # c => SlotOf(d)' = SlotOf(d), NEW k \in Kinds
    PROVE  /\ Cardinality(Holders(k)) \in 0 .. 255 /\ Cardinality(Holders(k)') \in 0 .. 255
           /\ Cardinality(Holders(k)') =
                IF (SlotOf(c) = k) = (SlotOf(c)' = k) THEN Cardinality(Holders(k))
                ELSE IF SlotOf(c) = k THEN Cardinality(Holders(k)) - 1
                ELSE Cardinality(Holders(k)) + 1
  <1> DEFINE now == {d \in Conns : SlotOf(d) = k}
             then == {d \in Conns : SlotOf(d)' = k}
  <1>1. Holders(k) = now /\ Holders(k)' = then
    BY HoldersOf
  <1>2. /\ IsFiniteSet(now) /\ Cardinality(now) \in Nat /\ Cardinality(now) <= Cardinality(Conns)
        /\ IsFiniteSet(then) /\ Cardinality(then) \in Nat /\ Cardinality(then) <= Cardinality(Conns)
    BY ConnsAssumption, FS_Subset, FS_CardinalityType
  <1>3. Cardinality(Conns) \in Nat
    BY ConnsAssumption, FS_CardinalityType
  <1>4. Cardinality(now) \in 0 .. 255 /\ Cardinality(then) \in 0 .. 255
    BY <1>2, <1>3, ConnsAssumption
  <1>5. CASE (SlotOf(c) = k) = (SlotOf(c)' = k)
    <2>1. then = now
      BY <1>5
    <2> QED
      BY <1>1, <1>4, <1>5, <2>1
  <1>6. CASE SlotOf(c) = k /\ SlotOf(c)' # k
    <2>1. then = now \ {c} /\ c \in now
      BY <1>6
    <2> HIDE DEF now, then
    <2>2. Cardinality(then) = Cardinality(now) - 1
      BY <1>2, <2>1, FS_RemoveElement
    <2> QED
      BY <1>1, <1>4, <1>6, <2>2
  <1>7. CASE SlotOf(c) # k /\ SlotOf(c)' = k
    <2>1. then = now \cup {c} /\ c \notin now
      BY <1>7
    <2> HIDE DEF now, then
    <2>2. Cardinality(then) = Cardinality(now) + 1
      BY <1>2, <2>1, FS_AddElement
    <2> QED
      BY <1>1, <1>4, <1>7, <2>2
  <1> QED
    BY <1>5, <1>6, <1>7

(***************************************************************************)
(* While one connection is counting, no other one is, and what it has      *)
(* loaded is what the counter still is.                                    *)
(***************************************************************************)
LoadIsFresh ==
    /\ \A c \in Open : conn[c].phase = "counting" =>
            conn[c].slot \in Kinds /\ conn[c].saw = counters[conn[c].slot]
    /\ \A c, d \in Open : conn[c].phase = "counting" /\ conn[d].phase = "counting" => c = d

ExactInv == ConnType /\ CountersType /\ CountersExact /\ LoadIsFresh

LEMMA InitExact == Init => ExactInv
  <1> SUFFICES ASSUME Init PROVE ExactInv
    OBVIOUS
  <1>1. \A k \in Kinds : Holders(k) = {}
    BY DEF Init, Holders
  <1>2. Open = {} /\ ConnType
    BY DEF Init
  <1>3. CountersType
    BY DEF Init, CountersType
  <1>4. CountersExact
    BY <1>1, FS_EmptySet DEF Init, CountersExact
  <1>5. LoadIsFresh
    BY <1>2 DEF LoadIsFresh
  <1> QED
    BY <1>2, <1>3, <1>4, <1>5 DEF ExactInv

(* Steps that change neither slots nor counters. *)
LEMMA SlotsKept ==
    ASSUME ExactInv, ConnType', UNCHANGED counters,
           \A c \in Conns : SlotOf(c)' = SlotOf(c),
           \A c \in Conns : conn'[c] # NoConn /\ conn'[c].phase = "counting" =>
                /\ conn[c] # NoConn /\ conn[c].phase = "counting"
                /\ conn'[c].slot = conn[c].slot /\ conn'[c].saw = conn[c].saw
    PROVE  ExactInv'
  <1>1. \A k \in Kinds : Holders(k)' = Holders(k)
    BY HoldersOf
  <1>2. CountersExact'
    BY <1>1 DEF ExactInv, CountersExact
  <1>3. LoadIsFresh'
    BY DEF ExactInv, LoadIsFresh
  <1> QED
    BY <1>2, <1>3 DEF ExactInv, CountersType

LEMMA ServeExact ==
    ASSUME ExactInv, NEW c \in Up, NEW slot \in Kinds, NEW by \in {"free", "forced"},
           Serve(c, slot, by), \A d \in Open : conn[d].phase # "counting"
    PROVE  ExactInv'
  <1> DEFINE served == Served(conn[c], slot, by)
  <1>1. conn' = [conn EXCEPT ![c] = served] /\ counters' = Switched(conn[c].slot, slot)
    BY DEF Serve, Served
  <1>2. conn[c] \in Connection
    BY DEF ExactInv
  <1>3. served \in Connection /\ served.slot = slot /\ served.phase = "up"
    BY <1>2, ServedFields
  <1> HIDE DEF served
  <1>4. ConnType'
    BY <1>1, <1>3 DEF ExactInv
  <1>5. conn'[c] = served /\ \A d \in Conns : d # c => conn'[d] = conn[d]
    BY <1>1 DEF ExactInv
  <1>6. SlotOf(c) = conn[c].slot /\ SlotOf(c)' = slot /\ \A d \in Conns : d # c => SlotOf(d)' = SlotOf(d)
    BY <1>3, <1>5 DEF SlotOf
  <1>7. ASSUME NEW k \in Kinds
        PROVE  counters'[k] = Cardinality(Holders(k)')
    <2>1. counters[k] = Cardinality(Holders(k))
      BY DEF ExactInv, CountersExact
    <2>2. \A n \in 0 .. 255 : Byte(n) = n
      BY DEF Byte
    <2>3. /\ conn[c].slot = k /\ slot # k => Cardinality(Holders(k)') = counters[k] - 1
          /\ conn[c].slot # k /\ slot = k => Cardinality(Holders(k)') = counters[k] + 1
          /\ (conn[c].slot = k) = (slot = k) => Cardinality(Holders(k)') = counters[k]
          /\ Cardinality(Holders(k)') \in 0 .. 255
      BY <1>6, <2>1, HoldersChange
    <2> QED
      BY <1>1, <2>2, <2>3 DEF Switched
  <1>8. CountersType'
    <2>1. \A k \in Kinds : Cardinality(Holders(k)') \in 0 .. 255
      BY <1>6, HoldersChange
    <2>2. counters' = [k \in Kinds |-> counters'[k]]
      BY <1>1 DEF Switched
    <2> QED
      BY <1>7, <2>1, <2>2 DEF CountersType
  <1>9. LoadIsFresh'
    BY <1>3, <1>5 DEF LoadIsFresh
  <1> QED
    BY <1>4, <1>7, <1>8, <1>9 DEF ExactInv, CountersExact

LEMMA ConnectExact ==
    ASSUME ExactInv, ConnType', NEW c \in Conns, NEW u \in Users, Connect(c, u)
    PROVE  ExactInv'
  <1>1. conn[c] = NoConn /\ UNCHANGED counters
    BY DEF Connect
  <1>2. conn'[c].slot = "none" /\ conn'[c].phase = "up" /\ \A d \in Conns : d # c => conn'[d] = conn[d]
    BY DEF Connect, ExactInv
  <1>3. \A d \in Conns : SlotOf(d)' = SlotOf(d)
    BY <1>1, <1>2 DEF SlotOf
  <1> QED
    BY <1>1, <1>2, <1>3, SlotsKept

LEMMA PrepareFileExact ==
    ASSUME ExactInv, Exclusive, NEW c \in Conns, NEW asked \in {"file", "small", "partial"},
           PrepareFile(c, asked)
    PROVE  ExactInv'
  <1>1. c \in Up /\ conn[c] \in Connection /\ \A d \in Open : conn[d].phase # "counting"
    BY DEF PrepareFile, MayAsk, Undisturbed, ExactInv
  <1>2. CASE \E slot \in Kinds, by \in {"free", "forced"} : Serve(c, slot, by)
    BY <1>1, <1>2, ServeExact
  <1>3. CASE Refuse(c)
    <2>1. UNCHANGED <<conn, counters>>
      BY <1>3 DEF Refuse
    <2> QED
      BY <2>1, SlotsKept DEF SlotOf, ExactInv
  <1>4. (\E slot \in Kinds, by \in {"free", "forced"} : Serve(c, slot, by)) \/ Refuse(c)
    BY <1>1 DEF PrepareFile, Kinds, Connection
  <1> QED
    BY <1>2, <1>3, <1>4

LEMMA TransmitDoneExact ==
    ASSUME ExactInv, ConnType', NEW c \in Conns, TransmitDone(c)
    PROVE  ExactInv'
  <1>1. PICK kept \in {"none", "delayed"} : conn' = [conn EXCEPT ![c].upload = kept]
    BY DEF TransmitDone
  <1>2. c \in Up /\ conn[c] \in Connection /\ UNCHANGED counters
    BY DEF TransmitDone, ExactInv
  <1>3. conn'[c] \in Connection /\ conn'[c].slot = conn[c].slot /\ conn'[c].phase = "up"
    BY <1>1, <1>2 DEF Connection, ExactInv
  <1>4. \A d \in Conns : d # c => conn'[d] = conn[d]
    BY <1>1 DEF ExactInv
  <1>5. \A d \in Conns : SlotOf(d)' = SlotOf(d)
    BY <1>2, <1>3, <1>4, NoConnAssumption DEF SlotOf
  <1> QED
    BY <1>2, <1>3, <1>4, <1>5, SlotsKept

LEMMA LetGoExact ==
    ASSUME ExactInv, IInv, ConnType', NEW c \in Conns, LetGo(c)
    PROVE  ExactInv'
  <1> DEFINE delayed == {d \in Open : conn[d].user = conn[c].user /\ conn[d].upload = "delayed"}
  <1>1. c \in Up /\ conn[c] \in Connection /\ UNCHANGED counters
    BY DEF LetGo, ExactInv
  <1>2. delayed \subseteq {c}
    BY <1>1
  <1>3. \/ conn' = [conn EXCEPT ![c].upload = "none", ![c].phase = "failed"]
        \/ conn' = [conn EXCEPT ![c].phase = "failed"]
    BY <1>1, <1>2 DEF LetGo
  <1>4. conn'[c] \in Connection /\ conn'[c].slot = conn[c].slot /\ conn'[c].phase = "failed"
    BY <1>1, <1>3 DEF Connection
  <1>5. \A d \in Conns : d # c => conn'[d] = conn[d]
    BY <1>3
  <1>6. \A d \in Conns : SlotOf(d)' = SlotOf(d)
    BY <1>1, <1>4, <1>5, NoConnAssumption DEF SlotOf
  <1> QED
    BY <1>1, <1>4, <1>5, <1>6, SlotsKept

LEMMA SecondExact ==
    ASSUME ExactInv, ConnType', Second
    PROVE  ExactInv'
  <1>1. PICK D \in SUBSET {c \in Open : conn[c].upload = "delayed"} :
            conn' = [c \in Conns |-> IF c \in D THEN [conn[c] EXCEPT !.upload = "none"] ELSE conn[c]]
    BY DEF Second
  <1>2. \A c \in Conns \ D : conn'[c] = conn[c]
    BY <1>1
  <1>3. \A c \in D : /\ conn[c] # NoConn /\ conn'[c] # NoConn
                     /\ conn'[c].slot = conn[c].slot /\ conn'[c].phase = conn[c].phase
                     /\ conn'[c].saw = conn[c].saw
    <2> SUFFICES ASSUME NEW c \in D
                 PROVE  /\ conn[c] # NoConn /\ conn'[c] # NoConn
                        /\ conn'[c].slot = conn[c].slot /\ conn'[c].phase = conn[c].phase
                        /\ conn'[c].saw = conn[c].saw
      OBVIOUS
    <2>1. conn[c] \in Connection /\ conn[c] # NoConn
      BY DEF ExactInv
    <2>2. conn'[c] = [conn[c] EXCEPT !.upload = "none"] /\ c \in Conns
      BY <1>1
    <2>3. conn'[c] \in Connection
      BY <2>1, <2>2 DEF Connection
    <2> QED
      BY <2>1, <2>2, <2>3, NoConnAssumption DEF Connection
  <1>4. \A c \in Conns : SlotOf(c)' = SlotOf(c)
    BY <1>2, <1>3 DEF SlotOf
  <1>5. UNCHANGED counters
    BY DEF Second
  <1> QED
    BY <1>2, <1>3, <1>4, <1>5, SlotsKept

(* The counter is loaded while no other connection is counting. *)
LEMMA LoadCounterExact ==
    ASSUME ExactInv, Exclusive, ConnType', NEW c \in Conns, LoadCounter(c)
    PROVE  ExactInv'
  <1>1. c \in Open /\ conn[c] \in Connection /\ UNCHANGED counters
    BY DEF LoadCounter, ExactInv
  <1>2. \A d \in Open : conn[d].phase # "counting"
    BY DEF LoadCounter, Undisturbed
  <1>3. \A d \in Conns : d # c => conn'[d] = conn[d]
    BY DEF LoadCounter, ExactInv
  <1>4. CASE conn[c].slot = "none"
    <2>1. conn'[c] = NoConn
      BY <1>4 DEF LoadCounter, ExactInv
    <2>2. \A d \in Conns : SlotOf(d)' = SlotOf(d)
      BY <1>1, <1>3, <1>4, <2>1 DEF SlotOf
    <2> QED
      BY <1>1, <1>3, <2>1, <2>2, SlotsKept
  <1>5. CASE conn[c].slot # "none"
    <2>1. conn'[c] = [conn[c] EXCEPT !.upload = "none", !.phase = "counting",
                                     !.saw = counters[conn[c].slot]]
      BY <1>5 DEF LoadCounter, ExactInv
    <2>2. conn[c].slot \in Kinds
      BY <1>1, <1>5 DEF Connection
    <2>3. conn'[c].slot = conn[c].slot /\ conn'[c].saw = counters[conn[c].slot]
      BY <1>1, <2>1 DEF Connection
    <2>4. conn'[c] # NoConn
      <3>1. counters[conn[c].slot] \in 0 .. 255
        BY <2>2 DEF ExactInv, CountersType
      <3>2. conn'[c] \in Connection
        BY <1>1, <2>1, <3>1 DEF Connection
      <3> QED
        BY <3>2, NoConnAssumption
    <2>5. \A d \in Conns : SlotOf(d)' = SlotOf(d)
      BY <1>1, <1>3, <2>3, <2>4 DEF SlotOf
    <2>6. \A k \in Kinds : Holders(k)' = Holders(k)
      BY <2>5, HoldersOf
    <2>7. CountersExact' /\ CountersType'
      BY <1>1, <2>6 DEF ExactInv, CountersExact, CountersType
    <2>8. LoadIsFresh'
      BY <1>1, <1>2, <1>3, <2>2, <2>3 DEF LoadIsFresh
    <2> QED
      BY <2>7, <2>8 DEF ExactInv
  <1> QED
    BY <1>4, <1>5

(* What is stored is one less than the counter is, for one holder less. *)
LEMMA StoreCounterExact ==
    ASSUME ExactInv, ConnType', NEW c \in Conns, StoreCounter(c)
    PROVE  ExactInv'
  <1> DEFINE k == conn[c].slot
  <1>1. c \in Open /\ conn[c].phase = "counting" /\ conn' = [conn EXCEPT ![c] = NoConn]
    BY DEF StoreCounter
  <1>2. k \in Kinds /\ conn[c].saw = counters[k]
    BY <1>1 DEF ExactInv, LoadIsFresh
  <1>3. counters' = [counters EXCEPT ![k] = Byte(counters[k] - 1)]
    BY <1>2 DEF StoreCounter
  <1>4. conn'[c] = NoConn /\ \A d \in Conns : d # c => conn'[d] = conn[d]
    BY <1>1 DEF ExactInv
  <1>5. SlotOf(c) = k /\ SlotOf(c)' = "none" /\ \A d \in Conns : d # c => SlotOf(d)' = SlotOf(d)
    BY <1>1, <1>4 DEF SlotOf
  <1>6. "none" \notin Kinds
    BY DEF Kinds
  <1> HIDE DEF k
  <1>7. ASSUME NEW j \in Kinds
        PROVE  counters'[j] = Cardinality(Holders(j)')
    <2>1. counters[j] = Cardinality(Holders(j)) /\ j # "none"
      BY <1>6 DEF ExactInv, CountersExact
    <2>2. \A n \in 0 .. 255 : Byte(n) = n
      BY DEF Byte
    <2>3. /\ Cardinality(Holders(j)') = IF j = k THEN counters[j] - 1 ELSE counters[j]
          /\ Cardinality(Holders(j)') \in 0 .. 255
      BY <1>5, <2>1, HoldersChange
    <2>4. counters'[j] = IF j = k THEN Byte(counters[j] - 1) ELSE counters[j]
      BY <1>3 DEF ExactInv, CountersType
    <2> QED
      BY <2>2, <2>3, <2>4
  <1>8. CountersType'
    <2>1. \A j \in Kinds : Cardinality(Holders(j)') \in 0 .. 255
      BY <1>5, HoldersChange
    <2>2. counters' = [j \in Kinds |-> counters'[j]]
      BY <1>3 DEF ExactInv, CountersType
    <2> QED
      BY <1>7, <2>1, <2>2 DEF CountersType
  <1>9. LoadIsFresh'
    BY <1>1, <1>4 DEF ExactInv, LoadIsFresh
  <1> QED
    BY <1>7, <1>8, <1>9 DEF ExactInv, CountersExact

LEMMA NextExact ==
    ASSUME IInv, ExactInv, Exclusive, [Next]_vars
    PROVE  ExactInv'
  <1>1. ConnType'
    BY NextIInv DEF ExactInv
  <1>2. ASSUME NEW c \in Conns, NEW u \in Users, Connect(c, u)
        PROVE  ExactInv'
    BY <1>1, <1>2, ConnectExact
  <1>3. ASSUME NEW c \in Conns, NEW asked \in {"file", "small", "partial"}, PrepareFile(c, asked)
        PROVE  ExactInv'
    BY <1>3, PrepareFileExact
  <1>4. ASSUME NEW c \in Conns, TransmitDone(c) \/ LetGo(c) \/ LoadCounter(c) \/ StoreCounter(c)
        PROVE  ExactInv'
    BY <1>1, <1>4, TransmitDoneExact, LetGoExact, LoadCounterExact, StoreCounterExact
  <1>5. CASE Second
    BY <1>1, <1>5, SecondExact
  <1>6. CASE UNCHANGED <<conn, counters>>
    BY <1>1, <1>6, SlotsKept DEF SlotOf
  <1> QED
    BY <1>2, <1>3, <1>4, <1>5, <1>6
    DEF Next, vars, Minute, ReserveSlot, UnreserveSlot, UserDisconnected

(***************************************************************************)
(* CountersExact in every reachable state, for at most 255 connections, if *)
(* no thread touches a counter while another one gives a slot back: every  *)
(* path of prepareFile and of a connection's end counts right, and what    *)
(* the run UploadRace shows is due to the missing lock alone.              *)
(***************************************************************************)
THEOREM ExactCounters == ASSUME Exclusive PROVE Spec => []CountersExact
  <1>1. Init => IInv /\ ExactInv
    BY InitIInv, InitExact
  <1>2. IInv /\ ExactInv /\ [Next]_vars => (IInv /\ ExactInv)'
    BY NextIInv, NextExact DEF ExactInv
  <1>3. ExactInv => CountersExact
    BY DEF ExactInv
  <1> QED
    BY <1>1, <1>2, <1>3, PTL DEF Spec

-----------------------------------------------------------------------------
(***************************************************************************)
(* clearUserFiles takes the users it is given out of the waiting queue,    *)
(* and nobody else.                                                        *)
(***************************************************************************)
QueueType == uploadQueue \in Seq(Users) /\ S!IsInjective(uploadQueue)

LEMMA ClearUserFilesKeeps ==
    ASSUME QueueType, NEW U
    PROVE  /\ ClearUserFiles(U) \in Seq(Users) /\ S!IsInjective(ClearUserFiles(U))
           /\ S!ToSet(ClearUserFiles(U)) = Waiting \ U
  <1> DEFINE kept == {n \in DOMAIN uploadQueue : uploadQueue[n] \notin U}
             order == CHOOSE f \in [1 .. Cardinality(kept) -> kept] : \A m, n \in DOMAIN f : m < n => f[m] < f[n]
  <1>1. /\ DOMAIN uploadQueue = 1 .. Len(uploadQueue) /\ Len(uploadQueue) \in Nat
        /\ \A n \in DOMAIN uploadQueue : uploadQueue[n] \in Users
    BY DEF QueueType
  <1>2. kept \in SUBSET Nat /\ IsFiniteSet(kept)
    <2>1. IsFiniteSet(1 .. Len(uploadQueue)) /\ kept \in SUBSET (1 .. Len(uploadQueue))
      BY <1>1, FS_Interval
    <2> QED
      BY <2>1, FS_Subset
  <1>3. Cardinality(kept) \in Nat
    BY <1>2, FS_CardinalityType
  <1> HIDE DEF kept
  <1>4. order \in [1 .. Cardinality(kept) -> kept] /\ Increasing(order)
    BY <1>2, IncreasingExists DEF Increasing
  <1>5. ClearUserFiles(U) = [n \in 1 .. Cardinality(kept) |-> uploadQueue[order[n]]]
    BY DEF ClearUserFiles, kept
  <1> HIDE DEF order
  <1>6. \A n \in 1 .. Cardinality(kept) :
            order[n] \in DOMAIN uploadQueue /\ uploadQueue[order[n]] \in Users \ U
    BY <1>1, <1>4 DEF kept
  <1>7. ClearUserFiles(U) \in Seq(Users) /\ DOMAIN ClearUserFiles(U) = 1 .. Cardinality(kept)
    BY <1>3, <1>5, <1>6
  <1>8. S!IsInjective(ClearUserFiles(U))
    <2> SUFFICES ASSUME NEW m \in 1 .. Cardinality(kept), NEW n \in 1 .. Cardinality(kept),
                        uploadQueue[order[m]] = uploadQueue[order[n]]
                 PROVE  m = n
      BY <1>5, <1>7 DEF S!IsInjective
    <2>1. order[m] = order[n]
      BY <1>6 DEF QueueType, S!IsInjective
    <2>2. order[m] \in Nat /\ order[n] \in Nat
      BY <1>2, <1>4
    <2>3. ~(m < n) /\ ~(n < m)
      BY <1>4, <2>1, <2>2 DEF Increasing
    <2> QED
      BY <1>3, <2>3
  <1>9. S!ToSet(ClearUserFiles(U)) = Waiting \ U
    <2>1. S!ToSet(ClearUserFiles(U)) \subseteq Waiting \ U
      BY <1>5, <1>6, <1>7 DEF Waiting, S!ToSet
    <2>2. ASSUME NEW u \in Waiting \ U PROVE u \in S!ToSet(ClearUserFiles(U))
      <3>1. PICK k \in kept : uploadQueue[k] = u
        BY DEF Waiting, S!ToSet, kept
      <3>2. PICK m \in 1 .. Cardinality(kept) : order[m] = k
        BY <1>2, <1>4, IncreasingOnto
      <3> QED
        BY <1>5, <1>7, <3>1, <3>2 DEF S!ToSet
    <2> QED
      BY <2>1, <2>2
  <1> QED
    BY <1>7, <1>8, <1>9

-----------------------------------------------------------------------------
(***************************************************************************)
(* Who waits and who has been promised a slot. There are finitely many of  *)
(* them at any time, even if there is no end of users.                     *)
(***************************************************************************)
WaitingType ==
    /\ reserved \subseteq Users
    /\ Promised \subseteq Users /\ connecting \in [Promised -> 0 .. 2] /\ IsFiniteSet(Promised)
    /\ QueueType

LEMMA ClearUserFilesNext ==
    ASSUME QueueType, NEW U, uploadQueue' = ClearUserFiles(U)
    PROVE  QueueType' /\ Waiting' = Waiting \ U
  BY ClearUserFilesKeeps DEF QueueType, Waiting

LEMMA ServeWaits ==
    ASSUME WaitingType, NEW c \in Conns, NEW slot, NEW by, Serve(c, slot, by)
    PROVE  /\ WaitingType'
           /\ Waiting' = Waiting \ {conn[c].user} /\ Promised' = Promised \ {conn[c].user}
  <1>1. /\ uploadQueue' = ClearUserFiles({conn[c].user})
        /\ connecting' = Without(connecting, {conn[c].user})
        /\ UNCHANGED reserved
    BY DEF Serve
  <1>2. QueueType' /\ Waiting' = Waiting \ {conn[c].user}
    BY <1>1, ClearUserFilesNext DEF WaitingType
  <1>3. Promised' = Promised \ {conn[c].user} /\ connecting' \in [Promised' -> 0 .. 2]
    BY <1>1 DEF Without, Promised, WaitingType
  <1>4. IsFiniteSet(Promised')
    BY <1>3, FS_RemoveElement DEF WaitingType
  <1> QED
    BY <1>1, <1>2, <1>3, <1>4 DEF WaitingType

LEMMA RefuseWaits ==
    ASSUME IInv, WaitingType, NEW c \in Up, Refuse(c)
    PROVE  /\ WaitingType'
           /\ Waiting' = Waiting \cup {conn[c].user} /\ Promised' = Promised
  <1> DEFINE u == conn[c].user
  <1>1. /\ uploadQueue' = IF u \in Waiting THEN uploadQueue ELSE Append(uploadQueue, u)
        /\ UNCHANGED <<reserved, connecting>>
    BY DEF Refuse
  <1>2. u \in Users
    BY DEF Connection
  <1> HIDE DEF u
  <1>3. QueueType' /\ Waiting' = Waiting \cup {u}
    <2>1. CASE u \in Waiting
      BY <1>1, <2>1 DEF WaitingType, QueueType, Waiting
    <2>2. CASE u \notin Waiting
      <3> DEFINE n == Len(uploadQueue)
      <3>1. uploadQueue' = Append(uploadQueue, u) /\ uploadQueue \in Seq(Users) /\ n \in Nat
        BY <1>1, <2>2 DEF WaitingType, QueueType
      <3>2. /\ uploadQueue' \in Seq(Users)
            /\ DOMAIN uploadQueue = 1 .. n /\ DOMAIN uploadQueue' = 1 .. n + 1
            /\ uploadQueue'[n + 1] = u /\ \A i \in 1 .. n : uploadQueue'[i] = uploadQueue[i]
        BY <1>2, <3>1
      <3> HIDE DEF n
      <3>3. \A i \in 1 .. n : uploadQueue[i] # u
        BY <2>2, <3>2 DEF Waiting, S!ToSet
      <3>4. 1 .. n + 1 = (1 .. n) \cup {n + 1}
        BY <3>1
      <3>5. S!IsInjective(uploadQueue')
        <4> SUFFICES ASSUME NEW i \in 1 .. n + 1, NEW j \in 1 .. n + 1, uploadQueue'[i] = uploadQueue'[j]
                     PROVE  i = j
          BY <3>2 DEF S!IsInjective
        <4>1. CASE i \in 1 .. n /\ j \in 1 .. n
          BY <3>2, <4>1 DEF WaitingType, QueueType, S!IsInjective
        <4>2. CASE i = n + 1 \/ j = n + 1
          BY <3>2, <3>3, <3>4, <4>2
        <4> QED
          BY <3>4, <4>1, <4>2
      <3>6. S!ToSet(uploadQueue') = S!ToSet(uploadQueue) \cup {u}
        <4>1. \A i \in 1 .. n + 1 : uploadQueue'[i] \in S!ToSet(uploadQueue) \cup {u}
          BY <3>2, <3>4 DEF S!ToSet
        <4>2. n + 1 \in 1 .. n + 1 /\ \A i \in 1 .. n : i \in 1 .. n + 1
          BY <3>1
        <4> QED
          BY <3>2, <4>1, <4>2 DEF S!ToSet
      <3> QED
        BY <3>2, <3>5, <3>6 DEF QueueType, Waiting
    <2> QED
      BY <2>1, <2>2
  <1> QED
    BY <1>1, <1>3 DEF WaitingType, Promised, u

(* How many promises there are to make. *)
LEMMA NewPromisesBound ==
    ASSUME CountersType, WaitingType
    PROVE  /\ NewPromises \in 0 .. Len(uploadQueue)
           /\ NewPromises = 0 \/ NewPromises + Cardinality(Promised) + counters["std"] <= Slots
  <1>1. Slots \in 0 .. 255
    BY UploadAssumption
  <1>2. counters["std"] \in 0 .. 255
    BY DEF CountersType, Kinds
  <1>3. Cardinality(Promised) \in Nat
    BY FS_CardinalityType DEF WaitingType
  <1>4. Len(uploadQueue) \in Nat
    BY DEF WaitingType, QueueType
  <1>5. FreeSlots \in Int /\ (FreeSlots = 0 \/ FreeSlots = Slots - counters["std"])
    BY <1>1, <1>2 DEF FreeSlots
  <1> DEFINE n == Len(uploadQueue)
             p == Cardinality(Promised)
             left == FreeSlots - p
  <1>6. NewPromises = IF left <= 0 THEN 0 ELSE IF left < n THEN left ELSE n
    BY DEF NewPromises
  <1>7. n \in Nat /\ p \in Nat /\ left = FreeSlots - p
    BY <1>3, <1>4
  <1> HIDE DEF n, p, left
  <1>8. left \in Int /\ (left > 0 => left = Slots - counters["std"] - p)
    BY <1>1, <1>2, <1>5, <1>7
  <1>9. NewPromises \in 0 .. n /\ (NewPromises = 0 \/ NewPromises <= left)
    BY <1>6, <1>7, <1>8
  <1>10. NewPromises = 0 \/ NewPromises + p + counters["std"] <= Slots
    BY <1>1, <1>2, <1>7, <1>8, <1>9
  <1> QED
    BY <1>9, <1>10 DEF n, p

(* The timer promises slots to users who waited, and as many as that at most. *)
LEMMA SecondWaits ==
    ASSUME CountersType, WaitingType, Second
    PROVE  /\ WaitingType'
           /\ Waiting' \subseteq Waiting
           /\ \E now \in SUBSET Waiting :
                /\ Promised' = Promised \cup now
                /\ IsFiniteSet(now) /\ Cardinality(now) <= NewPromises
  <1> DEFINE k == NewPromises
             n == Len(uploadQueue)
             now == S!ToSet(SubSeq(uploadQueue, 1, k))
  <1>1. /\ connecting' = [u \in Promised \cup now |-> IF u \in now THEN 0 ELSE connecting[u]]
        /\ uploadQueue' = SubSeq(uploadQueue, k + 1, n)
        /\ UNCHANGED <<counters, reserved>>
    BY DEF Second
  <1>2. uploadQueue \in Seq(Users) /\ n \in Nat /\ k \in 0 .. n /\ DOMAIN uploadQueue = 1 .. n
    BY NewPromisesBound DEF WaitingType, QueueType
  <1> HIDE DEF k, n
  <1>3. /\ SubSeq(uploadQueue, 1, k) = [i \in 1 .. k |-> uploadQueue[i]]
        /\ uploadQueue' = [i \in 1 .. n - k |-> uploadQueue[i + k]]
    <2>1. /\ SubSeq(uploadQueue, 1, k) = [i \in 1 .. (1 + k - 1) |-> uploadQueue[i + 1 - 1]]
          /\ SubSeq(uploadQueue, k + 1, n) = [i \in 1 .. (1 + n - (k + 1)) |-> uploadQueue[i + (k + 1) - 1]]
      BY <1>2
    <2>2. 1 + k - 1 = k /\ 1 + n - (k + 1) = n - k /\ \A i \in Int : i + (k + 1) - 1 = i + k /\ i + 1 - 1 = i
      BY <1>2
    <2> QED
      BY <1>1, <2>1, <2>2
  <1>4. now = {uploadQueue[i] : i \in 1 .. k}
    BY <1>3 DEF S!ToSet
  <1>5. /\ 1 .. k \subseteq 1 .. n
        /\ \A i \in 1 .. n - k : i + k \in 1 .. n
    BY <1>2
  <1> HIDE DEF now
  <1>6. now \subseteq Waiting
    BY <1>2, <1>4, <1>5 DEF Waiting, S!ToSet
  <1>7. IsFiniteSet(now) /\ Cardinality(now) <= k
    <2> DEFINE f == [i \in 1 .. k |-> uploadQueue[i]]
    <2>1. IsFiniteSet(1 .. k) /\ Cardinality(1 .. k) = k
      BY <1>2, FS_Interval
    <2>2. f \in Surjection(1 .. k, now)
      BY <1>4 DEF Surjection
    <2> QED
      BY <2>1, <2>2, FS_Surjection
  <1>8. Waiting \subseteq Users
    BY <1>2 DEF Waiting, S!ToSet
  <1>9. QueueType' /\ Waiting' \subseteq Waiting
    <2>1. uploadQueue' \in Seq(Users) /\ DOMAIN uploadQueue' = 1 .. n - k
      BY <1>2, <1>3, <1>5
    <2>2. S!IsInjective(uploadQueue')
      <3> SUFFICES ASSUME NEW i \in 1 .. n - k, NEW j \in 1 .. n - k, uploadQueue[i + k] = uploadQueue[j + k]
                   PROVE  i = j
        BY <1>3, <2>1 DEF S!IsInjective
      <3>1. i + k = j + k
        BY <1>2, <1>5 DEF WaitingType, QueueType, S!IsInjective
      <3> QED
        BY <1>2, <3>1
    <2>3. S!ToSet(uploadQueue') \subseteq S!ToSet(uploadQueue)
      BY <1>2, <1>3, <1>5, <2>1 DEF S!ToSet
    <2> QED
      BY <2>1, <2>2, <2>3 DEF QueueType, Waiting
  <1>10. Promised' = Promised \cup now /\ connecting' \in [Promised' -> 0 .. 2]
    BY <1>1 DEF Promised, WaitingType
  <1>11. IsFiniteSet(Promised')
    BY <1>7, <1>10, FS_Union DEF WaitingType
  <1>12. WaitingType'
    BY <1>1, <1>6, <1>8, <1>9, <1>10, <1>11 DEF WaitingType
  <1> QED
    BY <1>6, <1>7, <1>9, <1>10, <1>12 DEF k

LEMMA MinuteWaits ==
    ASSUME WaitingType, Minute
    PROVE  WaitingType' /\ Waiting' \subseteq Waiting /\ Promised' \subseteq Promised
  <1>1. PICK E \in SUBSET Promised :
            /\ connecting' = [u \in Promised \ E |-> IF connecting[u] < 2 THEN connecting[u] + 1 ELSE 2]
            /\ uploadQueue' = ClearUserFiles(E)
    BY DEF Minute
  <1>2. reserved' \subseteq reserved
    BY DEF Minute
  <1>3. QueueType' /\ Waiting' \subseteq Waiting
    BY <1>1, ClearUserFilesNext DEF WaitingType
  <1>4. Promised' = Promised \ E
    BY <1>1 DEF Promised
  <1>5. connecting' \in [Promised' -> 0 .. 2]
    <2>1. \A u \in Promised : connecting[u] \in 0 .. 2
      BY DEF WaitingType
    <2>2. \A u \in Promised : (IF connecting[u] < 2 THEN connecting[u] + 1 ELSE 2) \in 0 .. 2
      BY <2>1
    <2> QED
      BY <1>1, <1>4, <2>2
  <1>6. IsFiniteSet(Promised')
    BY <1>4, FS_Subset DEF WaitingType
  <1> QED
    BY <1>2, <1>3, <1>4, <1>5, <1>6 DEF WaitingType

LEMMA UserDisconnectedWaits ==
    ASSUME WaitingType, NEW u \in Users, UserDisconnected(u)
    PROVE  WaitingType' /\ Waiting' \subseteq Waiting /\ Promised' = Promised
  <1>1. uploadQueue' = ClearUserFiles({u}) /\ UNCHANGED <<reserved, connecting>>
    BY DEF UserDisconnected
  <1> QED
    BY <1>1, ClearUserFilesNext DEF WaitingType, Promised

(* prepareFile grants some slot or refuses. *)
LEMMA PrepareFileOutcome ==
    ASSUME IInv, NEW c \in Conns, NEW asked \in {"file", "small", "partial"}, PrepareFile(c, asked)
    PROVE  /\ c \in Up /\ conn[c] \in Connection
           /\ \/ \E slot \in Kinds, by \in {"free", "forced"} : Serve(c, slot, by)
              \/ conn[c].slot # "std" /\ Refuse(c)
  BY DEF PrepareFile, MayAsk, Kinds, Connection

LEMMA NextWaits == IInv /\ CountersType /\ WaitingType /\ [Next]_vars => WaitingType'
  <1> SUFFICES ASSUME IInv, CountersType, WaitingType, [Next]_vars PROVE WaitingType'
    OBVIOUS
  <1>1. ASSUME NEW c \in Conns, NEW asked \in {"file", "small", "partial"}, PrepareFile(c, asked)
        PROVE  WaitingType'
    BY <1>1, PrepareFileOutcome, ServeWaits, RefuseWaits
  <1>2. ASSUME NEW u \in Users, ReserveSlot(u) \/ UnreserveSlot(u)
        PROVE  WaitingType'
    BY <1>2, UploadAssumption DEF ReserveSlot, UnreserveSlot, WaitingType, QueueType, Promised
  <1>3. CASE UNCHANGED <<reserved, connecting, uploadQueue>>
    BY <1>3 DEF WaitingType, QueueType, Promised
  <1>4. ASSUME NEW c \in Conns,
               \/ \E u \in Users : Connect(c, u)
               \/ TransmitDone(c) \/ LetGo(c) \/ LoadCounter(c) \/ StoreCounter(c)
        PROVE  UNCHANGED <<reserved, connecting, uploadQueue>>
    BY <1>4 DEF Connect, TransmitDone, LetGo, LoadCounter, StoreCounter
  <1> QED
    BY <1>1, <1>2, <1>3, <1>4, SecondWaits, MinuteWaits, UserDisconnectedWaits DEF Next, vars

LEMMA InitWaits == Init => WaitingType
  BY FS_EmptySet DEF Init, WaitingType, QueueType, Promised, S!IsInjective

(***************************************************************************)
(* TypeOK: whatever is lost and however the counters are disturbed, no     *)
(* user is in the waiting queue twice.                                     *)
(***************************************************************************)
THEOREM TypeCorrect == Spec => []TypeOK
  <1>1. Init => IInv /\ CountersType /\ WaitingType
    BY InitIInv, InitWaits DEF Init, CountersType
  <1>2. IInv /\ CountersType /\ WaitingType /\ [Next]_vars => (IInv /\ CountersType /\ WaitingType)'
    BY NextIInv, NextCountersType, NextWaits
  <1>3. IInv /\ CountersType /\ WaitingType => TypeOK
    BY DEF TypeOK, CountersType, WaitingType, QueueType
  <1> QED
    BY <1>1, <1>2, <1>3, PTL DEF Spec

-----------------------------------------------------------------------------
(* Whoever takes no slot in a step had the standard slot that he has after it, and for the same reason. *)
SlotsAsBefore ==
    \A d \in Conns : conn'[d] # NoConn /\ conn'[d].slot = "std" =>
        /\ conn[d] # NoConn /\ conn[d].slot = "std"
        /\ conn'[d].user = conn[d].user /\ conn'[d].by = conn[d].by
        /\ conn'[d].phase = "up" => conn[d].phase = "up"

LEMMA ServedConnection ==
    ASSUME IInv, NEW c \in Up, NEW slot \in Kinds, NEW by \in {"free", "forced"}, Serve(c, slot, by)
    PROVE  /\ conn'[c] # NoConn /\ conn'[c].slot = slot /\ conn'[c].by = by
           /\ conn'[c].user = conn[c].user
           /\ \A d \in Conns : d # c => conn'[d] = conn[d]
  <1>1. conn[c] \in Connection
    OBVIOUS
  <1>2. conn'[c] = Served(conn[c], slot, by)
    BY DEF Serve, Served
  <1>3. conn'[c] \in Connection /\ conn'[c].slot = slot /\ conn'[c].by = by /\ conn'[c].user = conn[c].user
    BY <1>1, <1>2, ServedFields
  <1> QED
    BY <1>3 DEF Serve

LEMMA ConnectionsTakeNothing ==
    ASSUME IInv, NEW c \in Conns,
           \/ \E u \in Users : Connect(c, u)
           \/ TransmitDone(c) \/ LetGo(c) \/ LoadCounter(c) \/ StoreCounter(c)
    PROVE  SlotsAsBefore
  <1>1. CASE \E u \in Users : Connect(c, u)
    <2>1. conn'[c].slot = "none" /\ \A d \in Conns : d # c => conn'[d] = conn[d]
      BY <1>1 DEF Connect
    <2> QED
      BY <2>1 DEF SlotsAsBefore
  <1>2. CASE TransmitDone(c)
    <2>1. PICK kept \in {"none", "delayed"} : conn' = [conn EXCEPT ![c].upload = kept]
      BY <1>2 DEF TransmitDone
    <2>2. conn[c] # NoConn /\ conn[c] \in Connection
      BY <1>2 DEF TransmitDone
    <2>3. /\ conn'[c].slot = conn[c].slot /\ conn'[c].user = conn[c].user
          /\ conn'[c].by = conn[c].by /\ conn'[c].phase = conn[c].phase
      BY <2>1, <2>2 DEF Connection
    <2>4. \A d \in Conns : d # c => conn'[d] = conn[d]
      BY <2>1
    <2> QED
      BY <2>2, <2>3, <2>4 DEF SlotsAsBefore
  <1>3. CASE LetGo(c)
    <2>1. PICK d \in Conns :
            \/ d \in Open /\ conn' = [conn EXCEPT ![d].upload = "none", ![c].phase = "failed"]
            \/ d = c /\ conn' = [conn EXCEPT ![c].phase = "failed"]
      BY <1>3 DEF LetGo
    <2>2. conn[c] # NoConn /\ conn[c] \in Connection /\ conn[d] # NoConn /\ conn[d] \in Connection
      BY <1>3, <2>1 DEF LetGo
    <2>3. /\ conn'[c].slot = conn[c].slot /\ conn'[c].user = conn[c].user
          /\ conn'[c].by = conn[c].by /\ conn'[c].phase # "up"
      BY <2>1, <2>2 DEF Connection
    <2>4. d # c => /\ conn'[d].slot = conn[d].slot /\ conn'[d].user = conn[d].user
                   /\ conn'[d].by = conn[d].by /\ conn'[d].phase = conn[d].phase
      BY <2>1, <2>2 DEF Connection
    <2>5. \A e \in Conns : e # c /\ e # d => conn'[e] = conn[e]
      BY <2>1
    <2> QED
      BY <2>2, <2>3, <2>4, <2>5 DEF SlotsAsBefore
  <1>4. CASE LoadCounter(c)
    <2>1. c \in Open /\ conn[c] \in Connection
      BY <1>4 DEF LoadCounter
    <2>2. conn'[c] = NoConn \/ conn'[c] = Counted(conn[c], counters[conn[c].slot])
      BY <1>4 DEF LoadCounter, Counted
    <2>3. conn'[c] = NoConn \/ /\ conn'[c].slot = conn[c].slot /\ conn'[c].user = conn[c].user
                               /\ conn'[c].by = conn[c].by /\ conn'[c].phase # "up"
      BY <2>1, <2>2, CountedFields
    <2>4. \A d \in Conns : d # c => conn'[d] = conn[d]
      BY <1>4 DEF LoadCounter
    <2> QED
      BY <2>1, <2>3, <2>4 DEF SlotsAsBefore
  <1>5. CASE StoreCounter(c)
    <2>1. conn'[c] = NoConn /\ \A d \in Conns : d # c => conn'[d] = conn[d]
      BY <1>5 DEF StoreCounter
    <2> QED
      BY <2>1 DEF SlotsAsBefore
  <1> QED
    BY <1>1, <1>2, <1>3, <1>4, <1>5

LEMMA SecondTakesNothing ==
    ASSUME IInv, Second
    PROVE  SlotsAsBefore
  <1>1. PICK D \in SUBSET Open :
            conn' = [c \in Conns |-> IF c \in D THEN [conn[c] EXCEPT !.upload = "none"] ELSE conn[c]]
    BY DEF Second
  <1> SUFFICES ASSUME NEW d \in Conns, conn'[d] # NoConn, conn'[d].slot = "std"
               PROVE  /\ conn[d] # NoConn /\ conn[d].slot = "std"
                      /\ conn'[d].user = conn[d].user /\ conn'[d].by = conn[d].by
                      /\ conn'[d].phase = "up" => conn[d].phase = "up"
    BY DEF SlotsAsBefore
  <1>2. CASE d \in D
    <2>1. conn[d] # NoConn /\ conn[d] \in Connection
      BY <1>2
    <2>2. conn'[d] = [conn[d] EXCEPT !.upload = "none"]
      BY <1>1, <1>2
    <2> QED
      BY <2>1, <2>2 DEF Connection
  <1>3. CASE d \notin D
    BY <1>1, <1>3
  <1> QED
    BY <1>2, <1>3

(* The steps of Next: a request, or a step in which nobody takes a slot. *)
LEMMA StepsThatTakeNothing ==
    ASSUME IInv, CountersType, WaitingType, [Next]_vars
    PROVE  \/ \E c \in Conns, asked \in {"file", "small", "partial"} : PrepareFile(c, asked)
           \/ SlotsAsBefore /\ Second
           \/ SlotsAsBefore /\ Waiting' \subseteq Waiting /\ Promised' \subseteq Promised
  <1>1. CASE \E c \in Conns : \/ \E u \in Users : Connect(c, u)
                              \/ TransmitDone(c) \/ LetGo(c) \/ LoadCounter(c) \/ StoreCounter(c)
    <2>1. SlotsAsBefore
      BY <1>1, ConnectionsTakeNothing
    <2>2. UNCHANGED <<connecting, uploadQueue>>
      BY <1>1 DEF Connect, TransmitDone, LetGo, LoadCounter, StoreCounter
    <2> QED
      BY <2>1, <2>2 DEF Waiting, Promised
  <1>2. CASE Second
    BY <1>2, SecondTakesNothing
  <1>3. CASE \/ Minute \/ UNCHANGED vars
             \/ \E u \in Users : ReserveSlot(u) \/ UnreserveSlot(u) \/ UserDisconnected(u)
    <2>1. SlotsAsBefore
      BY <1>3 DEF SlotsAsBefore, Minute, ReserveSlot, UnreserveSlot, UserDisconnected, vars
    <2>2. Waiting' \subseteq Waiting /\ Promised' \subseteq Promised
      <3>1. CASE \E u \in Users : ReserveSlot(u) \/ UnreserveSlot(u)
        BY <3>1 DEF ReserveSlot, UnreserveSlot, Waiting, Promised
      <3>2. CASE UNCHANGED vars
        BY <3>2 DEF vars, Waiting, Promised
      <3> QED
        BY <1>3, <3>1, <3>2, MinuteWaits, UserDisconnectedWaits
    <2> QED
      BY <2>1, <2>2
  <1> QED
    BY <1>1, <1>2, <1>3 DEF Next

-----------------------------------------------------------------------------
LEMMA PrepareFileServes ==
    ASSUME IInv, WaitingType, ServedNotWaiting,
           NEW c \in Conns, NEW asked \in {"file", "small", "partial"}, PrepareFile(c, asked)
    PROVE  ServedNotWaiting'
  <1>1. c \in Up /\ conn[c] \in Connection
    BY PrepareFileOutcome
  <1>2. ASSUME NEW slot \in Kinds, NEW by \in {"free", "forced"}, Serve(c, slot, by)
        PROVE  ServedNotWaiting'
    <2>1. Waiting' = Waiting \ {conn[c].user} /\ Promised' = Promised \ {conn[c].user}
      BY <1>2, ServeWaits
    <2>2. /\ conn'[c].user = conn[c].user
          /\ \A d \in Conns : d # c => conn'[d] = conn[d]
      BY <1>1, <1>2, ServedConnection
    <2> QED
      BY <2>1, <2>2 DEF ServedNotWaiting
  <1>3. CASE conn[c].slot # "std" /\ Refuse(c)
    <2>1. Waiting' = Waiting \cup {conn[c].user} /\ Promised' = Promised /\ UNCHANGED conn
      BY <1>1, <1>3, RefuseWaits DEF Refuse
    <2>2. \A d \in Up : conn[d].slot = "std" => conn[d].user # conn[c].user
      BY <1>1, <1>3
    <2> QED
      BY <2>1, <2>2 DEF ServedNotWaiting
  <1> QED
    BY <1>2, <1>3, PrepareFileOutcome

LEMMA NextServes ==
    ASSUME IInv, CountersType, WaitingType, ServedNotWaiting, [Next]_vars
    PROVE  ServedNotWaiting'
  <1>1. ASSUME SlotsAsBefore, Waiting' \cup Promised' \subseteq Waiting \cup Promised
        PROVE  ServedNotWaiting'
    BY <1>1 DEF ServedNotWaiting, SlotsAsBefore
  <1>2. Second => Waiting' \cup Promised' \subseteq Waiting \cup Promised
    <2> SUFFICES ASSUME Second PROVE Waiting' \cup Promised' \subseteq Waiting \cup Promised
      OBVIOUS
    <2>1. Waiting' \subseteq Waiting /\ \E now \in SUBSET Waiting : Promised' = Promised \cup now
      BY SecondWaits
    <2> QED
      BY <2>1
  <1> QED
    BY <1>1, <1>2, StepsThatTakeNothing, PrepareFileServes

(***************************************************************************)
(* ServedNotWaiting: no request, refusal, timer or end of a connection     *)
(* puts a user who has a slot in the queue or promises him another one. It *)
(* rests on one upload connection for each user, and on no counter: a slot *)
(* that is lost or counted twice does not matter here.                     *)
(***************************************************************************)
THEOREM ServedNeverWaits == Spec => []ServedNotWaiting
  <1>1. Init => IInv /\ CountersType /\ WaitingType /\ ServedNotWaiting
    BY InitIInv, InitWaits DEF Init, CountersType, ServedNotWaiting
  <1>2. IInv /\ CountersType /\ WaitingType /\ ServedNotWaiting /\ [Next]_vars
            => (IInv /\ CountersType /\ WaitingType /\ ServedNotWaiting)'
    BY NextIInv, NextCountersType, NextWaits, NextServes
  <1> QED
    BY <1>1, <1>2, PTL DEF Spec

-----------------------------------------------------------------------------
(* Those who took their slot because it was free. *)
FreeHolders == {c \in Holders("std") : conn[c].by = "free"}

LEMMA FreeHoldersOf ==
    /\ FreeHolders = {c \in Conns : conn[c] # NoConn /\ conn[c].slot = "std" /\ conn[c].by = "free"}
    /\ FreeHolders' = {c \in Conns : conn'[c] # NoConn /\ conn'[c].slot = "std" /\ conn'[c].by = "free"}
  BY DEF FreeHolders, Holders

LEMMA FreeHoldersNumber ==
    /\ IsFiniteSet(FreeHolders) /\ Cardinality(FreeHolders) \in Nat
    /\ IsFiniteSet(FreeHolders') /\ Cardinality(FreeHolders') \in Nat
    /\ Cardinality(FreeHolders) <= Cardinality(Holders("std"))
    /\ Cardinality(FreeHolders') <= Cardinality(Holders("std")')
  <1>1. /\ FreeHolders \in SUBSET Holders("std") /\ Holders("std") \in SUBSET Conns
        /\ FreeHolders' \in SUBSET Holders("std")' /\ Holders("std")' \in SUBSET Conns
    BY DEF FreeHolders, Holders
  <1>2. IsFiniteSet(Holders("std")) /\ IsFiniteSet(Holders("std")')
    BY <1>1, ConnsAssumption, FS_Subset
  <1> QED
    BY <1>1, <1>2, FS_Subset, FS_CardinalityType

LEMMA FitDef ==
    /\ PromisesFit <=> Cardinality(FreeHolders) + Cardinality(Promised) <= Slots
    /\ PromisesFit' <=> Cardinality(FreeHolders') + Cardinality(Promised') <= Slots
  BY DEF PromisesFit, FreeHolders

(* Neither a slot given back nor a promise broken takes room. *)
LEMMA FewerFit ==
    ASSUME PromisesFit, WaitingType, FreeHolders' \subseteq FreeHolders, Promised' \subseteq Promised
    PROVE  PromisesFit'
  <1>1. Cardinality(FreeHolders') <= Cardinality(FreeHolders)
    BY FreeHoldersNumber, FS_Subset
  <1>2. IsFiniteSet(Promised) /\ IsFiniteSet(Promised') /\ Cardinality(Promised') <= Cardinality(Promised)
    BY FS_Subset DEF WaitingType
  <1>3. Cardinality(Promised) \in Nat /\ Cardinality(Promised') \in Nat
    BY <1>2, FS_CardinalityType
  <1>4. Slots \in Int
    BY UploadAssumption
  <1> QED
    BY <1>1, <1>2, <1>3, <1>4, FreeHoldersNumber, FitDef

(* A slot that is granted because it is free was promised, or nobody was promised one. *)
LEMMA FreeSlotFits ==
    ASSUME IInv, ExactInv, WaitingType, PromisesFit, NEW c \in Up,
           Serve(c, "std", "free"), HasFreeSlot(conn[c].user), conn[c].slot # "std"
    PROVE  PromisesFit'
  <1> DEFINE u == conn[c].user
             held == Cardinality(Holders("std"))
             heldNext == Cardinality(Holders("std")')
             free == Cardinality(FreeHolders)
             freeNext == Cardinality(FreeHolders')
             promises == Cardinality(Promised)
             promisesNext == Cardinality(Promised')
  <1>1. /\ conn'[c] # NoConn /\ conn'[c].slot = "std"
        /\ \A d \in Conns : d # c => conn'[d] = conn[d]
    BY ServedConnection DEF Kinds
  <1>2. Promised' = Promised \ {u}
    BY ServeWaits DEF Kinds
  <1>3. /\ free \in Nat /\ freeNext \in Nat /\ freeNext <= heldNext
        /\ promises \in Nat /\ promisesNext \in Nat
    <2>1. IsFiniteSet(Promised) /\ IsFiniteSet(Promised')
      BY <1>2, FS_RemoveElement DEF WaitingType
    <2> QED
      BY <2>1, FreeHoldersNumber, FS_CardinalityType
  <1>4. held \in Nat /\ heldNext = held + 1
    <2>1. SlotOf(c) # "std" /\ SlotOf(c)' = "std" /\ \A d \in Conns : d # c => SlotOf(d)' = SlotOf(d)
      BY <1>1 DEF SlotOf
    <2> QED
      BY <2>1, HoldersChange DEF Kinds
  <1>5. Slots \in 0 .. 255 /\ held < Slots
    <2>1. counters["std"] = held
      BY DEF ExactInv, CountersExact, Kinds
    <2>2. FreeSlots > 0
      BY DEF HasFreeSlot
    <2> QED
      BY <2>1, <2>2, UploadAssumption DEF FreeSlots
  <1>6. freeNext <= free + 1
    <2>1. FreeHolders' \in SUBSET (FreeHolders \cup {c})
      BY <1>1, FreeHoldersOf
    <2>2. /\ IsFiniteSet(FreeHolders \cup {c})
          /\ Cardinality(FreeHolders \cup {c}) = free \/ Cardinality(FreeHolders \cup {c}) = free + 1
      <3>1. IsFiniteSet(FreeHolders)
        BY FreeHoldersNumber
      <3> QED
        BY <3>1, FS_AddElement
    <2>3. freeNext <= Cardinality(FreeHolders \cup {c})
      BY <2>1, <2>2, FS_Subset
    <2> QED
      BY <1>3, <2>2, <2>3
  <1>7. free + promises <= Slots
    BY FitDef
  <1>8. CASE u \in Promised
    <2>1. promisesNext = promises - 1
      <3>1. IsFiniteSet(Promised)
        BY DEF WaitingType
      <3>2. Cardinality(Promised \ {u}) = Cardinality(Promised) - 1
        BY <1>8, <3>1, FS_RemoveElement
      <3> QED
        BY <1>2, <3>2
    <2>2. freeNext + promisesNext <= Slots
      BY <1>3, <1>5, <1>6, <1>7, <2>1
    <2> QED
      BY <2>2, FitDef
  <1>9. CASE Promised = {}
    <2>1. promisesNext = 0
      BY <1>2, <1>9, FS_EmptySet
    <2>2. freeNext + promisesNext <= Slots
      BY <1>3, <1>4, <1>5, <2>1
    <2> QED
      BY <2>2, FitDef
  <1> QED
    BY <1>8, <1>9 DEF HasFreeSlot

LEMMA PrepareFileFits ==
    ASSUME IInv, ExactInv, WaitingType, PromisesFit,
           NEW c \in Conns, NEW asked \in {"file", "small", "partial"}, PrepareFile(c, asked)
    PROVE  PromisesFit'
  <1>1. c \in Up /\ conn[c] \in Connection /\ conn[c] # NoConn
    BY PrepareFileOutcome
  <1>2. \/ conn[c].slot # "std" /\ HasFreeSlot(conn[c].user) /\ Serve(c, "std", "free")
        \/ conn[c].slot = "std" /\ Serve(c, "std", conn[c].by)
        \/ \E slot \in Kinds, by \in {"free", "forced"} :
                Serve(c, slot, by) /\ (slot # "std" \/ by = "forced")
        \/ Refuse(c)
    BY DEF PrepareFile, Kinds
  <1>3. CASE Refuse(c)
    BY <1>3, FewerFit, FreeHoldersOf DEF Refuse, Promised
  <1>4. ASSUME NEW slot \in Kinds, NEW by \in {"free", "forced"}, Serve(c, slot, by),
               \/ slot # "std" \/ by = "forced"
               \/ conn[c].slot = "std" /\ by = conn[c].by
        PROVE  PromisesFit'
    <2>1. /\ conn'[c].slot = slot /\ conn'[c].by = by
          /\ \A d \in Conns : d # c => conn'[d] = conn[d]
      BY <1>1, <1>4, ServedConnection
    <2>2. FreeHolders' \subseteq FreeHolders
      BY <1>1, <1>4, <2>1, FreeHoldersOf
    <2>3. Promised' \subseteq Promised
      BY <1>4, ServeWaits
    <2> QED
      BY <2>2, <2>3, FewerFit
  <1>5. CASE conn[c].slot = "std" /\ Serve(c, "std", conn[c].by)
    <2>1. conn[c].by \in {"free", "forced"}
      BY <1>1 DEF Connection
    <2> QED
      BY <1>4, <1>5, <2>1 DEF Kinds
  <1> QED
    BY <1>1, <1>2, <1>3, <1>4, <1>5, FreeSlotFits

(* The timer promises what is left after the slots held and the promises made before. *)
LEMMA SecondFits ==
    ASSUME ExactInv, WaitingType, PromisesFit, SlotsAsBefore, Second
    PROVE  PromisesFit'
  <1>1. PICK now \in SUBSET Waiting :
            /\ Promised' = Promised \cup now
            /\ IsFiniteSet(now) /\ Cardinality(now) <= NewPromises
    BY SecondWaits DEF ExactInv
  <1>2. FreeHolders' \subseteq FreeHolders
    BY FreeHoldersOf DEF SlotsAsBefore
  <1>3. CASE now = {}
    BY <1>1, <1>2, <1>3, FewerFit
  <1>4. CASE now # {}
    <2> DEFINE added == Cardinality(now)
               promises == Cardinality(Promised)
               promisesNext == Cardinality(Promised')
               freeNext == Cardinality(FreeHolders')
               held == counters["std"]
               new == NewPromises
               both == Cardinality(Promised \cap now)
    <2>1. added \in Nat /\ added # 0 /\ promises \in Nat /\ both \in Nat
      <3>1. IsFiniteSet(Promised \cap now)
        BY <1>1, FS_Subset
      <3> QED
        BY <1>1, <1>4, <3>1, FS_CardinalityType, FS_EmptySet DEF WaitingType
    <2>2. promisesNext = promises + added - both
      BY <1>1, FS_Union DEF WaitingType
    <2>3. freeNext \in Nat /\ freeNext <= held
      <3>1. freeNext <= Cardinality(FreeHolders) /\ Cardinality(FreeHolders) <= Cardinality(Holders("std"))
        BY <1>2, FreeHoldersNumber, FS_Subset
      <3>2. Cardinality(Holders("std")) = held
        BY DEF ExactInv, CountersExact, Kinds
      <3>3. held \in Nat
        BY DEF ExactInv, CountersType, Kinds
      <3> QED
        BY <3>1, <3>2, <3>3, FreeHoldersNumber
    <2>4. new \in 0 .. Len(uploadQueue) /\ (new = 0 \/ new + promises + held <= Slots)
      BY NewPromisesBound DEF ExactInv
    <2>5. added <= new /\ held \in 0 .. 255 /\ Slots \in 0 .. 255 /\ Len(uploadQueue) \in Nat
      BY <1>1, UploadAssumption DEF ExactInv, CountersType, Kinds, WaitingType, QueueType
    <2> HIDE DEF added, promises, promisesNext, freeNext, held, new, both
    <2>6. freeNext + promisesNext <= Slots
      BY <2>1, <2>2, <2>3, <2>4, <2>5
    <2> QED
      BY <2>6, FitDef DEF freeNext, promisesNext
  <1> QED
    BY <1>3, <1>4

LEMMA NextFits ==
    ASSUME IInv, ExactInv, WaitingType, PromisesFit, [Next]_vars
    PROVE  PromisesFit'
  <1>1. CountersType
    BY DEF ExactInv
  <1>2. SlotsAsBefore => FreeHolders' \subseteq FreeHolders
    BY FreeHoldersOf DEF SlotsAsBefore
  <1> QED
    BY <1>1, <1>2, StepsThatTakeNothing, PrepareFileFits, SecondFits, FewerFit

(***************************************************************************)
(* PromisesFit, for any number of slots, if no thread touches a counter    *)
(* while another one gives a slot back: the timer subtracts the promises   *)
(* that are still open, and a user who was promised nothing takes a slot   *)
(* only when there is no promise. It needs the counters to be exact.       *)
(***************************************************************************)
THEOREM PromisesAlwaysFit == ASSUME Exclusive PROVE Spec => []PromisesFit
  <1>1. Init => IInv /\ ExactInv /\ WaitingType /\ PromisesFit
    <2> SUFFICES ASSUME Init PROVE PromisesFit
      BY InitIInv, InitExact, InitWaits
    <2>1. FreeHolders = {} /\ Promised = {}
      BY FreeHoldersOf DEF Init, Promised
    <2>2. Cardinality(FreeHolders) + Cardinality(Promised) <= Slots
      BY <2>1, FS_EmptySet, UploadAssumption
    <2> QED
      BY <2>2, FitDef
  <1>2. IInv /\ ExactInv /\ WaitingType /\ PromisesFit /\ [Next]_vars
            => (IInv /\ ExactInv /\ WaitingType /\ PromisesFit)'
    <2>1. ExactInv => CountersType
      BY DEF ExactInv
    <2>2. IInv /\ CountersType /\ [Next]_vars => IInv'
      BY NextIInv
    <2> QED
      BY <2>1, <2>2, NextExact, NextWaits, NextFits
  <1> QED
    BY <1>1, <1>2, PTL DEF Spec
=============================================================================
