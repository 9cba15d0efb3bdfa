---------------------------- MODULE Transfers_proof ----------------------------
(***************************************************************************)
(* The lists of ConnectionManager and the connections of Transfers, for    *)
(* any users, connections, slots and priorities. Every step that touches   *)
(* a connection touches just one, so the lemmas say what becomes of it.    *)
(***************************************************************************)
EXTENDS Transfers, TLAPS

(* ConnectionManager counts the connection for its role. *)
AssociatedSteps == {"check", "list", "park", "idle", "run", "put", "upload", "over"}
Serves(r) == r # None /\ r.known /\ r.step \in AssociatedSteps

Valid(r) == r \in Connection /\ r.role \in RolesAt(r.step)

Pending == [state : {"connecting", "waiting", "noslots"}, age : Ages]

(* Only connection c changes, and what it changes to. *)
Becomes(c, r) == conn' = [conn EXCEPT ![c] = r]

-----------------------------------------------------------------------------
LEMMA OpenConn ==
    ASSUME TypeOK, NEW c \in Open
    PROVE  c \in Conns /\ conn[c] # None /\ Valid(conn[c])
  BY DEF TypeOK, Open, Valid

LEMMA RecordFields ==
    ASSUME NEW r \in Connection
    PROVE  /\ r.user \in Users /\ r.role \in {"none", "down", "up"}
           /\ r.step \in {"hello", "key", "upload", "idle", "run", "over", "check", "list", "park", "put"}
           /\ r.known \in BOOLEAN /\ r.woken \in BOOLEAN /\ r.closing \in BOOLEAN
           /\ r # None
  BY NoneAssumption DEF Connection

LEMMA BecomesType ==
    ASSUME TypeOK, NEW c \in Conns, NEW r, r = None \/ Valid(r), Becomes(c, r)
    PROVE  /\ conn' \in [Conns -> Connection \cup {None}]
           /\ \A d \in Open' : conn'[d].role \in RolesAt(conn'[d].step)
  <1>1. conn \in [Conns -> Connection \cup {None}]
    BY DEF TypeOK
  <1>2. conn' \in [Conns -> Connection \cup {None}]
    BY <1>1 DEF Becomes, Valid
  <1>3. ASSUME NEW d \in Open' PROVE conn'[d].role \in RolesAt(conn'[d].step)
    <2>1. d \in Conns /\ conn'[d] # None
      BY <1>3 DEF Open
    <2>2. CASE d = c
      BY <1>1, <2>1, <2>2 DEF Becomes, Valid
    <2>3. CASE d # c
      <3>1. conn'[d] = conn[d]
        BY <1>1, <2>1, <2>3 DEF Becomes
      <3>2. d \in Open
        BY <2>1, <3>1 DEF Open
      <3> QED
        BY <3>1, <3>2 DEF TypeOK
    <2> QED
      BY <2>2, <2>3
  <1> QED
    BY <1>2, <1>3

(* The updates of a connection's record: each is a record again. *)
LEMMA Fields ==
    ASSUME NEW r \in Connection, NEW b \in BOOLEAN,
           NEW t \in {"hello", "key", "upload", "idle", "run", "over", "check", "list", "park", "put"},
           NEW p \in {"none", "down", "up"}
    PROVE  /\ [r EXCEPT !.step = t] \in Connection
           /\ [r EXCEPT !.role = p] \in Connection
           /\ [r EXCEPT !.known = b] \in Connection
           /\ [r EXCEPT !.woken = b] \in Connection
           /\ [r EXCEPT !.closing = b] \in Connection
  BY DEF Connection

(* What the helpers of the actions make of a connection. *)
LEMMA Moves ==
    ASSUME TypeOK, NEW c \in Open,
           NEW t \in {"hello", "key", "upload", "idle", "run", "over", "check", "list", "park", "put"}
    PROVE  /\ Goto(c, t) => Becomes(c, [conn[c] EXCEPT !.step = t])
           /\ Drop(c) => Becomes(c, [conn[c] EXCEPT !.step = "over", !.known = FALSE, !.closing = TRUE])
           /\ Release(c) => Becomes(c, [conn[c] EXCEPT !.step = "over", !.closing = TRUE])
  <1>1. conn \in [Conns -> Connection \cup {None}] /\ c \in Conns /\ conn[c] \in Connection
    BY OpenConn DEF TypeOK, Valid
  <1> QED
    BY <1>1 DEF Goto, Drop, Release, Becomes

-----------------------------------------------------------------------------
(* Whether the connection is counted, for whom and for what, stays as it is. *)
Same(q, r) ==
    /\ Serves(q) <=> Serves(r)
    /\ Serves(r) => q.user = r.user /\ q.role = r.role

Keeps(c) == \E r : Becomes(c, r) /\ (r = None \/ Valid(r)) /\ Same(conn[c], r)

Steps == {"hello", "key", "upload", "idle", "run", "over", "check", "list", "park", "put"}

(* From step to step of a download or of a handshake. *)
LEMMA StepKeeps ==
    ASSUME NEW q, Valid(q), NEW t \in Steps, q.role \in RolesAt(t),
           ~q.known \/ (t \in AssociatedSteps <=> q.step \in AssociatedSteps)
    PROVE  Valid([q EXCEPT !.step = t]) /\ Same(q, [q EXCEPT !.step = t])
  <1> DEFINE r == [q EXCEPT !.step = t]
  <1>1. q \in Connection /\ r \in Connection
    BY Fields DEF Valid, Steps
  <1>2. r.step = t /\ r.role = q.role /\ r.known = q.known /\ r.user = q.user
    BY <1>1 DEF Connection
  <1>3. q # None /\ r # None
    BY <1>1, RecordFields
  <1> HIDE DEF r
  <1>4. Valid(r) /\ Same(q, r)
    BY <1>1, <1>2, <1>3 DEF Valid, Same, Serves
  <1> QED
    BY <1>4 DEF r

(* A connection that is not counted, and one that will not be. *)
LEMMA DropKeeps ==
    ASSUME NEW q, Valid(q), q.step \in {"hello", "key"}
    PROVE  LET r == [q EXCEPT !.step = "over", !.known = FALSE, !.closing = TRUE]
           IN  Valid(r) /\ Same(q, r)
  <1> DEFINE r == [q EXCEPT !.step = "over", !.known = FALSE, !.closing = TRUE]
  <1>1. q \in Connection /\ r \in Connection
    BY DEF Valid, Connection
  <1>2. r.step = "over" /\ r.role = q.role /\ r.known = FALSE
    BY <1>1 DEF Connection
  <1>3. r.role \in RolesAt(r.step)
    BY <1>1, <1>2, RecordFields DEF RolesAt
  <1>4. ~Serves(q) /\ ~Serves(r)
    BY <1>2 DEF Serves, AssociatedSteps
  <1> HIDE DEF r
  <1>5. Valid(r) /\ Same(q, r)
    BY <1>1, <1>3, <1>4 DEF Valid, Same
  <1> QED
    BY <1>5 DEF r

LEMMA ReleaseKeeps ==
    ASSUME NEW q, Valid(q), q.step \in {"check", "put"}
    PROVE  LET r == [q EXCEPT !.step = "over", !.closing = TRUE]
           IN  Valid(r) /\ Same(q, r)
  <1> DEFINE r == [q EXCEPT !.step = "over", !.closing = TRUE]
  <1>1. q \in Connection /\ r \in Connection
    BY DEF Valid, Connection
  <1>2. r.step = "over" /\ r.role = q.role /\ r.known = q.known /\ r.user = q.user
    BY <1>1 DEF Connection
  <1>3. r.role \in RolesAt(r.step)
    BY <1>1, <1>2, RecordFields DEF RolesAt
  <1>4. q # None /\ r # None
    BY <1>1, RecordFields
  <1> HIDE DEF r
  <1>5. Valid(r) /\ Same(q, r)
    BY <1>1, <1>2, <1>3, <1>4 DEF Valid, Same, Serves, AssociatedSteps
  <1> QED
    BY <1>5 DEF r

(* A request to its socket thread, or one carried out. *)
LEMMA TaskKeeps ==
    ASSUME NEW q, Valid(q), NEW b \in BOOLEAN
    PROVE  /\ Valid([q EXCEPT !.woken = b]) /\ Same(q, [q EXCEPT !.woken = b])
           /\ Valid([q EXCEPT !.closing = b]) /\ Same(q, [q EXCEPT !.closing = b])
  <1>1. q \in Connection /\ [q EXCEPT !.woken = b] \in Connection /\ [q EXCEPT !.closing = b] \in Connection
    BY Fields DEF Valid
  <1>2. ASSUME NEW r \in Connection, r.step = q.step, r.role = q.role, r.known = q.known, r.user = q.user
        PROVE  Valid(r) /\ Same(q, r)
    BY <1>1, <1>2, RecordFields DEF Valid, Same, Serves
  <1>3. Valid([q EXCEPT !.woken = b]) /\ Same(q, [q EXCEPT !.woken = b])
    <2> DEFINE r == [q EXCEPT !.woken = b]
    <2>1. r \in Connection /\ r.step = q.step /\ r.role = q.role /\ r.known = q.known /\ r.user = q.user
      BY <1>1 DEF Connection
    <2> HIDE DEF r
    <2>2. Valid(r) /\ Same(q, r)
      BY <1>2, <2>1
    <2> QED
      BY <2>2 DEF r
  <1>4. Valid([q EXCEPT !.closing = b]) /\ Same(q, [q EXCEPT !.closing = b])
    <2> DEFINE r == [q EXCEPT !.closing = b]
    <2>1. r \in Connection /\ r.step = q.step /\ r.role = q.role /\ r.known = q.known /\ r.user = q.user
      BY <1>1 DEF Connection
    <2> HIDE DEF r
    <2>2. Valid(r) /\ Same(q, r)
      BY <1>2, <2>1
    <2> QED
      BY <2>2 DEF r
  <1> QED
    BY <1>3, <1>4

-----------------------------------------------------------------------------
(* The steps of a connection after which ConnectionManager counts it as it did before. *)
LEMMA HandshakeKeeps ==
    ASSUME TypeOK, NEW c \in Conns, MyNick(c) \/ Direction(c)
    PROVE  Keeps(c)
  <1>1. c \in Open /\ Valid(conn[c]) /\ conn[c].step \in {"hello", "key"}
    BY OpenConn DEF MyNick, Direction, Hears, At
  <1>2. CASE Drop(c)
    BY <1>1, <1>2, Moves, DropKeeps DEF Keeps
  <1>3. CASE MyNick(c) /\ ~Drop(c)
    <2>1. PICK p \in {"down", "up"} : conn' = [conn EXCEPT ![c].step = "key", ![c].role = p]
      BY <1>3 DEF MyNick
    <2> DEFINE r == [conn[c] EXCEPT !.step = "key", !.role = p]
    <2>2. conn \in [Conns -> Connection \cup {None}] /\ conn[c] \in Connection
      BY <1>1 DEF TypeOK, Valid
    <2>3. Becomes(c, r)
      BY <2>1, <2>2 DEF Becomes
    <2>4. r \in Connection /\ r.step = "key" /\ r.role = p
      BY <2>2 DEF Connection
    <2>5. conn[c].step = "hello"
      BY <1>3 DEF MyNick, Hears, At
    <2> HIDE DEF r
    <2>6. Valid(r) /\ ~Serves(r) /\ ~Serves(conn[c])
      BY <2>4, <2>5 DEF Valid, RolesAt, Serves, AssociatedSteps
    <2> QED
      BY <2>3, <2>6 DEF Keeps, Same
  <1>4. CASE Direction(c) /\ ~Drop(c)
    <2> DEFINE r == [conn[c] EXCEPT !.role = "up"]
    <2>1. conn' = [conn EXCEPT ![c].role = "up"] /\ conn[c].step = "key"
      BY <1>4 DEF Direction, Hears, At
    <2>2. conn \in [Conns -> Connection \cup {None}] /\ conn[c] \in Connection
      BY <1>1 DEF TypeOK, Valid
    <2>3. Becomes(c, r)
      BY <2>1, <2>2 DEF Becomes
    <2>4. r \in Connection /\ r.step = "key" /\ r.role = "up"
      BY <2>1, <2>2 DEF Connection
    <2> HIDE DEF r
    <2>5. Valid(r) /\ ~Serves(r) /\ ~Serves(conn[c])
      BY <2>1, <2>4 DEF Valid, RolesAt, Serves, AssociatedSteps
    <2> QED
      BY <2>3, <2>5 DEF Keeps, Same
  <1> QED
    BY <1>2, <1>3, <1>4

LEMMA GotoKeeps ==
    ASSUME TypeOK, NEW c \in Open, NEW t \in Steps, Goto(c, t), conn[c].role \in RolesAt(t),
           ~conn[c].known \/ (t \in AssociatedSteps <=> conn[c].step \in AssociatedSteps)
    PROVE  Keeps(c)
  BY OpenConn, Moves, StepKeeps DEF Keeps, Steps

LEMMA DownloadKeeps ==
    ASSUME TypeOK, NEW c \in Conns,
           CheckDownloads(c) \/ Enlist(c) \/ RemoveDownload(c) \/ PutDownload(c) \/ FailDownload(c)
    PROVE  Keeps(c)
  <1>1. c \in Open /\ Valid(conn[c]) /\ conn[c].step \in {"check", "list", "park", "put", "run", "idle"}
    BY OpenConn DEF CheckDownloads, Enlist, RemoveDownload, PutDownload, FailDownload, Hears, At
  <1>2. conn[c].role = "down" /\ conn[c].step \in AssociatedSteps
    BY <1>1 DEF Valid, RolesAt, AssociatedSteps
  <1>3. ASSUME NEW t \in {"list", "park", "run", "idle", "put", "check"}, Goto(c, t)
        PROVE  Keeps(c)
    <2>1. t \in Steps /\ t \in AssociatedSteps /\ conn[c].role \in RolesAt(t)
      BY <1>2 DEF Steps, AssociatedSteps, RolesAt
    <2> QED
      BY <1>1, <1>2, <1>3, <2>1, GotoKeeps
  <1>4. ASSUME Goto(c, "over")
        PROVE  Keeps(c)
    <2>1. "over" \in Steps /\ "over" \in AssociatedSteps /\ conn[c].role \in RolesAt("over")
      BY <1>2 DEF Steps, AssociatedSteps, RolesAt
    <2> QED
      BY <1>1, <1>2, <1>4, <2>1, GotoKeeps
  <1>5. ASSUME Release(c), conn[c].step \in {"check", "put"}
        PROVE  Keeps(c)
    BY <1>1, <1>5, Moves, ReleaseKeeps DEF Keeps
  <1>6. CASE CheckDownloads(c)
    BY <1>3, <1>5, <1>6 DEF CheckDownloads, At
  <1>7. CASE Enlist(c)
    BY <1>3, <1>7 DEF Enlist
  <1>8. CASE RemoveDownload(c)
    BY <1>3, <1>8 DEF RemoveDownload
  <1>9. CASE PutDownload(c)
    BY <1>3, <1>4, <1>5, <1>9 DEF PutDownload, AfterPut, At
  <1>10. CASE FailDownload(c)
    BY <1>3, <1>4, <1>10 DEF FailDownload
  <1> QED
    BY <1>6, <1>7, <1>8, <1>9, <1>10

LEMMA OthersKeep ==
    ASSUME TypeOK, NEW c \in Conns,
           Disconnect(c) \/ Updated(c) \/ Delete(c) \/ (\E u \in Users : Connect(c, u))
    PROVE  Keeps(c)
  <1>1. conn \in [Conns -> Connection \cup {None}]
    BY DEF TypeOK
  <1>2. CASE Disconnect(c)
    <2>1. c \in Open /\ Valid(conn[c]) /\ conn' = [conn EXCEPT ![c].closing = TRUE]
      BY <1>2, OpenConn DEF Disconnect
    <2>2. Becomes(c, [conn[c] EXCEPT !.closing = TRUE])
      BY <1>1, <2>1 DEF Becomes
    <2> QED
      BY <2>1, <2>2, TaskKeeps DEF Keeps
  <1>3. CASE Updated(c)
    <2> DEFINE q == conn[c]  r == [q EXCEPT !.step = "check", !.woken = FALSE]
    <2>1. c \in Open /\ Valid(q) /\ q.step = "idle" /\ conn' = [conn EXCEPT ![c].step = "check", ![c].woken = FALSE]
      BY <1>3, OpenConn DEF Updated, Hears, At
    <2>2. Becomes(c, r)
      BY <1>1, <2>1 DEF Becomes
    <2>3. r \in Connection /\ r.step = "check" /\ r.role = q.role /\ r.known = q.known /\ r.user = q.user
      BY <2>1 DEF Valid, Connection
    <2>4. q # None /\ r # None
      BY <2>1, <2>3, RecordFields DEF Valid
    <2> HIDE DEF q, r
    <2>5. Valid(r) /\ Same(q, r)
      BY <2>1, <2>3, <2>4 DEF Valid, RolesAt, Same, Serves, AssociatedSteps
    <2> QED
      BY <2>2, <2>5 DEF Keeps, q
  <1>4. CASE Delete(c)
    <2>1. ~Serves(conn[c]) /\ ~Serves(None) /\ Becomes(c, None)
      BY <1>4 DEF Delete, Serves, Becomes
    <2> QED
      BY <2>1 DEF Keeps, Same
  <1>5. ASSUME NEW u \in Users, Connect(c, u) PROVE Keeps(c)
    <2> DEFINE r == [user |-> u, role |-> "none", step |-> "hello",
                     known |-> TRUE, woken |-> FALSE, closing |-> FALSE]
    <2>1. Becomes(c, r) /\ conn[c] = None
      BY <1>5 DEF Connect, Becomes, Open
    <2>2. Valid(r) /\ ~Serves(r)
      BY DEF Valid, Connection, RolesAt, Serves, AssociatedSteps
    <2> HIDE DEF r
    <2> QED
      BY <2>1, <2>2 DEF Keeps, Same, Serves
  <1> QED
    BY <1>2, <1>3, <1>4, <1>5

LEMMA WakeKeeps ==
    ASSUME TypeOK, NEW u \in Users, Wake(u)
    PROVE  UNCHANGED conn \/ \E c \in Conns : Keeps(c)
  <1>1. CASE UNCHANGED conn
    BY <1>1
  <1>2. CASE ~UNCHANGED conn
    <2>1. PICK c \in Of(u) : conn' = [conn EXCEPT ![c].woken = conn[c].known]
      BY <1>2 DEF Wake
    <2>2. c \in Open /\ c \in Conns /\ Valid(conn[c])
      BY <2>1, OpenConn DEF Of
    <2>3. Becomes(c, [conn[c] EXCEPT !.woken = conn[c].known])
      BY <2>1, <2>2 DEF TypeOK, Becomes
    <2>4. conn[c].known \in BOOLEAN
      BY <2>2, RecordFields DEF Valid
    <2> QED
      BY <2>2, <2>3, <2>4, TaskKeeps DEF Keeps
  <1> QED
    BY <1>1, <1>2

-----------------------------------------------------------------------------
(* The connection is counted for nothing yet and then for downloads or for uploads of its user. *)
Joins(c, role) ==
    /\ ~Serves(conn[c])
    /\ \E r : /\ Becomes(c, r) /\ Valid(r)
              /\ Serves(r) = conn[c].known /\ r.user = conn[c].user /\ r.role = role

LEMMA JoinsAs ==
    ASSUME TypeOK, NEW c \in Open, conn[c].step \in {"hello", "key"},
           NEW t \in AssociatedSteps, NEW p \in RolesAt(t),
           \/ conn' = [conn EXCEPT ![c].step = t, ![c].role = p]
           \/ conn' = [conn EXCEPT ![c].step = t, ![c].role = p, ![c].closing = TRUE]
    PROVE  Joins(c, p)
  <1> DEFINE q == conn[c]
  <1>1. conn \in [Conns -> Connection \cup {None}] /\ q \in Connection /\ c \in Conns
    BY OpenConn DEF TypeOK, Valid
  <1>2. ~Serves(q)
    BY DEF Serves, AssociatedSteps
  <1>3. t \in Steps /\ p \in {"none", "down", "up"}
    BY DEF AssociatedSteps, RolesAt, Steps
  <1>4. PICK r : Becomes(c, r) /\ r \in Connection /\ r.step = t /\ r.role = p /\ r.known = q.known /\ r.user = q.user
    <2>1. CASE conn' = [conn EXCEPT ![c].step = t, ![c].role = p]
      <3> DEFINE r == [q EXCEPT !.step = t, !.role = p]
      <3>1. Becomes(c, r)
        BY <1>1, <2>1 DEF Becomes
      <3>2. r \in Connection /\ r.step = t /\ r.role = p /\ r.known = q.known /\ r.user = q.user
        BY <1>1, <1>3 DEF Connection, Steps
      <3> HIDE DEF q, r
      <3> QED
        BY <3>1, <3>2
    <2>2. CASE conn' = [conn EXCEPT ![c].step = t, ![c].role = p, ![c].closing = TRUE]
      <3> DEFINE r == [q EXCEPT !.step = t, !.role = p, !.closing = TRUE]
      <3>1. Becomes(c, r)
        BY <1>1, <2>2 DEF Becomes
      <3>2. r \in Connection /\ r.step = t /\ r.role = p /\ r.known = q.known /\ r.user = q.user
        BY <1>1, <1>3 DEF Connection, Steps
      <3> HIDE DEF q, r
      <3> QED
        BY <3>1, <3>2
    <2> QED
      BY <2>1, <2>2
  <1>5. r # None /\ r.known \in BOOLEAN
    BY <1>4, RecordFields
  <1> HIDE DEF q
  <1>6. Valid(r) /\ Serves(r) = q.known
    BY <1>4, <1>5 DEF Valid, Serves
  <1> QED
    BY <1>2, <1>4, <1>6 DEF Joins, q

LEMMA FailedLeaves ==
    ASSUME TypeOK, NEW c \in Conns, Failed(c)
    PROVE  c \in Open /\ \E r : Becomes(c, r) /\ Valid(r) /\ ~Serves(r)
  <1> DEFINE q == conn[c]
             t == IF q.step \in {"idle", "run"} THEN q.step ELSE "over"
             r == [q EXCEPT !.known = FALSE, !.closing = TRUE, !.woken = FALSE, !.step = t]
  <1>1. /\ c \in Open /\ Valid(q)
        /\ conn' = [conn EXCEPT ![c].known = FALSE, ![c].closing = TRUE, ![c].woken = FALSE,
                                ![c].step = IF @ \in {"idle", "run"} THEN @ ELSE "over"]
    BY OpenConn DEF Failed, Hears, At
  <1>2. conn \in [Conns -> Connection \cup {None}] /\ q \in Connection
    BY <1>1 DEF TypeOK, Valid
  <1>3. Becomes(c, r)
    BY <1>1, <1>2 DEF Becomes
  <1>4. t \in Steps /\ (t = q.step \/ t = "over")
    BY DEF Steps
  <1> HIDE DEF t
  <1>5. r \in Connection /\ r.step = t /\ r.role = q.role /\ r.known = FALSE
    BY <1>2, <1>4 DEF Connection, Steps
  <1>6. q.role \in RolesAt(t)
    BY <1>1, <1>2, <1>4, RecordFields DEF Valid, RolesAt
  <1> HIDE DEF q, r
  <1>7. Valid(r) /\ ~Serves(r)
    BY <1>5, <1>6 DEF Valid, Serves
  <1> QED
    BY <1>1, <1>3, <1>7

-----------------------------------------------------------------------------
(* What is counted for a user, said of the records. *)
UsedServe ==
    \A u, role, c : c \in Used(u, role) <=>
        c \in Conns /\ Serves(conn[c]) /\ conn[c].user = u /\ conn[c].role = role

LEMMA UsedIs == UsedServe
  BY DEF UsedServe, Used, Of, Open, Associated, Hears, At, Serves, AssociatedSteps

LEMMA NextUsedIs == UsedServe'
  BY UsedIs, PTL

LEMMA Unchanged ==
    ASSUME TypeOK, NEW c \in Conns, NEW r, Becomes(c, r)
    PROVE  conn'[c] = r /\ \A d \in Conns : d # c => conn'[d] = conn[d]
  BY DEF TypeOK, Becomes

LEMMA KeepsUsed ==
    ASSUME TypeOK, NEW c \in Conns, Keeps(c)
    PROVE  \A u, role : Used(u, role)' = Used(u, role)
  <1>1. PICK r : Becomes(c, r) /\ Same(conn[c], r)
    BY DEF Keeps
  <1>2. conn'[c] = r /\ \A d \in Conns : d # c => conn'[d] = conn[d]
    BY <1>1, Unchanged
  <1>3. ASSUME NEW u, NEW role, NEW d
        PROVE  d \in Used(u, role)' <=> d \in Used(u, role)
    BY <1>1, <1>2, UsedIs, NextUsedIs DEF UsedServe, Same
  <1> QED
    BY <1>3

LEMMA JoinsUsed ==
    ASSUME TypeOK, NEW c \in Conns, NEW p, Joins(c, p), conn[c].known
    PROVE  \A u, role : Used(u, role)' =
             IF u = conn[c].user /\ role = p THEN Used(u, role) \cup {c} ELSE Used(u, role)
  <1>1. PICK r : Becomes(c, r) /\ Serves(r) /\ r.user = conn[c].user /\ r.role = p
    BY DEF Joins
  <1>2. ~Serves(conn[c])
    BY DEF Joins
  <1>3. conn'[c] = r /\ \A d \in Conns : d # c => conn'[d] = conn[d]
    BY <1>1, Unchanged
  <1>4. ASSUME NEW u, NEW role, NEW d
        PROVE  d \in Used(u, role)' <=> d \in Used(u, role) \/ (d = c /\ u = r.user /\ role = p)
    BY <1>1, <1>2, <1>3, UsedIs, NextUsedIs DEF UsedServe
  <1>5. ASSUME NEW u, NEW role
        PROVE  Used(u, role)' =
                 IF u = r.user /\ role = p THEN Used(u, role) \cup {c} ELSE Used(u, role)
    BY <1>4
  <1> QED
    BY <1>1, <1>5

LEMMA LeavesUsed ==
    ASSUME TypeOK, NEW c \in Conns, Failed(c)
    PROVE  \A u, role : Used(u, role)' = Used(u, role) \ {c}
  <1>1. PICK r : Becomes(c, r) /\ ~Serves(r)
    BY FailedLeaves
  <1>2. conn'[c] = r /\ \A d \in Conns : d # c => conn'[d] = conn[d]
    BY <1>1, Unchanged
  <1>3. ASSUME NEW u, NEW role, NEW d
        PROVE  d \in Used(u, role)' <=> d \in Used(u, role) /\ d # c
    BY <1>1, <1>2, UsedIs, NextUsedIs DEF UsedServe
  <1> QED
    BY <1>3

-----------------------------------------------------------------------------
(* What happens to the items of ConnectionManager. *)
LEMMA ItemFields ==
    ASSUME NEW q \in ConnectionQueueItem
    PROVE  /\ q # None /\ q.state \in {"connecting", "waiting", "noslots", "active"} /\ q.age \in Ages
           /\ q.state # "active" => q \in Pending
  BY NoneAssumption DEF ConnectionQueueItem, Pending, Ages

LEMMA PendingItem ==
    ASSUME NEW q \in Pending
    PROVE  /\ q \in ConnectionQueueItem /\ q # None /\ q.state # "active"
           /\ q.state \in {"connecting", "waiting", "noslots"} /\ q.age \in Ages
  BY NoneAssumption DEF ConnectionQueueItem, Pending, Ages

LEMMA PendingIs ==
    ASSUME TypeOK, NEW u \in Users, NEW states, Is(u, states), "active" \notin states
    PROVE  downloads[u] \in Pending
  BY ItemFields DEF TypeOK, Is

LEMMA AttemptType ==
    ASSUME NEW q \in Pending, NEW p
    PROVE  Attempt(q, p) \in Pending /\ TimeOut(q) \in Pending
  <1>1. q.state \in {"connecting", "waiting", "noslots"} /\ q.age \in Ages
    BY PendingItem
  <1> DEFINE next == IF q.state = "waiting"
                     THEN IF StartDownload(p) THEN "connecting" ELSE "noslots"
                     ELSE IF q.state = "noslots" /\ StartDownload(p) THEN "waiting" ELSE q.state
  <1>2. next \in {"connecting", "waiting", "noslots"}
    BY <1>1
  <1>3. Attempt(q, p) = [state |-> next, age |-> 0]
    BY DEF Attempt
  <1> HIDE DEF next
  <1>4. Attempt(q, p) \in Pending
    BY <1>2, <1>3 DEF Pending, Ages
  <1>5. TimeOut(q) \in Pending
    BY DEF TimeOut, Pending
  <1> QED
    BY <1>4, <1>5

LEMMA AgedType ==
    ASSUME NEW q \in Pending, NEW jump \in 0 .. 2
    PROVE  [q EXCEPT !.age = Aged(@, jump)] \in Pending
  <1>1. q.age \in 0 .. 3
    BY PendingItem DEF Ages
  <1>2. Aged(q.age, jump) \in Ages
    BY <1>1 DEF Aged, Never, Ages
  <1> QED
    BY <1>2 DEF Pending

(* Second keeps the items that are active, and drops others only for two reasons. *)
LEMMA SecondItems ==
    ASSUME TypeOK, NEW jump \in 0 .. 2, NEW late \in SUBSET Users, Second(jump, late)
    PROVE  /\ downloads' \in [Users -> ConnectionQueueItem \cup {None}]
           /\ \A u \in Users : \/ downloads'[u] = downloads[u]
                               \/ downloads[u] \in Pending /\ downloads'[u] \in Pending
                               \/ downloads[u] \in Pending /\ downloads'[u] = None
                                      /\ (~online[u] \/ offer[u] = "none")
  <1> DEFINE pending == {u \in Users : Is(u, {"connecting", "waiting", "noslots"})}
             aged == [u \in pending |-> [downloads[u] EXCEPT !.age = Aged(@, jump)]]
             due == {u \in pending \ late : online[u] /\ aged[u].age >= 2}
             gone == {u \in pending : ~online[u]} \cup {u \in due : offer[u] = "none"}
             next(u) == IF u \in gone THEN None
                        ELSE IF u \in due THEN Attempt(aged[u], offer[u])
                        ELSE IF u \in pending THEN TimeOut(aged[u])
                        ELSE downloads[u]
  <1>1. downloads' = [u \in Users |-> next(u)]
    BY DEF Second
  <1>2. due \subseteq pending /\ gone \subseteq pending
    OBVIOUS
  <1>3. ASSUME NEW u \in pending PROVE downloads[u] \in Pending /\ aged[u] \in Pending
    <2>1. downloads[u] \in Pending
      BY <1>3, PendingIs
    <2> QED
      BY <2>1, AgedType
  <1>4. \A u \in gone : ~online[u] \/ offer[u] = "none"
    OBVIOUS
  <1> HIDE DEF pending, aged, due, gone
  <1>5. ASSUME NEW u \in Users
        PROVE  \/ next(u) = downloads[u]
               \/ downloads[u] \in Pending /\ next(u) \in Pending
               \/ downloads[u] \in Pending /\ next(u) = None /\ (~online[u] \/ offer[u] = "none")
    <2>1. CASE u \in gone
      BY <1>2, <1>3, <1>4, <2>1
    <2>2. CASE u \in due /\ u \notin gone
      BY <1>2, <1>3, <2>2, AttemptType
    <2>3. CASE u \in pending /\ u \notin due /\ u \notin gone
      BY <1>3, <2>3, AttemptType
    <2>4. CASE u \notin pending
      BY <1>2, <2>4
    <2> QED
      BY <2>1, <2>2, <2>3, <2>4
  <1>6. \A u \in Users : next(u) \in ConnectionQueueItem \cup {None}
    BY <1>5, PendingItem DEF TypeOK
  <1> HIDE DEF next
  <1> QED
    BY <1>1, <1>5, <1>6

-----------------------------------------------------------------------------
ConnsOK ==
    /\ conn \in [Conns -> Connection \cup {None}]
    /\ \A c \in Open : conn[c].role \in RolesAt(conn[c].step)

LEMMA ConnsKept ==
    ASSUME TypeOK, NEW c \in Conns, Keeps(c) \/ Failed(c) \/ \E p : Joins(c, p)
    PROVE  ConnsOK'
  BY BecomesType, FailedLeaves DEF Keeps, Joins, ConnsOK

(* How the end of a handshake may turn out. *)
LEMMA AddDownloadDoes ==
    ASSUME TypeOK, NEW c \in Conns, Hears(c, {"hello", "key"}), AddDownload(c)
    PROVE  \/ Keeps(c) /\ UNCHANGED <<downloads, queue>>
           \/ /\ Joins(c, "down")
              /\ ~Is(conn[c].user, {"active"})
              /\ downloads' = [downloads EXCEPT ![conn[c].user] = [state |-> "active", age |-> 0]]
              /\ \/ UNCHANGED queue
                 \/ /\ offer' = [offer EXCEPT ![conn[c].user] = "none"]
                    /\ announced' = [announced EXCEPT ![conn[c].user] = FALSE]
  <1> DEFINE u == conn[c].user
  <1>1. c \in Open /\ Valid(conn[c]) /\ conn[c].step \in {"hello", "key"}
    BY OpenConn DEF Hears, At
  <1>2. CASE Is(u, {"connecting", "waiting"})
    <2>1. ~Is(u, {"active"})
      BY <1>2 DEF Is
    <2>2. downloads' = [downloads EXCEPT ![u] = [state |-> "active", age |-> 0]]
      BY <1>2 DEF AddDownload
    <2>3. CASE conn' = [conn EXCEPT ![c].step = "check", ![c].role = "down"] /\ UNCHANGED queue
      <3>1. Joins(c, "down")
        BY <1>1, <2>3, JoinsAs DEF AssociatedSteps, RolesAt
      <3> QED
        BY <2>1, <2>2, <2>3, <3>1
    <2>4. CASE /\ conn' = [conn EXCEPT ![c].step = "over", ![c].role = "down", ![c].closing = TRUE]
               /\ offer' = [offer EXCEPT ![u] = "none"]
               /\ announced' = [announced EXCEPT ![u] = FALSE]
      <3>1. Joins(c, "down")
        BY <1>1, <2>4, JoinsAs DEF AssociatedSteps, RolesAt
      <3> QED
        BY <2>1, <2>2, <2>4, <3>1
    <2> QED
      BY <1>2, <2>3, <2>4 DEF AddDownload
  <1>3. CASE ~Is(u, {"connecting", "waiting"})
    <2>1. Drop(c) /\ UNCHANGED <<downloads, queue>>
      BY <1>3 DEF AddDownload
    <2> QED
      BY <1>1, <2>1, Moves, DropKeeps DEF Keeps
  <1> QED
    BY <1>2, <1>3

LEMMA AddUploadDoes ==
    ASSUME TypeOK, NEW c \in Conns, Hears(c, {"hello", "key"}), AddUpload(c)
    PROVE  /\ UNCHANGED <<downloads, queue>>
           /\ \/ Keeps(c) /\ UNCHANGED uploads
              \/ Joins(c, "up") /\ conn[c].user \notin uploads /\ uploads' = uploads \cup {conn[c].user}
  <1> DEFINE u == conn[c].user
  <1>1. c \in Open /\ Valid(conn[c]) /\ conn[c].step \in {"hello", "key"}
    BY OpenConn DEF Hears, At
  <1>2. UNCHANGED <<downloads, queue>>
    BY DEF AddUpload
  <1>3. CASE u \notin uploads
    <2>1. conn' = [conn EXCEPT ![c].step = "upload", ![c].role = "up"] /\ uploads' = uploads \cup {u}
      BY <1>3 DEF AddUpload
    <2>2. Joins(c, "up")
      BY <1>1, <2>1, JoinsAs DEF AssociatedSteps, RolesAt
    <2> QED
      BY <1>2, <1>3, <2>1, <2>2
  <1>4. CASE u \in uploads
    <2>1. Drop(c) /\ UNCHANGED uploads
      BY <1>4 DEF AddUpload
    <2> QED
      BY <1>1, <1>2, <2>1, Moves, DropKeeps DEF Keeps
  <1> QED
    BY <1>3, <1>4

(* The ends of both handshakes. *)
Ends(c) ==
    \/ Keeps(c) /\ UNCHANGED <<downloads, uploads, queue>>
    \/ /\ Hears(c, {"hello", "key"})
       /\ \/ AddDownload(c) /\ UNCHANGED uploads
          \/ AddUpload(c)

LEMMA KeyEnds ==
    ASSUME TypeOK, NEW c \in Conns, Key(c) \/ INF(c)
    PROVE  Ends(c) /\ UNCHANGED <<hubs, calling, others>>
  <1>1. c \in Open /\ Valid(conn[c]) /\ Hears(c, {"hello", "key"})
    BY OpenConn DEF Key, INF, Hears, At
  <1>2. UNCHANGED <<hubs, calling, others>>
    BY DEF Key, INF
  <1>3. CASE AddDownload(c) /\ UNCHANGED uploads
    BY <1>1, <1>2, <1>3 DEF Ends
  <1>4. CASE AddUpload(c)
    BY <1>1, <1>2, <1>4 DEF Ends
  <1>5. CASE INF(c) /\ Drop(c) /\ UNCHANGED <<downloads, uploads, queue>>
    <2>1. conn[c].step = "hello"
      BY <1>5 DEF INF, Hears, At
    <2> QED
      BY <1>1, <1>2, <1>5, <2>1, Moves, DropKeeps DEF Keeps, Ends
  <1>6. CASE conn' = [conn EXCEPT ![c].closing = TRUE] /\ UNCHANGED <<downloads, uploads, queue>>
    <2>1. Becomes(c, [conn[c] EXCEPT !.closing = TRUE])
      BY <1>1, <1>6 DEF Becomes, TypeOK
    <2> QED
      BY <1>1, <1>2, <1>6, <2>1, TaskKeeps DEF Keeps, Ends
  <1> QED
    BY <1>3, <1>4, <1>5, <1>6 DEF Key, INF

-----------------------------------------------------------------------------
ItemsOK == downloads \in [Users -> ConnectionQueueItem \cup {None}] /\ uploads \subseteq Users
HubsOK == online \in [Users -> BOOLEAN] /\ arrived \in [Users -> BOOLEAN]
CallsOK == calling \in [Users -> BOOLEAN]
QueueOK == offer \in [Users -> Offers] /\ announced \in [Users -> BOOLEAN]
OthersOK == others \in 0 .. OtherDownloads
Parts == ConnsOK /\ ItemsOK /\ HubsOK /\ CallsOK /\ QueueOK /\ OthersOK

LEMMA TypeParts == TypeOK <=> Parts
  BY DEF TypeOK, Parts, ConnsOK, ItemsOK, HubsOK, CallsOK, QueueOK, OthersOK

LEMMA NextTypeParts == TypeOK' <=> Parts'
  BY TypeParts, PTL

LEMMA InitType == Init => TypeOK
  <1> SUFFICES ASSUME Init PROVE Parts
    BY TypeParts
  <1>1. ConnsOK
    BY DEF Init, ConnsOK, Open
  <1>2. ItemsOK /\ HubsOK /\ CallsOK /\ QueueOK
    BY DEF Init, ItemsOK, HubsOK, CallsOK, QueueOK, Offers
  <1>3. OthersOK
    BY TransfersAssumption DEF Init, OthersOK
  <1> QED
    BY <1>1, <1>2, <1>3 DEF Parts

(* What stays as it is stays of its type. *)
LEMMA Untouched ==
    ASSUME Parts
    PROVE  /\ UNCHANGED conn => ConnsOK'
           /\ UNCHANGED <<downloads, uploads>> => ItemsOK'
           /\ UNCHANGED hubs => HubsOK'
           /\ UNCHANGED calling => CallsOK'
           /\ UNCHANGED queue => QueueOK'
           /\ UNCHANGED others => OthersOK'
  BY DEF Parts, ConnsOK, Open, ItemsOK, HubsOK, CallsOK, QueueOK, OthersOK, hubs, queue

LEMMA QueueStepType ==
    ASSUME TypeOK, NEW u \in Users, QueueStep(u)
    PROVE  TypeOK'
  <1> SUFFICES Parts'
    BY NextTypeParts
  <1>0. Parts
    BY TypeParts
  <1>1. ASSUME NEW p \in Offers, Offer(u, p) \/ OfferQuietly(u, p) PROVE Parts'
    <2>1. QueueOK'
      BY <1>0, <1>1 DEF Offer, OfferQuietly, Parts, QueueOK
    <2>2. CallsOK'
      BY <1>0, <1>1 DEF Offer, OfferQuietly, Parts, CallsOK
    <2>3. UNCHANGED <<downloads, uploads>> /\ UNCHANGED conn /\ UNCHANGED hubs /\ UNCHANGED others
      BY <1>1 DEF Offer, OfferQuietly
    <2> QED
      BY <1>0, <2>1, <2>2, <2>3, Untouched DEF Parts
  <1>2. CASE Online(u) \/ Offline(u)
    <2>1. HubsOK'
      BY <1>0, <1>2 DEF Online, Offline, Parts, HubsOK
    <2>2. UNCHANGED <<downloads, uploads>> /\ UNCHANGED conn /\ UNCHANGED calling /\ UNCHANGED queue /\ UNCHANGED others
      BY <1>2 DEF Online, Offline
    <2> QED
      BY <1>0, <2>1, <2>2, Untouched DEF Parts
  <1>3. CASE UserConnected(u)
    <2>1. HubsOK'
      BY <1>0, <1>3 DEF UserConnected, Parts, HubsOK
    <2>2. CallsOK'
      BY <1>0, <1>3 DEF UserConnected, Parts, CallsOK
    <2>3. UNCHANGED <<downloads, uploads>> /\ UNCHANGED conn /\ UNCHANGED queue /\ UNCHANGED others
      BY <1>3 DEF UserConnected
    <2> QED
      BY <1>0, <2>1, <2>2, <2>3, Untouched DEF Parts
  <1>4. CASE GetDownloadConnection(u)
    <2>1. ItemsOK'
      <3>1. [state |-> "waiting", age |-> Never] \in ConnectionQueueItem
        BY DEF ConnectionQueueItem, Never, Ages
      <3>2. UNCHANGED downloads \/ downloads' = [downloads EXCEPT ![u] = [state |-> "waiting", age |-> Never]]
        BY <1>4 DEF GetDownloadConnection
      <3>3. UNCHANGED uploads
        BY <1>4 DEF GetDownloadConnection
      <3> QED
        BY <1>0, <3>1, <3>2, <3>3 DEF Parts, ItemsOK
    <2>2. CallsOK'
      BY <1>0, <1>4 DEF GetDownloadConnection, Parts, CallsOK
    <2>3. ConnsOK'
      BY <1>0, <1>4, WakeKeeps, ConnsKept, Untouched DEF GetDownloadConnection
    <2>4. UNCHANGED hubs /\ UNCHANGED queue /\ UNCHANGED others
      BY <1>4 DEF GetDownloadConnection
    <2> QED
      BY <1>0, <2>1, <2>2, <2>3, <2>4, Untouched DEF Parts
  <1>5. CASE ForceAttempt(u)
    <2>1. downloads[u] \in Pending
      BY <1>5, PendingIs DEF ForceAttempt
    <2>2. [downloads[u] EXCEPT !.age = Never] \in Pending
      BY <2>1 DEF Pending, Never, Ages
    <2>3. downloads' = [downloads EXCEPT ![u] = [downloads[u] EXCEPT !.age = Never]] /\ UNCHANGED uploads
      BY <1>0, <1>5 DEF ForceAttempt, Parts, ItemsOK
    <2>4. ItemsOK'
      BY <1>0, <2>2, <2>3, PendingItem DEF Parts, ItemsOK
    <2>5. UNCHANGED conn /\ UNCHANGED hubs /\ UNCHANGED calling /\ UNCHANGED queue /\ UNCHANGED others
      BY <1>5 DEF ForceAttempt
    <2> QED
      BY <1>0, <2>4, <2>5, Untouched DEF Parts
  <1> QED
    BY <1>1, <1>2, <1>3, <1>4, <1>5 DEF QueueStep

(* An item that is active or waiting, in place of the user's. *)
LEMMA NewItem ==
    ASSUME ItemsOK, NEW u \in Users, NEW state \in {"active", "waiting"}
    PROVE  [downloads EXCEPT ![u] = [state |-> state, age |-> 0]]
               \in [Users -> ConnectionQueueItem \cup {None}]
  <1>1. [state |-> state, age |-> 0] \in ConnectionQueueItem
    BY DEF ConnectionQueueItem, Ages
  <1> QED
    BY <1>1 DEF ItemsOK

LEMMA EndsType ==
    ASSUME TypeOK, NEW c \in Conns, Ends(c)
    PROVE  ConnsOK' /\ ItemsOK' /\ QueueOK'
  <1>0. Parts
    BY TypeParts
  <1>1. CASE Keeps(c) /\ UNCHANGED <<downloads, uploads, queue>>
    <2>1. UNCHANGED <<downloads, uploads>> /\ UNCHANGED queue
      BY <1>1
    <2> QED
      BY <1>0, <1>1, <2>1, ConnsKept, Untouched
  <1>2. ASSUME Hears(c, {"hello", "key"}), AddDownload(c), UNCHANGED uploads
        PROVE  ConnsOK' /\ ItemsOK' /\ QueueOK'
    <2>1. CASE Keeps(c) /\ UNCHANGED <<downloads, queue>>
      <3>1. UNCHANGED <<downloads, uploads>> /\ UNCHANGED queue
        BY <1>2, <2>1
      <3> QED
        BY <1>0, <2>1, <3>1, ConnsKept, Untouched
    <2>2. CASE /\ Joins(c, "down")
               /\ downloads' = [downloads EXCEPT ![conn[c].user] = [state |-> "active", age |-> 0]]
               /\ \/ UNCHANGED queue
                  \/ /\ offer' = [offer EXCEPT ![conn[c].user] = "none"]
                     /\ announced' = [announced EXCEPT ![conn[c].user] = FALSE]
      <3>1. conn[c].user \in Users
        BY <1>2, OpenConn, RecordFields DEF Hears, At, Valid
      <3>2. ItemsOK'
        BY <1>0, <1>2, <2>2, <3>1, NewItem DEF Parts, ItemsOK
      <3>3. QueueOK'
        <4>1. CASE UNCHANGED queue
          BY <1>0, <4>1, Untouched
        <4>2. CASE /\ offer' = [offer EXCEPT ![conn[c].user] = "none"]
                   /\ announced' = [announced EXCEPT ![conn[c].user] = FALSE]
          BY <1>0, <4>2 DEF Parts, QueueOK, Offers
        <4> QED
          BY <2>2, <4>1, <4>2
      <3> QED
        BY <2>2, <3>2, <3>3, ConnsKept
    <2> QED
      BY <1>2, <2>1, <2>2, AddDownloadDoes
  <1>3. ASSUME Hears(c, {"hello", "key"}), AddUpload(c)
        PROVE  ConnsOK' /\ ItemsOK' /\ QueueOK'
    <2>1. UNCHANGED queue /\ UNCHANGED downloads
      BY <1>3, AddUploadDoes
    <2>2. conn[c].user \in Users
      BY <1>3, OpenConn, RecordFields DEF Hears, At, Valid
    <2>3. ItemsOK'
      BY <1>0, <1>3, <2>1, <2>2, AddUploadDoes DEF Parts, ItemsOK
    <2>4. Keeps(c) \/ Joins(c, "up")
      BY <1>3, AddUploadDoes
    <2> QED
      BY <1>0, <2>1, <2>3, <2>4, ConnsKept, Untouched
  <1> QED
    BY <1>1, <1>2, <1>3 DEF Ends

(* The steps of a connection that keep the items of ConnectionManager and the queue. *)
Quiet(c) ==
    \/ Disconnect(c) \/ (\E u \in Users : Connect(c, u)) \/ MyNick(c) \/ Direction(c)
    \/ CheckDownloads(c) \/ Enlist(c) \/ Updated(c) \/ RemoveDownload(c)
    \/ PutDownload(c) \/ FailDownload(c) \/ Delete(c)

LEMMA QuietKeeps ==
    ASSUME TypeOK, NEW c \in Conns, Quiet(c)
    PROVE  /\ Keeps(c)
           /\ UNCHANGED <<downloads, uploads, hubs, queue, others>>
           /\ UNCHANGED calling \/ \E asks \in BOOLEAN : calling' = [calling EXCEPT ![conn[c].user] = @ \/ asks]
  <1>1. CASE Disconnect(c) \/ (\E u \in Users : Connect(c, u)) \/ Updated(c) \/ Delete(c)
    BY <1>1, OthersKeep DEF Disconnect, Connect, Updated, Delete
  <1>2. CASE MyNick(c) \/ Direction(c)
    BY <1>2, HandshakeKeeps DEF MyNick, Direction
  <1>3. CASE CheckDownloads(c) \/ Enlist(c) \/ RemoveDownload(c) \/ PutDownload(c) \/ FailDownload(c)
    BY <1>3, DownloadKeeps DEF CheckDownloads, Enlist, RemoveDownload, PutDownload, FailDownload
  <1> QED
    BY <1>1, <1>2, <1>3 DEF Quiet

LEMMA ConnStepType ==
    ASSUME TypeOK, NEW c \in Conns, Quiet(c) \/ Key(c) \/ INF(c) \/ Failed(c)
    PROVE  TypeOK'
  <1> SUFFICES Parts'
    BY NextTypeParts
  <1>0. Parts
    BY TypeParts
  <1>1. CASE Quiet(c)
    <2>1. UNCHANGED <<downloads, uploads>> /\ UNCHANGED hubs /\ UNCHANGED queue /\ UNCHANGED others /\ ConnsOK'
      BY <1>1, QuietKeeps, ConnsKept
    <2>2. CallsOK'
      BY <1>0, <1>1, QuietKeeps DEF Parts, CallsOK
    <2> QED
      BY <1>0, <2>1, <2>2, Untouched DEF Parts
  <1>2. CASE Key(c) \/ INF(c)
    <2>1. ConnsOK' /\ ItemsOK' /\ QueueOK'
      BY <1>2, KeyEnds, EndsType
    <2>2. UNCHANGED hubs /\ UNCHANGED calling /\ UNCHANGED others
      BY <1>2, KeyEnds
    <2> QED
      BY <1>0, <2>1, <2>2, Untouched DEF Parts
  <1>3. CASE Failed(c)
    <2>1. conn[c].user \in Users
      BY <1>3, FailedLeaves, OpenConn, RecordFields DEF Valid
    <2>2. /\ \/ UNCHANGED downloads
             \/ downloads' = [downloads EXCEPT ![conn[c].user] = [state |-> "waiting", age |-> 0]]
          /\ uploads' \subseteq uploads
      BY <1>3 DEF Failed
    <2>3. ItemsOK'
      BY <1>0, <2>1, <2>2, NewItem DEF Parts, ItemsOK
    <2>4. UNCHANGED hubs /\ UNCHANGED calling /\ UNCHANGED queue /\ UNCHANGED others
      BY <1>3 DEF Failed
    <2> QED
      BY <1>0, <1>3, <2>3, <2>4, ConnsKept, Untouched DEF Parts
  <1> QED
    BY <1>1, <1>2, <1>3

LEMMA NextType ==
    ASSUME TypeOK, [Next]_vars
    PROVE  TypeOK'
  <1>0. Parts
    BY TypeParts
  <1>1. ASSUME NEW c \in Conns, PeerStep(c) \/ ThreadStep(c) \/ Disconnect(c) PROVE TypeOK'
    <2>1. Quiet(c) \/ Key(c) \/ INF(c) \/ Failed(c)
      BY <1>1 DEF PeerStep, ThreadStep, Quiet
    <2> QED
      BY <2>1, ConnStepType
  <1>2. ASSUME NEW jump \in 0 .. 2, NEW late \in SUBSET Users, Second(jump, late) PROVE TypeOK'
    <2>1. UNCHANGED uploads /\ UNCHANGED conn /\ UNCHANGED hubs /\ UNCHANGED calling /\ UNCHANGED queue
              /\ UNCHANGED others
      BY <1>2 DEF Second
    <2>2. ItemsOK'
      BY <1>0, <1>2, <2>1, SecondItems DEF Parts, ItemsOK
    <2> QED
      BY <1>0, <2>1, <2>2, Untouched, NextTypeParts DEF Parts
  <1>3. CASE OtherDownload
    <2>1. UNCHANGED <<downloads, uploads>> /\ UNCHANGED conn /\ UNCHANGED hubs /\ UNCHANGED calling /\ UNCHANGED queue
      BY <1>3 DEF OtherDownload
    <2>2. OthersOK'
      BY <1>3 DEF OtherDownload, OthersOK
    <2> QED
      BY <1>0, <2>1, <2>2, Untouched, NextTypeParts DEF Parts
  <1>4. CASE UNCHANGED vars
    <2>1. UNCHANGED <<downloads, uploads>> /\ UNCHANGED conn /\ UNCHANGED hubs /\ UNCHANGED calling /\ UNCHANGED queue
              /\ UNCHANGED others
      BY <1>4 DEF vars, hubs, queue
    <2> QED
      BY <1>0, <2>1, Untouched, NextTypeParts DEF Parts
  <1>5. CASE TimerStep
    BY <1>1, <1>2, <1>5 DEF TimerStep
  <1> QED
    BY <1>1, <1>3, <1>4, <1>5, QueueStepType DEF Next

(* Every variable keeps its type, and a connection has the role that goes with its step. *)
THEOREM TypeCorrect == Spec => []TypeOK
  BY InitType, NextType, PTL DEF Spec

-----------------------------------------------------------------------------
(* ActiveIsConnected for one user. *)
Agrees(u) ==
    /\ Is(u, {"active"}) <=> Used(u, "down") # {}
    /\ u \in uploads <=> Used(u, "up") # {}
    /\ \A role \in {"down", "up"} : \A c, d \in Used(u, role) : c = d

LEMMA AllAgree == ActiveIsConnected <=> \A u \in Users : Agrees(u)
  BY DEF ActiveIsConnected, Agrees

LEMMA NextAllAgree == ActiveIsConnected' <=> (\A u \in Users : Agrees(u))'
  BY AllAgree, PTL

(* A user none of whose connections or items changes its use. *)
LEMMA StillAgrees ==
    ASSUME NEW u \in Users, Agrees(u), \A role : Used(u, role)' = Used(u, role),
           Is(u, {"active"})' <=> Is(u, {"active"}), u \in uploads' <=> u \in uploads
    PROVE  Agrees(u)'
  BY DEF Agrees

LEMMA SameItem ==
    ASSUME NEW u \in Users, downloads'[u] = downloads[u]
    PROVE  Is(u, {"active"})' <=> Is(u, {"active"})
  BY DEF Is

LEMMA KeepsAgree ==
    ASSUME TypeOK, ActiveIsConnected, UNCHANGED conn \/ \E c \in Conns : Keeps(c),
           \A u \in Users : Is(u, {"active"})' <=> Is(u, {"active"}), UNCHANGED uploads
    PROVE  ActiveIsConnected'
  <1>1. ASSUME NEW u \in Users, NEW role PROVE Used(u, role)' = Used(u, role)
    <2>1. CASE UNCHANGED conn
      BY <2>1 DEF Used, Of, Open, Associated, Hears, At
    <2>2. CASE \E c \in Conns : Keeps(c)
      BY <2>2, KeepsUsed
    <2> QED
      BY <2>1, <2>2
  <1>2. ASSUME NEW u \in Users PROVE Agrees(u)'
    BY <1>1, AllAgree, StillAgrees
  <1> QED
    BY <1>2, NextAllAgree

LEMMA QueueStepAgrees ==
    ASSUME TypeOK, ActiveIsConnected, NEW u \in Users, QueueStep(u)
    PROVE  ActiveIsConnected'
  <1>1. UNCHANGED uploads
    BY DEF QueueStep, Offer, OfferQuietly, Online, Offline, UserConnected, GetDownloadConnection, ForceAttempt
  <1>2. UNCHANGED conn \/ Wake(u)
    BY DEF QueueStep, Offer, OfferQuietly, Online, Offline, UserConnected, GetDownloadConnection, ForceAttempt
  <1>3. ASSUME NEW v \in Users PROVE Is(v, {"active"})' <=> Is(v, {"active"})
    <2>1. downloads \in [Users -> ConnectionQueueItem \cup {None}]
      BY DEF TypeOK
    <2>2. CASE GetDownloadConnection(u)
      <3>1. UNCHANGED downloads \/ (downloads[u] = None /\ downloads' = [downloads EXCEPT ![u] = [state |-> "waiting", age |-> Never]])
        BY <2>2 DEF GetDownloadConnection
      <3> QED
        BY <2>1, <3>1 DEF Is
    <2>3. CASE ForceAttempt(u)
      <3>1. downloads[u] \in Pending
        BY <2>3, PendingIs DEF ForceAttempt
      <3>2. [downloads[u] EXCEPT !.age = Never] \in Pending
        BY <3>1 DEF Pending, Never, Ages
      <3>3. downloads' = [downloads EXCEPT ![u] = [downloads[u] EXCEPT !.age = Never]]
        BY <2>1, <2>3 DEF ForceAttempt
      <3>4. CASE v = u
        BY <2>1, <3>1, <3>2, <3>3, <3>4, PendingItem DEF Is
      <3>5. CASE v # u
        BY <2>1, <3>3, <3>5 DEF Is
      <3> QED
        BY <3>4, <3>5
    <2>4. CASE UNCHANGED downloads
      BY <2>4 DEF Is
    <2> QED
      BY <2>2, <2>3, <2>4 DEF QueueStep, Offer, OfferQuietly, Online, Offline, UserConnected
  <1> QED
    BY <1>1, <1>2, <1>3, WakeKeeps, KeepsAgree

LEMMA SecondAgrees ==
    ASSUME TypeOK, ActiveIsConnected, NEW jump \in 0 .. 2, NEW late \in SUBSET Users, Second(jump, late)
    PROVE  ActiveIsConnected'
  <1>1. UNCHANGED conn /\ UNCHANGED uploads
    BY DEF Second
  <1>2. ASSUME NEW u \in Users PROVE Is(u, {"active"})' <=> Is(u, {"active"})
    BY SecondItems, PendingItem DEF Is
  <1> QED
    BY <1>1, <1>2, KeepsAgree

(* A connection that joins finds nothing of its kind, as its user's item or the list of uploads says. *)
LEMMA JoinsAgrees ==
    ASSUME TypeOK, ActiveIsConnected, NEW c \in Conns, NEW p \in {"down", "up"},
           Joins(c, p), conn[c].known, conn[c].user \in Users,
           \/ /\ p = "down" /\ ~Is(conn[c].user, {"active"}) /\ UNCHANGED uploads
              /\ downloads' = [downloads EXCEPT ![conn[c].user] = [state |-> "active", age |-> 0]]
           \/ /\ p = "up" /\ conn[c].user \notin uploads /\ uploads' = uploads \cup {conn[c].user}
              /\ UNCHANGED downloads
    PROVE  ActiveIsConnected'
  <1> SUFFICES ASSUME NEW u \in Users PROVE Agrees(u)'
    BY NextAllAgree
  <1>1. Agrees(u) /\ downloads \in [Users -> ConnectionQueueItem \cup {None}]
    BY AllAgree DEF TypeOK
  <1>2. \A role : Used(u, role)' =
             IF u = conn[c].user /\ role = p THEN Used(u, role) \cup {c} ELSE Used(u, role)
    BY JoinsUsed
  <1>3. CASE u # conn[c].user
    <2>1. downloads'[u] = downloads[u] /\ (u \in uploads' <=> u \in uploads)
      BY <1>1, <1>3
    <2> QED
      BY <1>1, <1>2, <1>3, <2>1, SameItem, StillAgrees
  <1>4. CASE u = conn[c].user /\ p = "down"
    <2>1. Used(u, "down")' = {c} /\ Used(u, "up")' = Used(u, "up")
      BY <1>1, <1>2, <1>4 DEF Agrees
    <2>2. [state |-> "active", age |-> 0] # None
      BY NoneAssumption DEF ConnectionQueueItem
    <2>3. Is(u, {"active"})'
      BY <1>1, <1>4, <2>2 DEF Is
    <2>4. u \in uploads' <=> u \in uploads
      BY <1>4
    <2> QED
      BY <1>1, <2>1, <2>3, <2>4 DEF Agrees
  <1>5. CASE u = conn[c].user /\ p = "up"
    <2>1. Used(u, "up")' = {c} /\ Used(u, "down")' = Used(u, "down")
      BY <1>1, <1>2, <1>5 DEF Agrees
    <2>2. u \in uploads' /\ downloads'[u] = downloads[u]
      BY <1>5
    <2> QED
      BY <1>1, <2>1, <2>2, SameItem DEF Agrees
  <1> QED
    BY <1>3, <1>4, <1>5

(* The connection that is lost was the only one of its kind, and on(Failed) follows suit. *)
LEMMA FailedAgrees ==
    ASSUME TypeOK, ActiveIsConnected, NEW c \in Conns, Failed(c)
    PROVE  ActiveIsConnected'
  <1> SUFFICES ASSUME NEW u \in Users PROVE Agrees(u)'
    BY NextAllAgree
  <1>1. Agrees(u) /\ downloads \in [Users -> ConnectionQueueItem \cup {None}]
    BY AllAgree DEF TypeOK
  <1>2. \A role : Used(u, role)' = Used(u, role) \ {c}
    BY LeavesUsed
  <1>3. c \in Open /\ conn[c].user \in Users
    BY FailedLeaves, OpenConn, RecordFields DEF Valid
  <1>4. ASSUME NEW role PROVE c \in Used(u, role) <=> Associated(c) /\ conn[c].user = u /\ conn[c].role = role
    BY <1>3 DEF Used, Of
  <1>5. CASE ~Associated(c) \/ conn[c].user # u
    <2>1. downloads'[u] = downloads[u] /\ (u \in uploads' <=> u \in uploads)
      BY <1>1, <1>3, <1>5 DEF Failed
    <2>2. \A role : Used(u, role)' = Used(u, role)
      BY <1>2, <1>4, <1>5
    <2> QED
      BY <1>1, <2>1, <2>2, SameItem, StillAgrees
  <1>6. CASE Associated(c) /\ conn[c].user = u /\ conn[c].role = "down"
    <2>1. Used(u, "down")' = {} /\ Used(u, "up")' = Used(u, "up")
      BY <1>1, <1>2, <1>4, <1>6 DEF Agrees
    <2>2. downloads'[u] = [state |-> "waiting", age |-> 0] /\ UNCHANGED uploads
      BY <1>1, <1>6 DEF Failed
    <2>3. ~Is(u, {"active"})'
      BY <2>2 DEF Is
    <2> QED
      BY <1>1, <2>1, <2>2, <2>3 DEF Agrees
  <1>7. CASE Associated(c) /\ conn[c].user = u /\ conn[c].role = "up"
    <2>1. Used(u, "up")' = {} /\ Used(u, "down")' = Used(u, "down")
      BY <1>1, <1>2, <1>4, <1>7 DEF Agrees
    <2>2. u \notin uploads' /\ downloads'[u] = downloads[u]
      BY <1>7 DEF Failed
    <2> QED
      BY <1>1, <2>1, <2>2, SameItem DEF Agrees
  <1>8. CASE Associated(c) /\ conn[c].user = u /\ conn[c].role \notin {"down", "up"}
    <2>1. downloads'[u] = downloads[u] /\ (u \in uploads' <=> u \in uploads)
      BY <1>8 DEF Failed
    <2>2. Used(u, "down")' = Used(u, "down") /\ Used(u, "up")' = Used(u, "up")
      BY <1>2, <1>4, <1>8
    <2> QED
      BY <1>1, <2>1, <2>2, SameItem DEF Agrees
  <1> QED
    BY <1>5, <1>6, <1>7, <1>8

LEMMA EndsAgree ==
    ASSUME TypeOK, ActiveIsConnected, NEW c \in Conns, Ends(c)
    PROVE  ActiveIsConnected'
  <1>1. ASSUME Keeps(c), UNCHANGED <<downloads, uploads>> PROVE ActiveIsConnected'
    BY <1>1, KeepsAgree DEF Is
  <1>2. ASSUME Hears(c, {"hello", "key"}) PROVE conn[c].known /\ conn[c].user \in Users
    BY <1>2, OpenConn, RecordFields DEF Hears, At, Valid
  <1>3. ASSUME Hears(c, {"hello", "key"}), AddDownload(c), UNCHANGED uploads PROVE ActiveIsConnected'
    BY <1>1, <1>2, <1>3, AddDownloadDoes, JoinsAgrees
  <1>4. ASSUME Hears(c, {"hello", "key"}), AddUpload(c) PROVE ActiveIsConnected'
    BY <1>1, <1>2, <1>4, AddUploadDoes, JoinsAgrees
  <1> QED
    BY <1>1, <1>3, <1>4 DEF Ends

LEMMA NextAgrees ==
    ASSUME TypeOK, ActiveIsConnected, [Next]_vars
    PROVE  ActiveIsConnected'
  <1>1. ASSUME NEW c \in Conns, PeerStep(c) \/ ThreadStep(c) \/ Disconnect(c) PROVE ActiveIsConnected'
    <2>1. CASE Quiet(c)
      <3>1. Keeps(c) /\ UNCHANGED downloads /\ UNCHANGED uploads
        BY <2>1, QuietKeeps
      <3> QED
        BY <3>1, KeepsAgree DEF Is
    <2>2. CASE Key(c) \/ INF(c)
      BY <2>2, KeyEnds, EndsAgree
    <2>3. CASE Failed(c)
      BY <2>3, FailedAgrees
    <2> QED
      BY <1>1, <2>1, <2>2, <2>3 DEF PeerStep, ThreadStep, Quiet
  <1>2. CASE OtherDownload \/ UNCHANGED vars
    <2>1. UNCHANGED conn /\ UNCHANGED downloads /\ UNCHANGED uploads
      BY <1>2 DEF OtherDownload, vars
    <2> QED
      BY <2>1, KeepsAgree DEF Is
  <1>3. CASE TimerStep
    BY <1>1, <1>3, SecondAgrees DEF TimerStep
  <1> QED
    BY <1>1, <1>2, <1>3, QueueStepAgrees DEF Next

LEMMA InitAgrees == Init => ActiveIsConnected
  BY DEF Init, ActiveIsConnected, Used, Of, Open, Is

(***************************************************************************)
(* An item is active exactly as long as one of the user's connections is   *)
(* used for downloads; it is inductive with the types, in which the role   *)
(* of a connection follows from where its thread is.                       *)
(***************************************************************************)
THEOREM ItemsAreConnected == Spec => []ActiveIsConnected
  BY InitAgrees, InitType, NextAgrees, NextType, PTL DEF Spec

(* Two downloads from a user are never two that ConnectionManager knows of: it would count both. *)
THEOREM TwoMeansFailing == Spec => []TwoOnlyWhileFailing
  <1>1. TypeOK /\ ActiveIsConnected => TwoOnlyWhileFailing
    <2> SUFFICES ASSUME TypeOK, ActiveIsConnected,
                        NEW u \in Users, NEW c \in Of(u), NEW d \in Of(u),
                        HasDownload(c), HasDownload(d), conn[c].known, conn[d].known
                 PROVE  c = d
      BY DEF TwoOnlyWhileFailing
    <2>1. ASSUME NEW e \in Of(u), HasDownload(e), conn[e].known PROVE e \in Used(u, "down")
      <3>1. e \in Open /\ conn[e].step \in {"list", "run", "put"} /\ conn[e].user = u
        BY <2>1 DEF HasDownload, At, Of
      <3>2. conn[e].role = "down"
        BY <3>1, OpenConn DEF Valid, RolesAt
      <3> QED
        BY <2>1, <3>1, <3>2 DEF Used, Associated, Hears, At
    <2> QED
      BY <2>1 DEF ActiveIsConnected
  <1> QED
    BY <1>1, TypeCorrect, ItemsAreConnected, PTL

-----------------------------------------------------------------------------
(* AnnouncedIsPending for one user, and what it rests on. *)
Promised(u) ==
    /\ announced[u] => offer[u] # "none"
    /\ online[u] /\ offer[u] # "none" /\ announced[u] => downloads[u] # None \/ calling[u] \/ arrived[u]

Promises == \A u \in Users : Promised(u)

(* A user for whom the queue, the hubs and the calls are as they were keeps its item. *)
LEMMA StillPromised ==
    ASSUME NEW u \in Users, Promised(u),
           offer'[u] = offer[u], announced'[u] = announced[u], online'[u] = online[u], arrived'[u] = arrived[u],
           calling[u] => calling'[u], downloads[u] # None => downloads'[u] # None
    PROVE  Promised(u)'
  BY DEF Promised

LEMMA QueueStepPromises ==
    ASSUME TypeOK, Promises, NEW u \in Users, QueueStep(u)
    PROVE  Promises'
  <1> SUFFICES ASSUME NEW v \in Users PROVE Promised(v)'
    BY DEF Promises
  <1>0. Promised(v) /\ Parts
    BY TypeParts DEF Promises
  <1> USE DEF Parts, ItemsOK, HubsOK, CallsOK, QueueOK, hubs, queue
  <1>1. ASSUME NEW p \in Offers, Offer(u, p) PROVE Promised(v)'
    BY <1>0, <1>1 DEF Offer, Promised
  <1>2. ASSUME NEW p \in Offers, OfferQuietly(u, p) PROVE Promised(v)'
    BY <1>0, <1>2 DEF OfferQuietly, Promised
  <1>3. CASE Online(u)
    BY <1>0, <1>3 DEF Online, Promised
  <1>4. CASE Offline(u)
    BY <1>0, <1>4 DEF Offline, Promised
  <1>5. CASE UserConnected(u)
    BY <1>0, <1>5 DEF UserConnected, Promised
  <1>6. CASE GetDownloadConnection(u)
    <2>1. CASE v # u
      <3>1. downloads'[v] = downloads[v] /\ calling'[v] = calling[v]
        BY <1>0, <1>6, <2>1 DEF GetDownloadConnection
      <3>2. UNCHANGED <<online, arrived, offer, announced>>
        BY <1>6 DEF GetDownloadConnection
      <3> QED
        BY <1>0, <3>1, <3>2, StillPromised
    <2>2. CASE v = u
      <3>1. downloads'[u] # None \/ ~online[u]
        <4>1. [state |-> "waiting", age |-> Never] # None
          BY NoneAssumption DEF ConnectionQueueItem, Never, Ages
        <4> QED
          BY <1>0, <1>6, <4>1 DEF GetDownloadConnection
      <3>2. UNCHANGED <<online, arrived, offer, announced>>
        BY <1>6 DEF GetDownloadConnection
      <3> QED
        BY <1>0, <2>2, <3>1, <3>2 DEF Promised
    <2> QED
      BY <2>1, <2>2
  <1>7. CASE ForceAttempt(u)
    <2>1. downloads[u] \in Pending
      BY <1>7, PendingIs DEF ForceAttempt
    <2>2. [downloads[u] EXCEPT !.age = Never] \in Pending
      BY <2>1 DEF Pending, Never, Ages
    <2>3. downloads' = [downloads EXCEPT ![u] = [downloads[u] EXCEPT !.age = Never]]
      BY <1>0, <1>7 DEF ForceAttempt
    <2>4. downloads[v] # None => downloads'[v] # None
      BY <1>0, <2>2, <2>3, PendingItem
    <2>5. UNCHANGED <<online, arrived, offer, announced, calling>>
      BY <1>7 DEF ForceAttempt
    <2> QED
      BY <1>0, <2>4, <2>5, StillPromised
  <1> QED
    BY <1>1, <1>2, <1>3, <1>4, <1>5, <1>6, <1>7 DEF QueueStep

LEMMA ConnStepPromises ==
    ASSUME TypeOK, Promises, NEW c \in Conns, Quiet(c) \/ Key(c) \/ INF(c) \/ Failed(c)
    PROVE  Promises'
  <1> SUFFICES ASSUME NEW u \in Users PROVE Promised(u)'
    BY DEF Promises
  <1>0. Promised(u) /\ Parts
    BY TypeParts DEF Promises
  <1> USE DEF Parts, ItemsOK, HubsOK, CallsOK, QueueOK
  <1>1. CASE Quiet(c)
    <2>1. UNCHANGED <<downloads, online, arrived, offer, announced>>
      BY <1>1, QuietKeeps DEF hubs, queue
    <2>2. calling[u] => calling'[u]
      BY <1>0, <1>1, QuietKeeps
    <2> QED
      BY <1>0, <2>1, <2>2, StillPromised
  <1>2. CASE Key(c) \/ INF(c)
    <2>1. Ends(c) /\ UNCHANGED <<online, arrived, calling>>
      BY <1>2, KeyEnds DEF hubs
    <2>2. CASE UNCHANGED <<downloads, queue>>
      BY <1>0, <2>1, <2>2, StillPromised DEF queue
    <2>3. CASE /\ downloads' = [downloads EXCEPT ![conn[c].user] = [state |-> "active", age |-> 0]]
               /\ \/ UNCHANGED queue
                  \/ /\ offer' = [offer EXCEPT ![conn[c].user] = "none"]
                     /\ announced' = [announced EXCEPT ![conn[c].user] = FALSE]
      <3>1. [state |-> "active", age |-> 0] # None
        BY NoneAssumption DEF ConnectionQueueItem
      <3>2. downloads[u] # None => downloads'[u] # None
        BY <1>0, <2>3, <3>1
      <3>3. CASE offer'[u] = offer[u] /\ announced'[u] = announced[u]
        BY <1>0, <2>1, <3>2, <3>3, StillPromised
      <3>4. CASE announced'[u] = FALSE
        BY <3>4 DEF Promised
      <3> QED
        BY <1>0, <2>3, <3>3, <3>4 DEF queue
    <2> QED
      BY <2>1, <2>2, <2>3, AddDownloadDoes, AddUploadDoes DEF Ends
  <1>3. CASE Failed(c)
    <2>1. UNCHANGED <<online, arrived, calling, offer, announced>>
      BY <1>3 DEF Failed, hubs, queue
    <2>2. [state |-> "waiting", age |-> 0] # None
      BY NoneAssumption DEF ConnectionQueueItem, Ages
    <2>3. downloads[u] # None => downloads'[u] # None
      BY <1>0, <1>3, <2>2 DEF Failed
    <2> QED
      BY <1>0, <2>1, <2>3, StillPromised
  <1> QED
    BY <1>1, <1>2, <1>3

LEMMA NextPromises ==
    ASSUME TypeOK, Promises, [Next]_vars
    PROVE  Promises'
  <1>1. ASSUME NEW c \in Conns, PeerStep(c) \/ ThreadStep(c) \/ Disconnect(c) PROVE Promises'
    <2>1. Quiet(c) \/ Key(c) \/ INF(c) \/ Failed(c)
      BY <1>1 DEF PeerStep, ThreadStep, Quiet
    <2> QED
      BY <2>1, ConnStepPromises
  <1>2. ASSUME NEW jump \in 0 .. 2, NEW late \in SUBSET Users, Second(jump, late) PROVE Promises'
    <2>1. UNCHANGED <<online, arrived, calling, offer, announced>>
      BY <1>2 DEF Second, hubs, queue
    <2>2. ASSUME NEW u \in Users PROVE Promised(u)'
      <3>1. Promised(u)
        BY DEF Promises
      <3>2. downloads'[u] # None \/ downloads'[u] = downloads[u] \/ ~online[u] \/ offer[u] = "none"
        BY <1>2, SecondItems, PendingItem
      <3> QED
        BY <2>1, <3>1, <3>2 DEF Promised
    <2> QED
      BY <2>2 DEF Promises
  <1>3. CASE OtherDownload \/ UNCHANGED vars
    <2>1. UNCHANGED <<downloads, online, arrived, calling, offer, announced>>
      BY <1>3 DEF OtherDownload, vars, hubs, queue
    <2> QED
      BY <2>1 DEF Promises, Promised
  <1>4. CASE TimerStep
    BY <1>1, <1>2, <1>4 DEF TimerStep
  <1> QED
    BY <1>1, <1>3, <1>4, QueueStepPromises DEF Next

(***************************************************************************)
(* What was announced for a user that is online has an item, or a thread   *)
(* that will make one. The invariant adds that what was announced is still *)
(* there: the queue takes its announcement back with the last file.        *)
(***************************************************************************)
THEOREM AnnouncedHasItem == Spec => []AnnouncedIsPending
  <1>1. Init => Promises
    BY DEF Init, Promises, Promised
  <1>2. Promises => AnnouncedIsPending
    BY DEF Promises, Promised, AnnouncedIsPending
  <1> QED
    BY <1>1, <1>2, InitType, NextType, NextPromises, PTL DEF Spec
================================================================================
