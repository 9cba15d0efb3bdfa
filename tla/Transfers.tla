------------------------------ MODULE Transfers ------------------------------
(***************************************************************************)
(* How a queued file gets a connection: ConnectionManager with its queue   *)
(* of connections to be made, and DownloadManager with its idle and its    *)
(* running connections. The queue itself is in module QueueManager; here   *)
(* it is reduced to the priority of what it has for a user.                *)
(*                                                                         *)
(* An action is one critical section, or one stretch of a socket thread    *)
(* between two of them. When a connection ends its socket thread tells     *)
(* ConnectionManager first and DownloadManager second, and other threads   *)
(* run in between.                                                         *)
(***************************************************************************)
EXTENDS Integers, FiniteSets

CONSTANTS
    Users,              \* the other clients
    Conns,              \* UserConnection objects, used again when they are freed
    None,               \* no queue item for the user, no connection
    DownloadSlots, ExtraSlots,  \* settings; 0 slots are no limit
    AttemptsPerSecond,  \* setting DOWNCONN_PER_SEC; 0 is no limit
    Priorities,         \* what the queue may have for a user
    OtherDownloads      \* bound: downloads from users that are not in Users

ASSUME TransfersAssumption ==
    /\ {DownloadSlots, ExtraSlots, AttemptsPerSecond, OtherDownloads} \subseteq Nat
    /\ Priorities \subseteq {"lowest", "low", "normal", "high", "highest"}

VARIABLES
    downloads,  \* ConnectionManager::downloads
    uploads,    \* the users in ConnectionManager::uploads
    conn,       \* the connections and what their socket threads are doing
    online,     \* is the user on a hub?
    arrived,    \* a thread in on(UserConnected), before it looks at the queue
    calling,    \* a thread about to call getDownloadConnection
    offer,      \* what QueueManager::hasDownload would return
    announced,  \* history: a change of the queue that asked for a connection made the offer
    others      \* how many downloads of other users run

queue == <<offer, announced>>
hubs == <<online, arrived>>
vars == <<downloads, uploads, conn, online, arrived, calling, offer, announced, others>>

-----------------------------------------------------------------------------
(* "none" is QueueItem::PAUSED, or no item at all. *)
Offers == Priorities \cup {"none"}

(* lastAttempt: less than 50 s ago, between 50 and 60, more than 60, or 0. *)
Ages == 0 .. 3
Never == 3

ConnectionQueueItem == [state : {"connecting", "waiting", "noslots"}, age : Ages]
                           \cup [state : {"active"}, age : {0}]

(***************************************************************************)
(* The steps between two handlers of the socket thread are "hello" (before *)
(* MyNick or INF), "key" (after MyNick), "upload", "idle" (in idlers),     *)
(* "run" (in DownloadManager::downloads) and "over" (not used any more).   *)
(* Inside checkDownloads it passes "check" and then "list" or "park"; at   *)
(* the end of a download "put", before putDownload.                        *)
(***************************************************************************)
Connection == [user : Users, role : {"none", "down", "up"},
               step : {"hello", "key", "upload", "idle", "run", "over",
                       "check", "list", "park", "put"},
               known : BOOLEAN,     \* ConnectionManager listens to it
               woken : BOOLEAN,     \* a task UPDATED waits for the socket thread
               closing : BOOLEAN]   \* so does a task DISCONNECT

(* FLAG_DOWNLOAD or FLAG_UPLOAD. *)
RolesAt(step) ==
    IF step = "hello" THEN {"none"}
    ELSE IF step = "key" THEN {"down", "up"}
    ELSE IF step = "upload" THEN {"up"}
    ELSE IF step = "over" THEN {"none", "down", "up"} ELSE {"down"}

ASSUME NoneAssumption == None \notin Connection \cup ConnectionQueueItem

Open == {c \in Conns : conn[c] # None}
Of(u) == {c \in Open : conn[c].user = u}
At(c, steps) == c \in Open /\ conn[c].step \in steps
Hears(c, steps) == At(c, steps) /\ conn[c].known

(* FLAG_ASSOCIATED, as long as it matters. *)
Associated(c) == Hears(c, {"check", "list", "park", "idle", "run", "put", "upload", "over"})

Used(u, role) == {c \in Of(u) : Associated(c) /\ conn[c].role = role}

(* The queue has handed a Download to the connection and not got it back. *)
HasDownload(c) == At(c, {"list", "run", "put"})

Is(u, states) == downloads[u] # None /\ downloads[u].state \in states

(* DownloadManager::getDownloadCount *)
Running == others + Cardinality({c \in Open : At(c, {"run"})})
Full(slots) == DownloadSlots # 0 /\ Running >= slots

(* DownloadManager::startDownload, with no limit on the speed. *)
StartDownload(p) ==
    \/ ~Full(DownloadSlots) /\ (Running > 0 => p # "lowest")
    \/ Full(DownloadSlots) /\ ~Full(DownloadSlots + ExtraSlots) /\ p = "highest"

Init ==
    /\ downloads = [u \in Users |-> None]
    /\ uploads = {}
    /\ conn = [c \in Conns |-> None]
    /\ online = [u \in Users |-> FALSE]
    /\ arrived = [u \in Users |-> FALSE]
    /\ calling = [u \in Users |-> FALSE]
    /\ offer = [u \in Users |-> "none"]
    /\ announced = [u \in Users |-> FALSE]
    /\ others = 0

-----------------------------------------------------------------------------
(***************************************************************************)
(* The queue. Adding a file or a source, or raising a priority, gives the  *)
(* user something to download and then asks for a connection. Other        *)
(* changes do not: a tree arrives, a file slot gets free, a download of    *)
(* someone else begins, an item is paused or removed.                      *)
(***************************************************************************)
Offer(u, p) ==
    /\ p # "none"
    /\ offer' = [offer EXCEPT ![u] = p]
    /\ announced' = [announced EXCEPT ![u] = TRUE]
    /\ calling' = [calling EXCEPT ![u] = TRUE]
    /\ UNCHANGED <<downloads, uploads, conn, hubs, others>>

OfferQuietly(u, p) ==
    /\ p # offer[u]
    /\ offer' = [offer EXCEPT ![u] = p]
    /\ announced' = [announced EXCEPT ![u] = @ /\ p # "none"]
    /\ UNCHANGED <<downloads, uploads, conn, hubs, calling, others>>

(* ClientManager::putOnline and the end of putOffline. *)
Online(u) ==
    /\ ~online[u]
    /\ online' = [online EXCEPT ![u] = TRUE]
    /\ arrived' = [arrived EXCEPT ![u] = TRUE]
    /\ UNCHANGED <<downloads, uploads, conn, calling, queue, others>>

Offline(u) ==
    /\ online[u] /\ ~arrived[u]
    /\ online' = [online EXCEPT ![u] = FALSE]
    /\ UNCHANGED <<downloads, uploads, conn, arrived, calling, queue, others>>

(* Slip: only what can be downloaded at once counts, and it is asked for when it is free. *)
UserConnectedNever(u) ==
    /\ arrived[u]
    /\ arrived' = [arrived EXCEPT ![u] = FALSE]
    /\ UNCHANGED <<downloads, uploads, conn, online, calling, queue, others>>

(* QueueManager::on(UserConnected): any item that is not paused will do, also one without a free segment. *)
UserConnected(u) ==
    /\ arrived[u]
    /\ arrived' = [arrived EXCEPT ![u] = FALSE]
    /\ \E asks \in BOOLEAN :
        /\ offer[u] # "none" => asks
        /\ calling' = [calling EXCEPT ![u] = @ \/ asks]
    /\ UNCHANGED <<downloads, uploads, conn, online, queue, others>>

(* checkIdle: the first idle connection of the user is told to look at the queue again. *)
Wake(u) ==
    LET idle == {c \in Of(u) : At(c, {"idle"})}
    IN  \/ idle = {} /\ UNCHANGED conn
        \/ \E c \in idle : conn' = [conn EXCEPT ![c].woken = conn[c].known]

(* getDownloadConnection; add, readd and a search result do not call it for a user that is offline by now. *)
GetDownloadConnection(u) ==
    /\ calling[u]
    /\ calling' = [calling EXCEPT ![u] = FALSE]
    /\ \/ /\ downloads[u] = None
          /\ downloads' = [downloads EXCEPT ![u] = [state |-> "waiting", age |-> Never]]
          /\ UNCHANGED conn
       \/ downloads[u] # None /\ Wake(u) /\ UNCHANGED downloads
       \/ ~online[u] /\ UNCHANGED <<downloads, conn>>
    /\ UNCHANGED <<uploads, hubs, queue, others>>

-----------------------------------------------------------------------------
Aged(age, jump) == IF age = Never THEN Never ELSE IF age + jump > 2 THEN 2 ELSE age + jump

(* Slip: an attempt that failed is not repeated. *)
AttemptOnce(q, p) ==
    [state |-> IF q.state = "waiting" /\ q.age = Never /\ StartDownload(p) THEN "connecting"
               ELSE IF q.state = "noslots" /\ StartDownload(p) THEN "waiting" ELSE q.state,
     age |-> 0]

(* A connection is tried, or not for lack of slots; one that had no slots will be tried the next time. *)
Attempt(q, p) ==
    [state |-> IF q.state = "waiting"
               THEN IF StartDownload(p) THEN "connecting" ELSE "noslots"
               ELSE IF q.state = "noslots" /\ StartDownload(p) THEN "waiting" ELSE q.state,
     age |-> 0]

(* Slip: the answer that never comes is waited for. *)
WaitOn(q) == q

(* connectionTimeout: nobody has answered for 50 seconds. *)
TimeOut(q) == IF q.state = "connecting" /\ q.age >= 1 THEN [q EXCEPT !.state = "waiting"] ELSE q

(***************************************************************************)
(* ConnectionManager::on(Second), all of it under the lock; jump is how    *)
(* far the clock has moved. The users in late are due, and put off because *)
(* so many connections have been tried in this second already.             *)
(***************************************************************************)
Second(jump, late) ==
    LET pending == {u \in Users : Is(u, {"connecting", "waiting", "noslots"})}
        aged == [u \in pending |-> [downloads[u] EXCEPT !.age = Aged(@, jump)]]
        due == {u \in pending \ late : online[u] /\ aged[u].age >= 2}
        gone == {u \in pending : ~online[u]} \cup {u \in due : offer[u] = "none"}
        tried == {u \in due \ gone : aged[u].state = "waiting" /\ StartDownload(offer[u])}
    IN  /\ \A u \in late : u \in pending /\ online[u] /\ aged[u].age = 2
        /\ late # {} => AttemptsPerSecond # 0 /\ Cardinality(tried) >= AttemptsPerSecond
        /\ downloads' = [u \in Users |->
                            IF u \in gone THEN None
                            ELSE IF u \in due THEN Attempt(aged[u], offer[u])
                            ELSE IF u \in pending THEN TimeOut(aged[u])
                            ELSE downloads[u]]
        /\ UNCHANGED <<uploads, conn, hubs, calling, queue, others>>

(* ConnectionManager::force *)
ForceAttempt(u) ==
    /\ Is(u, {"connecting", "waiting", "noslots"}) /\ downloads[u].age # Never
    /\ downloads' = [downloads EXCEPT ![u].age = Never]
    /\ UNCHANGED <<uploads, conn, hubs, calling, queue, others>>

(* Slip: an idle connection is no reason to hang up. *)
DisconnectBusy(c) ==
    /\ Hears(c, {"hello", "key", "run", "upload"}) /\ ~conn[c].closing
    /\ conn' = [conn EXCEPT ![c].closing = TRUE]
    /\ UNCHANGED <<downloads, uploads, hubs, calling, queue, others>>

(***************************************************************************)
(* on(Minute) asks every connection that had nothing to send or receive    *)
(* for three minutes to disconnect. So do the user, the queue              *)
(* (ConnectionManager::disconnect) and abortDownload.                      *)
(***************************************************************************)
Disconnect(c) ==
    /\ c \in Open /\ conn[c].known /\ ~conn[c].closing
    /\ conn' = [conn EXCEPT ![c].closing = TRUE]
    /\ UNCHANGED <<downloads, uploads, hubs, calling, queue, others>>

-----------------------------------------------------------------------------
Goto(c, step) == conn' = [conn EXCEPT ![c].step = step]

(* putConnection: nobody listens to it any more. *)
Drop(c) == conn' = [conn EXCEPT ![c].step = "over", ![c].known = FALSE, ![c].closing = TRUE]

(* DownloadManager::removeConnection: ConnectionManager still listens. *)
Release(c) == conn' = [conn EXCEPT ![c].step = "over", ![c].closing = TRUE]

(* accept, nmdcConnect and adcConnect: the other client may come whenever it likes. *)
Connect(c, u) ==
    /\ c \in Conns \ Open
    /\ conn' = [conn EXCEPT ![c] = [user |-> u, role |-> "none", step |-> "hello",
                                    known |-> TRUE, woken |-> FALSE, closing |-> FALSE]]
    /\ UNCHANGED <<downloads, uploads, hubs, calling, queue, others>>

(* on(MyNick): is it a connection we are waiting for? *)
MyNick(c) ==
    LET u == conn[c].user IN
    /\ Hears(c, {"hello"})
    /\ \/ /\ Is(u, {"connecting", "waiting"})
          /\ conn' = [conn EXCEPT ![c].step = "key", ![c].role = "down"]
       \/ /\ ~Is(u, {"connecting", "waiting"}) /\ online[u]
          /\ conn' = [conn EXCEPT ![c].step = "key", ![c].role = "up"]
       \/ ~Is(u, {"connecting", "waiting"}) /\ ~online[u] /\ Drop(c)
       \/ Drop(c)   \* nobody we expect
    /\ UNCHANGED <<downloads, uploads, hubs, calling, queue, others>>

(* on(Direction): both want to download and we lose, or a tie ends it; or both want to upload. *)
Direction(c) ==
    /\ Hears(c, {"key"})
    /\ \/ conn[c].role = "down" /\ conn' = [conn EXCEPT ![c].role = "up"]
       \/ Drop(c)
    /\ UNCHANGED <<downloads, uploads, hubs, calling, queue, others>>

(* Slip: any item will do, also one that has its connection. *)
AddDownloadTwice(c) ==
    LET u == conn[c].user IN
    /\ downloads[u] # None
    /\ downloads' = [downloads EXCEPT ![u] = [state |-> "active", age |-> 0]]
    /\ conn' = [conn EXCEPT ![c].step = "check", ![c].role = "down"]
    /\ UNCHANGED queue

(***************************************************************************)
(* addDownloadConnection, then DownloadManager::addConnection. From a      *)
(* client that lacks the needed features nothing can be downloaded: it is  *)
(* removed from the queue as a source.                                     *)
(***************************************************************************)
AddDownload(c) ==
    LET u == conn[c].user IN
    \/ /\ Is(u, {"connecting", "waiting"})
       /\ downloads' = [downloads EXCEPT ![u] = [state |-> "active", age |-> 0]]
       /\ \/ conn' = [conn EXCEPT ![c].step = "check", ![c].role = "down"] /\ UNCHANGED queue
          \/ /\ conn' = [conn EXCEPT ![c].step = "over", ![c].role = "down", ![c].closing = TRUE]
             /\ offer' = [offer EXCEPT ![u] = "none"]
             /\ announced' = [announced EXCEPT ![u] = FALSE]
    \/ ~Is(u, {"connecting", "waiting"}) /\ Drop(c) /\ UNCHANGED <<downloads, queue>>

(* Slip: the connection is not marked as an upload. *)
AddUploadUnmarked(c) ==
    LET u == conn[c].user IN
    /\ \/ /\ u \notin uploads
          /\ uploads' = uploads \cup {u}
          /\ conn' = [conn EXCEPT ![c].step = "upload"]
       \/ u \in uploads /\ Drop(c) /\ UNCHANGED uploads
    /\ UNCHANGED <<downloads, queue>>

(* addUploadConnection: one for each user. *)
AddUpload(c) ==
    LET u == conn[c].user IN
    /\ \/ /\ u \notin uploads
          /\ uploads' = uploads \cup {u}
          /\ conn' = [conn EXCEPT ![c].step = "upload", ![c].role = "up"]
       \/ u \in uploads /\ Drop(c) /\ UNCHANGED uploads
    /\ UNCHANGED <<downloads, queue>>

(* on(Key): the end of an NMDC handshake. *)
Key(c) ==
    /\ Hears(c, {"key"})
    /\ \/ conn[c].role = "down" /\ AddDownload(c) /\ UNCHANGED uploads
       \/ conn[c].role = "up" /\ AddUpload(c)
    /\ UNCHANGED <<hubs, calling, others>>

(* on(AdcCommand::INF): the end of an ADC handshake. The token says whose connection it is. *)
INF(c) ==
    /\ Hears(c, {"hello"})
    /\ \/ downloads[conn[c].user] # None /\ AddDownload(c) /\ UNCHANGED uploads
       \/ AddUpload(c)
       \/ Drop(c) /\ UNCHANGED <<downloads, uploads, queue>>    \* no such user, or no token
       \/ conn' = [conn EXCEPT ![c].closing = TRUE] /\ UNCHANGED <<downloads, uploads, queue>>
    /\ UNCHANGED <<hubs, calling, others>>

-----------------------------------------------------------------------------
(***************************************************************************)
(* checkDownloads: if there are slots for what the queue seems to have for *)
(* the user, QueueManager::getDownload, which looks again and knows the    *)
(* speed of the connection: there may be a Download, or not.               *)
(***************************************************************************)
CheckDownloads(c) ==
    /\ At(c, {"check"})
    /\ \/ StartDownload(offer[conn[c].user]) /\ \E step \in {"list", "park"} : Goto(c, step)
       \/ ~StartDownload(offer[conn[c].user]) /\ Release(c)
    /\ UNCHANGED <<downloads, uploads, hubs, calling, queue, others>>

(* The Download enters DownloadManager::downloads, or the connection idlers. *)
Enlist(c) ==
    /\ \/ At(c, {"list"}) /\ Goto(c, "run")
       \/ At(c, {"park"}) /\ Goto(c, "idle")
    /\ UNCHANGED <<downloads, uploads, hubs, calling, queue, others>>

(* DownloadManager::on(Updated) *)
Updated(c) ==
    /\ Hears(c, {"idle"}) /\ conn[c].woken
    /\ conn' = [conn EXCEPT ![c].step = "check", ![c].woken = FALSE]
    /\ UNCHANGED <<downloads, uploads, hubs, calling, queue, others>>

(* endData, failDownload and fileNotAvailable begin with removeDownload. *)
RemoveDownload(c) ==
    /\ Hears(c, {"run"})
    /\ Goto(c, "put")
    /\ UNCHANGED <<downloads, uploads, hubs, calling, queue, others>>

(* What comes of a finished download, and of one that failed but not with its connection. *)
AfterPut(c) == Goto(c, "check") \/ Release(c)

(* Then QueueManager::putDownload, which asks for connections for what is not finished. *)
PutDownload(c) ==
    /\ At(c, {"put"})
    /\ IF conn[c].known THEN AfterPut(c) ELSE Goto(c, "over")
    /\ \E asks \in BOOLEAN : calling' = [calling EXCEPT ![conn[c].user] = @ \/ asks]
    /\ UNCHANGED <<downloads, uploads, hubs, queue, others>>

(* Slip: an upload that ends stays listed. *)
FailedKept(c) ==
    LET u == conn[c].user IN
    /\ Hears(c, {"hello", "key", "upload", "idle", "run", "over"})
    /\ conn' = [conn EXCEPT ![c].known = FALSE, ![c].closing = TRUE, ![c].woken = FALSE,
                            ![c].step = IF @ \in {"idle", "run"} THEN @ ELSE "over"]
    /\ downloads' = IF Associated(c) /\ conn[c].role = "down"
                    THEN [downloads EXCEPT ![u] = [state |-> "waiting", age |-> 0]] ELSE downloads
    /\ UNCHANGED <<uploads, hubs, calling, queue, others>>

(***************************************************************************)
(* The connection is lost, or the other client reports an error:           *)
(* ConnectionManager::on(Failed). DownloadManager still has it.            *)
(***************************************************************************)
Failed(c) ==
    LET u == conn[c].user IN
    /\ Hears(c, {"hello", "key", "upload", "idle", "run", "over"})
    /\ conn' = [conn EXCEPT ![c].known = FALSE, ![c].closing = TRUE, ![c].woken = FALSE,
                            ![c].step = IF @ \in {"idle", "run"} THEN @ ELSE "over"]
    /\ downloads' = IF Associated(c) /\ conn[c].role = "down"
                    THEN [downloads EXCEPT ![u] = [state |-> "waiting", age |-> 0]] ELSE downloads
    /\ uploads' = IF Associated(c) /\ conn[c].role = "up" THEN uploads \ {u} ELSE uploads
    /\ UNCHANGED <<hubs, calling, queue, others>>

(* DownloadManager::on(Failed): out of idlers, and failDownload. *)
FailDownload(c) ==
    /\ At(c, {"idle", "run"}) /\ ~conn[c].known
    /\ Goto(c, IF conn[c].step = "run" THEN "put" ELSE "over")
    /\ UNCHANGED <<downloads, uploads, hubs, calling, queue, others>>

(* The socket thread ends and deletes the connection. *)
Delete(c) ==
    /\ At(c, {"over"}) /\ ~conn[c].known
    /\ conn' = [conn EXCEPT ![c] = None]
    /\ UNCHANGED <<downloads, uploads, hubs, calling, queue, others>>

OtherDownload ==
    /\ others' \in {others - 1, others + 1} \cap (0 .. OtherDownloads)
    /\ UNCHANGED <<downloads, uploads, conn, hubs, calling, queue>>

-----------------------------------------------------------------------------
QueueStep(u) ==
    \/ \E p \in Offers : Offer(u, p) \/ OfferQuietly(u, p)
    \/ Online(u) \/ Offline(u) \/ UserConnected(u)
    \/ GetDownloadConnection(u) \/ ForceAttempt(u)

TimerStep ==
    \/ \E c \in Conns : Disconnect(c)
    \/ \E jump \in 0 .. 2, late \in SUBSET Users : Second(jump, late)

(* What the other client or the network does to a connection. *)
PeerStep(c) ==
    \/ \E u \in Users : Connect(c, u)
    \/ MyNick(c) \/ Direction(c) \/ Key(c) \/ INF(c)
    \/ RemoveDownload(c) \/ Failed(c)

(* What its thread does by itself. *)
ThreadStep(c) ==
    \/ CheckDownloads(c) \/ Enlist(c) \/ Updated(c)
    \/ PutDownload(c) \/ FailDownload(c) \/ Delete(c)

Next ==
    \/ \E u \in Users : QueueStep(u)
    \/ TimerStep
    \/ \E c \in Conns : PeerStep(c) \/ ThreadStep(c)
    \/ OtherDownload

(***************************************************************************)
(* Threads run. The clock need only be seen moving by a second again and   *)
(* again, however late the timer is at other times. Minute comes round for *)
(* a connection that stays idle, and a socket thread carries out a request *)
(* to disconnect. Nobody has to answer, and nobody has to finish.          *)
(***************************************************************************)
Fairness ==
    /\ \A u \in Users : WF_vars(UserConnected(u)) /\ WF_vars(GetDownloadConnection(u))
    /\ WF_vars(\E late \in SUBSET Users : Second(1, late))
    /\ \A c \in Conns :
        /\ WF_vars(ThreadStep(c))
        /\ WF_vars(At(c, {"idle"}) /\ Disconnect(c))
        /\ WF_vars(c \in Open /\ conn[c].closing /\ Failed(c))

Spec == Init /\ [][Next]_vars /\ Fairness

-----------------------------------------------------------------------------
TypeOK ==
    /\ downloads \in [Users -> ConnectionQueueItem \cup {None}]
    /\ uploads \subseteq Users
    /\ conn \in [Conns -> Connection \cup {None}]
    /\ \A c \in Open : conn[c].role \in RolesAt(conn[c].step)
    /\ {online, arrived, calling, announced} \subseteq [Users -> BOOLEAN]
    /\ offer \in [Users -> Offers]
    /\ others \in 0 .. OtherDownloads

(***************************************************************************)
(* ConnectionManager's lists and the connections agree: a user's item is   *)
(* active as long as exactly one of its connections is used for downloads, *)
(* and the same for uploads. on(Failed) relies on it: it follows the item  *)
(* it finds for the user without looking (the assertions at 769 and 775).  *)
(***************************************************************************)
ActiveIsConnected ==
    \A u \in Users :
        /\ Is(u, {"active"}) <=> Used(u, "down") # {}
        /\ u \in uploads <=> Used(u, "up") # {}
        /\ \A role \in {"down", "up"} : \A c, d \in Used(u, role) : c = d

(***************************************************************************)
(* What the queue has announced for a user that is online is not forgotten *)
(* while items are dropped for users that left or had nothing to download: *)
(* there is an item for it, or a thread on its way to make one.            *)
(***************************************************************************)
AnnouncedIsPending ==
    \A u \in Users : online[u] /\ offer[u] # "none" /\ announced[u] =>
        downloads[u] # None \/ calling[u] \/ arrived[u]

(***************************************************************************)
(* UserQueue::addDownload (QueueManager.cpp:312): "Only one download per   *)
(* user...". Two it is only while a connection is lost that                *)
(* ConnectionManager has let go of and DownloadManager has not yet.        *)
(***************************************************************************)
TwoOnlyWhileFailing ==
    \A u \in Users : \A c, d \in Of(u) :
        HasDownload(c) /\ HasDownload(d) /\ conn[c].known /\ conn[d].known => c = d

(* No attempt to connect is waited for forever, unless the user asks again and again. *)
AttemptsEnd ==
    \A u \in Users : []<>~Is(u, {"connecting"}) \/ []<><<ForceAttempt(u)>>_vars

(***************************************************************************)
(* A file that was announced, for a user that stays online, is not left    *)
(* lying while the slots allow to download it: another attempt is made, or *)
(* there is a connection. Whatever slots were missing, attempts failed and *)
(* items were dropped before.                                              *)
(***************************************************************************)
OffersAreTried ==
    \A u \in Users :
        <>[](online[u] /\ offer[u] # "none" /\ announced[u] /\ StartDownload(offer[u]))
            => []<>Is(u, {"connecting", "active"})

(***************************************************************************)
(* A connection does not stay idle while there is something to download    *)
(* from its user, although it may become idle just after the call that     *)
(* should have woken it, or be passed over for one that has failed.        *)
(***************************************************************************)
IdleIsNoticed ==
    \A c \in Conns : []<>~(At(c, {"idle"}) /\ offer[conn[c].user] # "none")
=============================================================================
