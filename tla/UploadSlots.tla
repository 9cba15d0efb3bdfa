---------------------------- MODULE UploadSlots ----------------------------
(***************************************************************************)
(* UploadManager: who gets an upload slot. Connections ask for files; a    *)
(* user without a slot waits in a queue; once a second the timer promises  *)
(* free slots to the users in front and asks them to connect.              *)
(*                                                                         *)
(* An action is one critical section of UploadManager::cs, except for the  *)
(* end of a connection. ConnectionManager hears of it first and forgets    *)
(* the connection, then UploadManager, which gives the slot back without   *)
(* any lock: the counter is loaded and stored in two steps.                *)
(***************************************************************************)
EXTENDS Integers, FiniteSets, Sequences

S == INSTANCE SequencesExt

CONSTANTS
    Users,
    Conns,              \* UserConnection objects, used again when they are freed
    NoConn,
    Slots,              \* getSlots()
    ExtraSlots, PartialSlots, AutoSlots,    \* settings
    MinUploadSpeed,     \* is MIN_UPLOAD_SPEED set?
    Favourites,         \* favourite users that always have a slot
    Reservable,         \* whom the user may reserve a slot for
    MiniSlotUsers,      \* whose client knows about small slots
    Operators,          \* whose connections have FLAG_OP
    Exclusive           \* assume that no thread touches a counter while another one does

ASSUME UploadAssumption ==
    /\ {Slots, ExtraSlots, PartialSlots, AutoSlots} \subseteq 0 .. 255
    /\ Favourites \cup Reservable \cup MiniSlotUsers \cup Operators \subseteq Users
    /\ {MinUploadSpeed, Exclusive} \subseteq BOOLEAN

(* A byte can count them. *)
ASSUME ConnsAssumption == IsFiniteSet(Conns) /\ Cardinality(Conns) <= 255

VARIABLES
    conn,           \* the connections UploadManager listens to
    counters,       \* running, extra and extraPartial, by the kind of slot they count
    reserved,       \* reservedSlots
    connecting,     \* connectingUsers: Minute events since the promise
    uploadQueue     \* the waiting users; whatever files they wait for

vars == <<conn, counters, reserved, connecting, uploadQueue>>

-----------------------------------------------------------------------------
Kinds == {"std", "extra", "partial"}

Connection == [user : Users, slot : Kinds \cup {"none"},
               by : {"free", "forced"},     \* history: why it has a standard slot
               upload : {"none", "active", "delayed"},
               phase : {"up",           \* ConnectionManager holds it as the user's upload
                        "failed",       \* ConnectionManager has let go of it
                        "counting"},    \* removeConnection has loaded the counter
               saw : 0 .. 255]

ASSUME NoConnAssumption == NoConn \notin Connection

Open == {c \in Conns : conn[c] # NoConn}
Up == {c \in Open : conn[c].phase = "up"}
Holders(k) == {c \in Open : conn[c].slot = k}
Promised == DOMAIN connecting
Waiting == S!ToSet(uploadQueue)

(* uint8_t arithmetic. *)
Byte(n) == n % 256

(* getFreeSlots *)
FreeSlots == IF counters["std"] < Slots THEN Slots - counters["std"] ELSE 0

Without(f, U) == [u \in DOMAIN f \ U |-> f[u]]

(* clearUserFiles: the others keep their order. *)
ClearUserFiles(U) ==
    LET kept == {n \in DOMAIN uploadQueue : uploadQueue[n] \notin U}
        order == CHOOSE f \in [1 .. Cardinality(kept) -> kept] : \A m, n \in DOMAIN f : m < n => f[m] < f[n]
    IN  [n \in 1 .. Cardinality(kept) |-> uploadQueue[order[n]]]

(* Exclusive: nobody is in the middle of changing a counter. *)
Undisturbed == Exclusive => \A c \in Open : conn[c].phase # "counting"

-----------------------------------------------------------------------------
Init ==
    /\ conn = [c \in Conns |-> NoConn]
    /\ counters = [k \in Kinds |-> 0]
    /\ reserved = {}
    /\ connecting = [u \in {} |-> 0]
    /\ uploadQueue = <<>>

(* ConnectionManager::addUploadConnection, one for each user, and addConnection. *)
Connect(c, u) ==
    /\ conn[c] = NoConn
    /\ \A d \in Up : conn[d].user # u
    /\ conn' = [conn EXCEPT ![c] = [user |-> u, slot |-> "none", by |-> "free",
                                    upload |-> "none", phase |-> "up", saw |-> 0]]
    /\ UNCHANGED <<counters, reserved, connecting, uploadQueue>>

(* A free slot is for those who were promised one, or for all if nobody waits. *)
HasFreeSlot(u) ==
    /\ FreeSlots > 0
    /\ (Waiting = {} /\ Promised = {}) \/ u \in Promised

(* getAutoSlot, for some upload speed and some time since the last one. *)
AutoSlot == MinUploadSpeed /\ counters["std"] <= Slots + AutoSlots

(* Slip: the slot that the connection had is not given back. *)
SwitchedUp(old, new) ==
    [k \in Kinds |-> IF old # new /\ k = new THEN Byte(counters[k] + 1) ELSE counters[k]]

(* The counters after a connection goes from one kind of slot to another. *)
Switched(old, new) ==
    [k \in Kinds |-> IF old = new THEN counters[k]
                     ELSE IF k = old THEN Byte(counters[k] - 1)
                     ELSE IF k = new THEN Byte(counters[k] + 1)
                     ELSE counters[k]]

(* Slip: the user goes on waiting. *)
ServeWaiting(c, slot, by) ==
    /\ conn' = [conn EXCEPT ![c] = [@ EXCEPT !.slot = slot, !.by = by, !.upload = "active"]]
    /\ counters' = Switched(conn[c].slot, slot)
    /\ connecting' = Without(connecting, {conn[c].user})
    /\ UNCHANGED <<reserved, uploadQueue>>

(* The rest of prepareFile when it grants: a delayed upload of the connection is replaced. *)
Serve(c, slot, by) ==
    /\ conn' = [conn EXCEPT ![c] = [@ EXCEPT !.slot = slot, !.by = by, !.upload = "active"]]
    /\ counters' = Switched(conn[c].slot, slot)
    /\ uploadQueue' = ClearUserFiles({conn[c].user})
    /\ connecting' = Without(connecting, {conn[c].user})
    /\ UNCHANGED reserved

(* Slip: whoever asks again is put in the queue again. *)
RefuseAgain(c) ==
    /\ uploadQueue' = Append(uploadQueue, conn[c].user)
    /\ UNCHANGED <<conn, counters, reserved, connecting>>

(* addFailedUpload; the connection is asked to close. *)
Refuse(c) ==
    /\ uploadQueue' = IF conn[c].user \in Waiting THEN uploadQueue
                      ELSE Append(uploadQueue, conn[c].user)
    /\ UNCHANGED <<conn, counters, reserved, connecting>>

(* A request on the connection, in STATE_GET. *)
MayAsk(c) == c \in Up /\ conn[c].upload # "active" /\ Undisturbed

(***************************************************************************)
(* prepareFile: a request for a file, for something small enough for an    *)
(* extra slot (a list, a tree), or for a file that is still being          *)
(* downloaded here. A request for something that cannot be opened is       *)
(* answered before anything changes.                                       *)
(***************************************************************************)
PrepareFile(c, asked) ==
    LET u == conn[c].user
        slot == conn[c].slot
        extra == /\ asked = "small" /\ u \in MiniSlotUsers
                 /\ slot = "extra" \/ u \in Operators \/ counters["extra"] < ExtraSlots
        partial == /\ asked = "partial"
                   /\ slot = "partial" \/ counters["partial"] < PartialSlots
    IN  /\ MayAsk(c)
        /\ \/ slot = "std" /\ Serve(c, "std", conn[c].by)
           \/ /\ slot # "std"
              /\ \/ HasFreeSlot(u) /\ Serve(c, "std", "free")
                 \/ /\ ~HasFreeSlot(u)
                    /\ u \in reserved \cup Favourites \/ AutoSlot
                    /\ Serve(c, "std", "forced")
                 \/ /\ ~HasFreeSlot(u) /\ u \notin reserved \cup Favourites
                    /\ \/ extra /\ Serve(c, "extra", "free")
                       \/ partial /\ Serve(c, "partial", "free")
                       \/ ~extra /\ ~partial /\ Refuse(c)

(* TransmitDone: the upload of a part of a file is kept, for the next part to continue. *)
TransmitDone(c) ==
    /\ c \in Up /\ conn[c].upload = "active"
    /\ \E kept \in {"none", "delayed"} : conn' = [conn EXCEPT ![c].upload = kept]
    /\ UNCHANGED <<counters, reserved, connecting, uploadQueue>>

(* Slip: the delayed upload stays in the list. *)
LetGoOnly(c) ==
    /\ c \in Up
    /\ conn' = [conn EXCEPT ![c].phase = "failed"]
    /\ UNCHANGED <<counters, reserved, connecting, uploadQueue>>

(* ConnectionManager's Failed and putCQI: some delayed upload of the user is removed first. *)
LetGo(c) ==
    LET delayed == {d \in Open : conn[d].user = conn[c].user /\ conn[d].upload = "delayed"}
    IN  /\ c \in Up
        /\ \/ \E d \in delayed :
                conn' = [conn EXCEPT ![d].upload = "none", ![c].phase = "failed"]
           \/ delayed = {} /\ conn' = [conn EXCEPT ![c].phase = "failed"]
        /\ UNCHANGED <<counters, reserved, connecting, uploadQueue>>

(* UploadManager's Failed: removeUpload, and the first half of removeConnection. *)
LoadCounter(c) ==
    /\ c \in Open /\ conn[c].phase = "failed" /\ Undisturbed
    /\ conn' = [conn EXCEPT ![c] =
            IF conn[c].slot = "none" THEN NoConn
            ELSE [@ EXCEPT !.upload = "none", !.phase = "counting", !.saw = counters[conn[c].slot]]]
    /\ UNCHANGED <<counters, reserved, connecting, uploadQueue>>

(***************************************************************************)
(* The second half. When another thread has changed the counter since it   *)
(* was loaded, either may have stored last.                                *)
(***************************************************************************)
StoreCounter(c) ==
    /\ c \in Open /\ conn[c].phase = "counting"
    /\ LET k == conn[c].slot IN
        \/ counters' = [counters EXCEPT ![k] = Byte(conn[c].saw - 1)]
        \/ counters[k] # conn[c].saw /\ UNCHANGED counters
    /\ conn' = [conn EXCEPT ![c] = NoConn]
    /\ UNCHANGED <<reserved, connecting, uploadQueue>>

(* Slip: those who were promised a slot before are not counted. *)
NewPromisesAgain == IF FreeSlots < Len(uploadQueue) THEN FreeSlots ELSE Len(uploadQueue)

(* How many users notifyQueuedUsers asks to connect. *)
NewPromises ==
    LET left == FreeSlots - Cardinality(Promised)
    IN  IF left <= 0 THEN 0 ELSE IF left < Len(uploadQueue) THEN left ELSE Len(uploadQueue)

(* The Second timer: delayed uploads that nothing continued end; notifyQueuedUsers. *)
Second ==
    /\ \E D \in SUBSET {c \in Open : conn[c].upload = "delayed"} :
        conn' = [c \in Conns |-> IF c \in D THEN [conn[c] EXCEPT !.upload = "none"] ELSE conn[c]]
    /\ LET now == S!ToSet(SubSeq(uploadQueue, 1, NewPromises)) IN
        /\ connecting' = [u \in Promised \cup now |-> IF u \in now THEN 0 ELSE connecting[u]]
        /\ uploadQueue' = SubSeq(uploadQueue, NewPromises + 1, Len(uploadQueue))
    /\ UNCHANGED <<counters, reserved>>

(* Slip: a promise is for ever. *)
ExpiredNever(E) == E = {}

(* A promise ends after 90 seconds, at the second or third Minute event. *)
Expired(E) ==
    {u \in Promised : connecting[u] = 2} \subseteq E /\ E \subseteq {u \in Promised : connecting[u] > 0}

(* The Minute timer. Whoever did not come loses his place, if he waits again. *)
Minute ==
    /\ \E R \in SUBSET reserved : reserved' = R
    /\ \E E \in SUBSET Promised :
        /\ Expired(E)
        /\ connecting' = [u \in Promised \ E |-> IF connecting[u] < 2 THEN connecting[u] + 1 ELSE 2]
        /\ uploadQueue' = ClearUserFiles(E)
    /\ UNCHANGED <<conn, counters>>

(* reserveSlot and unreserveSlot, by the user. *)
ReserveSlot(u) ==
    /\ u \in Reservable /\ reserved' = reserved \cup {u}
    /\ UNCHANGED <<conn, counters, connecting, uploadQueue>>
UnreserveSlot(u) ==
    /\ u \in reserved /\ reserved' = reserved \ {u}
    /\ UNCHANGED <<conn, counters, connecting, uploadQueue>>

(* ClientManager says that the user has left the last hub. *)
UserDisconnected(u) ==
    /\ uploadQueue' = ClearUserFiles({u})
    /\ UNCHANGED <<conn, counters, reserved, connecting>>

Next ==
    \/ \E c \in Conns :
        \/ \E u \in Users : Connect(c, u)
        \/ \E asked \in {"file", "small", "partial"} : PrepareFile(c, asked)
        \/ TransmitDone(c) \/ LetGo(c) \/ LoadCounter(c) \/ StoreCounter(c)
    \/ Second \/ Minute
    \/ \E u \in Users : ReserveSlot(u) \/ UnreserveSlot(u) \/ UserDisconnected(u)

(* The timer goes on, and a thread that has begun to close a connection. Nobody has to ask for anything. *)
Fairness ==
    /\ WF_vars(Second) /\ WF_vars(Minute)
    /\ \A c \in Conns : WF_vars(LoadCounter(c)) /\ WF_vars(StoreCounter(c))

Spec == Init /\ [][Next]_vars /\ Fairness

-----------------------------------------------------------------------------
TypeOK ==
    /\ conn \in [Conns -> Connection \cup {NoConn}]
    /\ counters \in [Kinds -> 0 .. 255]
    /\ reserved \subseteq Users
    /\ Promised \subseteq Users /\ connecting \in [Promised -> 0 .. 2]
    /\ uploadQueue \in Seq(Users) /\ S!IsInjective(uploadQueue)

(***************************************************************************)
(* UploadManager.h:110, "Number of free slots": the counters say how many  *)
(* connections hold a slot of each kind, so the slots that are free are    *)
(* free, whatever is granted, exchanged and given back by whichever thread.*)
(***************************************************************************)
CountersExact == \A k \in Kinds : counters[k] = Cardinality(Holders(k))

(***************************************************************************)
(* The assertions of removeUpload and removeConnection: when a connection  *)
(* ends its upload is not among the delayed ones, where the timer would    *)
(* find it after it has been deleted. It rests on ConnectionManager        *)
(* hearing first, and on one connection for each user.                     *)
(***************************************************************************)
UploadIsListed == \A c \in Open : conn[c].phase # "up" => conn[c].upload # "delayed"

(***************************************************************************)
(* Promises can be kept: the slots that were taken because they were free, *)
(* and those promised to users who have been asked to connect, are no more *)
(* than there are, however requests, timers and reservations interleave.   *)
(***************************************************************************)
PromisesFit ==
    Cardinality({c \in Holders("std") : conn[c].by = "free"}) + Cardinality(Promised) <= Slots

(* A user who is being served does not wait as well, nor does a promise to him keep others waiting. *)
ServedNotWaiting ==
    \A c \in Up : conn[c].slot = "std" => conn[c].user \notin Waiting \cup Promised

(***************************************************************************)
(* Nobody waits for ever in front of a free slot: while one stays free,    *)
(* every waiting user is asked to connect, or gives up, even if those      *)
(* asked before him never come.                                            *)
(***************************************************************************)
WaitingEnds ==
    \A u \in Users : <>[](FreeSlots > 0) => (u \in Waiting ~> u \notin Waiting)

(***************************************************************************)
(* UploadManager.cpp:607: "let's keep him in the connectingList until he   *)
(* asks for a file".                                                       *)
(***************************************************************************)
KeptUntilHeAsks ==
    [][\A c \in Conns :
        (\E asked \in {"file", "small", "partial"} : PrepareFile(c, asked))
            => conn[c].user \notin Promised']_vars
=============================================================================
