---------------------------- MODULE DownloadQueue ----------------------------
(***************************************************************************)
(* What the download queue promises, whatever its records look like. A     *)
(* file is wanted once, at one path. A user's connection is asked for one  *)
(* piece at a time, one that nobody else was asked for unless it lies in   *)
(* his. What a connection brings counts for what is wanted at the path it  *)
(* was asked for, and is lost only where it meets what was there already.  *)
(* An answer takes a file off the queue only when all its blocks are       *)
(* there, and a file that is being fetched keeps its path.                 *)
(***************************************************************************)
EXTENDS Integers

CONSTANTS
    Items, Users, Paths, Roots, ListRoot, Blocks,
    BadData     \* may an answer count for what did not come?

VARIABLES
    queue,  \* what is wanted: its target and root, the blocks got, by whom it is fetched
    asked   \* what each busy connection was asked for: a target and a piece of it

Wanted == DOMAIN queue
At(t) == {i \in Wanted : queue[i].target = t}
Whole == 0 .. Blocks - 1

(* Pieces of a file; where BadData, of a file twice the size. *)
Pieces == {b .. e - 1 : b, e \in 0 .. 2 * Blocks}

Want(t, r, got, by) == [target |-> t, root |-> r, got |-> got, by |-> by]

(* The same thing, with other blocks, or fetched by others. *)
Still(i, got, by) == Want(queue[i].target, queue[i].root, got, by)

Init == queue = [i \in {} |-> {}] /\ asked = [u \in {} |-> {}]

-----------------------------------------------------------------------------
Add(t, r) ==
    /\ (t \in Paths /\ r \in Roots) \/ (t \in Users /\ r = ListRoot)
    /\ At(t) = {}
    /\ r # ListRoot => \A i \in Wanted : queue[i].root # r
    /\ \E i \in Items \ Wanted :
        queue' = [j \in Wanted \cup {i} |-> IF j = i THEN Want(t, r, {}, {}) ELSE queue[j]]
    /\ UNCHANGED asked

(* Connections are not told: what they bring comes to nothing, or to what is wanted there then. *)
Remove(i) ==
    /\ queue' = [j \in Wanted \ {i} |-> queue[j]]
    /\ UNCHANGED asked

Rename(i, t) ==
    /\ queue[i].root # ListRoot /\ queue[i].by = {}
    /\ t \in Paths /\ At(t) = {}
    /\ queue' = [queue EXCEPT ![i] = Want(t, @.root, @.got, {})]
    /\ UNCHANGED asked

(* u is no source any more: of what he is fetched for, or of anything, his file list included. *)
Drop(u) ==
    /\ \E lists \in SUBSET At(u) :
        queue' = [i \in Wanted \ lists |-> Still(i, queue[i].got, queue[i].by \ {u})]
    /\ UNCHANGED asked

(* A file whose blocks have vanished is begun again. *)
Fetch(u, i, piece) ==
    /\ u \notin DOMAIN asked
    /\ \/ \A v \in queue[i].by : piece \cap asked[v].blocks = {}
       \/ \E v \in queue[i].by : piece \subseteq asked[v].blocks
    /\ \E got \in {queue[i].got, {}} :
        queue' = [queue EXCEPT ![i] = Still(i, got, @.by \cup {u})]
    /\ asked' = [v \in DOMAIN asked \cup {u} |->
                    IF v = u THEN [at |-> queue[i].target, blocks |-> piece] ELSE asked[v]]

(* u's connection has ended, or has brought what it was asked for. *)
Answered(u) ==
    /\ u \in DOMAIN asked
    /\ asked' = [v \in DOMAIN asked \ {u} |-> asked[v]]

(* Nothing is wanted there any more. *)
Waste(u) ==
    /\ Answered(u)
    /\ At(asked[u].at) = {}
    /\ UNCHANGED queue

Credit(u, i, piece) ==
    /\ Answered(u)
    /\ i \in At(asked[u].at)
    /\ BadData \/ piece \subseteq asked[u].blocks
    /\ \E got \in SUBSET (queue[i].got \cup piece) :
        /\ \/ BadData \/ piece \cap queue[i].got # {}
           \/ got = queue[i].got \cup piece
        /\ queue' = [queue EXCEPT ![i] = Still(i, got, @.by \ {u})]

(* With it the file is complete, and stays wanted by nobody, if at all. *)
Complete(u, i) ==
    /\ Answered(u)
    /\ i \in At(asked[u].at) /\ queue[i].root # ListRoot
    /\ Whole \subseteq queue[i].got \cup asked[u].blocks
    /\ \/ queue' = [queue EXCEPT ![i] = Still(i, Whole, {})]
       \/ queue' = [j \in Wanted \ {i} |-> queue[j]]

(* A file list comes as a whole. *)
TakeList(u, i) ==
    /\ Answered(u)
    /\ i \in At(asked[u].at) /\ queue[i].root = ListRoot
    /\ queue' = [j \in Wanted \ {i} |-> queue[j]]

Next ==
    \/ \E t \in Paths \cup Users, r \in Roots \cup {ListRoot} : Add(t, r)
    \/ \E i \in Wanted : Remove(i) \/ \E t \in Paths : Rename(i, t)
    \/ \E u \in Users :
        \/ Drop(u) \/ Waste(u)
        \/ \E i \in Wanted :
            \/ Complete(u, i) \/ TakeList(u, i)
            \/ \E piece \in Pieces : Fetch(u, i, piece) \/ Credit(u, i, piece)

Spec == Init /\ [][Next]_<<queue, asked>>
==============================================================================
