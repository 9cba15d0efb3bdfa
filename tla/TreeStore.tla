------------------------------- MODULE TreeStore -------------------------------
(***************************************************************************)
(* What the store of hash trees promises, whatever its files look like:    *)
(* getTree finds what has been put; what was stored when the index was     *)
(* saved is found again after the next start; and only a rebuild, an index *)
(* that cannot be replaced, or the end of the program during one of these  *)
(* loses trees. Nothing is ever found that was not put.                    *)
(***************************************************************************)
CONSTANT Roots

VARIABLES
    stored,     \* the roots whose trees can be read
    durable     \* those that could be read if the program were started now

Init == stored = {} /\ durable = {}

(* The new tree may come to lie just where a stale index expects it. *)
Put(r) ==
    /\ stored' = stored \cup {r}
    /\ durable' \in {durable, durable \cup {r}}

Flush ==
    /\ durable' = stored
    /\ UNCHANGED stored

(* The old index is gone and the new one has not taken its place. *)
LoseIndex ==
    /\ durable' = {}
    /\ UNCHANGED stored

(* Trees that no shared file has are dropped. *)
Rebuild ==
    /\ stored' \subseteq stored
    /\ durable' \subseteq stored \cup durable

Crash ==
    /\ stored' = durable
    /\ UNCHANGED durable

(* The program ends while the files are being replaced. *)
CrashInside ==
    /\ durable' \subseteq stored \cup durable
    /\ stored' = durable'

Next ==
    \/ \E r \in Roots : Put(r)
    \/ Flush \/ LoseIndex \/ Rebuild \/ Crash \/ CrashInside

Spec == Init /\ [][Next]_<<stored, durable>>
=============================================================================
