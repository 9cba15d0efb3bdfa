-------------------------------- MODULE Hasher --------------------------------
(***************************************************************************)
(* HashManager::Hasher: one thread that hashes the files it is given, one  *)
(* after the other. A single semaphore says that there is something to do, *)
(* whatever it is, and holds the thread while it is paused: while paused   *)
(* is not zero, the signals that are not given, and those the thread has   *)
(* taken to be held with, are counted there and given by resume.           *)
(*                                                                         *)
(* The threads that use it are the window (the progress dialog, /rebuild,  *)
(* the settings, the end of the program), the one that refreshes the       *)
(* share, and others that only give it files.                              *)
(***************************************************************************)
EXTENDS Integers, FiniteSets

CONSTANTS
    Files,
    FastHash,   \* setting FAST_HASH
    Buffers,    \* bound: a file is read in so many pieces
    Wrap,       \* how many values an unsigned has; far fewer here
    MaxSignals  \* bound: signals given and owed when another thread adds to them

ASSUME HasherAssumption ==
    /\ IsFiniteSet(Files)
    /\ FastHash \in BOOLEAN
    /\ {Buffers, MaxSignals} \subseteq Nat
    /\ Wrap \in Nat \ {0}

VARIABLES
    w,          \* the files to be hashed
    s,          \* the semaphore
    paused,
    stop,
    rebuild,
    at,         \* where the thread is
    left,       \* pieces of the file it has not read
    window,     \* what the window's thread is about to do
    pauser,     \* the HashPausers
    overruled   \* history: the user has said to resume while there were HashPausers, and some are left

thread == <<at, left>>
pausers == <<pauser, overruled>>
vars == <<w, s, paused, stop, rebuild, at, left, window, pauser, overruled>>

(* A HashPauser resumes when it ends, unless hashing was paused already when it began. *)
Pausers == {"window", "refresh"}

Held == {"fast paused", "slow paused"}

Init ==
    /\ w = {}
    /\ s = 0
    /\ paused = 0
    /\ stop = FALSE
    /\ rebuild = FALSE
    /\ at = "wait"
    /\ left = 0
    /\ window = "free"
    /\ pauser = [p \in Pausers |-> "out"]
    /\ overruled = FALSE

-----------------------------------------------------------------------------
MoreSignals == s + paused < MaxSignals

(* Slip: the signal is given at once. *)
HashFileAtOnce(f) ==
    /\ f \notin w /\ MoreSignals
    /\ w' = w \cup {f}
    /\ s' = s + 1
    /\ UNCHANGED <<paused, stop, rebuild, thread, window, pausers>>

(* hashFile: checkTTH and getTTH call it for a file the store does not know. *)
HashFile(f) ==
    /\ f \notin w /\ MoreSignals
    /\ w' = w \cup {f}
    /\ IF paused > 0 THEN paused' = paused + 1 /\ UNCHANGED s
                     ELSE s' = s + 1 /\ UNCHANGED paused
    /\ UNCHANGED <<stop, rebuild, thread, window, pausers>>

(* stopHashing: the files under a directory; their signals remain. *)
StopHashing(gone) ==
    /\ gone \cap w # {}
    /\ w' = w \ gone
    /\ UNCHANGED <<s, paused, stop, rebuild, thread, window, pausers>>

Pause == paused' = paused + 1 /\ UNCHANGED s

(* Slip: what instantPause and hashFile have counted is not given back. *)
ResumeOnly ==
    /\ paused' = 0
    /\ UNCHANGED s

(* resume: "while(--paused > 0) s.signal()", also when paused is 0. *)
Resume ==
    /\ paused' = 0
    /\ s' = s + (IF paused = 0 THEN Wrap ELSE paused) - 1

(* HashPauser::HashPauser *)
BeginPause(p) ==
    /\ pauser[p] = "out" /\ MoreSignals
    /\ p = "window" => window = "free" /\ ~stop
    /\ pauser' = [pauser EXCEPT ![p] = IF paused > 0 THEN "keep" ELSE "resume"]
    /\ Pause
    /\ UNCHANGED <<w, stop, rebuild, thread, window, overruled>>

OthersPause(p) == \E q \in Pausers \ {p} : pauser[q] # "out"

(* Slip: it resumes even though hashing was paused before. *)
EndPauseAlways(p) ==
    /\ pauser[p] # "out"
    /\ pauser' = [pauser EXCEPT ![p] = "out"]
    /\ Resume
    /\ overruled' = (overruled /\ OthersPause(p))
    /\ UNCHANGED <<w, stop, rebuild, thread, window>>

(* HashPauser::~HashPauser *)
EndPause(p) ==
    /\ pauser[p] # "out"
    /\ pauser' = [pauser EXCEPT ![p] = "out"]
    /\ IF pauser[p] = "resume" THEN Resume ELSE UNCHANGED <<s, paused>>
    /\ overruled' = (overruled /\ OthersPause(p))
    /\ UNCHANGED <<w, stop, rebuild, thread, window>>

-----------------------------------------------------------------------------
WindowFree == window = "free" /\ pauser["window"] = "out" /\ ~stop

(* The dialog's button: isHashingPaused, and then one or the other. *)
LookPaused ==
    /\ WindowFree /\ MoreSignals
    /\ window' = IF paused > 0 THEN "resume" ELSE "pause"
    /\ UNCHANGED <<w, s, paused, stop, rebuild, thread, pausers>>

DialogPause ==
    /\ window = "pause"
    /\ Pause
    /\ window' = "free"
    /\ UNCHANGED <<w, stop, rebuild, thread, pausers>>

DialogResume ==
    /\ window = "resume"
    /\ Resume
    /\ window' = "free"
    /\ overruled' = \E p \in Pausers : pauser[p] # "out"
    /\ UNCHANGED <<w, stop, rebuild, thread, pauser>>

(* scheduleRebuild and shutdown set their flag, look whether it is paused, and signal, all without the lock. *)
ScheduleRebuild ==
    /\ WindowFree /\ MoreSignals
    /\ rebuild' = TRUE
    /\ window' = "asked"
    /\ UNCHANGED <<w, s, paused, stop, thread, pausers>>

(* Slip: nobody is waiting, so there is nobody to wake. *)
ShutdownQuietly ==
    /\ WindowFree
    /\ stop' = TRUE
    /\ UNCHANGED <<w, s, paused, rebuild, thread, window, pausers>>

Shutdown ==
    /\ WindowFree
    /\ stop' = TRUE
    /\ window' = "asked"
    /\ UNCHANGED <<w, s, paused, rebuild, thread, pausers>>

(* One signal, or one more for the thread that is held. *)
Signals ==
    /\ window = "asked"
    /\ window' = IF paused > 0 THEN "two" ELSE "one"
    /\ UNCHANGED <<w, s, paused, stop, rebuild, thread, pausers>>

Signal ==
    /\ window \in {"one", "two"}
    /\ s' = s + 1
    /\ window' = IF window = "two" THEN "one" ELSE "free"
    /\ UNCHANGED <<w, paused, stop, rebuild, thread, pausers>>

-----------------------------------------------------------------------------
Goto(step) == at' = step

(* The semaphore, in run. *)
Wait ==
    /\ at = "wait" /\ s > 0
    /\ s' = s - 1
    /\ Goto("woken")
    /\ UNCHANGED <<w, paused, stop, rebuild, left, window, pausers>>

Woken ==
    /\ at = "woken"
    /\ Goto(IF stop THEN "ended" ELSE IF rebuild THEN "rebuild" ELSE "take")
    /\ UNCHANGED <<w, s, paused, stop, rebuild, left, window, pausers>>

(* doRebuild is done: a request that came meanwhile is taken back with it. *)
Rebuilt ==
    /\ at = "rebuild"
    /\ rebuild' = FALSE
    /\ Goto("wait")
    /\ UNCHANGED <<w, s, paused, stop, left, window, pausers>>

(* A file, of any size, that can be opened or not; or a signal too many. *)
Take ==
    /\ at = "take"
    /\ \/ /\ w = {}
          /\ Goto("wait")
          /\ UNCHANGED <<w, left>>
       \/ \E f \in w, size \in 0 .. Buffers :
            /\ w' = w \ {f}
            /\ left' = size
            /\ \/ Goto(IF FastHash THEN "fast" ELSE "slow")
               \/ Goto("wait")
    /\ UNCHANGED <<s, paused, stop, rebuild, window, pausers>>

(* Slip: also when nothing is left. *)
LessAlways == left - 1

Less == IF left = 0 THEN 0 ELSE left - 1
AfterSlow == IF left = 0 \/ stop THEN "wait" ELSE "slow"

(* Slip: the signal that will be taken is not counted. *)
InstantPauseUncounted(held, next) ==
    /\ UNCHANGED paused
    /\ IF paused > 0 THEN Goto(held) /\ UNCHANGED left
                     ELSE Goto(next) /\ left' = Less

(* The test of instantPause; the thread waits for the semaphore outside the lock. *)
InstantPause(held, next) ==
    IF paused > 0 THEN paused' = paused + 1 /\ Goto(held) /\ UNCHANGED left
    ELSE Goto(next) /\ left' = Less /\ UNCHANGED paused

(* fastHash: stopped, it says that it failed, as if it could not read, and the slow way begins anew. *)
ReadFast ==
    /\ at = "fast"
    /\ \/ Goto("slow") /\ left' \in 0 .. Buffers /\ UNCHANGED paused
       \/ ~stop /\ left = 0 /\ Goto("wait") /\ UNCHANGED <<paused, left>>
       \/ ~stop /\ left > 0 /\ InstantPause("fast paused", "fast")
    /\ UNCHANGED <<w, s, stop, rebuild, window, pausers>>

(* The loop of run: it may fail, and it pauses once more at the end of the file, or when it is stopped. *)
ReadSlow ==
    /\ at = "slow"
    /\ \/ Goto("wait") /\ UNCHANGED <<paused, left>>
       \/ InstantPause("slow paused", AfterSlow)
    /\ UNCHANGED <<w, s, stop, rebuild, window, pausers>>

(* instantPause: the thread has got a signal. *)
Continue ==
    /\ at \in Held /\ s > 0
    /\ s' = s - 1
    /\ Goto(IF at = "fast paused" THEN "fast" ELSE AfterSlow)
    /\ left' = Less
    /\ UNCHANGED <<w, paused, stop, rebuild, window, pausers>>

ThreadStep ==
    Wait \/ Woken \/ Rebuilt \/ Take \/ ReadFast \/ ReadSlow \/ Continue

WindowStep == LookPaused \/ DialogPause \/ DialogResume \/ ScheduleRebuild \/ Shutdown \/ Signals \/ Signal

Next ==
    \/ ThreadStep
    \/ WindowStep
    \/ \E f \in Files : HashFile(f)
    \/ \E gone \in SUBSET Files : StopHashing(gone)
    \/ \E p \in Pausers : BeginPause(p) \/ EndPause(p)

(* Threads go on with what they have begun, and a refresh ends. Nobody has to press a button. *)
Fairness ==
    /\ WF_vars(ThreadStep)
    /\ WF_vars(DialogPause \/ DialogResume \/ Signals \/ Signal)
    /\ \A p \in Pausers : WF_vars(EndPause(p))

Spec == Init /\ [][Next]_vars /\ Fairness

-----------------------------------------------------------------------------
TypeOK ==
    /\ w \subseteq Files
    /\ s \in Nat /\ paused \in Nat
    /\ stop \in BOOLEAN /\ rebuild \in BOOLEAN
    /\ at \in {"wait", "woken", "rebuild", "take", "fast", "slow", "ended"} \cup Held
    /\ left \in 0 .. Buffers
    /\ window \in {"free", "resume", "pause", "asked", "one", "two"}
    /\ pauser \in [Pausers -> {"out", "resume", "keep"}]
    /\ overruled \in BOOLEAN

(* 1 if it is so. *)
One(b) == IF b THEN 1 ELSE 0

Owed == IF paused = 0 THEN 0 ELSE paused - 1
ToCome == IF window = "two" THEN 2 ELSE One(window \in {"asked", "one"})

(***************************************************************************)
(* No file is left behind: for every file, for a rebuild, for the end and  *)
(* for the thread that is held inside a file there is a signal, given,     *)
(* owed, about to come or just taken; although instantPause takes the      *)
(* signals of files, a rebuild answers to any of them, and several threads *)
(* pause and resume.                                                       *)
(***************************************************************************)
NothingForgotten ==
    at # "ended" =>
        Cardinality(w) + One(rebuild) + One(stop) + One(at \in Held)
            =< s + Owed + ToCome + One(at \in {"woken", "take", "rebuild"})

(***************************************************************************)
(* While the HashPauser is there that has paused the hashing itself, the   *)
(* hashing is paused, unless the user has said to resume: others that      *)
(* begin and end in its time do not touch it. One that began in its time   *)
(* and outlives it has no such promise: the first one's end resumes.       *)
(***************************************************************************)
PausersHold ==
    ~overruled => \A p \in Pausers : pauser[p] = "resume" => paused > 0

NoMoreFiles == <>[][\A f \in Files : ~HashFile(f)]_vars
NoMoreRebuilds == <>[][~ScheduleRebuild]_vars

(* Once it is no longer paused, everything is hashed and rebuilt, whatever has happened to the signals. *)
FilesTaken ==
    <>[](paused = 0) /\ NoMoreFiles /\ NoMoreRebuilds => <>stop \/ <>[](w = {} /\ ~rebuild)

(* When it stays paused the thread comes to a stand, also in the middle of a file. *)
PauseSettles ==
    <>[](paused > 0) /\ NoMoreRebuilds => <>stop \/ <>[](s = 0 /\ at \in {"wait"} \cup Held)

(* shutdown waits for the thread: it ends if it is not paused. *)
ShutdownUnpaused == <>stop /\ <>[](paused = 0) => <>(at = "ended")

(***************************************************************************)
(* docs/cvs-changelog.txt:75: "fixed exit when hashing is paused". The     *)
(* window's thread must not wait for ever for this one.                    *)
(***************************************************************************)
ExitWhenPaused == <>stop => <>(at = "ended")
=============================================================================
