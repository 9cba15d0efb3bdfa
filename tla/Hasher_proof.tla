------------------------------ MODULE Hasher_proof ------------------------------
(***************************************************************************)
(* The signals and pauses of Hasher, for any files, sizes and bounds.      *)
(***************************************************************************)
EXTENDS Hasher, FiniteSetTheorems, TLAPS

(* A signal that is there, will be given by resume, or is about to be given. *)
Due == s + Owed + ToCome

(* At most one HashPauser will resume, and only while hashing is paused. *)
OneResumes ==
    ~overruled => \A p, q \in Pausers : pauser[p] = "resume" /\ pauser[q] = "resume" => p = q

(* The signal with which a rebuild begins is its own, and what came after the thread looked has another. *)
Looked ==
    /\ at = "rebuild" => rebuild
    /\ at = "take" => One(rebuild) + One(stop) =< Due

-----------------------------------------------------------------------------
LEMMA InitType == Init => TypeOK
  <1> SUFFICES ASSUME Init PROVE TypeOK
    OBVIOUS
  <1>1. left \in 0 .. Buffers
    BY HasherAssumption DEF Init
  <1>2. pauser \in [Pausers -> {"out", "resume", "keep"}]
    BY DEF Init
  <1> QED
    BY <1>1, <1>2 DEF Init, TypeOK

LEMMA DueType ==
    ASSUME TypeOK
    PROVE  {Owed, ToCome, Due} \subseteq Nat
  BY DEF TypeOK, Owed, ToCome, Due, One

(* What pausing and resuming do to the signals. *)
LEMMA Pausing ==
    ASSUME TypeOK, Pause \/ Resume
    PROVE  /\ s' \in Nat /\ paused' \in Nat
           /\ Pause => paused' = paused + 1
           /\ Resume => paused' = 0
           /\ s + Owed =< s' + Owed'
  BY HasherAssumption DEF TypeOK, Pause, Resume, Owed

LEMMA PauserType ==
    ASSUME TypeOK, NEW p \in Pausers, BeginPause(p) \/ EndPause(p)
    PROVE  TypeOK'
  <1>1. s' \in Nat /\ paused' \in Nat
    BY Pausing DEF BeginPause, EndPause, TypeOK
  <1>2. pauser' \in [Pausers -> {"out", "resume", "keep"}]
    BY DEF BeginPause, EndPause, TypeOK
  <1>3. overruled' \in BOOLEAN
    BY DEF BeginPause, EndPause, OthersPause, TypeOK
  <1> QED
    BY <1>1, <1>2, <1>3 DEF BeginPause, EndPause, TypeOK, thread

LEMMA WindowStepType ==
    ASSUME TypeOK, WindowStep
    PROVE  TypeOK'
  <1> USE DEF thread, pausers
  <1>1. CASE LookPaused
    BY <1>1 DEF LookPaused, TypeOK
  <1>2. CASE DialogPause
    BY <1>2, Pausing DEF DialogPause, TypeOK
  <1>3. CASE DialogResume
    BY <1>3, Pausing DEF DialogResume, TypeOK
  <1>4. CASE ScheduleRebuild
    BY <1>4 DEF ScheduleRebuild, TypeOK
  <1>5. CASE Shutdown
    BY <1>5 DEF Shutdown, TypeOK
  <1>6. CASE Signals
    BY <1>6 DEF Signals, TypeOK
  <1>7. CASE Signal
    BY <1>7 DEF Signal, TypeOK
  <1> QED
    BY <1>1, <1>2, <1>3, <1>4, <1>5, <1>6, <1>7 DEF WindowStep

LEMMA LessType ==
    ASSUME TypeOK
    PROVE  Less \in 0 .. Buffers /\ AfterSlow \in {"wait", "slow"}
  <1>1. Less \in 0 .. Buffers
    BY HasherAssumption DEF TypeOK, Less
  <1>2. AfterSlow \in {"wait", "slow"}
    BY DEF AfterSlow
  <1> QED
    BY <1>1, <1>2

(* What instantPause does, whichever way it goes. *)
LEMMA InstantPauseType ==
    ASSUME TypeOK, NEW held, NEW next, InstantPause(held, next)
    PROVE  /\ at' \in {held, next} /\ left' \in 0 .. Buffers /\ paused' \in Nat
           /\ \/ at' = next /\ paused' = paused
              \/ at' = held /\ paused > 0 /\ paused' = paused + 1
  <1>1. paused \in Nat /\ left \in 0 .. Buffers
    BY DEF TypeOK
  <1>2. CASE paused > 0
    BY <1>1, <1>2 DEF InstantPause, Goto
  <1>3. CASE ~(paused > 0)
    BY <1>1, <1>3, LessType DEF InstantPause, Goto
  <1> QED
    BY <1>2, <1>3

LEMMA ThreadStepType ==
    ASSUME TypeOK, ThreadStep
    PROVE  TypeOK'
  <1> USE DEF Goto, pausers
  <1>1. CASE Wait
    BY <1>1 DEF Wait, TypeOK
  <1>2. CASE Woken
    <2>1. at' \in {"ended", "rebuild", "take"}
      BY <1>2 DEF Woken
    <2> QED
      BY <1>2, <2>1 DEF Woken, TypeOK
  <1>3. CASE Rebuilt
    BY <1>3 DEF Rebuilt, TypeOK
  <1>4. CASE Take
    <2>1. at' \in {"wait", "fast", "slow"} /\ left' \in 0 .. Buffers /\ w' \subseteq Files
      BY <1>4 DEF Take, TypeOK
    <2> QED
      BY <1>4, <2>1 DEF Take, TypeOK
  <1>5. CASE ReadFast
    <2>1. at' \in {"slow", "wait", "fast", "fast paused"} /\ left' \in 0 .. Buffers /\ paused' \in Nat
      <3>1. CASE InstantPause("fast paused", "fast")
        BY <3>1, InstantPauseType
      <3>2. CASE ~InstantPause("fast paused", "fast")
        BY <1>5, <3>2 DEF ReadFast, TypeOK
      <3> QED
        BY <3>1, <3>2
    <2> QED
      BY <1>5, <2>1 DEF ReadFast, Held, TypeOK
  <1>6. CASE ReadSlow
    <2>1. at' \in {"slow", "wait", "slow paused"} /\ left' \in 0 .. Buffers /\ paused' \in Nat
      <3>1. CASE InstantPause("slow paused", AfterSlow)
        BY <3>1, InstantPauseType, LessType
      <3>2. CASE ~InstantPause("slow paused", AfterSlow)
        BY <1>6, <3>2 DEF ReadSlow, TypeOK
      <3> QED
        BY <3>1, <3>2
    <2> QED
      BY <1>6, <2>1 DEF ReadSlow, Held, TypeOK
  <1>7. CASE Continue
    <2>1. at' \in {"slow", "wait", "fast"}
      BY <1>7, LessType DEF Continue
    <2>2. left' \in 0 .. Buffers
      BY <1>7, LessType DEF Continue
    <2>3. s' \in Nat
      <3>1. s > 0 /\ s' = s - 1
        BY <1>7 DEF Continue
      <3>2. s \in Nat
        BY DEF TypeOK
      <3> QED
        BY <3>1, <3>2
    <2> QED
      BY <1>7, <2>1, <2>2, <2>3 DEF Continue, TypeOK
  <1> QED
    BY <1>1, <1>2, <1>3, <1>4, <1>5, <1>6, <1>7 DEF ThreadStep

LEMMA NextType ==
    ASSUME TypeOK, [Next]_vars
    PROVE  TypeOK'
  <1> USE DEF thread, pausers
  <1>1. CASE UNCHANGED vars
    BY <1>1 DEF vars, TypeOK
  <1>2. ASSUME NEW f \in Files, HashFile(f) PROVE TypeOK'
    BY <1>2 DEF HashFile, TypeOK
  <1>3. ASSUME NEW gone \in SUBSET Files, StopHashing(gone) PROVE TypeOK'
    BY <1>3 DEF StopHashing, TypeOK
  <1> QED
    BY <1>1, <1>2, <1>3, ThreadStepType, WindowStepType, PauserType DEF Next

(* Every variable keeps its type: resume never makes the counters negative. *)
THEOREM TypeCorrect == Spec => []TypeOK
  BY InitType, NextType, PTL DEF Spec

-----------------------------------------------------------------------------
LEMMA InstantPauseHolds ==
    ASSUME TypeOK, NEW held, NEW next, InstantPause(held, next)
    PROVE  paused' >= paused
  BY InstantPauseType DEF TypeOK

(* No step of the thread, of the window or of another one ends a pause but resume. *)
LEMMA PauseLasts ==
    ASSUME TypeOK, ThreadStep \/ (\E f \in Files : HashFile(f)) \/ (\E gone \in SUBSET Files : StopHashing(gone))
                    \/ (WindowStep /\ ~DialogResume)
    PROVE  UNCHANGED pausers /\ paused' >= paused
  <1> USE DEF thread, pausers
  <1>1. paused \in Nat
    BY DEF TypeOK
  <1>2. CASE ThreadStep
    <2>1. UNCHANGED pausers
      BY <1>2 DEF ThreadStep, Wait, Woken, Rebuilt, Take, ReadFast, ReadSlow, Continue
    <2> SUFFICES paused' >= paused
      BY <2>1
    <2>2. CASE ReadFast
      <3>1. CASE InstantPause("fast paused", "fast")
        BY <3>1, InstantPauseHolds
      <3>2. CASE ~InstantPause("fast paused", "fast")
        <4>1. paused' = paused
          BY <2>2, <3>2 DEF ReadFast
        <4> QED
          BY <1>1, <4>1
      <3> QED
        BY <3>1, <3>2
    <2>3. CASE ReadSlow
      <3>1. CASE InstantPause("slow paused", AfterSlow)
        BY <3>1, InstantPauseHolds
      <3>2. CASE ~InstantPause("slow paused", AfterSlow)
        <4>1. paused' = paused
          BY <2>3, <3>2 DEF ReadSlow
        <4> QED
          BY <1>1, <4>1
      <3> QED
        BY <3>1, <3>2
    <2>4. CASE ~ReadFast /\ ~ReadSlow
      <3>1. paused' = paused
        BY <1>2, <2>4 DEF ThreadStep, Wait, Woken, Rebuilt, Take, Continue
      <3> QED
        BY <1>1, <3>1
    <2> QED
      BY <2>2, <2>3, <2>4
  <1>3. CASE \E f \in Files : HashFile(f)
    BY <1>1, <1>3 DEF HashFile
  <1>4. CASE \E gone \in SUBSET Files : StopHashing(gone)
    BY <1>1, <1>4 DEF StopHashing
  <1>5. CASE WindowStep /\ ~DialogResume
    BY <1>1, <1>5 DEF WindowStep, LookPaused, DialogPause, Pause, ScheduleRebuild, Shutdown, Signals, Signal
  <1> QED
    BY <1>2, <1>3, <1>4, <1>5

Pauses == PausersHold /\ OneResumes

LEMMA NextPauses ==
    ASSUME TypeOK, Pauses, [Next]_vars
    PROVE  Pauses'
  <1> USE DEF Pauses, PausersHold, OneResumes
  <1>1. paused \in Nat
    BY DEF TypeOK
  <1>2. CASE UNCHANGED vars
    BY <1>2 DEF vars
  <1>3. CASE UNCHANGED pausers /\ paused' >= paused
    <2>1. paused' > 0 \/ paused = 0 \/ paused' \notin Nat
      BY <1>1, <1>3
    <2>2. paused' \in Nat
      BY NextType DEF TypeOK
    <2> QED
      BY <1>1, <1>3, <2>1, <2>2 DEF pausers
  <1>4. CASE DialogResume
    BY <1>4 DEF DialogResume
  <1>5. ASSUME NEW p \in Pausers, BeginPause(p) PROVE Pauses'
    <2>1. paused' > 0 /\ UNCHANGED overruled
      BY <1>1, <1>5 DEF BeginPause, Pause
    <2>2. pauser' = [pauser EXCEPT ![p] = IF paused > 0 THEN "keep" ELSE "resume"]
      BY <1>5 DEF BeginPause
    <2>3. ASSUME ~overruled, NEW q \in Pausers, q # p, pauser[q] = "resume", pauser'[p] = "resume"
          PROVE  FALSE
      BY <1>1, <2>2, <2>3 DEF TypeOK
    <2> QED
      BY <2>1, <2>2, <2>3 DEF TypeOK
  <1>6. ASSUME NEW p \in Pausers, EndPause(p) PROVE Pauses'
    <2>1. pauser' = [pauser EXCEPT ![p] = "out"] /\ overruled' = (overruled /\ OthersPause(p))
      BY <1>6 DEF EndPause
    <2>2. CASE overruled
      BY <2>1, <2>2 DEF OthersPause, TypeOK
    <2>3. CASE ~overruled /\ pauser[p] = "resume"
      BY <2>1, <2>3 DEF TypeOK
    <2>4. CASE ~overruled /\ pauser[p] # "resume"
      BY <1>6, <2>1, <2>4 DEF EndPause, TypeOK
    <2> QED
      BY <2>2, <2>3, <2>4
  <1> QED
    BY <1>2, <1>3, <1>4, <1>5, <1>6, PauseLasts DEF Next

(***************************************************************************)
(* A HashPauser that will resume keeps hashing paused. Two HashPausers     *)
(* never both will, or the first to end would resume for the other.        *)
(***************************************************************************)
THEOREM PausesHold == Spec => []PausersHold
  <1>1. Init => Pauses
    BY DEF Init, Pauses, PausersHold, OneResumes
  <1>2. Pauses => PausersHold
    BY DEF Pauses
  <1> QED
    BY <1>1, <1>2, InitType, NextType, NextPauses, PTL DEF Spec

-----------------------------------------------------------------------------
(* What has to be signalled, and the signals that answer for it. *)
Flags == One(rebuild) + One(stop)
Wanted == Cardinality(w) + Flags + One(at \in Held)
Answers == Due + One(at \in {"woken", "take", "rebuild"})

Remembered == NothingForgotten /\ Looked

Countable ==
    /\ s \in Nat /\ paused \in Nat /\ Owed \in Nat /\ ToCome \in Nat
    /\ {Cardinality(w), Flags, Due, Wanted, Answers} \subseteq Nat
    /\ NothingForgotten <=> (at # "ended" => Wanted =< Answers)

LEMMA WantedType == TypeOK => Countable
  <1> SUFFICES ASSUME TypeOK PROVE Countable
    OBVIOUS
  <1> DEFINE holds == One(at \in Held)
             woken == One(at \in {"woken", "take", "rebuild"})
  <1>1. Cardinality(w) \in Nat
    BY HasherAssumption, FS_Subset, FS_CardinalityType DEF TypeOK
  <1>2. /\ One(rebuild) \in Nat /\ One(stop) \in Nat
        /\ holds \in Nat /\ woken \in Nat
    BY DEF One
  <1>3. s \in Nat /\ paused \in Nat /\ Owed \in Nat /\ ToCome \in Nat
    BY DueType DEF TypeOK
  <1>4. NothingForgotten <=>
          (at # "ended" => Cardinality(w) + One(rebuild) + One(stop) + holds =< s + Owed + ToCome + woken)
    BY DEF NothingForgotten
  <1> HIDE DEF holds, woken
  <1>5. Wanted = Cardinality(w) + One(rebuild) + One(stop) + holds
    BY <1>1, <1>2 DEF Wanted, Flags, holds
  <1>6. Answers = s + Owed + ToCome + woken
    BY <1>2, <1>3 DEF Answers, Due, woken
  <1>7. Flags \in Nat /\ Due \in Nat
    BY <1>2, <1>3 DEF Flags, Due
  <1> QED
    BY <1>1, <1>2, <1>3, <1>4, <1>5, <1>6, <1>7 DEF Countable

LEMMA NextWantedType == TypeOK' => Countable'
  BY WantedType, PTL

(* A step after which no more is wanted than there are signals for. *)
LEMMA StillAnswered ==
    ASSUME TypeOK, TypeOK', NothingForgotten, at # "ended", Wanted' - Wanted =< Answers' - Answers
    PROVE  NothingForgotten'
  BY WantedType, NextWantedType DEF Countable

(* A step that leaves the thread where it is, and adds no more work than signals. *)
LEMMA AddsSignals ==
    ASSUME TypeOK, TypeOK', Remembered, UNCHANGED at, rebuild => rebuild',
           Flags' - Flags =< Due' - Due,
           Cardinality(w') + Flags' - Cardinality(w) - Flags =< Due' - Due
    PROVE  Remembered'
  <1> USE WantedType, NextWantedType DEF Countable
  <1>1. CASE at = "ended"
    BY <1>1 DEF Remembered, Looked, NothingForgotten
  <1>2. CASE at # "ended"
    <2>1. Wanted' - Wanted = Cardinality(w') + Flags' - Cardinality(w) - Flags
      BY DEF Wanted, One
    <2>2. Answers' - Answers = Due' - Due
      BY DEF Answers, One
    <2>3. NothingForgotten'
      BY <1>2, <2>1, <2>2, StillAnswered DEF Remembered
    <2>4. at = "take" => Flags' =< Due'
      <3>1. at = "take" => Flags =< Due
        BY DEF Remembered, Looked, Flags
      <3> QED
        BY <3>1
    <2> QED
      BY <2>3, <2>4 DEF Remembered, Looked, Flags
  <1> QED
    BY <1>1, <1>2

(* Arithmetic for the steps below, of which the terms are not opened. *)
LEMMA Sums ==
    /\ \A a, b, c, d, e \in Nat : a + b =< c + d => a + b + e =< c + d + e
    /\ \A a, b, c \in Nat : 1 =< c => 1 =< (a + b + c) - (a + b + 0)
    /\ \A a, b, c, d \in Nat : a - b =< 1 /\ 1 =< c - d => a - b =< c - d
    /\ \A a, c, d \in Nat : d =< c => a - a =< c - d
  OBVIOUS

LEMMA FilesRemembered ==
    ASSUME TypeOK, TypeOK', Remembered,
           (\E f \in Files : HashFile(f)) \/ (\E gone \in SUBSET Files : StopHashing(gone))
    PROVE  Remembered'
  <1> USE DEF thread, pausers
  <1>1. IsFiniteSet(w) /\ s \in Nat /\ paused \in Nat
    BY HasherAssumption, FS_Subset DEF TypeOK
  <1>2. UNCHANGED <<at, rebuild, stop, window>>
    BY DEF HashFile, StopHashing
  <1>3. UNCHANGED <<Flags, ToCome>>
    BY <1>2 DEF Flags, ToCome
  <1>4. CASE \E f \in Files : HashFile(f)
    <2>1. PICK f \in Files : HashFile(f)
      BY <1>4
    <2>2. Cardinality(w') = Cardinality(w) + 1
      BY <1>1, <2>1, FS_AddElement DEF HashFile
    <2>3. s' + Owed' = s + Owed + 1
      BY <1>1, <2>1 DEF HashFile, Owed
    <2>4. Due' - Due = 1
      BY <1>3, <2>3, WantedType, NextWantedType DEF Countable, Due
    <2> QED
      BY <1>2, <1>3, <2>2, <2>4, AddsSignals, WantedType DEF Countable
  <1>5. CASE \E gone \in SUBSET Files : StopHashing(gone)
    <2>1. UNCHANGED <<s, paused>> /\ w' \subseteq w
      BY <1>5 DEF StopHashing
    <2>2. Cardinality(w') =< Cardinality(w)
      BY <1>1, <2>1, FS_Subset
    <2>3. UNCHANGED Due
      BY <1>3, <2>1 DEF Due, Owed
    <2> QED
      BY <1>2, <1>3, <2>2, <2>3, AddsSignals, WantedType, NextWantedType DEF Countable
  <1> QED
    BY <1>4, <1>5

LEMMA PausersRemembered ==
    ASSUME TypeOK, TypeOK', Remembered, NEW p \in Pausers, BeginPause(p) \/ EndPause(p)
    PROVE  Remembered'
  <1>1. UNCHANGED <<w, at, rebuild, stop, window>>
    BY DEF BeginPause, EndPause, thread
  <1>2. UNCHANGED <<Flags, ToCome>> /\ UNCHANGED Cardinality(w)
    BY <1>1 DEF Flags, ToCome
  <1>3. Pause \/ Resume \/ UNCHANGED <<s, paused>>
    BY DEF BeginPause, EndPause
  <1>4. /\ s \in Nat /\ s' \in Nat
        /\ Owed \in Nat /\ Owed' \in Nat /\ ToCome \in Nat
    BY WantedType, NextWantedType DEF Countable
  <1>5. s + Owed =< s' + Owed'
    <2>1. CASE Pause \/ Resume
      BY <2>1, Pausing
    <2>2. CASE UNCHANGED <<s, paused>>
      BY <2>2, <1>4 DEF Owed
    <2> QED
      BY <1>3, <2>1, <2>2
  <1>6. Due =< Due'
    BY <1>2, <1>4, <1>5, Sums DEF Due
  <1> QED
    BY <1>1, <1>2, <1>6, AddsSignals, WantedType, NextWantedType DEF Countable

LEMMA WindowRemembered ==
    ASSUME TypeOK, TypeOK', Remembered, WindowStep
    PROVE  Remembered'
  <1> USE DEF thread, pausers
  <1>1. UNCHANGED <<w, at>> /\ (rebuild => rebuild')
    <2>1. UNCHANGED <<w, at>>
      BY DEF WindowStep, LookPaused, DialogPause, DialogResume, ScheduleRebuild, Shutdown, Signals, Signal
    <2>2. rebuild' = rebuild \/ rebuild' = TRUE
      BY DEF WindowStep, LookPaused, DialogPause, DialogResume, ScheduleRebuild, Shutdown, Signals, Signal
    <2> QED
      BY <2>1, <2>2
  <1>2. UNCHANGED Cardinality(w)
    BY <1>1
  <1>3. /\ s \in Nat /\ s' \in Nat
        /\ Owed \in Nat /\ Owed' \in Nat /\ ToCome \in Nat /\ ToCome' \in Nat
        /\ Flags \in Nat /\ Flags' \in Nat
    BY WantedType, NextWantedType DEF Countable
  <1>4. Flags' - Flags =< Due' - Due
    <2>1. CASE LookPaused
      <3>1. UNCHANGED <<s, paused, rebuild, stop>> /\ ToCome = 0 /\ ToCome' = 0
        BY <2>1 DEF LookPaused, WindowFree, ToCome, One
      <3> QED
        BY <1>3, <3>1 DEF Due, Owed, Flags
    <2>2. CASE DialogPause \/ DialogResume
      <3>1. UNCHANGED <<rebuild, stop>> /\ ToCome = 0 /\ ToCome' = 0 /\ (Pause \/ Resume)
        BY <2>2 DEF DialogPause, DialogResume, ToCome, One
      <3>2. s + Owed =< s' + Owed'
        BY <3>1, Pausing
      <3>3. Due =< Due'
        BY <1>3, <3>1, <3>2, Sums DEF Due
      <3>4. Flags' = Flags
        BY <3>1 DEF Flags
      <3> QED
        BY <3>3, <3>4, Sums, WantedType, NextWantedType DEF Countable
    <2>3. CASE ScheduleRebuild
      <3>1. UNCHANGED <<s, paused, stop>> /\ ToCome = 0 /\ 1 =< ToCome' /\ rebuild'
        BY <2>3 DEF ScheduleRebuild, WindowFree, ToCome, One
      <3>2. Flags' - Flags =< 1
        BY <3>1 DEF Flags, One
      <3>3. Owed' = Owed
        BY <3>1 DEF Owed
      <3>4. 1 =< Due' - Due
        BY <1>3, <3>1, <3>3, Sums DEF Due
      <3> QED
        BY <3>2, <3>4, Sums, WantedType, NextWantedType DEF Countable
    <2>4. CASE Shutdown
      <3>1. UNCHANGED <<s, paused, rebuild>> /\ ToCome = 0 /\ 1 =< ToCome' /\ stop'
        BY <2>4 DEF Shutdown, WindowFree, ToCome, One
      <3>2. Flags' - Flags =< 1
        BY <3>1 DEF Flags, One
      <3>3. Owed' = Owed
        BY <3>1 DEF Owed
      <3>4. 1 =< Due' - Due
        BY <1>3, <3>1, <3>3, Sums DEF Due
      <3> QED
        BY <3>2, <3>4, Sums, WantedType, NextWantedType DEF Countable
    <2>5. CASE Signals
      <3>1. UNCHANGED <<s, paused, rebuild, stop>> /\ ToCome = 1 /\ 1 =< ToCome'
        BY <2>5 DEF Signals, ToCome, One
      <3> QED
        BY <1>3, <3>1 DEF Due, Owed, Flags
    <2>6. CASE Signal
      <3>1. UNCHANGED <<paused, rebuild, stop>> /\ s' = s + 1 /\ ToCome' = ToCome - 1
        BY <2>6 DEF Signal, ToCome, One
      <3> QED
        BY <1>3, <3>1 DEF Due, Owed, Flags
    <2> QED
      BY <2>1, <2>2, <2>3, <2>4, <2>5, <2>6 DEF WindowStep
  <1> QED
    BY <1>1, <1>2, <1>4, AddsSignals, WantedType, NextWantedType DEF Countable

(* The thread's place says what it holds a signal for, and what it holds one of. *)
Located ==
    /\ at \in Held => Wanted = Cardinality(w) + Flags + 1
    /\ at \notin Held => Wanted = Cardinality(w) + Flags
    /\ at \in {"woken", "take", "rebuild"} => Answers = Due + 1
    /\ at \notin {"woken", "take", "rebuild"} => Answers = Due

LEMMA Places == TypeOK => Located
  BY WantedType DEF Countable, Located, Wanted, Answers, One

LEMMA NextPlaces == TypeOK' => Located'
  BY Places, PTL

(* The signal that is counted for a thread that goes to be held, and the one it is given. *)
LEMMA InstantPauseRemembered ==
    ASSUME TypeOK, TypeOK', Remembered, NEW held \in Held, NEW next \in {"wait", "fast", "slow"},
           at \in {"fast", "slow"}, InstantPause(held, next),
           UNCHANGED <<w, s, stop, rebuild, window>>
    PROVE  Remembered'
  <1>1. Cardinality(w') = Cardinality(w) /\ Flags' = Flags /\ ToCome' = ToCome
    BY DEF Flags, ToCome
  <1>2. CASE at' = next /\ paused' = paused
    <2>1. Due' = Due
      BY <1>1, <1>2 DEF Due, Owed
    <2>2. Wanted' = Wanted /\ Answers' = Answers
      BY <1>1, <1>2, <2>1, Places, NextPlaces DEF Located, Held
    <2> QED
      BY <1>2, <2>2, StillAnswered, WantedType DEF Remembered, Looked, Countable
  <1>3. CASE at' = held /\ paused > 0 /\ paused' = paused + 1
    <2>1. Owed' = Owed + 1
      BY <1>3, WantedType DEF Countable, Owed
    <2>2. Due' = Due + 1
      BY <1>1, <2>1, WantedType DEF Due, Countable
    <2>3. Wanted' = Wanted + 1 /\ Answers' = Answers + 1
      BY <1>1, <1>3, <2>2, Places, NextPlaces DEF Located, Held
    <2>4. NothingForgotten'
      BY <2>3, StillAnswered, WantedType DEF Remembered, Countable
    <2> QED
      BY <1>3, <2>4 DEF Remembered, Looked, Held
  <1> QED
    BY <1>2, <1>3, InstantPauseType

LEMMA ThreadRemembered ==
    ASSUME TypeOK, TypeOK', Remembered, ThreadStep
    PROVE  Remembered'
  <1> USE WantedType, NextWantedType, Places, NextPlaces DEF Countable, Located, Goto
  <1>1. CASE Wait
    <2>1. at = "wait" /\ at' = "woken" /\ UNCHANGED <<w, paused, stop, rebuild, window>> /\ s' = s - 1
      BY <1>1 DEF Wait
    <2>2. Cardinality(w') = Cardinality(w) /\ Flags' = Flags /\ ToCome' = ToCome /\ Owed' = Owed
      BY <2>1 DEF Flags, ToCome, Owed
    <2>3. Due' = Due - 1
      BY <2>1, <2>2 DEF Due
    <2>4. Wanted' = Wanted /\ Answers' = Answers
      BY <2>1, <2>2, <2>3 DEF Held
    <2>5. NothingForgotten'
      BY <2>1, <2>4, StillAnswered DEF Remembered
    <2> QED
      BY <2>1, <2>5 DEF Remembered, Looked
  <1>2. CASE Woken
    <2>1. at = "woken" /\ UNCHANGED <<w, s, paused, stop, rebuild, window>>
      BY <1>2 DEF Woken
    <2>2. Cardinality(w') = Cardinality(w) /\ Flags' = Flags /\ Due' = Due
      BY <2>1 DEF Flags, Due, ToCome, Owed
    <2>3. CASE at' = "ended"
      BY <2>3 DEF Remembered, NothingForgotten, Looked
    <2>4. CASE at' = "rebuild" /\ rebuild
      <3>1. Wanted' = Wanted /\ Answers' = Answers
        BY <2>1, <2>2, <2>4 DEF Held
      <3>2. NothingForgotten'
        BY <2>1, <3>1, StillAnswered DEF Remembered
      <3> QED
        BY <2>1, <2>4, <3>2 DEF Remembered, Looked
    <2>5. CASE at' = "take" /\ ~rebuild /\ ~stop
      <3>1. Wanted' = Wanted /\ Answers' = Answers
        BY <2>1, <2>2, <2>5 DEF Held
      <3>2. NothingForgotten'
        BY <2>1, <3>1, StillAnswered DEF Remembered
      <3>3. One(rebuild') + One(stop') = 0
        BY <2>1, <2>5 DEF One
      <3>4. 0 =< Due'
        OBVIOUS
      <3> QED
        BY <2>5, <3>2, <3>3, <3>4 DEF Remembered, Looked
    <2> QED
      BY <1>2, <2>3, <2>4, <2>5 DEF Woken
  <1>3. CASE Rebuilt
    <2>1. at = "rebuild" /\ at' = "wait" /\ rebuild /\ ~rebuild' /\ UNCHANGED <<w, s, paused, stop, window>>
      BY <1>3 DEF Rebuilt, Remembered, Looked
    <2>2. Flags' = Flags - 1
      BY <2>1 DEF Flags, One
    <2>3. Cardinality(w') = Cardinality(w) /\ Due' = Due
      BY <2>1 DEF Due, ToCome, Owed
    <2>4. Wanted' = Wanted - 1 /\ Answers' = Answers - 1
      BY <2>1, <2>2, <2>3 DEF Held
    <2>5. NothingForgotten'
      BY <2>1, <2>4, StillAnswered DEF Remembered
    <2> QED
      BY <2>1, <2>5 DEF Remembered, Looked
  <1>4. CASE Take
    <2>1. at = "take" /\ at' \in {"wait", "fast", "slow"} /\ UNCHANGED <<s, paused, stop, rebuild, window>>
      BY <1>4 DEF Take
    <2>2. Flags' = Flags /\ Due' = Due
      BY <2>1 DEF Flags, Due, ToCome, Owed
    <2>3. at \notin Held /\ at' \notin Held /\ at' \notin {"woken", "take", "rebuild"}
      BY <2>1 DEF Held
    <2>4. CASE w = {} /\ w' = {}
      <3>1. Cardinality(w') = 0
        BY <2>4, FS_EmptySet
      <3>2. Flags =< Due
        BY <2>1 DEF Remembered, Looked, Flags
      <3>3. Wanted' = 0 + Flags' /\ Answers' = Due'
        BY <2>3, <3>1
      <3>4. NothingForgotten'
        BY <2>2, <3>2, <3>3
      <3> QED
        BY <2>1, <3>4 DEF Remembered, Looked
    <2>5. CASE \E f \in w : w' = w \ {f}
      <3>1. PICK f \in w : w' = w \ {f}
        BY <2>5
      <3>2. IsFiniteSet(w)
        BY HasherAssumption, FS_Subset DEF TypeOK
      <3>3. Cardinality(w') = Cardinality(w) - 1
        BY <3>1, <3>2, FS_RemoveElement
      <3>4. Wanted' = Wanted - 1
        BY <2>2, <2>3, <3>3
      <3>5. Answers' = Answers - 1
        BY <2>1, <2>2, <2>3
      <3>6. NothingForgotten'
        BY <2>1, <3>4, <3>5, StillAnswered DEF Remembered
      <3> QED
        BY <2>1, <3>6 DEF Remembered, Looked
    <2>6. (w = {} /\ w' = {}) \/ \E f \in w : w' = w \ {f}
      BY <1>4 DEF Take
    <2> QED
      BY <2>4, <2>5, <2>6
  <1>5. ASSUME at \in {"fast", "slow"}, at' \in {"wait", "fast", "slow"},
               UNCHANGED <<w, s, paused, stop, rebuild, window>>
        PROVE  Remembered'
    <2>1. Cardinality(w') = Cardinality(w) /\ Flags' = Flags /\ Due' = Due
      BY <1>5 DEF Flags, Due, ToCome, Owed
    <2>2. Wanted' = Wanted /\ Answers' = Answers
      BY <1>5, <2>1 DEF Held
    <2>3. NothingForgotten'
      BY <1>5, <2>2, StillAnswered DEF Remembered
    <2> QED
      BY <1>5, <2>3 DEF Remembered, Looked
  <1>6. CASE ReadFast
    <2>1. at = "fast" /\ UNCHANGED <<w, s, stop, rebuild, window>>
      BY <1>6 DEF ReadFast
    <2>2. CASE InstantPause("fast paused", "fast")
      BY <2>1, <2>2, InstantPauseRemembered DEF Held
    <2>3. CASE ~InstantPause("fast paused", "fast")
      <3>1. at' \in {"wait", "slow"} /\ paused' = paused
        BY <1>6, <2>3 DEF ReadFast
      <3> QED
        BY <1>5, <2>1, <3>1
    <2> QED
      BY <2>2, <2>3
  <1>7. CASE ReadSlow
    <2>1. at = "slow" /\ UNCHANGED <<w, s, stop, rebuild, window>>
      BY <1>7 DEF ReadSlow
    <2>2. CASE InstantPause("slow paused", AfterSlow)
      BY <2>1, <2>2, InstantPauseRemembered, LessType DEF Held
    <2>3. CASE ~InstantPause("slow paused", AfterSlow)
      <3>1. at' = "wait" /\ paused' = paused
        BY <1>7, <2>3 DEF ReadSlow
      <3> QED
        BY <1>5, <2>1, <3>1
    <2> QED
      BY <2>2, <2>3
  <1>8. CASE Continue
    <2>1. at \in Held /\ s' = s - 1 /\ UNCHANGED <<w, paused, stop, rebuild, window>>
      BY <1>8 DEF Continue
    <2>2. at' \in {"wait", "fast", "slow"}
      BY <1>8, LessType DEF Continue
    <2>3. Cardinality(w') = Cardinality(w) /\ Flags' = Flags /\ ToCome' = ToCome /\ Owed' = Owed
      BY <2>1 DEF Flags, ToCome, Owed
    <2>4. Due' = Due - 1
      BY <2>1, <2>3 DEF Due
    <2>5. /\ at \notin {"ended", "woken", "take", "rebuild"}
          /\ at' \notin Held /\ at' \notin {"woken", "take", "rebuild"}
      BY <2>1, <2>2 DEF Held
    <2>6. Wanted' = Wanted - 1
      BY <2>1, <2>3, <2>5
    <2>7. Answers' = Answers - 1
      BY <2>4, <2>5
    <2>8. NothingForgotten'
      BY <2>5, <2>6, <2>7, StillAnswered DEF Remembered
    <2> QED
      BY <2>2, <2>8 DEF Remembered, Looked
  <1> QED
    BY <1>1, <1>2, <1>3, <1>4, <1>6, <1>7, <1>8 DEF ThreadStep

LEMMA NextRemembered ==
    ASSUME TypeOK, Remembered, [Next]_vars
    PROVE  Remembered'
  <1>1. TypeOK'
    BY NextType
  <1>2. CASE UNCHANGED vars
    <2>1. UNCHANGED <<w, s, paused, stop, rebuild, at, window>>
      BY <1>2 DEF vars
    <2> QED
      BY <2>1 DEF Remembered, NothingForgotten, Looked, Due, Owed, ToCome
  <1> QED
    BY <1>1, <1>2, ThreadRemembered, WindowRemembered, FilesRemembered, PausersRemembered DEF Next

(***************************************************************************)
(* Every file, the rebuild, the end and a held thread have their signal.   *)
(* For that the thread may take a signal and find nothing to do only if    *)
(* what was asked for since it looked has a signal of its own.             *)
(***************************************************************************)
THEOREM NothingIsForgotten == Spec => []NothingForgotten
  <1>1. Init => Remembered
    <2> SUFFICES ASSUME Init PROVE Remembered
      OBVIOUS
    <2>1. Cardinality(w) = 0
      BY FS_EmptySet DEF Init
    <2> QED
      BY <2>1 DEF Init, Remembered, NothingForgotten, Looked, One, Owed, ToCome, Held
  <1>2. Remembered => NothingForgotten
    BY DEF Remembered
  <1> QED
    BY <1>1, <1>2, InitType, NextType, NextRemembered, PTL DEF Spec
================================================================================
