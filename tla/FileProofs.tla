----------------------------- MODULE FileProofs -----------------------------
(***************************************************************************)
(* Proofs about the protocols that stores, processes and tools follow on   *)
(* files they share: a date is dreamt of twice only in doubt (Dream), a    *)
(* session directory is used by two only unseen (SessionLock), an Edit is  *)
(* of what was Read and leaves its file whole (Tools), an update of the    *)
(* configuration keeps what it does not mention (ConfigFile), what is      *)
(* saved of the skills an agent was told of binds its quanta (Skills), and *)
(* a crash loses of a session log only what was being written              *)
(* (SessionLog), for any number of schedulers, processes, stores, agents,  *)
(* files, dates, crashes, fields, skills, segments and messages.           *)
(***************************************************************************)
EXTENDS Dream, SessionLock, SessionLog, Tools, ConfigFile, Skills, FiniteSetTheorems,
        SequenceTheorems, WellFoundedInduction, TLAPS

(***************************************************************************)
(* Dream                                                                   *)
(***************************************************************************)

\* A scheduler that holds the lock, and one that will ask for it or holds it.
HoldsDreamLock == {"load", "truncate", "write", "dreaming", "reload", "retruncate", "rewrite"}
Trying == {"lock"} \cup HoldsDreamLock

\* What the proof needs of the types.
DreamTyped ==
  /\ today \in Nat /\ started \in Nat /\ dreamFile \in Int
  /\ dreamer \in [Schedulers -> {"none", "try", "asleep", "stopped"} \cup Trying]
  /\ since \in [Schedulers -> Nat] /\ loaded \in [Schedulers -> Int]
  /\ dreamt \in [Days -> Nat]

\* Whoever holds the lock is the one it names, so there is only one.
DreamLockHeld == \A k \in Schedulers : dreamer[k] \in HoldsDreamLock => lockedBy = k

\* A try is of today or of an earlier date.
TriesAreOld == \A k \in Schedulers : dreamer[k] \in Trying => since[k] <= today

\* Once a date was dreamt of and there is no doubt about it, every try under way
\* is of a later date; and while the date lasts the file says so or cannot be
\* read.
DatesSettled ==
  \A d \in Days : dreamt[d] > 0 /\ d \notin doubtful =>
    /\ d <= today
    /\ \A k \in Schedulers : dreamer[k] \in Trying => since[k] > d
    /\ today = d => dreamFile \in {d, Truncated}

DreamInv == DreamTyped /\ DreamLockHeld /\ TriesAreOld /\ DatesSettled /\ DreamtTwiceOnlyInDoubt

-----------------------------------------------------------------------------
\* A step that makes no scheduler active, and moves neither the dates nor the
\* file, keeps the invariant.
LEMMA DreamCalm ==
  ASSUME DreamInv, DreamTyped', UNCHANGED <<today, dreamFile, dreamt, doubtful>>,
         \A k \in Schedulers :
           \/ dreamer'[k] \notin Trying
           \/ /\ dreamer[k] \in Trying /\ since'[k] = since[k]
              /\ dreamer'[k] \in HoldsDreamLock => lockedBy' = k
  PROVE  DreamInv'
<1>1. DreamLockHeld'
  BY DEF DreamLockHeld, Trying, HoldsDreamLock
<1>2. TriesAreOld'
  BY DEF DreamInv, TriesAreOld, DreamTyped, Schedulers
<1>3. DatesSettled'
  BY DEF DreamInv, DatesSettled
<1>4. DreamtTwiceOnlyInDoubt'
  BY DEF DreamInv, DreamtTwiceOnlyInDoubt
<1>5. QED
  BY <1>1, <1>2, <1>3, <1>4 DEF DreamInv

\* Only one holds the lock.
LEMMA OneDreamer ==
  ASSUME DreamInv, NEW k \in Schedulers, dreamer[k] \in HoldsDreamLock
  PROVE  \A j \in Schedulers : j # k => dreamer[j] \notin HoldsDreamLock
BY DEF DreamInv, DreamLockHeld

\* A scheduler that moves on without the lock, or gives it up.
LEMMA DreamerMoves ==
  ASSUME DreamTyped, NEW k \in Schedulers,
         NEW at \in {"none", "try", "asleep", "stopped"} \cup Trying,
         dreamer' = [dreamer EXCEPT ![k] = at]
  PROVE  /\ dreamer' \in [Schedulers -> {"none", "try", "asleep", "stopped"} \cup Trying]
         /\ dreamer'[k] = at
         /\ \A j \in Schedulers : j # k => dreamer'[j] = dreamer[j]
BY DEF DreamTyped

-----------------------------------------------------------------------------
\* A scheduler that goes to sleep or stops: its lock goes with it.
LEMMA LeavesDreamInv ==
  ASSUME DreamInv, NEW k \in Schedulers, NEW at \in {"try", "asleep", "stopped"},
         dreamer' = [dreamer EXCEPT ![k] = at],
         UNCHANGED <<today, dreamFile, dreamt, doubtful, started>>,
         UNCHANGED since \/ since' = [since EXCEPT ![k] = today],
         UNCHANGED loaded,
         UNCHANGED lockedBy \/ Unlock(k)
  PROVE  DreamInv'
<1>1. DreamTyped'
  BY DreamerMoves DEF DreamInv, DreamTyped
<1>2. dreamer'[k] \notin Trying
  BY DreamerMoves DEF DreamInv, Trying, HoldsDreamLock
<1>3. ASSUME NEW j \in Schedulers, j # k, dreamer'[j] \in Trying
      PROVE  /\ dreamer[j] \in Trying /\ since'[j] = since[j]
             /\ dreamer'[j] \in HoldsDreamLock => lockedBy' = j
  <2>1. dreamer'[j] = dreamer[j]
    BY <1>3, DreamerMoves DEF DreamInv
  <2>2. since'[j] = since[j]
    BY <1>3 DEF DreamInv, DreamTyped
  <2>3. dreamer[j] \in HoldsDreamLock => lockedBy = j /\ lockedBy' = j
    BY <1>3 DEF DreamInv, DreamLockHeld, Unlock
  <2>4. QED
    BY <1>3, <2>1, <2>2, <2>3
<1>4. QED
  BY <1>1, <1>2, <1>3, DreamCalm

\* A scheduler that goes on with the lock.
LEMMA GoesOnDreamInv ==
  ASSUME DreamInv, NEW k \in Schedulers, dreamer[k] \in Trying, NEW at \in HoldsDreamLock,
         dreamer' = [dreamer EXCEPT ![k] = at], lockedBy' = k,
         lockedBy = k \/ \A j \in Schedulers : dreamer[j] \notin HoldsDreamLock,
         UNCHANGED <<today, dreamFile, dreamt, doubtful, started, since>>,
         loaded' \in [Schedulers -> Int]
  PROVE  DreamInv'
<1>1. DreamTyped'
  BY DreamerMoves DEF DreamInv, DreamTyped, Trying
<1>2. ASSUME NEW j \in Schedulers, dreamer'[j] \in Trying
      PROVE  /\ dreamer[j] \in Trying /\ since'[j] = since[j]
             /\ dreamer'[j] \in HoldsDreamLock => lockedBy' = j
  <2>1. CASE j = k
    BY <2>1
  <2>2. CASE j # k
    <3>1. dreamer'[j] = dreamer[j]
      BY <2>2, DreamerMoves DEF DreamInv, Trying
    <3>2. dreamer[j] \notin HoldsDreamLock
      BY <2>2 DEF DreamInv, DreamLockHeld
    <3>3. QED
      BY <1>2, <3>1, <3>2
  <2>3. QED
    BY <2>1, <2>2
<1>3. QED
  BY <1>1, <1>2, DreamCalm

\* should_run_now: on a date that was dreamt of the file says so, or is not read.
LEMMA LookDreamInv ==
  ASSUME DreamInv, NEW k \in Schedulers, Look(k)
  PROVE  DreamInv'
<1>1. UNCHANGED <<today, dreamFile, dreamt, doubtful, started, loaded, lockedBy>>
  BY DEF Look, worldVars, historyVars
<1>2. CASE dreamFile # Truncated /\ Due(dreamFile, today)
  <2>1. dreamer' = [dreamer EXCEPT ![k] = "lock"] /\ since' = [since EXCEPT ![k] = today]
    BY <1>2 DEF Look
  <2>2. DreamTyped' /\ dreamer'[k] = "lock" /\ \A j \in Schedulers : j # k => dreamer'[j] = dreamer[j]
    BY <1>1, <2>1, DreamerMoves DEF DreamInv, DreamTyped, Trying
  <2>3. since'[k] = today /\ \A j \in Schedulers : j # k => since'[j] = since[j]
    BY <2>1 DEF DreamInv, DreamTyped
  <2>4. DreamLockHeld'
    BY <1>1, <2>2 DEF DreamInv, DreamLockHeld, HoldsDreamLock
  <2>5. TriesAreOld'
    BY <1>1, <2>2, <2>3 DEF DreamInv, TriesAreOld, DreamTyped
  <2>6. DatesSettled'
    <3>1. SUFFICES ASSUME NEW d \in Days, dreamt[d] > 0, d \notin doubtful
                   PROVE  /\ d <= today
                          /\ \A j \in Schedulers : dreamer'[j] \in Trying => since'[j] > d
                          /\ today = d => dreamFile \in {d, Truncated}
      BY <1>1 DEF DatesSettled
    <3>2. d <= today /\ (today = d => dreamFile \in {d, Truncated})
      BY <3>1 DEF DreamInv, DatesSettled
    <3>3. today > d
      BY <1>2, <3>2 DEF Due, DreamInv, DreamTyped, Days
    <3>4. QED
      BY <2>2, <2>3, <3>1, <3>2, <3>3 DEF DreamInv, DatesSettled
  <2>7. QED
    BY <1>1, <2>2, <2>4, <2>5, <2>6 DEF DreamInv, DreamtTwiceOnlyInDoubt
<1>3. CASE ~(dreamFile # Truncated /\ Due(dreamFile, today))
  BY <1>1, <1>3, LeavesDreamInv DEF Look, GoesToSleep
<1>4. QED
  BY <1>2, <1>3

LEMMA LockDreamInv ==
  ASSUME DreamInv, NEW k \in Schedulers, Lock(k)
  PROVE  DreamInv'
<1>1. /\ UNCHANGED <<today, dreamFile, dreamt, doubtful, started, loaded>>
      /\ dreamer[k] = "lock"
  BY DEF Lock, worldVars, historyVars
<1>2. CASE lockedBy = Nobody
  <2>1. /\ lockedBy' = k /\ dreamer' = [dreamer EXCEPT ![k] = "load"] /\ UNCHANGED since
    BY <1>2 DEF Lock, TakeLock
  <2>2. \A j \in Schedulers : dreamer[j] \notin HoldsDreamLock
    BY <1>2 DEF DreamInv, DreamLockHeld, Schedulers, Nobody
  <2>3. loaded' \in [Schedulers -> Int] /\ "load" \in HoldsDreamLock /\ dreamer[k] \in Trying
    BY <1>1 DEF DreamInv, DreamTyped, HoldsDreamLock, Trying
  <2>4. QED
    BY <1>1, <2>1, <2>2, <2>3, GoesOnDreamInv
<1>3. CASE lockedBy # Nobody
  BY <1>1, <1>3, LeavesDreamInv DEF Lock, GoesToSleep
<1>4. QED
  BY <1>2, <1>3

LEMMA LoadDreamInv ==
  ASSUME DreamInv, NEW k \in Schedulers, LoadDreamState(k)
  PROVE  DreamInv'
<1>1. /\ UNCHANGED <<today, dreamFile, dreamt, doubtful, started>>
      /\ dreamer[k] \in HoldsDreamLock /\ lockedBy = k
  BY DEF LoadDreamState, worldVars, historyVars, HoldsDreamLock, DreamInv, DreamLockHeld
<1>2. CASE dreamFile = Truncated
  BY <1>1, <1>2, LeavesDreamInv DEF LoadDreamState, GoesToSleep
<1>3. CASE dreamFile # Truncated
  <2>1. PICK at \in HoldsDreamLock : dreamer' = [dreamer EXCEPT ![k] = at]
    BY <1>3 DEF LoadDreamState, HoldsDreamLock
  <2>2. UNCHANGED <<lockedBy, since>> /\ loaded' \in [Schedulers -> Int]
    BY <1>3 DEF LoadDreamState, DreamInv, DreamTyped
  <2>3. QED
    BY <1>1, <2>1, <2>2, GoesOnDreamInv DEF Trying
<1>4. QED
  BY <1>2, <1>3

LEMMA SucceedsDreamInv ==
  ASSUME DreamInv, NEW k \in Schedulers, DreamSucceeds(k)
  PROVE  DreamInv'
<1>1. /\ UNCHANGED <<today, dreamFile, dreamt, doubtful, started, lockedBy, since, loaded>>
      /\ dreamer[k] \in HoldsDreamLock /\ lockedBy = k
      /\ "reload" \in HoldsDreamLock /\ dreamer' = [dreamer EXCEPT ![k] = "reload"]
  BY DEF DreamSucceeds, worldVars, historyVars, HoldsDreamLock, DreamInv, DreamLockHeld
<1>2. loaded' \in [Schedulers -> Int]
  BY <1>1 DEF DreamInv, DreamTyped
<1>3. QED
  BY <1>1, <1>2, GoesOnDreamInv DEF Trying

\* The two writes of a state file.  The holder's date is later than every one
\* that was dreamt of, so what it writes over is of a date that is past.
LEMMA WritesDreamInv ==
  ASSUME DreamInv, NEW k \in Schedulers, dreamer[k] \in HoldsDreamLock, NEW at \in HoldsDreamLock,
         dreamer' = [dreamer EXCEPT ![k] = at], dreamFile' \in Int,
         UNCHANGED <<today, dreamt, doubtful, started, since, lockedBy, loaded>>
  PROVE  DreamInv'
<1>1. DreamTyped' /\ dreamer'[k] = at /\ \A j \in Schedulers : j # k => dreamer'[j] = dreamer[j]
  BY DreamerMoves DEF DreamInv, DreamTyped, Trying
<1>2. DreamLockHeld'
  BY <1>1 DEF DreamInv, DreamLockHeld
<1>3. TriesAreOld'
  BY <1>1 DEF DreamInv, TriesAreOld, Trying
<1>4. DatesSettled'
  <2>1. SUFFICES ASSUME NEW d \in Days, dreamt[d] > 0, d \notin doubtful
                 PROVE  /\ d <= today
                        /\ \A j \in Schedulers : dreamer'[j] \in Trying => since[j] > d
                        /\ today # d
    BY DEF DatesSettled
  <2>2. d <= today /\ \A j \in Schedulers : dreamer[j] \in Trying => since[j] > d
    BY <2>1 DEF DreamInv, DatesSettled
  <2>3. since[k] > d /\ since[k] <= today
    BY <2>2 DEF DreamInv, TriesAreOld, Trying
  <2>4. today # d
    BY <2>3 DEF DreamInv, DreamTyped, Days
  <2>5. QED
    BY <1>1, <2>2, <2>4 DEF Trying
<1>5. DreamtTwiceOnlyInDoubt'
  BY DEF DreamInv, DreamtTwiceOnlyInDoubt
<1>6. QED
  BY <1>1, <1>2, <1>3, <1>4, <1>5 DEF DreamInv

LEMMA TruncateDreamInv ==
  ASSUME DreamInv, NEW k \in Schedulers, Truncate(k)
  PROVE  DreamInv'
<1>1. PICK at \in HoldsDreamLock : dreamer' = [dreamer EXCEPT ![k] = at]
  BY DEF Truncate, HoldsDreamLock
<1>2. dreamer[k] \in HoldsDreamLock /\ dreamFile' \in Int
  BY DEF Truncate, HoldsDreamLock, Truncated
<1>3. QED
  BY <1>1, <1>2, WritesDreamInv DEF Truncate, worldVars, historyVars

LEMMA StartedDreamInv ==
  ASSUME DreamInv, NEW k \in Schedulers, MarkStarted(k)
  PROVE  DreamInv'
<1>1. dreamer' = [dreamer EXCEPT ![k] = "dreaming"] /\ "dreaming" \in HoldsDreamLock
  BY DEF MarkStarted, HoldsDreamLock
<1>2. dreamer[k] \in HoldsDreamLock /\ dreamFile' \in Int
  BY DEF MarkStarted, HoldsDreamLock, DreamInv, DreamTyped
<1>3. QED
  BY <1>1, <1>2, WritesDreamInv DEF MarkStarted, worldVars, historyVars

\* A dream that succeeded.  Nobody else holds the lock; if nobody waits for it
\* either, no try is left that could dream of the date again.
LEMMA CompletedDreamInv ==
  ASSUME DreamInv, NEW k \in Schedulers, MarkCompleted(k)
  PROVE  DreamInv'
<1>1. /\ UNCHANGED <<today, started, loaded>> /\ dreamFile' = since[k]
      /\ dreamer' = [dreamer EXCEPT ![k] = "asleep"] /\ since' = [since EXCEPT ![k] = today]
      /\ dreamt' = [dreamt EXCEPT ![since[k]] = @ + 1]
      /\ dreamer[k] \in HoldsDreamLock
  BY DEF MarkCompleted, GoesToSleep, worldVars, HoldsDreamLock
<1>2. /\ dreamer' \in [Schedulers -> {"none", "try", "asleep", "stopped"} \cup Trying]
      /\ dreamer'[k] = "asleep" /\ \A j \in Schedulers : j # k => dreamer'[j] = dreamer[j]
  BY <1>1, DreamerMoves DEF DreamInv
<1>3. DreamTyped'
  <2>1. dreamt \in [Days -> Nat] /\ \A d \in Days : dreamt[d] + 1 \in Nat
    BY DEF DreamInv, DreamTyped
  <2>2. dreamt' \in [Days -> Nat]
    BY <1>1, <2>1
  <2>3. since' \in [Schedulers -> Nat] /\ dreamFile' \in Int
    BY <1>1 DEF DreamInv, DreamTyped
  <2>4. QED
    BY <1>1, <1>2, <2>2, <2>3 DEF DreamInv, DreamTyped
<1>4. \A j \in Schedulers : dreamer'[j] \in Trying =>
        j # k /\ dreamer[j] = "lock" /\ dreamer'[j] = "lock" /\ since'[j] = since[j]
  BY <1>1, <1>2, OneDreamer DEF Trying, HoldsDreamLock, DreamInv, DreamTyped
<1>5. since[k] \in Nat /\ since[k] <= today /\ today \in Nat
  BY <1>1 DEF DreamInv, TriesAreOld, DreamTyped, Trying
<1>6. doubtful \subseteq doubtful'
      /\ ((\E j \in Schedulers : dreamer[j] = "lock") => since[k] \in doubtful')
  BY DEF MarkCompleted
<1>7. \A d \in Days : dreamt'[d] = IF d = since[k] THEN dreamt[d] + 1 ELSE dreamt[d]
  BY <1>1 DEF DreamInv, DreamTyped
<1>8. \A d \in Days : dreamt[d] > 0 /\ d \notin doubtful => d < since[k]
  BY <1>1, <1>5 DEF DreamInv, DatesSettled, Trying, Days
<1>9. DreamLockHeld'
  BY <1>4 DEF DreamLockHeld, HoldsDreamLock, Trying
<1>10. TriesAreOld'
  BY <1>1, <1>4 DEF DreamInv, TriesAreOld, Trying
<1>11. DatesSettled'
  <2>1. SUFFICES ASSUME NEW d \in Days, dreamt'[d] > 0, d \notin doubtful'
                 PROVE  /\ d <= today
                        /\ \A j \in Schedulers : dreamer'[j] \in Trying => since'[j] > d
                        /\ today = d => since[k] \in {d, Truncated}
    BY <1>1 DEF DatesSettled
  <2>2. CASE d = since[k]
    BY <2>1, <2>2, <1>4, <1>5, <1>6
  <2>3. CASE d # since[k]
    <3>1. dreamt[d] > 0 /\ d \notin doubtful
      BY <2>1, <2>3, <1>6, <1>7
    <3>2. d < since[k] /\ d \in Nat
      BY <3>1, <1>8 DEF Days
    <3>3. \A j \in Schedulers : dreamer'[j] \in Trying => since'[j] > d
      BY <3>1, <1>4 DEF DreamInv, DatesSettled, Trying
    <3>4. d <= today /\ today # d
      BY <3>2, <1>5
    <3>5. QED
      BY <3>3, <3>4
  <2>4. QED
    BY <2>2, <2>3
<1>12. DreamtTwiceOnlyInDoubt'
  <2>1. SUFFICES ASSUME NEW d \in Days, dreamt'[d] > 1, d \notin doubtful'
                 PROVE  FALSE
    BY DEF DreamtTwiceOnlyInDoubt
  <2>2. dreamt[d] \in Nat /\ d \notin doubtful
    BY <2>1, <1>6 DEF DreamInv, DreamTyped
  <2>3. dreamt[d] > 0 /\ (d = since[k] \/ dreamt[d] > 1)
    BY <2>1, <2>2, <1>7
  <2>4. d < since[k]
    BY <2>2, <2>3, <1>8
  <2>5. d # since[k]
    BY <2>4, <1>5
  <2>6. QED
    BY <2>2, <2>3, <2>5 DEF DreamInv, DreamtTwiceOnlyInDoubt
<1>13. QED
  BY <1>3, <1>9, <1>10, <1>11, <1>12 DEF DreamInv

-----------------------------------------------------------------------------
LEMMA ReloadDreamInv ==
  ASSUME DreamInv, Reload
  PROVE  DreamInv'
<1>1. /\ UNCHANGED <<today, dreamFile, lockedBy, since, loaded, dreamt, doubtful>>
      /\ started' = started + 1 /\ started' \in Schedulers
  BY DreamAssumption DEF Reload, historyVars, DreamInv, DreamTyped, Schedulers
<1>2. PICK at \in {"try", "stopped"} : dreamer' = [dreamer EXCEPT ![started'] = at]
  BY DEF Reload, BeginTrying
<1>3. DreamTyped' /\ dreamer'[started'] = at
      /\ \A j \in Schedulers : j # started' => dreamer'[j] = dreamer[j]
  BY <1>1, <1>2, DreamerMoves DEF DreamInv, DreamTyped
<1>4. ASSUME NEW j \in Schedulers, dreamer'[j] \in Trying
      PROVE  /\ dreamer[j] \in Trying /\ since'[j] = since[j]
             /\ dreamer'[j] \in HoldsDreamLock => lockedBy' = j
  <2>1. dreamer'[j] = dreamer[j]
    BY <1>3, <1>4 DEF Trying, HoldsDreamLock
  <2>2. QED
    BY <1>1, <1>4, <2>1 DEF DreamInv, DreamLockHeld
<1>5. QED
  BY <1>1, <1>3, <1>4, DreamCalm

LEMMA KillDreamInv ==
  ASSUME DreamInv, Kill
  PROVE  DreamInv'
<1>1. /\ UNCHANGED <<today, dreamFile, since, loaded, dreamt, doubtful>>
      /\ started' = started + 1
  BY DEF Kill, historyVars
<1>2. /\ dreamer' \in [Schedulers -> {"none", "try", "stopped"}]
      /\ \A j \in Schedulers : dreamer'[j] \notin Trying
  BY DEF Kill, Trying, HoldsDreamLock
<1>3. DreamTyped'
  BY <1>1, <1>2 DEF DreamInv, DreamTyped
<1>4. QED
  BY <1>1, <1>2, <1>3, DreamCalm

LEMMA MidnightDreamInv ==
  ASSUME DreamInv, Midnight
  PROVE  DreamInv'
<1>1. /\ today' = today + 1 /\ today \in Nat
      /\ UNCHANGED <<dreamFile, lockedBy, dreamer, since, loaded, started, dreamt, doubtful>>
  BY DEF Midnight, historyVars, DreamInv, DreamTyped
<1>2. DreamTyped' /\ DreamLockHeld' /\ DreamtTwiceOnlyInDoubt'
  BY <1>1 DEF DreamInv, DreamTyped, DreamLockHeld, DreamtTwiceOnlyInDoubt
<1>3. TriesAreOld'
  BY <1>1 DEF DreamInv, TriesAreOld, DreamTyped
<1>4. DatesSettled'
  <2>1. SUFFICES ASSUME NEW d \in Days, dreamt[d] > 0, d \notin doubtful
                 PROVE  /\ d <= today + 1
                        /\ \A k \in Schedulers : dreamer[k] \in Trying => since[k] > d
                        /\ today + 1 # d
    BY <1>1 DEF DatesSettled
  <2>2. d <= today /\ \A k \in Schedulers : dreamer[k] \in Trying => since[k] > d
    BY <2>1 DEF DreamInv, DatesSettled
  <2>3. QED
    BY <1>1, <2>2 DEF Days
<1>5. QED
  BY <1>2, <1>3, <1>4 DEF DreamInv

LEMMA SleepDreamInv ==
  ASSUME DreamInv, NEW k \in Schedulers,
         Stop(k) \/ DreamFails(k) \/ Wake(k) \/ CancelledAsleep(k)
  PROVE  DreamInv'
<1>1. CASE Stop(k)
  BY <1>1, LeavesDreamInv DEF Stop, worldVars, historyVars
<1>2. CASE DreamFails(k)
  BY <1>2, LeavesDreamInv DEF DreamFails, GoesToSleep, worldVars, historyVars
<1>3. CASE Wake(k)
  BY <1>3, LeavesDreamInv DEF Wake, BeginTrying, worldVars, historyVars
<1>4. CASE CancelledAsleep(k)
  BY <1>4, LeavesDreamInv DEF CancelledAsleep, worldVars, historyVars
<1>5. QED
  BY <1>1, <1>2, <1>3, <1>4

LEMMA RememberDreamInv ==
  ASSUME DreamInv, UNCHANGED dreamVars \/ Remember
  PROVE  DreamInv'
<1>1. UNCHANGED <<today, dreamFile, lockedBy, dreamer, since, loaded, started, dreamt, doubtful>>
  BY DEF dreamVars, Remember, worldVars, historyVars
<1>2. QED
  BY <1>1 DEF DreamInv, DreamTyped, DreamLockHeld, TriesAreOld, DatesSettled, DreamtTwiceOnlyInDoubt

LEMMA DreamInitInv == DreamInit => DreamInv
<1>1. SUFFICES ASSUME DreamInit PROVE DreamInv
  OBVIOUS
<1>2. /\ today = 1 /\ started = 1 /\ dreamFile = NoDay
      /\ dreamer = [k \in Schedulers |-> IF k = 1 THEN "try" ELSE "none"]
      /\ since = [k \in Schedulers |-> NoDay] /\ loaded = [k \in Schedulers |-> NoDay]
      /\ dreamt = [d \in Days |-> 0]
  BY <1>1 DEF DreamInit
<1>3. DreamTyped /\ \A k \in Schedulers : dreamer[k] \notin Trying
  BY <1>2 DEF DreamTyped, Trying, HoldsDreamLock, NoDay
<1>4. \A d \in Days : dreamt[d] = 0
  BY <1>2
<1>5. QED
  BY <1>3, <1>4 DEF DreamInv, DreamLockHeld, TriesAreOld, DatesSettled, DreamtTwiceOnlyInDoubt, Trying

LEMMA DreamNextInv == DreamInv /\ [DreamNext]_dreamVars => DreamInv'
<1>1. SUFFICES ASSUME DreamInv, [DreamNext]_dreamVars PROVE DreamInv'
  OBVIOUS
<1>2. CASE \E k \in Schedulers : DreamStep(k)
  <2>1. PICK k \in Schedulers : DreamStep(k)
    BY <1>2
  <2>2. QED
    BY <1>1, <2>1, LookDreamInv, LockDreamInv, LoadDreamInv, TruncateDreamInv, StartedDreamInv, SucceedsDreamInv,
       CompletedDreamInv, SleepDreamInv DEF DreamStep
<1>3. CASE Reload
  BY <1>1, <1>3, ReloadDreamInv
<1>4. CASE Kill
  BY <1>1, <1>4, KillDreamInv
<1>5. CASE Midnight
  BY <1>1, <1>5, MidnightDreamInv
<1>6. CASE Remember \/ UNCHANGED dreamVars
  BY <1>1, <1>6, RememberDreamInv
<1>7. QED
  BY <1>1, <1>2, <1>3, <1>4, <1>5, <1>6 DEF DreamNext

\* Whatever reloads, crashes and midnights come, a date is dreamt of twice only
\* when a scheduler had found the dream due before another one finished it, and
\* took the lock after it (run_if_due, try_acquire_lock, mark_completed).
THEOREM DreamtOnceUnlessInDoubt == DreamSpec => []DreamtTwiceOnlyInDoubt
<1>1. DreamInv => DreamtTwiceOnlyInDoubt
  BY DEF DreamInv
<1>2. QED
  BY <1>1, DreamInitInv, DreamNextInv, PTL DEF DreamSpec

-----------------------------------------------------------------------------
(* Types of the dream: what bounds how often a date is dreamt of is that each *)
(* scheduler finishes a dream of it once at most.                             *)

\* Schedulers that will not finish a dream of the date: they began to try on it
\* or later, and are not at it now.
Spent(d) == {k \in Schedulers : since[k] >= d /\ ~(dreamer[k] \in Trying /\ since[k] = d)}

DreamRecords ==
  /\ today \in Days /\ material \in BOOLEAN
  /\ dreamFile \in Days \cup {NoDay, Truncated}
  /\ lockedBy \in Schedulers \cup {Nobody}
  /\ dreamer \in [Schedulers -> {"none", "try", "asleep", "stopped"} \cup Trying]
  /\ since \in [Schedulers -> Days \cup {NoDay}] /\ loaded \in [Schedulers -> Days \cup {NoDay}]
  /\ quitting \in [Schedulers -> BOOLEAN]
  /\ started \in Schedulers /\ kills \in 0..MaxKills
  /\ dreamt \in [Days -> Nat] /\ doubtful \subseteq Days

\* A try is of a date, and one to come is of a later date than the last.
TriesAreDated ==
  \A k \in Schedulers :
    /\ dreamer[k] \in Trying => since[k] \in Days /\ since[k] <= today
    /\ dreamer[k] \in {"none", "try"} => since[k] < today
    /\ k > started => dreamer[k] = "none"
    /\ since[k] <= today

\* Each scheduler dreams of a date once at most.
EachDreamsOnce == \A d \in Days : dreamt[d] <= Cardinality(Spent(d))

DreamTypeInv == DreamRecords /\ TriesAreDated /\ EachDreamsOnce

-----------------------------------------------------------------------------
LEMMA DreamNumbers ==
  /\ MaxDays \in Nat /\ MaxDays >= 1 /\ MaxSchedulers \in Nat /\ MaxSchedulers >= 1 /\ MaxKills \in Nat
  /\ Days = 1..MaxDays /\ Schedulers = 1..MaxSchedulers
  /\ Days \subseteq Nat /\ Schedulers \subseteq Nat
  /\ Nobody = 0 /\ NoDay = 0 /\ Truncated = -1
BY DreamAssumption DEF Days, Schedulers, Nobody, NoDay, Truncated

\* There are no more spent schedulers than schedulers.
LEMMA SpentBounded ==
  ASSUME NEW set \in SUBSET Schedulers
  PROVE  IsFiniteSet(set) /\ Cardinality(set) \in 0..MaxSchedulers
<1>1. IsFiniteSet(Schedulers) /\ Cardinality(Schedulers) = MaxSchedulers
  <2>1. /\ IsFiniteSet(1..MaxSchedulers)
        /\ Cardinality(1..MaxSchedulers) = IF 1 > MaxSchedulers THEN 0 ELSE MaxSchedulers - 1 + 1
    BY DreamNumbers, FS_Interval
  <2> QED BY <2>1, DreamNumbers
<1>2. IsFiniteSet(set) /\ Cardinality(set) <= Cardinality(Schedulers)
  BY <1>1, FS_Subset
<1>3. Cardinality(set) \in Nat
  BY <1>2, FS_CardinalityType
<1> QED BY <1>1, <1>2, <1>3, DreamNumbers

LEMMA DreamInvTypes == DreamTypeInv => DreamTypeOK
<1>1. SUFFICES ASSUME DreamTypeInv PROVE DreamTypeOK
  OBVIOUS
<1>2. ASSUME NEW d \in Days PROVE dreamt[d] \in 0..MaxSchedulers
  <2>1. Spent(d) \in SUBSET Schedulers
    BY DEF Spent
  <2>2. Cardinality(Spent(d)) \in 0..MaxSchedulers
    BY <2>1, SpentBounded
  <2>3. dreamt[d] \in Nat /\ dreamt[d] <= Cardinality(Spent(d))
    BY <1>1 DEF DreamTypeInv, DreamRecords, EachDreamsOnce
  <2> QED BY <2>2, <2>3, DreamNumbers
<1>3. dreamt \in [Days -> 0..MaxSchedulers]
  BY <1>1, <1>2 DEF DreamTypeInv, DreamRecords
<1> QED BY <1>1, <1>3 DEF DreamTypeInv, DreamRecords, DreamTypeOK, Trying, HoldsDreamLock

\* A step after which no fewer schedulers are spent, and nothing was dreamt.
LEMMA SpentStays ==
  ASSUME DreamTypeInv, dreamt' = dreamt,
         \A d \in Days : \A k \in Schedulers :
           since[k] >= d /\ ~(dreamer[k] \in Trying /\ since[k] = d)
             => since'[k] >= d /\ ~(dreamer'[k] \in Trying /\ since'[k] = d)
  PROVE  EachDreamsOnce'
<1>1. SUFFICES ASSUME NEW d \in Days PROVE dreamt[d] <= Cardinality(Spent(d)')
  BY DEF EachDreamsOnce
<1>2. Spent(d) \in SUBSET (Spent(d)') /\ Spent(d)' \in SUBSET Schedulers
  BY DEF Spent
<1>3. /\ IsFiniteSet(Spent(d)') /\ Cardinality(Spent(d)') \in 0..MaxSchedulers
      /\ Spent(d) \in SUBSET Schedulers
  BY <1>2, SpentBounded
<1>4. Cardinality(Spent(d)) <= Cardinality(Spent(d)') /\ Cardinality(Spent(d)) \in 0..MaxSchedulers
  BY <1>2, <1>3, FS_Subset, SpentBounded
<1>5. dreamt[d] \in Nat /\ dreamt[d] <= Cardinality(Spent(d))
  BY DEF DreamTypeInv, EachDreamsOnce, DreamRecords
<1> QED BY <1>3, <1>4, <1>5, DreamNumbers

\* A scheduler that moves, and takes the date of today or keeps the one it has.
LEMMA DreamerTyped ==
  ASSUME DreamTypeInv, NEW k \in Schedulers,
         NEW at \in {"none", "try", "asleep", "stopped"} \cup Trying,
         dreamer' = [dreamer EXCEPT ![k] = at],
         UNCHANGED since \/ since' = [since EXCEPT ![k] = today],
         UNCHANGED <<today, material, started, kills, dreamt, doubtful, quitting>>,
         dreamFile' \in Days \cup {NoDay, Truncated}, lockedBy' \in Schedulers \cup {Nobody},
         loaded' \in [Schedulers -> Days \cup {NoDay}],
         dreamer[k] # "none",
         at # "none",
         at = "try" => since'[k] < today,
         at \in Trying => (dreamer[k] \in Trying /\ UNCHANGED since) \/ (dreamer[k] = "try" /\ since'[k] = today)
  PROVE  DreamTypeInv'
<1>1. /\ dreamer'[k] = at /\ \A j \in Schedulers : j # k => dreamer'[j] = dreamer[j]
      /\ dreamer' \in [Schedulers -> {"none", "try", "asleep", "stopped"} \cup Trying]
  BY DEF DreamTypeInv, DreamRecords
<1>2. /\ since' \in [Schedulers -> Days \cup {NoDay}]
      /\ since'[k] \in {since[k], today} /\ \A j \in Schedulers : j # k => since'[j] = since[j]
  BY DEF DreamTypeInv, DreamRecords
<1>3. DreamRecords'
  BY <1>1, <1>2 DEF DreamTypeInv, DreamRecords
<1>4. today \in Days /\ today \in Nat /\ today >= 1 /\ since[k] <= today /\ since[k] \in Nat
  BY DreamNumbers DEF DreamTypeInv, DreamRecords, TriesAreDated
<1>5. TriesAreDated'
  <2>1. SUFFICES ASSUME NEW j \in Schedulers
                 PROVE  /\ dreamer'[j] \in Trying => since'[j] \in Days /\ since'[j] <= today
                        /\ dreamer'[j] \in {"none", "try"} => since'[j] < today
                        /\ j > started => dreamer'[j] = "none"
                        /\ since'[j] <= today
    BY DEF TriesAreDated
  <2>2. CASE j # k
    BY <2>2, <1>1, <1>2 DEF DreamTypeInv, TriesAreDated
  <2>3. CASE j = k
    <3>1. since'[k] <= today
      BY <1>2, <1>4
    <3>2. at \in Trying => since'[k] \in Days
      BY <1>2, <1>4 DEF DreamTypeInv, TriesAreDated
    <3>3. ~(k > started)
      BY DEF DreamTypeInv, TriesAreDated
    <3> QED BY <2>3, <1>1, <3>1, <3>2, <3>3
  <2> QED BY <2>2, <2>3
<1>6. EachDreamsOnce'
  <2>1. SUFFICES ASSUME NEW d \in Days, NEW j \in Schedulers, since[j] >= d,
                        ~(dreamer[j] \in Trying /\ since[j] = d)
                 PROVE  since'[j] >= d /\ ~(dreamer'[j] \in Trying /\ since'[j] = d)
    BY SpentStays
  <2>2. CASE j # k
    BY <2>1, <2>2, <1>1, <1>2
  <2>3. CASE j = k
    <3>1. d \in Nat /\ since'[k] >= d
      BY <2>1, <2>3, <1>2, <1>4, DreamNumbers
    <3>2. CASE at \notin Trying
      BY <2>3, <3>1, <3>2, <1>1
    <3>3. CASE at \in Trying /\ dreamer[k] \in Trying /\ UNCHANGED since
      BY <2>1, <2>3, <3>3
    <3>4. CASE dreamer[k] = "try" /\ since'[k] = today
      <4>1. since[k] < today
        BY <3>4 DEF DreamTypeInv, TriesAreDated
      <4> QED BY <2>1, <2>3, <3>1, <3>4, <4>1, <1>4
    <3> QED BY <3>2, <3>3, <3>4
  <2> QED BY <2>2, <2>3
<1> QED BY <1>3, <1>5, <1>6 DEF DreamTypeInv

LEMMA DreamStepTyped ==
  ASSUME DreamTypeInv, NEW k \in Schedulers, DreamStep(k), ~MarkCompleted(k)
  PROVE  DreamTypeInv'
<1>0. DreamRecords /\ TriesAreDated
  BY DEF DreamTypeInv
<1>1. CASE Stop(k) \/ CancelledAsleep(k)
  BY <1>1, <1>0, DreamerTyped DEF Stop, CancelledAsleep, worldVars, historyVars, DreamRecords, Trying, HoldsDreamLock
<1>2. CASE Look(k)
  <2>1. dreamer[k] = "try" /\ today \in Days
    BY <1>2, <1>0 DEF Look, DreamRecords
  <2>2. since' = [since EXCEPT ![k] = today] /\ since'[k] = today
    BY <1>2, <1>0 DEF Look, GoesToSleep, DreamRecords
  <2>3. PICK at \in {"lock", "asleep"} : dreamer' = [dreamer EXCEPT ![k] = at]
    BY <1>2 DEF Look, GoesToSleep
  <2> QED BY <1>2, <1>0, <2>1, <2>2, <2>3, DreamerTyped
        DEF Look, worldVars, historyVars, DreamRecords, Trying, HoldsDreamLock
<1>3. CASE Lock(k)
  BY <1>3, <1>0, DreamerTyped
     DEF Lock, GoesToSleep, TakeLock, worldVars, historyVars, DreamRecords, Trying, HoldsDreamLock
<1>4. CASE LoadDreamState(k)
  <2>1. lockedBy' \in Schedulers \cup {Nobody} /\ loaded' \in [Schedulers -> Days \cup {NoDay}]
    BY <1>4, <1>0 DEF LoadDreamState, GoesToSleep, Unlock, DreamRecords
  <2>2. CASE dreamFile = Truncated
    BY <1>4, <1>0, <2>1, <2>2, DreamerTyped
       DEF LoadDreamState, GoesToSleep, worldVars, historyVars, DreamRecords, Trying, HoldsDreamLock
  <2>3. CASE dreamFile # Truncated
    <3>1. PICK at \in {"truncate", "retruncate"} : dreamer' = [dreamer EXCEPT ![k] = at]
      BY <1>4, <2>3 DEF LoadDreamState
    <3> QED BY <1>4, <1>0, <2>1, <2>3, <3>1, DreamerTyped
          DEF LoadDreamState, worldVars, historyVars, DreamRecords, Trying, HoldsDreamLock
  <2> QED BY <2>2, <2>3
<1>5. CASE Truncate(k)
  <2>1. PICK at \in {"write", "rewrite"} : dreamer' = [dreamer EXCEPT ![k] = at]
    BY <1>5 DEF Truncate
  <2> QED BY <1>5, <1>0, <2>1, DreamerTyped
        DEF Truncate, worldVars, historyVars, DreamRecords, Trying, HoldsDreamLock
<1>6. CASE MarkStarted(k) \/ DreamSucceeds(k)
  BY <1>6, <1>0, DreamerTyped
     DEF MarkStarted, DreamSucceeds, worldVars, historyVars, DreamRecords, Trying, HoldsDreamLock
<1>7. CASE DreamFails(k)
  BY <1>7, <1>0, DreamerTyped
     DEF DreamFails, GoesToSleep, Unlock, worldVars, historyVars, DreamRecords, Trying, HoldsDreamLock
<1>8. CASE Wake(k)
  BY <1>8, <1>0, DreamerTyped
     DEF Wake, BeginTrying, worldVars, historyVars, DreamRecords, Trying, HoldsDreamLock
<1> QED BY <1>1, <1>2, <1>3, <1>4, <1>5, <1>6, <1>7, <1>8 DEF DreamStep

\* A dream that succeeded: the scheduler is spent for its date from now on.
LEMMA CompletedTyped ==
  ASSUME DreamTypeInv, NEW k \in Schedulers, MarkCompleted(k)
  PROVE  DreamTypeInv'
<1>0. DreamRecords /\ TriesAreDated
  BY DEF DreamTypeInv
<1>1. /\ UNCHANGED <<today, material, started, kills, loaded, quitting>> /\ dreamFile' = since[k]
      /\ dreamer' = [dreamer EXCEPT ![k] = "asleep"] /\ since' = [since EXCEPT ![k] = today]
      /\ dreamt' = [dreamt EXCEPT ![since[k]] = @ + 1]
      /\ dreamer[k] \in Trying
  BY DEF MarkCompleted, GoesToSleep, worldVars, Trying, HoldsDreamLock
<1>2. since[k] \in Days /\ since[k] <= today /\ today \in Days /\ today \in Nat /\ since[k] \in Nat
  BY <1>0, <1>1, DreamNumbers DEF TriesAreDated, DreamRecords
<1>3. /\ dreamer' \in [Schedulers -> {"none", "try", "asleep", "stopped"} \cup Trying]
      /\ dreamer'[k] = "asleep" /\ \A j \in Schedulers : j # k => dreamer'[j] = dreamer[j]
      /\ since' \in [Schedulers -> Days \cup {NoDay}]
      /\ since'[k] = today /\ \A j \in Schedulers : j # k => since'[j] = since[j]
  BY <1>0, <1>1 DEF DreamRecords
<1>4. /\ dreamt' \in [Days -> Nat]
      /\ \A d \in Days : dreamt'[d] = IF d = since[k] THEN dreamt[d] + 1 ELSE dreamt[d]
  <2>1. dreamt \in [Days -> Nat] /\ dreamt[since[k]] + 1 \in Nat
    BY <1>0, <1>2 DEF DreamRecords
  <2> QED BY <1>1, <2>1
<1>5. DreamRecords'
  <2>1. doubtful' \subseteq Days /\ lockedBy' \in Schedulers \cup {Nobody}
    BY <1>0, <1>2 DEF MarkCompleted, Unlock, DreamRecords
  <2> QED BY <1>0, <1>1, <1>2, <1>3, <1>4, <2>1 DEF DreamRecords
<1>6. TriesAreDated'
  <2>1. SUFFICES ASSUME NEW j \in Schedulers
                 PROVE  /\ dreamer'[j] \in Trying => since'[j] \in Days /\ since'[j] <= today
                        /\ dreamer'[j] \in {"none", "try"} => since'[j] < today
                        /\ j > started => dreamer'[j] = "none"
                        /\ since'[j] <= today
    BY <1>1 DEF TriesAreDated
  <2>2. CASE j # k
    BY <2>2, <1>0, <1>3 DEF TriesAreDated
  <2>3. ~(k > started)
    BY <1>0, <1>1 DEF TriesAreDated, Trying, HoldsDreamLock
  <2>4. CASE j = k
    BY <2>3, <2>4, <1>2, <1>3 DEF Trying, HoldsDreamLock
  <2> QED BY <2>2, <2>4
<1>7. EachDreamsOnce'
  <2>1. SUFFICES ASSUME NEW d \in Days PROVE dreamt'[d] <= Cardinality(Spent(d)')
    BY DEF EachDreamsOnce
  <2>2. PICK old : old = Spent(d)
    OBVIOUS
  <2>3. PICK now : now = Spent(d)'
    OBVIOUS
  <2>4. d \in Nat /\ old \in SUBSET Schedulers /\ now \in SUBSET Schedulers
    BY <2>2, <2>3, DreamNumbers DEF Spent
  <2>5. old \subseteq now
    <3>1. ASSUME NEW j \in old PROVE j \in now
      <4>1. j \in Schedulers /\ since[j] >= d /\ ~(dreamer[j] \in Trying /\ since[j] = d)
        BY <2>2, <3>1 DEF Spent
      <4>2. since'[j] >= d /\ ~(dreamer'[j] \in Trying /\ since'[j] = d)
        <5>1. CASE j # k
          BY <4>1, <5>1, <1>3
        <5>2. CASE j = k
          BY <4>1, <5>2, <1>2, <1>3, <2>4 DEF Trying, HoldsDreamLock
        <5> QED BY <5>1, <5>2
      <4> QED BY <2>3, <4>1, <4>2 DEF Spent
    <3> QED BY <3>1
  <2>6. d = since[k] => k \notin old /\ k \in now
    <3>1. "asleep" \notin Trying
      BY DEF Trying, HoldsDreamLock
    <3> QED BY <2>2, <2>3, <3>1, <1>1, <1>2, <1>3 DEF Spent
  <2>7. /\ IsFiniteSet(old) /\ Cardinality(old) \in Nat /\ IsFiniteSet(now)
        /\ Cardinality(now) \in Nat
    BY <2>4, SpentBounded, DreamNumbers
  <2>8. Cardinality(old) <= Cardinality(now)
    BY <2>5, <2>7, FS_Subset
  <2>9. d = since[k] => Cardinality(old) + 1 <= Cardinality(now)
    <3>1. SUFFICES ASSUME d = since[k] PROVE Cardinality(old) + 1 <= Cardinality(now)
      OBVIOUS
    <3>2. Cardinality(old \cup {k}) = Cardinality(old) + 1
      BY <2>6, <2>7, <3>1, FS_AddElement
    <3>3. old \cup {k} \in SUBSET now
      BY <2>5, <2>6, <3>1
    <3>4. Cardinality(old \cup {k}) <= Cardinality(now)
      BY <2>7, <3>3, FS_Subset
    <3> QED BY <3>2, <3>4
  <2>10. dreamt[d] \in Nat /\ dreamt[d] <= Cardinality(old)
    BY <1>0, <2>2 DEF DreamTypeInv, DreamRecords, EachDreamsOnce
  <2> QED BY <1>4, <2>3, <2>7, <2>8, <2>9, <2>10
<1> QED BY <1>5, <1>6, <1>7 DEF DreamTypeInv

\* Reloads, restarts, time and the first memory.
LEMMA DreamWorldTyped ==
  ASSUME DreamTypeInv, Reload \/ Kill \/ Midnight \/ Remember \/ UNCHANGED dreamVars
  PROVE  DreamTypeInv'
<1>0. DreamRecords /\ TriesAreDated
  BY DEF DreamTypeInv
<1>1. started \in Nat /\ today \in Nat /\ \A k \in Schedulers : since[k] \in Nat /\ k \in Nat
  BY <1>0, DreamNumbers DEF DreamRecords
<1>2. UNCHANGED <<since, loaded, dreamFile, dreamt, doubtful>> /\ today' \in Days
      /\ today' \in Nat /\ today <= today'
  BY <1>0, <1>1, DreamNumbers DEF Reload, Kill, Midnight, Remember, dreamVars, historyVars, DreamRecords
<1>3. /\ \A k \in Schedulers : dreamer'[k] \in Trying => dreamer[k] \in Trying
      /\ \A k \in Schedulers : dreamer'[k] \in {"none", "try"} => dreamer[k] \in {"none", "try"}
      /\ \A k \in Schedulers : k > started' => dreamer'[k] = "none"
      /\ dreamer' \in [Schedulers -> {"none", "try", "asleep", "stopped"} \cup Trying]
      /\ started' \in Schedulers
  <2>1. CASE Reload
    <3>1. started' = started + 1 /\ started' \in Schedulers
      BY <2>1, <1>0, DreamNumbers DEF Reload, DreamRecords
    <3>2. PICK at \in {"try", "stopped"} : dreamer' = [dreamer EXCEPT ![started'] = at]
      BY <2>1 DEF Reload, BeginTrying
    <3>3. dreamer[started'] = "none"
      BY <1>0, <1>1, <3>1 DEF TriesAreDated
    <3>4. /\ dreamer'[started'] = at /\ \A j \in Schedulers : j # started' => dreamer'[j] = dreamer[j]
          /\ dreamer' \in [Schedulers -> {"none", "try", "asleep", "stopped"} \cup Trying]
      BY <1>0, <3>1, <3>2 DEF DreamRecords
    <3>5. \A k \in Schedulers : k > started' => dreamer'[k] = "none"
      BY <1>0, <1>1, <3>1, <3>4 DEF TriesAreDated
    <3> QED BY <3>1, <3>3, <3>4, <3>5 DEF Trying, HoldsDreamLock
  <2>2. CASE Kill
    <3>1. started' = started + 1 /\ started' \in Schedulers
      BY <2>2, <1>0, DreamNumbers DEF Kill, DreamRecords
    <3>2. \A k \in Schedulers :
            dreamer'[k] = IF k <= started THEN "stopped" ELSE IF k = started' THEN "try" ELSE "none"
      BY <2>2, <1>1, <3>1 DEF Kill
    <3>3. \A k \in Schedulers : ~(k <= started) => dreamer[k] = "none"
      BY <1>0, <1>1 DEF TriesAreDated
    <3>4. dreamer' \in [Schedulers -> {"none", "try", "asleep", "stopped"} \cup Trying]
      BY <2>2, <1>1, <3>1 DEF Kill
    <3>5. \A k \in Schedulers : k > started' => dreamer'[k] = "none"
      BY <1>1, <3>1, <3>2
    <3> QED BY <3>1, <3>2, <3>3, <3>4, <3>5 DEF Trying, HoldsDreamLock
  <2>3. CASE Midnight \/ Remember \/ UNCHANGED dreamVars
    BY <2>3, <1>0 DEF Midnight, Remember, dreamVars, DreamRecords, TriesAreDated
  <2> QED BY <2>1, <2>2, <2>3
<1>4. DreamRecords'
  <2>0. /\ material \in BOOLEAN /\ lockedBy \in Schedulers \cup {Nobody}
        /\ quitting \in [Schedulers -> BOOLEAN] /\ kills \in 0..MaxKills
    BY <1>0 DEF DreamRecords
  <2>1. lockedBy' \in {lockedBy, Nobody} /\ (kills' = kills \/ (kills < MaxKills /\ kills' = kills + 1))
    <3>1. CASE Reload
      BY <3>1 DEF Reload
    <3>2. CASE Kill
      BY <3>2 DEF Kill
    <3>3. CASE Midnight \/ Remember \/ UNCHANGED dreamVars
      BY <3>3 DEF Midnight, Remember, dreamVars
    <3> QED BY <3>1, <3>2, <3>3
  <2>2. quitting' \in [Schedulers -> BOOLEAN]
    <3>1. CASE Reload
      BY <3>1, <2>0 DEF Reload
    <3>2. CASE Kill \/ Midnight \/ Remember \/ UNCHANGED dreamVars
      BY <3>2, <2>0 DEF Kill, Midnight, Remember, dreamVars
    <3> QED BY <3>1, <3>2
  <2>3. material' \in BOOLEAN /\ lockedBy' \in Schedulers \cup {Nobody}
    <3>1. CASE Remember
      BY <3>1, <2>0, <2>1 DEF Remember
    <3>2. CASE Reload \/ Kill \/ Midnight \/ UNCHANGED dreamVars
      <4>1. material' = material
        BY <3>2, Zenon DEF Reload, Kill, Midnight, dreamVars
      <4> QED BY <4>1, <2>0, <2>1
    <3> QED BY <3>1, <3>2
  <2>4. kills' \in 0..MaxKills
    BY <2>0, <2>1, DreamNumbers
  <2> QED BY <1>0, <1>2, <1>3, <2>2, <2>3, <2>4 DEF DreamRecords
<1>5. TriesAreDated'
  BY <1>0, <1>1, <1>2, <1>3 DEF TriesAreDated
<1>6. EachDreamsOnce'
  BY <1>2, <1>3, SpentStays
<1> QED BY <1>4, <1>5, <1>6 DEF DreamTypeInv

LEMMA DreamTypeStarts == DreamInit => DreamTypeInv
<1>1. SUFFICES ASSUME DreamInit PROVE DreamTypeInv
  OBVIOUS
<1>2. DreamRecords
  BY <1>1, DreamNumbers DEF DreamInit, DreamRecords
<1>3. TriesAreDated
  BY <1>1, DreamNumbers DEF DreamInit, TriesAreDated, Trying, HoldsDreamLock
<1>4. EachDreamsOnce
  <2>1. SUFFICES ASSUME NEW d \in Days PROVE dreamt[d] <= Cardinality(Spent(d))
    BY DEF EachDreamsOnce
  <2>2. dreamt[d] = 0
    BY <1>1 DEF DreamInit
  <2>3. Spent(d) \in SUBSET Schedulers
    BY DEF Spent
  <2>4. Cardinality(Spent(d)) \in 0..MaxSchedulers
    BY <2>3, SpentBounded
  <2> QED BY <2>2, <2>4, DreamNumbers
<1> QED BY <1>2, <1>3, <1>4 DEF DreamTypeInv

LEMMA DreamTypeKept == DreamTypeInv /\ [DreamNext]_dreamVars => DreamTypeInv'
BY DreamStepTyped, CompletedTyped, DreamWorldTyped DEF DreamNext

\* Every variable of the dream keeps its type, for any days, schedulers and
\* crashes: a date is dreamt of by each scheduler once at most, because one that
\* has tried sleeps to the next midnight (run_if_due, next_run_after).
THEOREM DreamTypeCorrect == DreamSpec => []DreamTypeOK
BY DreamTypeStarts, DreamTypeKept, DreamInvTypes, PTL DEF DreamSpec

-----------------------------------------------------------------------------
(***************************************************************************)
(* SessionLock                                                             *)
(***************************************************************************)

OpenerPositions == Holding \cup {"out", "open", "lock", "read", "probe", "remove", "reopen", "relock"}
OpenerRecords ==
  [at : OpenerPositions, fd : LockFiles \cup {NoLockFile}, read : Pids,
   wrote : BOOLEAN, saw : SUBSET Openers, unseen : BOOLEAN]

\* A file has one holder, for its lock is had.
OneHolderPerFile ==
  \A o, q \in Openers :
    o # q /\ opener[o].at \in Holding /\ opener[q].at \in Holding => opener[o].fd # opener[q].fd

\* What is so of an opener that is at r, when pids, the file of the name and the
\* processes that have ended are these.
\* It has a file open while it tries to lock it, and holds it.
OpenWhenHeld(r) == r.fd # NoLockFile <=> r.at \in Holding \cup {"lock", "relock"}
\* What it has written stays in its file.
PidStays(r, p, pids) == r.wrote => r.at \in {"owner", "closing"} /\ pids[r.fd] = p
\* The owners it saw are those whose pid it read, and it removes the file when they are gone.
SawThatPid(r) == r.at = "probe" => \A q \in r.saw : Pid(q) = r.read
SawTheDead(r, gone) == r.at = "remove" => \A q \in r.saw : Pid(q) \in gone
\* A process that has ended has nothing open.
OutWhenDeparted(r, p, gone) == p \in gone => r.at = "out"
\* The file it has open is the one of the name, or was removed by one that had not seen it.
StruckUnseen(r, name) == r.fd \notin {NoLockFile, name} => r.unseen

OpenerSound(o, r, pids, gone, name) ==
  /\ OpenWhenHeld(r) /\ PidStays(r, Pid(o), pids)
  /\ SawThatPid(r) /\ SawTheDead(r, gone)
  /\ OutWhenDeparted(r, Pid(o), gone) /\ StruckUnseen(r, name)

SessionLockInv ==
  /\ LockTypeOK
  /\ OneHolderPerFile
  /\ \A o \in Openers : OpenerSound(o, opener[o], pid, departed, lockFile)

-----------------------------------------------------------------------------
LEMMA OpenerFacts ==
  /\ \A o \in Openers : Pid(o) \in Processes
  /\ \A p \in Processes : p \in Pids
  /\ NoLockFile \notin LockFiles
  /\ LeftOver \in LockFiles
  /\ 0 \in 0..MaxOpens /\ 0 \in 0..MaxMishaps
<1>1. MaxOpens \in Nat /\ MaxMishaps \in Nat
  BY LockBoundsAssumption
<1>2. MaxFiles \in Nat /\ MaxFiles >= 1
  BY <1>1 DEF MaxFiles
<1>3. LeftOver \in LockFiles /\ NoLockFile \notin LockFiles
  BY <1>2 DEF LockFiles, LeftOver, NoLockFile
<1>4. \A o \in Openers : Pid(o) \in Processes
  BY DEF Openers, Pid
<1>5. \A p \in Processes : p \in Pids
  BY DEF Pids
<1>6. 0 \in 0..MaxOpens /\ 0 \in 0..MaxMishaps
  BY <1>1
<1>7. QED
  BY <1>3, <1>4, <1>5, <1>6

LEMMA OpenerTyped ==
  ASSUME LockTypeOK, NEW o \in Openers
  PROVE  opener[o] \in OpenerRecords
BY DEF LockTypeOK, OpenerRecords, OpenerPositions

\* Two owners have two files open, and only one of them can be the file of the name.
LEMMA SessionLockInvIsEnough == SessionLockInv => SharedOnlyUnseen
<1>1. SUFFICES ASSUME SessionLockInv, NEW o \in Owners, NEW q \in Owners, o # q
               PROVE  opener[o].unseen \/ opener[q].unseen
  BY DEF SharedOnlyUnseen
<1>2. o \in Openers /\ q \in Openers /\ opener[o].at \in Holding /\ opener[q].at \in Holding
  BY DEF Owners, Holding
<1>3. opener[o].fd # opener[q].fd
  BY <1>1, <1>2 DEF SessionLockInv, OneHolderPerFile
<1>4. opener[o].fd # NoLockFile /\ opener[q].fd # NoLockFile
  BY <1>1, <1>2 DEF SessionLockInv, OpenerSound, OpenWhenHeld
<1>5. QED
  BY <1>1, <1>2, <1>3, <1>4 DEF SessionLockInv, OpenerSound, StruckUnseen

\* A step of one opener: what the others know stays sound when no pid is written
\* to a file they hold, and the name of the file does not go.
LEMMA OneOpenerMoves ==
  ASSUME SessionLockInv, NEW o \in Openers, NEW r \in OpenerRecords,
         opener' = [opener EXCEPT ![o] = r],
         departed' = departed,
         lockFile' = lockFile \/ lockFile = NoLockFile,
         lockFile' \in LockFiles \cup {NoLockFile},
         pid' \in [LockFiles -> Pids],
         \/ pid' = pid
         \/ /\ opener[o].at \in Holding
            /\ \A f \in LockFiles : f # opener[o].fd => pid'[f] = pid[f],
         reserved' \subseteq Processes,
         filesMade' \in LockFiles, opens' \in 0..MaxOpens, mishaps' \in 0..MaxMishaps,
         OpenerSound(o, r, pid', departed, lockFile'),
         r.at \in Holding => \A q \in Openers : q # o /\ opener[q].at \in Holding => opener[q].fd # r.fd
  PROVE  SessionLockInv'
<1>1. /\ opener' \in [Openers -> OpenerRecords]
      /\ opener'[o] = r /\ \A q \in Openers : q # o => opener'[q] = opener[q]
  <2>1. opener \in [Openers -> OpenerRecords]
    BY DEF SessionLockInv, LockTypeOK, OpenerRecords, OpenerPositions
  <2>2. QED
    BY <2>1
<1>2. LockTypeOK'
  BY <1>1 DEF SessionLockInv, LockTypeOK, OpenerRecords, OpenerPositions
<1>3. OneHolderPerFile'
  BY <1>1 DEF SessionLockInv, OneHolderPerFile
<1>4. ASSUME NEW q \in Openers
      PROVE  OpenerSound(q, opener[q], pid, departed, lockFile)'
  <2>1. CASE q = o
    BY <1>1, <2>1 DEF OpenerSound, OpenWhenHeld, PidStays, SawThatPid, SawTheDead, OutWhenDeparted, StruckUnseen
  <2>2. CASE q # o
    <3>1. opener'[q] = opener[q] /\ OpenerSound(q, opener[q], pid, departed, lockFile)
          /\ opener[q] \in OpenerRecords
      BY <1>1, <2>2, OpenerTyped DEF SessionLockInv
    <3>2. PidStays(opener[q], Pid(q), pid')
      <4>1. SUFFICES ASSUME opener[q].wrote
                     PROVE  pid'[opener[q].fd] = pid[opener[q].fd]
        BY <3>1 DEF OpenerSound, PidStays
      <4>2. opener[q].at \in Holding /\ opener[q].fd \in LockFiles
        BY <3>1, <4>1 DEF OpenerSound, PidStays, OpenWhenHeld, Holding, OpenerRecords
      <4>3. opener[o].at \in Holding => opener[o].fd # opener[q].fd
        BY <2>2, <4>2 DEF SessionLockInv, OneHolderPerFile
      <4>4. QED
        BY <4>2, <4>3
    <3>3. StruckUnseen(opener[q], lockFile')
      BY <3>1 DEF OpenerSound, StruckUnseen
    <3>4. OpenerSound(q, opener[q], pid', departed', lockFile')
      BY <3>1, <3>2, <3>3 DEF OpenerSound
    <3>5. QED
      BY <3>1, <3>4 DEF OpenerSound, OpenWhenHeld, PidStays, SawThatPid, SawTheDead, OutWhenDeparted, StruckUnseen
  <2>3. QED
    BY <2>1, <2>2
<1>5. QED
  BY <1>2, <1>3, <1>4 DEF SessionLockInv

-----------------------------------------------------------------------------
LEMMA SessionLockInitInv == LockInit => SessionLockInv
<1>1. SUFFICES ASSUME LockInit PROVE SessionLockInv
  OBVIOUS
<1>2. Out \in OpenerRecords /\ \A o \in Openers : opener[o] = Out
  BY <1>1 DEF LockInit, Out, OpenerRecords, OpenerPositions, Pids
<1>3. LockTypeOK
  <2>1. opener \in [Openers -> OpenerRecords]
    BY <1>1, <1>2 DEF LockInit
  <2>2. pid \in [LockFiles -> Pids] /\ lockFile \in LockFiles \cup {NoLockFile} /\ filesMade \in LockFiles
    BY <1>1, OpenerFacts DEF LockInit, Pids
  <2>3. opens \in 0..MaxOpens /\ mishaps \in 0..MaxMishaps
    BY <1>1, OpenerFacts DEF LockInit
  <2>4. QED
    BY <1>1, <2>1, <2>2, <2>3 DEF LockInit, LockTypeOK, OpenerRecords, OpenerPositions
<1>4. OneHolderPerFile
  BY <1>2 DEF OneHolderPerFile, Out, Holding
<1>5. \A o \in Openers : OpenerSound(o, Out, pid, departed, lockFile)
  BY DEF OpenerSound, Out, Holding, OpenWhenHeld, PidStays, SawThatPid, SawTheDead, OutWhenDeparted, StruckUnseen
<1>6. QED
  BY <1>2, <1>3, <1>4, <1>5 DEF SessionLockInv

\* acquire that fails, and the file that is closed: the opener is out of it.
LEMMA OpenerGoesOut ==
  ASSUME SessionLockInv, NEW o \in Openers, opener' = [opener EXCEPT ![o] = Out],
         reserved' \subseteq Processes, mishaps' \in 0..MaxMishaps,
         UNCHANGED <<lockFile, pid, departed, filesMade, opens>>
  PROVE  SessionLockInv'
<1>1. Out \in OpenerRecords /\ Out.at \notin Holding
  BY DEF Out, OpenerRecords, OpenerPositions, Pids, Holding
<1>2. OpenerSound(o, Out, pid, departed, lockFile)
  BY DEF OpenerSound, Out, Holding, OpenWhenHeld, PidStays, SawThatPid, SawTheDead, OutWhenDeparted, StruckUnseen
<1>3. QED
  BY <1>1, <1>2, OneOpenerMoves DEF SessionLockInv, LockTypeOK

\* An opener that changes its position only, the file being the same.
LEMMA OpenerMoves ==
  ASSUME SessionLockInv, NEW o \in Openers, NEW at \in OpenerPositions,
         at \notin {"probe", "remove"}, at # "out",
         Pid(o) \notin departed,
         opener[o].wrote => at \in {"owner", "closing"},
         opener[o].fd # NoLockFile <=> at \in Holding \cup {"lock", "relock"},
         opener' = [opener EXCEPT ![o].at = at],
         \/ pid' = pid
         \/ /\ opener[o].at \in Holding /\ ~opener[o].wrote
            /\ \E p \in Pids : pid' = [pid EXCEPT ![opener[o].fd] = p],
         at \in Holding =>
           opener[o].at \in Holding \/ Holders(opener[o].fd) = {},
         reserved' \subseteq Processes, opens' \in 0..MaxOpens, mishaps' \in 0..MaxMishaps,
         UNCHANGED <<lockFile, departed, filesMade>>
  PROVE  SessionLockInv'
<1> DEFINE r == [opener[o] EXCEPT !.at = at]
<1>1. opener[o] \in OpenerRecords /\ OpenerSound(o, opener[o], pid, departed, lockFile)
  BY OpenerTyped DEF SessionLockInv
<1>2. r \in OpenerRecords /\ r.at = at /\ r.fd = opener[o].fd /\ r.wrote = opener[o].wrote
      /\ r.unseen = opener[o].unseen
  BY <1>1 DEF OpenerRecords
<1>3. opener' = [opener EXCEPT ![o] = r]
  BY DEF SessionLockInv, LockTypeOK
<1>4. pid' \in [LockFiles -> Pids] /\ \A f \in LockFiles : f # opener[o].fd => pid'[f] = pid[f]
  BY DEF SessionLockInv, LockTypeOK
<1>5. at \in Holding => \A q \in Openers : q # o /\ opener[q].at \in Holding => opener[q].fd # opener[o].fd
  BY DEF SessionLockInv, OneHolderPerFile, Holders
<1>6. OpenerSound(o, r, pid', departed, lockFile)
  BY <1>1, <1>2 DEF OpenerSound, OpenWhenHeld, PidStays, SawThatPid, SawTheDead, OutWhenDeparted, StruckUnseen
<1>7. QED
  <2> HIDE DEF r
  <2>1. pid' = pid \/ opener[o].at \in Holding
    OBVIOUS
  <2>2. QED
    BY <1>2, <1>3, <1>4, <1>5, <1>6, <2>1, OneOpenerMoves DEF SessionLockInv, LockTypeOK

LEMMA OpenerPresent ==
  ASSUME SessionLockInv, NEW o \in Openers, opener[o].at # "out"
  PROVE  Pid(o) \notin departed
BY DEF SessionLockInv, OpenerSound, OutWhenDeparted

LEMMA ReserveInv ==
  ASSUME SessionLockInv, NEW o \in Openers, Reserve(o)
  PROVE  SessionLockInv'
<1>1. opens' \in 0..MaxOpens /\ UNCHANGED <<lockFile, pid, departed, filesMade, mishaps>>
      /\ opener[o].at = "out" /\ Pid(o) \notin departed
  BY LockBoundsAssumption DEF Reserve, SessionLockInv, LockTypeOK
<1>2. CASE Pid(o) \in reserved
  BY <1>1, <1>2 DEF Reserve, SessionLockInv, LockTypeOK, OneHolderPerFile, OpenerSound, OpenWhenHeld, PidStays,
                    SawThatPid, SawTheDead, OutWhenDeparted, StruckUnseen
<1>3. CASE Pid(o) \notin reserved
  <2>1. opener' = [opener EXCEPT ![o].at = "open"] /\ reserved' = reserved \cup {Pid(o)}
    BY <1>3 DEF Reserve, To
  <2>2. reserved' \subseteq Processes /\ mishaps' \in 0..MaxMishaps
    BY <1>1, <2>1, OpenerFacts DEF SessionLockInv, LockTypeOK
  <2>3. ~opener[o].wrote /\ opener[o].fd = NoLockFile
    BY <1>1 DEF SessionLockInv, OpenerSound, PidStays, OpenWhenHeld, Holding
  <2>4. "open" \in OpenerPositions /\ "open" \notin Holding
    BY DEF OpenerPositions, Holding
  <2>5. QED
    BY <1>1, <2>1, <2>2, <2>3, <2>4, OpenerMoves
<1>4. QED
  BY <1>2, <1>3

\* The file that is opened is the one of the name, so nobody removed it.
LEMMA OpenLockFileInv ==
  ASSUME SessionLockInv, NEW o \in Openers, OpenLockFile(o)
  PROVE  SessionLockInv'
<1> DEFINE at == IF opener[o].at = "open" THEN "lock" ELSE "relock"
           r == [opener[o] EXCEPT !.fd = lockFile', !.at = at]
<1>1. /\ opener[o].at \in {"open", "reopen"}
      /\ UNCHANGED <<reserved, departed, opens, mishaps>> /\ pid' = pid
  BY DEF OpenLockFile, PidsOnceOpen
<1>2. lockFile' \in LockFiles /\ filesMade' \in LockFiles /\ (lockFile' = lockFile \/ lockFile = NoLockFile)
  BY LockBoundsAssumption DEF OpenLockFile, SessionLockInv, LockTypeOK, LockFiles, MaxFiles, LeftOver
<1>3. opener[o] \in OpenerRecords /\ OpenerSound(o, opener[o], pid, departed, lockFile)
  BY OpenerTyped DEF SessionLockInv
<1>4. r \in OpenerRecords /\ r.at \in {"lock", "relock"} /\ r.fd = lockFile'
      /\ r.wrote = opener[o].wrote
  BY <1>2, <1>3 DEF OpenerRecords, OpenerPositions
<1>5. opener' = [opener EXCEPT ![o] = r]
  BY DEF OpenLockFile, SessionLockInv, LockTypeOK
<1>6. OpenerSound(o, r, pid, departed, lockFile')
  BY <1>1, <1>2, <1>3, <1>4, OpenerFacts
     DEF OpenerSound, OpenWhenHeld, PidStays, SawThatPid, SawTheDead, OutWhenDeparted, StruckUnseen, Holding
<1>7. r.at \notin Holding
  BY <1>4 DEF Holding
<1>8. QED
  <2> HIDE DEF r
  <2>1. QED
    BY <1>1, <1>2, <1>4, <1>5, <1>6, <1>7, OneOpenerMoves DEF SessionLockInv, LockTypeOK

LEMMA TryLockInv ==
  ASSUME SessionLockInv, NEW o \in Openers, TryLock(o)
  PROVE  SessionLockInv'
<1>1. opener[o].at \in {"lock", "relock"} /\ UNCHANGED <<lockFile, pid, departed, filesMade, opens, mishaps>>
  BY DEF TryLock, lockCounters
<1>2. opener[o] \in OpenerRecords /\ OpenerSound(o, opener[o], pid, departed, lockFile)
  BY OpenerTyped DEF SessionLockInv
<1>3. Pid(o) \notin departed /\ ~opener[o].wrote /\ opener[o].fd # NoLockFile
  BY <1>1, <1>2, OpenerPresent DEF OpenerSound, PidStays, OpenWhenHeld
<1>4. CASE Holders(opener[o].fd) = {} /\ To(o, "truncate") /\ UNCHANGED reserved
  <2>1. "truncate" \in OpenerPositions /\ "truncate" \in Holding
    BY DEF OpenerPositions, Holding
  <2>2. opener' = [opener EXCEPT ![o].at = "truncate"]
    BY <1>4 DEF To
  <2>3. QED
    BY <1>1, <1>3, <1>4, <2>1, <2>2, OpenerMoves DEF SessionLockInv, LockTypeOK
<1>5. CASE opener' = [opener EXCEPT ![o].at = "read", ![o].fd = NoLockFile, ![o].unseen = FALSE] /\ UNCHANGED reserved
  <2> DEFINE r == [opener[o] EXCEPT !.at = "read", !.fd = NoLockFile, !.unseen = FALSE]
  <2>1. r \in OpenerRecords /\ r.at = "read" /\ r.fd = NoLockFile /\ r.wrote = opener[o].wrote
    BY <1>2 DEF OpenerRecords, OpenerPositions
  <2>2. opener' = [opener EXCEPT ![o] = r]
    BY <1>5 DEF SessionLockInv, LockTypeOK
  <2>3. OpenerSound(o, r, pid, departed, lockFile) /\ r.at \notin Holding
    BY <1>1, <1>3, <2>1
       DEF OpenerSound, OpenWhenHeld, PidStays, SawThatPid, SawTheDead, OutWhenDeparted, StruckUnseen, Holding
  <2>4. QED
    <3> HIDE DEF r
    <3>1. QED
      BY <1>1, <1>5, <2>1, <2>2, <2>3, OneOpenerMoves DEF SessionLockInv, LockTypeOK
<1>6. CASE AcquireFails(o)
  BY <1>1, <1>6, OpenerGoesOut DEF AcquireFails, SessionLockInv, LockTypeOK
<1>7. QED
  BY <1>4, <1>5, <1>6 DEF TryLock

LEMMA EmptyFileInv ==
  ASSUME SessionLockInv, NEW o \in Openers, EmptyFile(o)
  PROVE  SessionLockInv'
<1>1. /\ opener[o].at = "truncate" /\ opener' = [opener EXCEPT ![o].at = "write"]
      /\ pid' = [pid EXCEPT ![opener[o].fd] = "unwritten"] /\ "unwritten" \in Pids
      /\ UNCHANGED <<lockFile, reserved, departed, filesMade, opens, mishaps>>
  BY DEF EmptyFile, To, lockCounters, Pids
<1>2. Pid(o) \notin departed /\ ~opener[o].wrote /\ opener[o].fd # NoLockFile
  BY <1>1, OpenerPresent DEF SessionLockInv, OpenerSound, PidStays, OpenWhenHeld, Holding
<1>3. {"truncate", "write"} \subseteq Holding /\ "write" \in OpenerPositions
  BY DEF OpenerPositions, Holding
<1>4. QED
  BY <1>1, <1>2, <1>3, OpenerMoves DEF SessionLockInv, LockTypeOK

LEMMA WritePidInv ==
  ASSUME SessionLockInv, NEW o \in Openers, WritePid(o)
  PROVE  SessionLockInv'
<1>1. opener[o].at = "write" /\ UNCHANGED <<lockFile, reserved, departed, filesMade, opens>>
  BY DEF WritePid
<1>2. opener[o] \in OpenerRecords /\ OpenerSound(o, opener[o], pid, departed, lockFile)
  BY OpenerTyped DEF SessionLockInv
<1>3. Pid(o) \notin departed /\ ~opener[o].wrote /\ opener[o].fd # NoLockFile
  BY <1>1, <1>2, OpenerPresent DEF OpenerSound, PidStays, OpenWhenHeld, Holding
<1>4. {"write", "owner"} \subseteq Holding /\ "owner" \in OpenerPositions
  BY DEF OpenerPositions, Holding
<1>5. CASE /\ pid' = [pid EXCEPT ![opener[o].fd] = Pid(o)] /\ UNCHANGED mishaps
           /\ opener' = [opener EXCEPT ![o].at = "owner", ![o].wrote = TRUE]
  <2> DEFINE r == [opener[o] EXCEPT !.at = "owner", !.wrote = TRUE]
  <2>1. r \in OpenerRecords /\ r.at = "owner" /\ r.fd = opener[o].fd /\ r.wrote /\ r.unseen = opener[o].unseen
    BY <1>2 DEF OpenerRecords, OpenerPositions, Holding
  <2>2. opener' = [opener EXCEPT ![o] = r]
    BY <1>5 DEF SessionLockInv, LockTypeOK
  <2>3. /\ pid' \in [LockFiles -> Pids] /\ opener[o].fd \in LockFiles /\ pid'[opener[o].fd] = Pid(o)
        /\ \A f \in LockFiles : f # opener[o].fd => pid'[f] = pid[f]
    BY <1>2, <1>3, <1>5, OpenerFacts DEF SessionLockInv, LockTypeOK, OpenerRecords
  <2>4. OpenerSound(o, r, pid', departed, lockFile)
    BY <1>2, <1>3, <1>4, <2>1, <2>3
       DEF OpenerSound, OpenWhenHeld, PidStays, SawThatPid, SawTheDead, OutWhenDeparted, StruckUnseen
  <2>5. \A q \in Openers : q # o /\ opener[q].at \in Holding => opener[q].fd # r.fd
    BY <1>1, <1>4, <2>1 DEF SessionLockInv, OneHolderPerFile
  <2>6. QED
    <3> HIDE DEF r
    <3>1. QED
      BY <1>1, <1>4, <1>5, <2>1, <2>2, <2>3, <2>4, <2>5, OneOpenerMoves DEF SessionLockInv, LockTypeOK
<1>6. CASE Mishap /\ To(o, "owner") /\ UNCHANGED pid
  <2>1. opener' = [opener EXCEPT ![o].at = "owner"] /\ mishaps' \in 0..MaxMishaps
    BY <1>6, LockBoundsAssumption DEF To, Mishap, SessionLockInv, LockTypeOK
  <2>2. QED
    BY <1>1, <1>3, <1>4, <1>6, <2>1, OpenerMoves DEF SessionLockInv, LockTypeOK
<1>7. QED
  BY <1>5, <1>6 DEF WritePid

-----------------------------------------------------------------------------
\* Who had written its pid when the file was read is who the file names.
LEMMA ReadPidInv ==
  ASSUME SessionLockInv, NEW o \in Openers, ReadPid(o)
  PROVE  SessionLockInv'
<1> DEFINE found == IF lockFile = NoLockFile THEN "unwritten" ELSE pid[lockFile]
           at == IF found = "unwritten" THEN "remove" ELSE "probe"
           saw == {q \in Holders(lockFile) : opener[q].wrote}
           r == [opener[o] EXCEPT !.at = at, !.read = found, !.saw = saw]
<1>1. opener[o].at = "read" /\ UNCHANGED <<lockFile, pid, reserved, departed, filesMade, opens, mishaps>>
  BY DEF ReadPid, lockCounters
<1>2. opener[o] \in OpenerRecords /\ OpenerSound(o, opener[o], pid, departed, lockFile)
  BY OpenerTyped DEF SessionLockInv
<1>3. Pid(o) \notin departed /\ ~opener[o].wrote /\ opener[o].fd = NoLockFile
  BY <1>1, <1>2, OpenerPresent DEF OpenerSound, PidStays, OpenWhenHeld, Holding
<1>4. found \in Pids /\ saw \subseteq Openers
  BY DEF SessionLockInv, LockTypeOK, Holders, Pids
<1>5. /\ r \in OpenerRecords /\ r.at = at /\ r.fd = NoLockFile /\ ~r.wrote
      /\ r.read = found /\ r.saw = saw
  BY <1>2, <1>3, <1>4 DEF OpenerRecords, OpenerPositions
<1>6. opener' = [opener EXCEPT ![o] = r]
  BY DEF ReadPid, SessionLockInv, LockTypeOK
<1>7. \A q \in saw : Pid(q) = found
  <2>1. SUFFICES ASSUME NEW q \in saw PROVE Pid(q) = found
    OBVIOUS
  <2>2. q \in Openers /\ opener[q].fd = lockFile /\ opener[q].at \in Holding /\ opener[q].wrote
    BY DEF Holders
  <2>3. opener[q].fd # NoLockFile /\ pid[opener[q].fd] = Pid(q)
    BY <2>2 DEF SessionLockInv, OpenerSound, PidStays, OpenWhenHeld
  <2>4. QED
    BY <2>2, <2>3
<1>8. found = "unwritten" => saw = {}
  BY <1>4, <1>7, OpenerFacts, PidsAssumption
<1>9. OpenerSound(o, r, pid, departed, lockFile) /\ r.at \notin Holding
  <2> HIDE DEF r, saw, found
  <2>1. QED
    BY <1>3, <1>5, <1>7, <1>8
       DEF OpenerSound, OpenWhenHeld, PidStays, SawThatPid, SawTheDead, OutWhenDeparted, StruckUnseen, Holding
<1>10. QED
  <2> HIDE DEF r
  <2>1. QED
    BY <1>1, <1>5, <1>6, <1>9, OneOpenerMoves DEF SessionLockInv, LockTypeOK

\* The pid that is found dead is the pid of everybody it saw.
LEMMA ProbeInv ==
  ASSUME SessionLockInv, NEW o \in Openers, Probe(o)
  PROVE  SessionLockInv'
<1>1. opener[o].at = "probe" /\ UNCHANGED <<lockFile, pid, departed, filesMade, opens>>
  BY DEF Probe
<1>2. opener[o] \in OpenerRecords /\ OpenerSound(o, opener[o], pid, departed, lockFile)
  BY OpenerTyped DEF SessionLockInv
<1>3. Pid(o) \notin departed /\ ~opener[o].wrote /\ opener[o].fd = NoLockFile
  BY <1>1, <1>2, OpenerPresent DEF OpenerSound, PidStays, OpenWhenHeld, Holding
<1>4. CASE AcquireFails(o) /\ UNCHANGED mishaps
  BY <1>1, <1>4, OpenerGoesOut DEF AcquireFails, SessionLockInv, LockTypeOK
<1>5. ASSUME NEW saw \in SUBSET Openers, \A q \in saw : Pid(q) \in departed,
             opener' = [opener EXCEPT ![o].at = "remove", ![o].saw = saw],
             UNCHANGED reserved, mishaps' \in 0..MaxMishaps
      PROVE  SessionLockInv'
  <2> DEFINE r == [opener[o] EXCEPT !.at = "remove", !.saw = saw]
  <2>1. r \in OpenerRecords /\ r.at = "remove" /\ r.fd = NoLockFile /\ ~r.wrote /\ r.saw = saw
    BY <1>2, <1>3 DEF OpenerRecords, OpenerPositions
  <2>2. opener' = [opener EXCEPT ![o] = r]
    BY <1>5 DEF SessionLockInv, LockTypeOK
  <2>3. OpenerSound(o, r, pid, departed, lockFile) /\ r.at \notin Holding
    <3> HIDE DEF r
    <3>1. QED
      BY <1>3, <1>5, <2>1
         DEF OpenerSound, OpenWhenHeld, PidStays, SawThatPid, SawTheDead, OutWhenDeparted, StruckUnseen, Holding
  <2>4. QED
    <3> HIDE DEF r
    <3>1. QED
      BY <1>1, <1>5, <2>1, <2>2, <2>3, OneOpenerMoves DEF SessionLockInv, LockTypeOK
<1>6. CASE /\ opener[o].read \in departed \cup {"dead pid"}
           /\ To(o, "remove") /\ UNCHANGED <<reserved, mishaps>>
  <2>1. opener[o].saw \in SUBSET Openers /\ \A q \in opener[o].saw : Pid(q) = opener[o].read
    BY <1>1, <1>2 DEF OpenerSound, SawThatPid, OpenerRecords
  <2>2. \A q \in opener[o].saw : Pid(q) \in departed
    BY <1>6, <2>1, OpenerFacts, PidsAssumption
  <2>3. opener' = [opener EXCEPT ![o].at = "remove", ![o].saw = opener[o].saw]
    BY <1>2, <1>6 DEF To, SessionLockInv, LockTypeOK
  <2>4. QED
    BY <1>5, <1>6, <2>1, <2>2, <2>3 DEF SessionLockInv, LockTypeOK
<1>7. CASE /\ Mishap /\ UNCHANGED reserved
           /\ opener' = [opener EXCEPT ![o].at = "remove", ![o].saw = {}]
  <2>1. mishaps' \in 0..MaxMishaps
    BY <1>7, LockBoundsAssumption DEF Mishap, SessionLockInv, LockTypeOK
  <2>2. {} \in SUBSET Openers /\ \A q \in {} : Pid(q) \in departed
    OBVIOUS
  <2>3. QED
    BY <1>5, <1>7, <2>1, <2>2
<1>8. QED
  BY <1>4, <1>6, <1>7 DEF Probe

\* The openers that had the file open and were not seen are marked; those that
\* were seen have ended with their processes.
LEMMA RemoveInv ==
  ASSUME SessionLockInv, NEW o \in Openers, RemoveLockFile(o)
  PROVE  SessionLockInv'
<1> DEFINE struck == {q \in Openers : lockFile # NoLockFile /\ opener[q].fd = lockFile}
           after(q) == IF q = o THEN [opener[o] EXCEPT !.at = "reopen"]
                       ELSE [opener[q] EXCEPT !.unseen = @ \/ q \in struck \ opener[o].saw]
<1>1. /\ opener[o].at = "remove" /\ lockFile' = NoLockFile
      /\ UNCHANGED <<pid, reserved, departed, filesMade, opens, mishaps>>
      /\ opener' = [q \in Openers |-> after(q)]
  BY DEF RemoveLockFile, lockCounters
<1>2. \A q \in Openers : opener[q] \in OpenerRecords /\ OpenerSound(q, opener[q], pid, departed, lockFile)
  BY OpenerTyped DEF SessionLockInv
<1>3. Pid(o) \notin departed /\ ~opener[o].wrote /\ opener[o].fd = NoLockFile
      /\ \A q \in opener[o].saw : Pid(q) \in departed
  BY <1>1, <1>2, OpenerPresent DEF OpenerSound, PidStays, OpenWhenHeld, SawTheDead, Holding
<1>4. \A q \in Openers :
        /\ after(q) \in OpenerRecords
        /\ after(q).fd = opener[q].fd /\ after(q).wrote = opener[q].wrote
        /\ after(q).saw = opener[q].saw /\ after(q).read = opener[q].read
        /\ after(q).at = IF q = o THEN "reopen" ELSE opener[q].at
        /\ q # o => (after(q).unseen <=> opener[q].unseen \/ q \in struck \ opener[o].saw)
  <2>1. "reopen" \in OpenerPositions
    BY DEF OpenerPositions
  <2>2. SUFFICES ASSUME NEW q \in Openers
                 PROVE  /\ after(q) \in OpenerRecords
                        /\ after(q).fd = opener[q].fd /\ after(q).wrote = opener[q].wrote
                        /\ after(q).saw = opener[q].saw /\ after(q).read = opener[q].read
                        /\ after(q).at = IF q = o THEN "reopen" ELSE opener[q].at
                        /\ q # o => (after(q).unseen <=> opener[q].unseen \/ q \in struck \ opener[o].saw)
    OBVIOUS
  <2>3. opener[q] \in OpenerRecords /\ (q \in struck \ opener[o].saw) \in BOOLEAN
    BY <1>2
  <2>4. CASE q = o
    BY <2>1, <2>3, <2>4 DEF OpenerRecords
  <2>5. CASE q # o
    <3> DEFINE mark == opener[q].unseen \/ q \in struck \ opener[o].saw
    <3>1. mark \in BOOLEAN /\ after(q) = [opener[q] EXCEPT !.unseen = mark]
      BY <2>5
    <3> HIDE DEF mark, after
    <3>2. after(q) \in OpenerRecords /\ after(q).unseen = mark
          /\ after(q).fd = opener[q].fd /\ after(q).wrote = opener[q].wrote
          /\ after(q).saw = opener[q].saw /\ after(q).read = opener[q].read
          /\ after(q).at = opener[q].at
      BY <2>3, <3>1 DEF OpenerRecords
    <3>3. QED
      BY <2>5, <3>2 DEF mark
  <2>6. QED
    BY <2>4, <2>5
<1>5. \A q \in Openers : opener'[q] = after(q)
  BY <1>1
<1> HIDE DEF after
<1>6. LockTypeOK'
  BY <1>1, <1>4 DEF SessionLockInv, LockTypeOK, OpenerRecords, OpenerPositions
<1>7. OneHolderPerFile'
  <2>1. \A q \in Openers : opener'[q].fd = opener[q].fd /\ (opener'[q].at \in Holding => opener[q].at \in Holding)
    BY <1>4, <1>5 DEF Holding
  <2>2. QED
    BY <2>1 DEF SessionLockInv, OneHolderPerFile
<1>8. ASSUME NEW q \in Openers
      PROVE  OpenerSound(q, opener[q], pid, departed, lockFile)'
  <2>1. OpenerSound(q, after(q), pid, departed, NoLockFile)
    <3>1. CASE q = o
      BY <1>3, <1>4, <3>1
         DEF OpenerSound, OpenWhenHeld, PidStays, SawThatPid, SawTheDead, OutWhenDeparted, StruckUnseen, Holding
    <3>2. CASE q # o
      <4>1. StruckUnseen(after(q), NoLockFile)
        <5>1. SUFFICES ASSUME opener[q].fd # NoLockFile, ~opener[q].unseen
                       PROVE  q \in struck \ opener[o].saw
          BY <1>4, <3>2 DEF StruckUnseen
        <5>2. opener[q].fd = lockFile
          BY <1>2, <5>1 DEF OpenerSound, StruckUnseen
        <5>3. q \notin opener[o].saw
          BY <1>2, <1>3, <5>1 DEF OpenerSound, OutWhenDeparted, OpenWhenHeld, Holding
        <5>4. QED
          BY <5>1, <5>2, <5>3
      <4>2. QED
        BY <1>2, <1>4, <3>2, <4>1
           DEF OpenerSound, OpenWhenHeld, PidStays, SawThatPid, SawTheDead, OutWhenDeparted
    <3>3. QED
      BY <3>1, <3>2
  <2>2. QED
    BY <1>1, <1>5, <2>1
       DEF OpenerSound, OpenWhenHeld, PidStays, SawThatPid, SawTheDead, OutWhenDeparted, StruckUnseen
<1>9. QED
  BY <1>6, <1>7, <1>8 DEF SessionLockInv

-----------------------------------------------------------------------------
LEMMA ReleaseInv ==
  ASSUME SessionLockInv, NEW o \in Openers, Release(o)
  PROVE  SessionLockInv'
<1>1. /\ opener[o].at = "owner" /\ opener' = [opener EXCEPT ![o].at = "closing"]
      /\ reserved' \subseteq Processes
      /\ UNCHANGED <<lockFile, pid, departed, filesMade, opens, mishaps>>
  BY DEF Release, To, lockCounters, SessionLockInv, LockTypeOK
<1>2. Pid(o) \notin departed /\ opener[o].fd # NoLockFile
  BY <1>1, OpenerPresent DEF SessionLockInv, OpenerSound, OpenWhenHeld, Holding
<1>3. {"owner", "closing"} \subseteq Holding /\ "closing" \in OpenerPositions
  BY DEF OpenerPositions, Holding
<1>4. QED
  BY <1>1, <1>2, <1>3, OpenerMoves DEF SessionLockInv, LockTypeOK

LEMMA CloseInv ==
  ASSUME SessionLockInv, NEW o \in Openers, CloseLockFile(o)
  PROVE  SessionLockInv'
BY OpenerGoesOut DEF CloseLockFile, lockCounters, SessionLockInv, LockTypeOK

LEMMA EndsInv ==
  ASSUME SessionLockInv, NEW p \in Processes, ProcessEnds(p)
  PROVE  SessionLockInv'
<1>1. /\ departed' = departed \cup {p} /\ reserved' \subseteq Processes
      /\ UNCHANGED <<lockFile, pid, filesMade, opens, mishaps>>
      /\ \A o \in Openers : opener'[o] = IF Pid(o) = p THEN Out ELSE opener[o]
  BY DEF ProcessEnds, lockCounters, SessionLockInv, LockTypeOK
<1>2. Out \in OpenerRecords /\ Out.at \notin Holding
  BY DEF Out, OpenerRecords, OpenerPositions, Pids, Holding
<1>3. \A o \in Openers : opener[o] \in OpenerRecords /\ OpenerSound(o, opener[o], pid, departed, lockFile)
  BY OpenerTyped DEF SessionLockInv
<1>4. LockTypeOK'
  <2>1. opener' \in [Openers -> OpenerRecords]
    BY <1>2, <1>3 DEF ProcessEnds
  <2>2. QED
    BY <1>1, <2>1 DEF SessionLockInv, LockTypeOK, OpenerRecords, OpenerPositions
<1>5. OneHolderPerFile'
  BY <1>1, <1>2 DEF SessionLockInv, OneHolderPerFile
<1>6. ASSUME NEW o \in Openers
      PROVE  OpenerSound(o, opener[o], pid, departed, lockFile)'
  <2>1. OpenerSound(o, opener'[o], pid, departed', lockFile)
    <3>1. CASE Pid(o) = p
      BY <1>1, <3>1
         DEF OpenerSound, Out, Holding, OpenWhenHeld, PidStays, SawThatPid, SawTheDead, OutWhenDeparted, StruckUnseen
    <3>2. CASE Pid(o) # p
      BY <1>1, <1>3, <3>2
         DEF OpenerSound, OpenWhenHeld, PidStays, SawThatPid, SawTheDead, OutWhenDeparted, StruckUnseen
    <3>3. QED
      BY <3>1, <3>2
  <2>2. QED
    BY <1>1, <2>1
       DEF OpenerSound, OpenWhenHeld, PidStays, SawThatPid, SawTheDead, OutWhenDeparted, StruckUnseen
<1>7. QED
  BY <1>4, <1>5, <1>6 DEF SessionLockInv

LEMMA SessionLockNextInv == SessionLockInv /\ [LockNext]_lockVars => SessionLockInv'
<1>1. SUFFICES ASSUME SessionLockInv, [LockNext]_lockVars PROVE SessionLockInv'
  OBVIOUS
<1>2. CASE \E o \in Openers : OpenerStep(o)
  <2>1. PICK o \in Openers : OpenerStep(o)
    BY <1>2
  <2>2. QED
    BY <1>1, <2>1, ReserveInv, OpenLockFileInv, TryLockInv, EmptyFileInv, WritePidInv, ReadPidInv,
       ProbeInv, RemoveInv, ReleaseInv, CloseInv DEF OpenerStep
<1>3. CASE \E p \in Processes : ProcessEnds(p)
  BY <1>1, <1>3, EndsInv
<1>4. CASE UNCHANGED lockVars
  BY <1>1, <1>4 DEF lockVars, SessionLockInv, LockTypeOK, OneHolderPerFile, OpenerSound, OpenWhenHeld, PidStays,
                    SawThatPid, SawTheDead, OutWhenDeparted, StruckUnseen
<1>5. QED
  BY <1>1, <1>2, <1>3, <1>4 DEF LockNext

LEMMA SessionLockInvariant == LockSpec => []SessionLockInv
BY SessionLockInitInv, SessionLockNextInv, PTL DEF LockSpec

\* However many processes and stores open the directory, and whoever ends,
\* crashes or is probed in vain: two use it at once only when the file of one
\* of them was removed by an opener that could not have known of it
\* (SessionProcessLock::acquire, is_stale_lock, is_process_dead).
THEOREM DirectorySharedOnlyUnseen == LockSpec => []SharedOnlyUnseen
BY SessionLockInvariant, SessionLockInvIsEnough, PTL

\* Every variable of the directory's lock keeps its type, for any processes,
\* stores and bounds (SessionProcessLock).
THEOREM LockTypeCorrect == LockSpec => []LockTypeOK
<1>1. SessionLockInv => LockTypeOK
  BY DEF SessionLockInv
<1> QED BY <1>1, SessionLockInvariant, PTL

(***************************************************************************)
(* Tools                                                                   *)
(***************************************************************************)

Jobs == [at : {"idle", "next", "open", "fill", "verify", "bash"},
         tool : {"none", "Edit", "Write", "UpdateWorkCheckpoint", "Bash"},
         path : Paths, base : Contents, is : Contents, left : 0..MaxBatch]

\* A call under way is one of the batch, and what it fills a file with is a whole
\* content.
CallsAreSound ==
  \A w \in Workers :
    /\ job[w].at \notin {"idle", "next"} => job[w].left > 0
    /\ job[w].at = "fill" => job[w].is \in Written

\* A mark with a content is what the agent last Read in full.  This is why an
\* Edit that is accepted is of what was Read.
MarkIsSeen ==
  \A w \in Workers : \A p \in Paths :
    marks[w][p] \in {Emptied} \cup Written => seen[w][p] = marks[w][p]

ToolsInv ==
  /\ ToolsTypeOK /\ CallsAreSound
  /\ MarkIsSeen /\ EditIsOfWhatWasRead /\ FilesAreWhole

\* Contents and marks are told apart.
LEMMA ContentsDistinct ==
  /\ MaxVersions \in Nat /\ MaxBatch \in Nat /\ MaxQuanta \in Nat /\ MaxOutside \in Nat
  /\ Checkpoint \in Paths
  /\ Missing \in Contents /\ Emptied \in Contents /\ Written \subseteq Contents
  /\ Contents \ {Missing} \subseteq Marks /\ Unread \in Marks /\ VersionLost \in Marks
  /\ Missing \notin Marks
  /\ Unread \notin Contents /\ VersionLost \notin Contents
  /\ Missing \notin Written /\ Emptied \notin Written /\ Emptied # Missing
  /\ \A v \in Contents \ {Missing} : v \in {Emptied} \cup Written
  /\ \A n \in 0..MaxVersions : n < MaxVersions => n + 1 \in Written /\ n + 1 \in 0..MaxVersions
BY ToolsAssumption, SMT
   DEF Contents, Marks, Missing, Emptied, Written, Unread, VersionLost

\* What a call is at is a job of its type.
LEMMA JobTypes ==
  /\ NoJob \in Jobs /\ NoJob.at = "idle" /\ NoJob.tool = "none"
  /\ \A n \in 0..MaxBatch : Between("next", n) \in Jobs
  /\ \A n : Between("next", n).at = "next" /\ Between("next", n).tool = "none"
BY ContentsDistinct DEF NoJob, Between, Jobs

\* A call that gets to a point changes no other agent's.
LEMMA AtType ==
  ASSUME ToolsTypeOK, NEW w \in Workers, NEW p \in Paths,
         NEW at \in {"open", "fill", "verify", "bash"},
         NEW tool \in {"none", "Edit", "Write", "UpdateWorkCheckpoint", "Bash"},
         NEW base \in Contents, NEW is \in Contents, GoesTo(w, at, tool, p, base, is)
  PROVE  /\ job' \in [Workers -> Jobs]
         /\ \A v \in Workers : v # w => job'[v] = job[v]
         /\ job'[w].at = at /\ job'[w].tool = tool /\ job'[w].path = p
         /\ job'[w].base = base /\ job'[w].is = is /\ job'[w].left = job[w].left
<1> DEFINE new == [at |-> at, tool |-> tool, path |-> p, base |-> base, is |-> is,
                   left |-> job[w].left]
<1>1. job \in [Workers -> Jobs]
  BY DEF ToolsTypeOK, Jobs
<1>2. new \in Jobs
  BY <1>1 DEF Jobs
<1>3. job' = [job EXCEPT ![w] = new]
  BY DEF GoesTo
<1> QED BY <1>1, <1>2, <1>3

\* A call that ends leaves a job that edits nothing.
LEMMA DoneType ==
  ASSUME ToolsTypeOK, NEW w \in Workers, job[w].left > 0, Done(w)
  PROVE  /\ job' \in [Workers -> Jobs]
         /\ \A v \in Workers : v # w => job'[v] = job[v]
         /\ job'[w].at = "next"
<1>1. job \in [Workers -> Jobs]
  BY DEF ToolsTypeOK, Jobs
<1>2. job[w].left - 1 \in 0..MaxBatch
  BY <1>1, ContentsDistinct DEF Jobs
<1> QED BY <1>1, <1>2, JobTypes DEF Done

\* Nothing is read or written yet.
LEMMA InitToolsInv == ToolsInit => ToolsInv
<1> SUFFICES ASSUME ToolsInit PROVE ToolsInv
  OBVIOUS
<1>1. ToolsTypeOK
  BY ContentsDistinct, JobTypes DEF ToolsInit, ToolsTypeOK, Jobs
<1>2. CallsAreSound /\ EditIsOfWhatWasRead
  BY JobTypes DEF ToolsInit, CallsAreSound, EditIsOfWhatWasRead
<1>3. MarkIsSeen
  BY DEF ToolsInit, MarkIsSeen
<1>4. FilesAreWhole
  BY ContentsDistinct DEF ToolsInit, FilesAreWhole
<1> QED BY <1>1, <1>2, <1>3, <1>4 DEF ToolsInv

-----------------------------------------------------------------------------
\* The job of w is another, of its type, and those of the others are as they were.
Moves(w) ==
  /\ job' \in [Workers -> Jobs]
  /\ \A v \in Workers : v # w => job'[v] = job[v]
  /\ job'[w].at \notin {"idle", "next"} => job'[w].left > 0
  /\ job'[w].at = "fill" => job'[w].is \in Written

\* All but the disk is as it was, or of its type.
LEMMA TypesKept ==
  ASSUME ToolsTypeOK, CallsAreSound, NEW w \in Workers, Moves(w),
         UNCHANGED <<readSet, cancelling, quanta, outside>>,
         marks' \in [Workers -> [Paths -> Marks]], seen' \in [Workers -> [Paths -> Marks]],
         disk' \in [Paths -> Contents], versions' \in 0..MaxVersions, spoiled' \subseteq Paths
  PROVE  ToolsTypeOK' /\ CallsAreSound'
<1>1. ToolsTypeOK'
  BY DEF ToolsTypeOK, Moves, Jobs
<1>2. CallsAreSound'
  BY DEF CallsAreSound, Moves
<1> QED BY <1>1, <1>2

\* A step that leaves marks and what was seen alone, and starts no Edit.
LEMMA MarksKept ==
  ASSUME ToolsInv, NEW w \in Workers, Moves(w), UNCHANGED <<marks, seen>>,
         job'[w].at = "open" /\ job'[w].tool = "Edit"
           => job'[w].base = seen[w][job'[w].path]
  PROVE  MarkIsSeen' /\ EditIsOfWhatWasRead'
<1>1. MarkIsSeen'
  BY DEF ToolsInv, MarkIsSeen
<1>2. EditIsOfWhatWasRead'
  <2> SUFFICES ASSUME NEW v \in Workers, (job[v].tool = "Edit" /\ job[v].at = "open")'
               PROVE  (job[v].base = seen[v][job[v].path])'
    BY DEF EditIsOfWhatWasRead
  <2>1. CASE v = w
    BY <2>1
  <2>2. CASE v # w
    BY <2>2 DEF ToolsInv, EditIsOfWhatWasRead, Moves
  <2> QED BY <2>1, <2>2
<1> QED BY <1>1, <1>2

\* A step after which w fills no file, of one it did not fill before.
LEMMA DiskKept ==
  ASSUME ToolsInv, NEW w \in Workers, Moves(w), UNCHANGED <<disk, spoiled>>,
         job[w].at # "fill", job'[w].at # "fill"
  PROVE  FilesAreWhole'
<1> SUFFICES ASSUME NEW p \in Paths, disk[p] = Emptied
             PROVE  Writers(p)' # {} \/ p \in spoiled
  BY DEF FilesAreWhole
<1>1. Writers(p) # {} \/ p \in spoiled
  BY DEF ToolsInv, FilesAreWhole
<1>2. Writers(p)' = Writers(p)
  BY DEF Writers, Moves
<1> QED BY <1>1, <1>2

-----------------------------------------------------------------------------
\* Quanta begin and end.
LEMMA QuantaToolsInv ==
  ASSUME ToolsInv, NEW w \in Workers,
         (\E calls \in 1..MaxBatch : BeginBatch(w, calls)) \/ EndBatch(w) \/ FailBatch(w)
  PROVE  ToolsInv'
<1>1. /\ job' \in [Workers -> Jobs] /\ \A v \in Workers : v # w => job'[v] = job[v]
      /\ job'[w].at \in {"idle", "next"} /\ job[w].at # "fill"
  <2>1. CASE \E calls \in 1..MaxBatch : BeginBatch(w, calls)
    <3> PICK calls \in 1..MaxBatch : BeginBatch(w, calls)
      BY <2>1
    <3>1. calls \in 0..MaxBatch
      BY ContentsDistinct
    <3>2. job' = [job EXCEPT ![w] = Between("next", calls)] /\ job \in [Workers -> Jobs]
      BY DEF BeginBatch, ToolsInv, ToolsTypeOK, Jobs
    <3> QED BY <3>1, <3>2, JobTypes DEF BeginBatch
  <2>2. CASE EndBatch(w) \/ FailBatch(w)
    <3>1. job' = [job EXCEPT ![w] = NoJob] /\ job \in [Workers -> Jobs]
      BY <2>2 DEF EndBatch, FailBatch, Quits, ToolsInv, ToolsTypeOK, Jobs
    <3> QED BY <2>2, <3>1, JobTypes DEF EndBatch, FailBatch
  <2> QED BY <2>1, <2>2
<1>2. UNCHANGED <<disk, versions, outside, seen, spoiled>>
  BY DEF BeginBatch, EndBatch, FailBatch, Quits
<1>a. PICK new \in [Paths -> {Unread, VersionLost}] : marks' = [marks EXCEPT ![w] = new]
  <2>1. CASE marks' = [marks EXCEPT ![w] = [p \in Paths |-> IF p \in readSet[w] THEN VersionLost
                                                                              ELSE Unread]]
    <3> DEFINE new == [p \in Paths |-> IF p \in readSet[w] THEN VersionLost ELSE Unread]
    <3>1. new \in [Paths -> {Unread, VersionLost}]
      OBVIOUS
    <3> QED BY <2>1, <3>1
  <2>2. CASE marks' = [marks EXCEPT ![w] = [p \in Paths |-> Unread]]
    <3>1. [p \in Paths |-> Unread] \in [Paths -> {Unread, VersionLost}]
      OBVIOUS
    <3> QED BY <2>2, <3>1
  <2> QED BY <2>1, <2>2 DEF BeginBatch, EndBatch, FailBatch, Quits
<1>b. /\ marks' \in [Workers -> [Paths -> Marks]]
      /\ \A v \in Workers : \A p \in Paths :
           marks'[v][p] \in {Unread, VersionLost} \/ marks'[v][p] = marks[v][p]
  <2>1. new \in [Paths -> Marks] /\ marks \in [Workers -> [Paths -> Marks]]
    BY ContentsDistinct DEF ToolsInv, ToolsTypeOK
  <2> QED BY <1>a, <2>1
<1>c. readSet' \in [Workers -> SUBSET Paths]
  <2>1. CASE readSet' = [readSet EXCEPT ![w] = {p \in Paths : marks[w][p] # Unread}]
    BY <2>1 DEF ToolsInv, ToolsTypeOK
  <2>2. CASE readSet' = readSet
    BY <2>2 DEF ToolsInv, ToolsTypeOK
  <2> QED BY <2>1, <2>2 DEF BeginBatch, EndBatch, FailBatch
<1>d. cancelling' \in [Workers -> BOOLEAN]
  BY DEF BeginBatch, EndBatch, FailBatch, Quits, ToolsInv, ToolsTypeOK
<1>e. quanta' \in 0..MaxQuanta
  BY ContentsDistinct DEF BeginBatch, EndBatch, FailBatch, Quits, ToolsInv, ToolsTypeOK
<1>m. Moves(w)
  BY <1>1 DEF Moves
<1>4. ToolsTypeOK'
  BY <1>1, <1>2, <1>b, <1>c, <1>d, <1>e DEF ToolsInv, ToolsTypeOK, Jobs
<1>5. CallsAreSound'
  BY <1>1 DEF ToolsInv, CallsAreSound
<1>6. MarkIsSeen'
  BY <1>2, <1>b, ContentsDistinct DEF ToolsInv, MarkIsSeen
<1>7. EditIsOfWhatWasRead'
  BY <1>1, <1>2 DEF ToolsInv, EditIsOfWhatWasRead
<1>8. FilesAreWhole'
  BY <1>1, <1>2, <1>m, DiskKept
<1> QED BY <1>4, <1>5, <1>6, <1>7, <1>8 DEF ToolsInv

\* An interrupt marks the quantum's token and nothing else.
LEMMA CancelToolsInv ==
  ASSUME ToolsInv, NEW w \in Workers, CancelQuantum(w) PROVE ToolsInv'
<1>1. ToolsTypeOK'
  BY DEF ToolsInv, ToolsTypeOK, CancelQuantum
<1>2. CallsAreSound' /\ MarkIsSeen' /\ EditIsOfWhatWasRead' /\ FilesAreWhole'
  BY DEF ToolsInv, CallsAreSound, MarkIsSeen, EditIsOfWhatWasRead, FilesAreWhole, Writers, CancelQuantum
<1> QED BY <1>1, <1>2 DEF ToolsInv

\* Calls that are refused, write nothing, or are commands.
LEMMA CallToolsInv ==
  ASSUME ToolsInv, NEW w \in Workers,
         OtherCall(w) \/ CallBash(w) \/ EndBash(w) \/ CallCheckpoint(w)
  PROVE  ToolsInv'
<1>1. /\ UNCHANGED <<disk, marks, readSet, cancelling, versions, quanta, outside, seen, spoiled>>
      /\ job[w].left > 0 /\ job[w].at \in {"next", "bash"}
  BY DEF OtherCall, CallBash, EndBash, CallCheckpoint, Calls, ToolsInv, CallsAreSound
<1>2. /\ Moves(w) /\ job'[w].at # "fill"
      /\ job'[w].at = "open" => job'[w].tool # "Edit"
  <2>1. CASE Done(w)
    BY <1>1, <2>1, DoneType DEF Moves, ToolsInv
  <2>2. CASE GoesTo(w, "bash", "Bash", Checkpoint, Missing, Missing)
    BY <1>1, <2>2, AtType, ContentsDistinct DEF Moves, ToolsInv
  <2>3. CASE GoesTo(w, "open", "UpdateWorkCheckpoint", Checkpoint, Missing, Missing)
    BY <1>1, <2>3, AtType, ContentsDistinct DEF Moves, ToolsInv
  <2> QED BY <2>1, <2>2, <2>3 DEF OtherCall, CallBash, EndBash, CallCheckpoint
<1>3. ToolsTypeOK' /\ CallsAreSound'
  <2>1. /\ marks' \in [Workers -> [Paths -> Marks]] /\ seen' \in [Workers -> [Paths -> Marks]]
        /\ disk' \in [Paths -> Contents] /\ versions' \in 0..MaxVersions /\ spoiled' \subseteq Paths
    BY <1>1 DEF ToolsInv, ToolsTypeOK
  <2> QED BY <1>1, <1>2, <2>1, TypesKept DEF ToolsInv
<1>4. MarkIsSeen' /\ EditIsOfWhatWasRead'
  BY <1>1, <1>2, MarksKept
<1>5. FilesAreWhole'
  BY <1>1, <1>2, DiskKept
<1> QED BY <1>3, <1>4, <1>5 DEF ToolsInv

\* A Read marks the file with what it is, and that is what was seen.
LEMMA ReadToolsInv ==
  ASSUME ToolsInv, NEW w \in Workers, NEW p \in Paths, ReadFile(w, p) PROVE ToolsInv'
<1>1. /\ disk[p] \in Marks
      /\ marks' = [marks EXCEPT ![w][p] = disk[p]] /\ seen' = [seen EXCEPT ![w][p] = disk[p]]
      /\ UNCHANGED <<disk, readSet, cancelling, versions, quanta, outside, spoiled>>
      /\ job[w].left > 0 /\ job[w].at = "next" /\ Done(w)
  BY ContentsDistinct DEF ReadFile, Calls, ToolsInv, ToolsTypeOK
<1>2. Moves(w) /\ job'[w].at = "next"
  BY <1>1, DoneType DEF Moves, ToolsInv
<1>3. ToolsTypeOK' /\ CallsAreSound'
  <2>1. marks' \in [Workers -> [Paths -> Marks]] /\ seen' \in [Workers -> [Paths -> Marks]]
    BY <1>1 DEF ToolsInv, ToolsTypeOK
  <2>2. disk' \in [Paths -> Contents] /\ versions' \in 0..MaxVersions /\ spoiled' \subseteq Paths
    BY <1>1 DEF ToolsInv, ToolsTypeOK
  <2> QED BY <1>1, <1>2, <2>1, <2>2, TypesKept DEF ToolsInv
<1>4. MarkIsSeen'
  BY <1>1 DEF ToolsInv, ToolsTypeOK, MarkIsSeen
<1>5. EditIsOfWhatWasRead'
  <2> SUFFICES ASSUME NEW v \in Workers, (job[v].tool = "Edit" /\ job[v].at = "open")'
               PROVE  (job[v].base = seen[v][job[v].path])'
    BY DEF EditIsOfWhatWasRead
  <2>1. v # w /\ job'[v] = job[v] /\ seen'[v] = seen[v]
    BY <1>1, <1>2 DEF Moves, ToolsInv, ToolsTypeOK
  <2> QED BY <2>1 DEF ToolsInv, EditIsOfWhatWasRead
<1>6. FilesAreWhole'
  BY <1>1, <1>2, DiskKept
<1> QED BY <1>3, <1>4, <1>5, <1>6 DEF ToolsInv

\* An Edit that is accepted is of what the mark says, hence of what was seen.
LEMMA CheckToolsInv ==
  ASSUME ToolsInv, NEW w \in Workers, NEW p \in Paths, CheckEdit(w, p) PROVE ToolsInv'
<1>1. /\ disk[p] \in {Emptied} \cup Written /\ disk[p] \in Contents
      /\ marks[w][p] = disk[p] /\ job[w].left > 0 /\ job[w].at = "next"
      /\ GoesTo(w, "open", "Edit", p, disk[p], Missing)
      /\ UNCHANGED <<disk, marks, readSet, cancelling, versions, quanta, outside, seen, spoiled>>
  BY ContentsDistinct DEF ToolsInv, ToolsTypeOK, CheckEdit, FreshlyRead, Calls
<1>2. seen[w][p] = disk[p]
  BY <1>1 DEF ToolsInv, MarkIsSeen
<1>3. Moves(w) /\ job'[w].at = "open" /\ job'[w].path = p /\ job'[w].base = disk[p]
  BY <1>1, AtType, ContentsDistinct DEF Moves, ToolsInv
<1>4. ToolsTypeOK' /\ CallsAreSound'
  <2>1. /\ marks' \in [Workers -> [Paths -> Marks]] /\ seen' \in [Workers -> [Paths -> Marks]]
        /\ disk' \in [Paths -> Contents] /\ versions' \in 0..MaxVersions /\ spoiled' \subseteq Paths
    BY <1>1 DEF ToolsInv, ToolsTypeOK
  <2> QED BY <1>1, <1>3, <2>1, TypesKept DEF ToolsInv
<1>5. MarkIsSeen' /\ EditIsOfWhatWasRead'
  BY <1>1, <1>2, <1>3, MarksKept
<1>6. FilesAreWhole'
  BY <1>1, <1>3, DiskKept
<1> QED BY <1>4, <1>5, <1>6 DEF ToolsInv

\* An Edit that is verified forgets what was Read.
LEMMA VerifyToolsInv ==
  ASSUME ToolsInv, NEW w \in Workers, Verify(w) PROVE ToolsInv'
<1> DEFINE p == job[w].path
<1>1. /\ job[w].at = "verify" /\ job[w].left > 0 /\ Done(w)
      /\ UNCHANGED <<disk, readSet, cancelling, versions, quanta, outside, spoiled>>
  BY DEF Verify, ToolsInv, CallsAreSound
<1>2. \/ marks' = [marks EXCEPT ![w][p] = Unread] /\ seen' = [seen EXCEPT ![w][p] = Unread]
      \/ UNCHANGED <<marks, seen>>
  BY DEF Verify
<1>p. p \in Paths
  BY DEF ToolsInv, ToolsTypeOK
<1> HIDE DEF p
<1>3. Moves(w) /\ job'[w].at = "next"
  BY <1>1, DoneType DEF Moves, ToolsInv
<1>4. ToolsTypeOK' /\ CallsAreSound'
  <2>1. marks' \in [Workers -> [Paths -> Marks]] /\ seen' \in [Workers -> [Paths -> Marks]]
    <3>1. marks \in [Workers -> [Paths -> Marks]] /\ seen \in [Workers -> [Paths -> Marks]]
      BY DEF ToolsInv, ToolsTypeOK
    <3>2. Unread \in Marks
      BY ContentsDistinct
    <3>3. CASE UNCHANGED <<marks, seen>>
      BY <3>1, <3>3
    <3>4. CASE marks' = [marks EXCEPT ![w][p] = Unread] /\ seen' = [seen EXCEPT ![w][p] = Unread]
      BY <1>p, <3>1, <3>2, <3>4
    <3> QED BY <1>2, <3>3, <3>4
  <2>2. disk' \in [Paths -> Contents] /\ versions' \in 0..MaxVersions /\ spoiled' \subseteq Paths
    BY <1>1 DEF ToolsInv, ToolsTypeOK
  <2> QED BY <1>1, <1>3, <2>1, <2>2, TypesKept DEF ToolsInv
<1>5. MarkIsSeen'
  <2>1. CASE UNCHANGED <<marks, seen>>
    BY <2>1 DEF ToolsInv, MarkIsSeen
  <2>2. CASE marks' = [marks EXCEPT ![w][p] = Unread] /\ seen' = [seen EXCEPT ![w][p] = Unread]
    BY <2>2, <1>p DEF ToolsInv, ToolsTypeOK, MarkIsSeen
  <2> QED BY <1>2, <2>1, <2>2
<1>6. EditIsOfWhatWasRead'
  <2> SUFFICES ASSUME NEW v \in Workers, (job[v].tool = "Edit" /\ job[v].at = "open")'
               PROVE  (job[v].base = seen[v][job[v].path])'
    BY DEF EditIsOfWhatWasRead
  <2>1. v # w /\ job'[v] = job[v]
    BY <1>3 DEF Moves
  <2>2. seen'[v] = seen[v]
    BY <2>1, <1>2 DEF ToolsInv, ToolsTypeOK
  <2> QED BY <2>1, <2>2 DEF ToolsInv, EditIsOfWhatWasRead
<1>7. FilesAreWhole'
  BY <1>1, <1>3, DiskKept
<1> QED BY <1>4, <1>5, <1>6, <1>7 DEF ToolsInv

-----------------------------------------------------------------------------
\* A file that is opened is empty, and has a writer.
LEMMA OpenToolsInv ==
  ASSUME ToolsInv, NEW w \in Workers, NEW p \in Paths, OpenedBy(p), Moves(w),
         job[w].at # "fill", job'[w].at = "fill", job'[w].path = p,
         UNCHANGED <<marks, readSet, cancelling, quanta, outside, seen>>
  PROVE  ToolsInv'
<1>1. ToolsTypeOK' /\ CallsAreSound'
  <2>1. /\ marks' \in [Workers -> [Paths -> Marks]] /\ seen' \in [Workers -> [Paths -> Marks]]
        /\ disk' \in [Paths -> Contents] /\ versions' \in 0..MaxVersions /\ spoiled' \subseteq Paths
    BY ContentsDistinct DEF ToolsInv, ToolsTypeOK, OpenedBy, Room
  <2> QED BY <2>1, TypesKept DEF ToolsInv
<1>2. MarkIsSeen' /\ EditIsOfWhatWasRead'
  BY MarksKept
<1>3. FilesAreWhole'
  <2> SUFFICES ASSUME NEW q \in Paths, disk'[q] = Emptied
               PROVE  Writers(q)' # {} \/ q \in spoiled'
    BY DEF FilesAreWhole
  <2>1. CASE q = p
    BY <2>1 DEF Writers
  <2>2. CASE q # p
    <3>1. disk[q] = Emptied
      BY <2>2 DEF ToolsInv, ToolsTypeOK, OpenedBy
    <3>2. Writers(q)' = Writers(q)
      BY <2>2 DEF Writers, Moves
    <3> QED BY <2>2, <3>1, <3>2 DEF ToolsInv, FilesAreWhole, OpenedBy
  <2> QED BY <2>1, <2>2
<1> QED BY <1>1, <1>2, <1>3 DEF ToolsInv

LEMMA OpenFileToolsInv ==
  ASSUME ToolsInv, NEW w \in Workers, OpenFile(w) PROVE ToolsInv'
<1>1. /\ job[w].at = "open" /\ job[w].left > 0 /\ OpenedBy(job[w].path)
      /\ job[w].path \in Paths /\ job[w].base \in Contents
      /\ job[w].tool \in {"none", "Edit", "Write", "UpdateWorkCheckpoint", "Bash"}
      /\ GoesTo(w, "fill", job[w].tool, job[w].path, job[w].base, versions')
      /\ UNCHANGED <<marks, readSet, cancelling, quanta, outside, seen>>
  BY DEF OpenFile, ToolsInv, ToolsTypeOK, CallsAreSound
<1>2. versions' \in Written /\ versions' \in Contents
  BY <1>1, ContentsDistinct DEF OpenedBy, Room, ToolsInv, ToolsTypeOK
<1>3. Moves(w) /\ job'[w].at = "fill" /\ job'[w].path = job[w].path
  BY <1>1, <1>2, AtType DEF Moves, ToolsInv
<1> QED BY <1>1, <1>3, OpenToolsInv

LEMMA CreateToolsInv ==
  ASSUME ToolsInv, NEW w \in Workers, NEW p \in Paths, CreateFile(w, p) PROVE ToolsInv'
<1>1. /\ job[w].at = "next" /\ job[w].left > 0 /\ OpenedBy(p)
      /\ GoesTo(w, "fill", "Write", p, Missing, versions')
      /\ UNCHANGED <<marks, readSet, cancelling, quanta, outside, seen>>
  BY DEF CreateFile, Calls
<1>2. versions' \in Written /\ versions' \in Contents
  BY <1>1, ContentsDistinct DEF OpenedBy, Room, ToolsInv, ToolsTypeOK
<1>3. Moves(w) /\ job'[w].at = "fill" /\ job'[w].path = p
  BY <1>1, <1>2, AtType, ContentsDistinct DEF Moves, ToolsInv
<1> QED BY <1>1, <1>3, OpenToolsInv

\* A file that was filled is not empty; one that was not is spoiled, unless it is
\* another's by now.
LEMMA FillToolsInv ==
  ASSUME ToolsInv, NEW w \in Workers, FillFile(w) \/ FillFails(w) PROVE ToolsInv'
<1> DEFINE p == job[w].path
<1>1. /\ job[w].at = "fill" /\ job[w].left > 0 /\ p \in Paths
      /\ job[w].base \in Contents /\ job[w].is \in Contents
      /\ UNCHANGED <<marks, readSet, cancelling, quanta, outside, seen>>
  BY DEF FillFile, FillFails, ToolsInv, ToolsTypeOK, CallsAreSound
<1>2. Moves(w) /\ job'[w].at \in {"next", "verify"}
  <2>1. CASE Done(w)
    BY <1>1, <2>1, DoneType DEF Moves, ToolsInv
  <2>2. CASE GoesTo(w, "verify", "Edit", p, job[w].base, job[w].is)
    BY <1>1, <2>2, AtType DEF Moves, ToolsInv
  <2> QED BY <2>1, <2>2 DEF FillFile, FillFails
<1>3. MarkIsSeen' /\ EditIsOfWhatWasRead'
  BY <1>1, <1>2, MarksKept
<1>4. /\ disk' \in [Paths -> Contents] /\ versions' \in 0..MaxVersions
      /\ spoiled' \subseteq Paths /\ spoiled \subseteq spoiled'
      /\ \A q \in Paths : q # p => disk'[q] = disk[q]
      /\ disk'[p] = Emptied => p \in spoiled'
  <2>1. CASE FillFails(w)
    BY <1>1, <2>1 DEF FillFails, ToolsInv, ToolsTypeOK
  <2>2. CASE FillFile(w)
    <3>1. spoiled' = spoiled /\ p \in Paths
      BY <1>1, <2>2 DEF FillFile
    <3>2. CASE disk' = [disk EXCEPT ![p] = job[w].is] /\ versions' = versions
      BY <1>1, <3>1, <3>2, ContentsDistinct DEF ToolsInv, ToolsTypeOK, CallsAreSound
    <3>3. CASE disk[p] # Emptied /\ UNCHANGED <<disk, versions>>
      BY <3>1, <3>3 DEF ToolsInv, ToolsTypeOK
    <3>4. CASE Room /\ versions' = versions + 1 /\ disk' = [disk EXCEPT ![p] = versions']
      <4>1. versions' \in Written /\ versions' \in 0..MaxVersions
        BY <3>4, ContentsDistinct DEF ToolsInv, ToolsTypeOK, Room
      <4> QED BY <3>1, <3>4, <4>1, ContentsDistinct DEF ToolsInv, ToolsTypeOK
    <3> QED BY <2>2, <3>2, <3>3, <3>4 DEF FillFile
  <2> QED BY <2>1, <2>2
<1>5. ToolsTypeOK' /\ CallsAreSound'
  <2>1. marks' \in [Workers -> [Paths -> Marks]] /\ seen' \in [Workers -> [Paths -> Marks]]
    BY <1>1 DEF ToolsInv, ToolsTypeOK
  <2> QED BY <1>1, <1>2, <1>4, <2>1, TypesKept DEF ToolsInv
<1>6. FilesAreWhole'
  <2> SUFFICES ASSUME NEW q \in Paths, disk'[q] = Emptied
               PROVE  Writers(q)' # {} \/ q \in spoiled'
    BY DEF FilesAreWhole
  <2>1. CASE q = p
    BY <1>4, <2>1
  <2>2. CASE q # p
    <3>1. Writers(q)' = Writers(q)
      BY <1>1, <1>2, <2>2 DEF Writers, Moves
    <3> QED BY <1>4, <2>2, <3>1 DEF ToolsInv, FilesAreWhole
  <2> QED BY <2>1, <2>2
<1> QED BY <1>3, <1>5, <1>6 DEF ToolsInv

-----------------------------------------------------------------------------
\* What the user or a command puts in a file is whole.
LEMMA OutsideToolsInv ==
  ASSUME ToolsInv, NEW p \in Paths, ChangeOutside(p) PROVE ToolsInv'
<1>1. /\ disk' \in [Paths -> Contents] /\ versions' \in 0..MaxVersions
      /\ \A q \in Paths : q # p => disk'[q] = disk[q]
      /\ disk'[p] # Emptied
  <2>1. CASE Room /\ versions' = versions + 1 /\ disk' = [disk EXCEPT ![p] = versions']
    <3>1. versions' \in Written /\ versions' \in 0..MaxVersions
      BY <2>1, ContentsDistinct DEF ToolsInv, ToolsTypeOK, Room
    <3> QED BY <2>1, <3>1, ContentsDistinct DEF ToolsInv, ToolsTypeOK
  <2>2. CASE versions' = versions /\ disk' = [disk EXCEPT ![p] = Missing]
    BY <2>2, ContentsDistinct DEF ToolsInv, ToolsTypeOK
  <2> QED BY <2>1, <2>2 DEF ChangeOutside
<1>2. UNCHANGED <<marks, readSet, job, cancelling, seen, quanta>> /\ spoiled' \subseteq Paths
      /\ outside' \in 0..MaxOutside /\ \A q \in Paths : q # p /\ q \in spoiled => q \in spoiled'
  BY ContentsDistinct DEF ChangeOutside, ToolsInv, ToolsTypeOK
<1>3. ToolsTypeOK'
  BY <1>1, <1>2 DEF ToolsInv, ToolsTypeOK
<1>4. CallsAreSound' /\ MarkIsSeen' /\ EditIsOfWhatWasRead'
  BY <1>2 DEF ToolsInv, CallsAreSound, MarkIsSeen, EditIsOfWhatWasRead
<1>5. FilesAreWhole'
  BY <1>1, <1>2 DEF ToolsInv, FilesAreWhole, Writers
<1> QED BY <1>3, <1>4, <1>5 DEF ToolsInv

\* A restart forgets what was Read, and spoils what was being written.
LEMMA RestartToolsInv ==
  ASSUME ToolsInv, Restart PROVE ToolsInv'
<1>1. /\ UNCHANGED <<disk, readSet, versions, quanta, outside>>
      /\ job' = [w \in Workers |-> NoJob]
      /\ marks' = [w \in Workers |-> [p \in Paths |-> Unread]]
      /\ seen' = [w \in Workers |-> [p \in Paths |-> Unread]]
      /\ cancelling' = [w \in Workers |-> FALSE]
      /\ spoiled' = spoiled \cup {p \in Paths : Writers(p) # {}}
  BY DEF Restart
<1>2. ToolsTypeOK'
  <2>1. [p \in Paths |-> Unread] \in [Paths -> Marks]
    BY ContentsDistinct
  <2>2. marks' \in [Workers -> [Paths -> Marks]] /\ seen' \in [Workers -> [Paths -> Marks]]
    BY <1>1, <2>1
  <2>3. job' \in [Workers -> Jobs]
    BY <1>1, JobTypes
  <2> QED BY <1>1, <2>2, <2>3 DEF ToolsInv, ToolsTypeOK, Jobs
<1>3. CallsAreSound' /\ EditIsOfWhatWasRead'
  BY <1>1, JobTypes DEF CallsAreSound, EditIsOfWhatWasRead
<1>4. MarkIsSeen'
  BY <1>1 DEF MarkIsSeen
<1>5. FilesAreWhole'
  BY <1>1 DEF ToolsInv, FilesAreWhole
<1> QED BY <1>2, <1>3, <1>4, <1>5 DEF ToolsInv

-----------------------------------------------------------------------------
\* The invariant holds for ever.
LEMMA ToolsInductive == ToolsSpec => []ToolsInv
<1>1. ToolsInv /\ [ToolsNext]_toolsVars => ToolsInv'
  <2> SUFFICES ASSUME ToolsInv, [ToolsNext]_toolsVars PROVE ToolsInv'
    OBVIOUS
  <2>1. ASSUME NEW w \in Workers, NEW calls \in 1..MaxBatch, BeginBatch(w, calls) PROVE ToolsInv'
    BY <2>1, QuantaToolsInv
  <2>2. ASSUME NEW w \in Workers, EndBatch(w) \/ FailBatch(w) PROVE ToolsInv'
    BY <2>2, QuantaToolsInv
  <2>3. ASSUME NEW w \in Workers, CancelQuantum(w) PROVE ToolsInv'
    BY <2>3, CancelToolsInv
  <2>4. ASSUME NEW w \in Workers, NEW p \in Paths,
               ReadFile(w, p) \/ CheckEdit(w, p) \/ CreateFile(w, p)
        PROVE  ToolsInv'
    BY <2>4, ReadToolsInv, CheckToolsInv, CreateToolsInv
  <2>5. ASSUME NEW w \in Workers, CallCheckpoint(w) \/ CallBash(w) \/ ToolStep(w) PROVE ToolsInv'
    BY <2>5, CallToolsInv, VerifyToolsInv, OpenFileToolsInv, FillToolsInv DEF ToolStep
  <2>6. ASSUME NEW p \in Paths, ChangeOutside(p) PROVE ToolsInv'
    BY <2>6, OutsideToolsInv
  <2>7. CASE Restart
    BY <2>7, RestartToolsInv
  <2>8. CASE UNCHANGED toolsVars
    BY <2>8 DEF toolsVars, ToolsInv, ToolsTypeOK, CallsAreSound, MarkIsSeen, EditIsOfWhatWasRead,
                FilesAreWhole, Writers
  <2> QED BY <2>1, <2>2, <2>3, <2>4, <2>5, <2>6, <2>7, <2>8 DEF ToolsNext
<1> QED BY <1>1, InitToolsInv, PTL DEF ToolsSpec

\* Every variable of the tools keeps its type.
THEOREM ToolsTypeCorrect == ToolsSpec => []ToolsTypeOK
<1>1. ToolsInv => ToolsTypeOK
  BY DEF ToolsInv
<1> QED BY <1>1, ToolsInductive, PTL

\* Whatever other agents, commands and the user write, an Edit changes the content
\* that its agent last Read in full (ToolSession::require_fresh_read).
THEOREM EditsWhatWasRead == ToolsSpec => []EditIsOfWhatWasRead
<1>1. ToolsInv => EditIsOfWhatWasRead
  BY DEF ToolsInv
<1> QED BY <1>1, ToolsInductive, PTL

\* A file that nobody is writing is whole, unless a write of it failed, was cut
\* off or overlapped with another (ToolExecutor::write, edit, update_work_checkpoint).
THEOREM FilesStayWhole == ToolsSpec => []FilesAreWhole
<1>1. ToolsInv => FilesAreWhole
  BY DEF ToolsInv
<1> QED BY <1>1, ToolsInductive, PTL

(***************************************************************************)
(* ConfigFile                                                              *)
(***************************************************************************)

\* A server and a configuration as a file gives them once it has loaded: the
\* transport is named, paths are absolute.
ServerSound(s) ==
  /\ s = [transport |-> s.transport, command |-> s.command, url |-> s.url, cwd |-> s.cwd,
          timeout |-> s.timeout]
  /\ s.transport # NotThere /\ s.command # s.url
  /\ s.command <=> s.transport = "stdio"
  /\ s.cwd \in {NotThere, "absolute"} /\ s.timeout \in {NotThere, "allowed"}
  /\ s.cwd # NotThere => s.transport = "stdio"

LoadedSound(c) ==
  /\ c = [llmKey |-> c.llmKey, wsKey |-> c.wsKey, bind |-> c.bind, shown |-> c.shown,
          fallback |-> c.fallback, unshown |-> c.unshown, skills |-> c.skills, server |-> c.server]
  /\ c.skills \in {NotThere, "absolute"} /\ ServerSound(c.server)

\* A copy hides the keys, and what is sent for one hides a key or types another.
CopySound(v) ==
  /\ v = [llmKey |-> Masked, wsKey |-> v.wsKey, bind |-> v.bind, shown |-> v.shown,
          fallback |-> v.fallback]
  /\ v.wsKey \in {NotThere, Masked}
SentSound(v) ==
  /\ v.llmKey \in {Masked, Blank, NotThere} \cup Keys
  /\ v.wsKey \in {Masked, Blank, NotThere} \cup Keys

\* After an update the file is the one it rendered.
UpdateInv ==
  /\ \A f \in Frontends : copy[f] # NoCopy => CopySound(copy[f])
  /\ DOMAIN copy = Frontends
  /\ update # NoUpdate =>
       /\ toml = Rendered(Merged(update.sent, update.of))
       /\ LoadedSound(update.of) /\ SentSound(update.sent)
-----------------------------------------------------------------------------
\* What loads is sound, whatever the file and the directory.
LEMMA LoadingIsSound ==
  ASSUME NEW f, NEW there, Load(f, there).ok
  PROVE  LoadedSound(Load(f, there).cfg)
<1>1. /\ ServerParses(f.server) /\ ServerIsValid(Cwd(f.server), there)
      /\ Load(f, there).cfg =
           [llmKey |-> f.llmKey, wsKey |-> f.wsKey, bind |-> f.bind, shown |-> f.shown,
            fallback |-> f.fallback, unshown |-> f.unshown, skills |-> Resolved(f.skills),
            server |-> Server(f.server)]
  BY DEF Load, Failure, Loaded
<1>2. ServerSound(Server(f.server))
  BY <1>1 DEF ServerSound, Server, ServerParses, ServerIsValid, Cwd, TransportOf, Resolved, NotThere, Blank
<1> QED BY <1>1, <1>2 DEF LoadedSound, Resolved

\* A server that loaded once is rendered as a table that loads again to the same,
\* as long as its directory is there.
LEMMA TableLoadsAgain ==
  ASSUME NEW s, ServerSound(s)
  PROVE  /\ ServerParses(ServerTable(s)) /\ ServerIsValid(Cwd(ServerTable(s)), TRUE)
         /\ Server(ServerTable(s)) = s
<1>1. TransportOf(ServerTable(s)) = s.transport
  BY DEF ServerSound, ServerTable, TransportOf
<1>2. Cwd(ServerTable(s)) = ServerTable(s)
  BY DEF ServerSound, ServerTable, Cwd, Blank, NotThere
<1>3. Server(ServerTable(s)) = s
  BY <1>1 DEF ServerSound, ServerTable, Server, Resolved, Blank, NotThere
<1>4. ServerParses(ServerTable(s)) /\ ServerIsValid(ServerTable(s), TRUE)
  BY <1>1 DEF ServerSound, ServerTable, ServerParses, ServerIsValid
<1> QED BY <1>2, <1>3, <1>4

\* What is rendered of a configuration that loaded loads again to that.
LEMMA RenderedLoadsAgain ==
  ASSUME NEW c, LoadedSound(c)
  PROVE  Load(Rendered(c), TRUE) = Loaded(c)
<1>1. /\ ServerParses(ServerTable(c.server)) /\ ServerIsValid(Cwd(ServerTable(c.server)), TRUE)
      /\ Server(ServerTable(c.server)) = c.server
  BY TableLoadsAgain DEF LoadedSound
<1>2. Resolved(c.skills) = c.skills
  BY DEF LoadedSound, Resolved
<1>3. Load(Rendered(c), TRUE) =
        Loaded([llmKey |-> c.llmKey, wsKey |-> c.wsKey, bind |-> c.bind, shown |-> c.shown,
                fallback |-> c.fallback, unshown |-> c.unshown, skills |-> c.skills,
                server |-> c.server])
  BY <1>1, <1>2 DEF Load, Rendered
<1> QED BY <1>3 DEF LoadedSound

\* A configuration with the fields a frontend edits replaced.
Edited(c, k, w, b, s, f) ==
  [c EXCEPT !.llmKey = k, !.wsKey = w, !.bind = b, !.shown = s, !.fallback = f]
LEMMA EditedFields ==
  ASSUME NEW c, NEW k, NEW w, NEW b, NEW s, NEW f,
         c = [llmKey |-> c.llmKey, wsKey |-> c.wsKey, bind |-> c.bind, shown |-> c.shown,
              fallback |-> c.fallback, unshown |-> c.unshown, skills |-> c.skills,
              server |-> c.server]
  PROVE  Edited(c, k, w, b, s, f) =
           [llmKey |-> k, wsKey |-> w, bind |-> b, shown |-> s, fallback |-> f,
            unshown |-> c.unshown, skills |-> c.skills, server |-> c.server]
<1>1. PICK u, d, m : u = c.unshown /\ d = c.skills /\ m = c.server
  OBVIOUS
<1>2. PICK k0, w0, b0, s0, f0 :
        c = [llmKey |-> k0, wsKey |-> w0, bind |-> b0, shown |-> s0, fallback |-> f0,
             unshown |-> u, skills |-> d, server |-> m]
  BY <1>1
<1>3. PICK c1 : c1 = [c EXCEPT !.llmKey = k]
  OBVIOUS
<1>4. PICK c2 : c2 = [c1 EXCEPT !.wsKey = w]
  OBVIOUS
<1>5. PICK c3 : c3 = [c2 EXCEPT !.bind = b]
  OBVIOUS
<1>6. PICK c4 : c4 = [c3 EXCEPT !.shown = s]
  OBVIOUS
<1>7. c1 = [llmKey |-> k, wsKey |-> w0, bind |-> b0, shown |-> s0, fallback |-> f0,
            unshown |-> u, skills |-> d, server |-> m]
  BY <1>2, <1>3
<1>8. c2 = [llmKey |-> k, wsKey |-> w, bind |-> b0, shown |-> s0, fallback |-> f0,
            unshown |-> u, skills |-> d, server |-> m]
  BY <1>4, <1>7
<1>9. c3 = [llmKey |-> k, wsKey |-> w, bind |-> b, shown |-> s0, fallback |-> f0,
            unshown |-> u, skills |-> d, server |-> m]
  BY <1>5, <1>8
<1>10. c4 = [llmKey |-> k, wsKey |-> w, bind |-> b, shown |-> s, fallback |-> f0,
             unshown |-> u, skills |-> d, server |-> m]
  BY <1>6, <1>9
<1>11. [c4 EXCEPT !.fallback = f] =
         [llmKey |-> k, wsKey |-> w, bind |-> b, shown |-> s, fallback |-> f,
          unshown |-> u, skills |-> d, server |-> m]
  BY <1>10
<1>12. Edited(c, k, w, b, s, f) = [c4 EXCEPT !.fallback = f]
  BY <1>3, <1>4, <1>5, <1>6 DEF Edited
<1> QED BY <1>1, <1>11, <1>12

\* A merge takes from what is sent only the keys, the address and the settings
\* that are shown.
LEMMA MergedFacts ==
  ASSUME NEW sent, NEW c, LoadedSound(c)
  PROVE  /\ LoadedSound(Merged(sent, c))
         /\ Merged(sent, c).llmKey = MergedLlmKey(sent.llmKey, c.llmKey)
         /\ Merged(sent, c).wsKey = MergedWsKey(sent.wsKey, c.wsKey)
         /\ [Merged(sent, c) EXCEPT !.llmKey = c.llmKey, !.wsKey = c.wsKey, !.bind = c.bind,
                                    !.shown = c.shown, !.fallback = c.fallback] = c
<1>1. Merged(sent, c) =
        [llmKey |-> MergedLlmKey(sent.llmKey, c.llmKey), wsKey |-> MergedWsKey(sent.wsKey, c.wsKey),
         bind |-> sent.bind, shown |-> sent.shown, fallback |-> NotThere, unshown |-> c.unshown,
         skills |-> c.skills, server |-> c.server]
  <2>1. c = [llmKey |-> c.llmKey, wsKey |-> c.wsKey, bind |-> c.bind, shown |-> c.shown,
             fallback |-> c.fallback, unshown |-> c.unshown, skills |-> c.skills,
             server |-> c.server]
    BY DEF LoadedSound
  <2>2. Merged(sent, c) =
          Edited(c, MergedLlmKey(sent.llmKey, c.llmKey), MergedWsKey(sent.wsKey, c.wsKey),
                 sent.bind, sent.shown, NotThere)
    BY DEF Merged, Edited
  <2> QED BY <2>1, <2>2, EditedFields
<1>2. LoadedSound(Merged(sent, c))
  BY <1>1 DEF LoadedSound
<1>3. [Merged(sent, c) EXCEPT !.llmKey = c.llmKey, !.wsKey = c.wsKey, !.bind = c.bind,
                              !.shown = c.shown, !.fallback = c.fallback] = c
  <2>1. PICK m : m = Merged(sent, c)
    OBVIOUS
  <2>2. m = [llmKey |-> m.llmKey, wsKey |-> m.wsKey, bind |-> m.bind, shown |-> m.shown,
             fallback |-> m.fallback, unshown |-> m.unshown, skills |-> m.skills,
             server |-> m.server]
    BY <1>2, <2>1 DEF LoadedSound
  <2>3. Edited(m, c.llmKey, c.wsKey, c.bind, c.shown, c.fallback) =
          [llmKey |-> c.llmKey, wsKey |-> c.wsKey, bind |-> c.bind, shown |-> c.shown,
           fallback |-> c.fallback, unshown |-> m.unshown, skills |-> m.skills,
           server |-> m.server]
    BY <2>2, EditedFields
  <2>4. m.unshown = c.unshown /\ m.skills = c.skills /\ m.server = c.server
    BY <1>1, <2>1
  <2> QED BY <2>1, <2>3, <2>4 DEF LoadedSound, Edited
<1> QED BY <1>1, <1>2, <1>3

\* What a frontend sends back hides a key, empties it or types one.
LEMMA EditsAreSound ==
  ASSUME NEW v, CopySound(v), NEW sent \in EditsOf(v)
  PROVE  SentSound(sent)
BY DEF CopySound, EditsOf, SentSound

\* The file that an update has rendered is what UpdateKeepsTheRest asks for.
LEMMA UpdateInvIsEnough ==
  ASSUME UpdateInv PROVE UpdateKeepsTheRest
<1> SUFFICES ASSUME update # NoUpdate, cwdThere
             PROVE  LET before == update.of
                        after == Load(toml, TRUE)
                        typed(k) == IF k \in Keys THEN k ELSE NotThere
                    IN /\ after.ok
                       /\ [after.cfg EXCEPT !.llmKey = before.llmKey, !.wsKey = before.wsKey,
                                            !.bind = before.bind, !.shown = before.shown,
                                            !.fallback = before.fallback] = before
                       /\ after.cfg.llmKey \in
                            (IF update.sent.llmKey = Masked THEN {before.llmKey}
                             ELSE {Blank, typed(update.sent.llmKey)} \ {NotThere})
                       /\ after.cfg.wsKey \in
                            (IF update.sent.wsKey \in Keys THEN {update.sent.wsKey}
                             ELSE {before.wsKey})
  BY DEF UpdateKeepsTheRest
<1>1. PICK before, sent : before = update.of /\ sent = update.sent
  OBVIOUS
<1>2. /\ toml = Rendered(Merged(sent, before))
      /\ LoadedSound(before) /\ SentSound(sent)
  BY <1>1 DEF UpdateInv
<1>3. PICK m : m = Merged(sent, before)
  OBVIOUS
<1>4. /\ LoadedSound(m)
      /\ m.llmKey = MergedLlmKey(sent.llmKey, before.llmKey)
      /\ m.wsKey = MergedWsKey(sent.wsKey, before.wsKey)
      /\ [m EXCEPT !.llmKey = before.llmKey, !.wsKey = before.wsKey, !.bind = before.bind,
                   !.shown = before.shown, !.fallback = before.fallback] = before
  BY <1>2, <1>3, MergedFacts
<1>5. Load(toml, TRUE).ok /\ Load(toml, TRUE).cfg = m
  <2>1. Load(toml, TRUE) = Loaded(m)
    BY <1>2, <1>3, <1>4, RenderedLoadsAgain
  <2>2. PICK r : r = Load(toml, TRUE)
    OBVIOUS
  <2>3. r = [ok |-> TRUE, cfg |-> m]
    BY <2>1, <2>2 DEF Loaded
  <2>4. r.ok = TRUE
    BY <2>3
  <2>5. r.cfg = m
    BY <2>3
  <2> QED BY <2>2, <2>4, <2>5
<1>6. m.llmKey \in (IF sent.llmKey = Masked THEN {before.llmKey}
                    ELSE {Blank, IF sent.llmKey \in Keys THEN sent.llmKey ELSE NotThere} \ {NotThere})
  BY <1>2, <1>4, ConfigAssumption DEF SentSound, MergedLlmKey, Masked, Blank, NotThere
<1>7. m.wsKey \in (IF sent.wsKey \in Keys THEN {sent.wsKey} ELSE {before.wsKey})
  BY <1>2, <1>4, ConfigAssumption DEF SentSound, MergedWsKey
<1> QED BY <1>1, <1>4, <1>5, <1>6, <1>7

\* Every step keeps the invariant.
LEMMA ConfigNextInv ==
  ASSUME UpdateInv, [ConfigNext]_configFileVars PROVE UpdateInv'
<1>1. CASE UNCHANGED <<toml, update, copy>>
  BY <1>1 DEF UpdateInv
<1>2. ASSUME NEW f \in Frontends, FetchConfig(f) PROVE UpdateInv'
  <2>1. CopySound(View(Load(toml, cwdThere).cfg))
    BY DEF View, CopySound
  <2>2. PICK v : v = View(Load(toml, cwdThere).cfg)
    OBVIOUS
  <2>3. copy' = [copy EXCEPT ![f] = v] /\ UNCHANGED <<toml, update>>
    BY <1>2, <2>2 DEF FetchConfig
  <2>4. \A g \in Frontends : copy'[g] = IF g = f THEN v ELSE copy[g]
    BY <2>3 DEF UpdateInv
  <2>5. ASSUME NEW g \in Frontends, copy'[g] # NoCopy PROVE CopySound(copy'[g])
    BY <2>1, <2>2, <2>4, <2>5 DEF UpdateInv
  <2>6. DOMAIN copy' = Frontends
    BY <2>3 DEF UpdateInv
  <2> QED BY <2>3, <2>5, <2>6 DEF UpdateInv
<1>3. ASSUME NEW f \in Frontends, copy[f] # NoCopy, NEW sent \in EditsOf(copy[f]),
             UpdateConfig(f, sent)
      PROVE  UpdateInv'
  <2>1. SentSound(sent)
    BY <1>3, EditsAreSound DEF UpdateInv
  <2>2. PICK c : c = Load(toml, cwdThere).cfg
    OBVIOUS
  <2>3. LoadedSound(c)
    BY <1>3, <2>2, LoadingIsSound DEF UpdateConfig
  <2>4. /\ toml' = Rendered(Merged(sent, c)) /\ update' = [of |-> c, sent |-> sent]
        /\ copy' = copy
    BY <1>3, <2>2 DEF UpdateConfig
  <2>5. update'.of = c /\ update'.sent = sent
    BY <2>4
  <2> QED BY <2>1, <2>3, <2>4, <2>5 DEF UpdateInv
<1>4. ASSUME NEW file \in HandFiles, EditByHand(file) PROVE UpdateInv'
  BY <1>4 DEF EditByHand, UpdateInv
<1>5. CASE RestartDaemon
  BY <1>5 DEF RestartDaemon, UpdateInv
<1>6. CASE ReloadCommand \/ MoveDirectory
  BY <1>1, <1>6 DEF ReloadCommand, MoveDirectory
<1> QED BY <1>1, <1>2, <1>3, <1>4, <1>5, <1>6 DEF ConfigNext, configFileVars

\* Whatever a person writes into the file and whatever copies frontends edit: the
\* file that an update wrote loads, to what was configured and what was typed.
THEOREM UpdatesKeepTheRest == ConfigSpec => []UpdateKeepsTheRest
<1>1. ConfigInit => UpdateInv
  BY DEF ConfigInit, UpdateInv
<1>2. UpdateInv /\ [ConfigNext]_configFileVars => UpdateInv'
  BY ConfigNextInv
<1>3. UpdateInv => UpdateKeepsTheRest
  BY UpdateInvIsEnough
<1> QED BY <1>1, <1>2, <1>3, PTL DEF ConfigSpec

(***************************************************************************)
(* Skills                                                                  *)
(***************************************************************************)

\* What skills tell, whatever was scanned, and the tellings of a history.
Instructions ==
  UNION {{[name |-> n, allowed |-> r[n].allowed, model |-> r[n].model] : n \in DOMAIN r} :
           r \in Scannings}
Tellings == [by : Nat, what : Instructions]

\* The invocations are what was told at these places, in the order told.
Follows(invocations, tellings, places) ==
  \E place \in [DOMAIN invocations -> places] :
    /\ \A j, k \in DOMAIN invocations : j < k => place[j] < place[k]
    /\ \A p \in places : \E k \in DOMAIN invocations : place[k] = p
    /\ \A k \in DOMAIN invocations : invocations[k] = tellings[place[k]].what

\* What quanta that were not lost told, without and with the one under way.
ToldToSaved ==
  {i \in DOMAIN told : told[i].by \notin undone /\ (run.on => told[i].by # skillQuanta)}
ToldToRun == {i \in DOMAIN told : told[i].by \notin undone}

SkillsTyped ==
  /\ registry \in Scannings
  /\ skillQuanta \in Nat /\ undone \subseteq 1..skillQuanta
  /\ told \in Seq(Tellings) /\ \A i \in DOMAIN told : told[i].by <= skillQuanta
  /\ DOMAIN saved = {"invocations", "activated"} /\ saved.invocations \in Seq(Instructions)
  /\ run.on \in BOOLEAN
  /\ DOMAIN run = {"on", "registry", "denied", "allowed", "model", "invocations", "touched"}
  /\ run.on => /\ run.registry \in Scannings /\ run.invocations \in Seq(Instructions)
               /\ skillQuanta > 0 /\ skillQuanta \notin undone

\* What is saved follows from what was told, and so does what the quantum under
\* way would save; the quantum works with the scopes and the model of the former.
SkillsInv ==
  /\ SkillsTyped
  /\ Follows(saved.invocations, told, LatestOf(told, ToldToSaved))
  /\ run.on =>
       /\ Follows(run.invocations, told, LatestOf(told, ToldToRun))
       /\ run.allowed = ScopeOf(saved.invocations) /\ run.model = ModelOf(saved.invocations)
       /\ ran # NoToolCall /\ run.allowed # {} => Covered(ran, run.allowed)
  /\ ~run.on => ran = NoToolCall

-----------------------------------------------------------------------------
\* A set of places that is bounded and not empty has a last one.
LEMMA LastPlace ==
  ASSUME NEW n \in Nat, NEW places \in SUBSET (1..n), places # {}
  PROVE  \E j \in places : \A k \in places : k <= j
<1>1. PICK less : less = OpToRel(<, Nat)
  OBVIOUS
<1>2. \A a, b \in Nat : a < b => <<a, b>> \in less
  <2>1. less = {ss \in Nat \X Nat : ss[1] < ss[2]}
    BY <1>1 DEF OpToRel
  <2> QED BY <2>1
<1>3. IsWellFoundedOn(less, Nat)
  BY <1>1, NatLessThanWellFounded
<1>4. PICK behind : behind = {d \in Nat : n - d \in places}
  OBVIOUS
<1>5. behind \subseteq Nat /\ behind # {}
  <2>1. PICK j \in places : TRUE
    OBVIOUS
  <2>2. n - j \in Nat /\ n - (n - j) = j
    BY <2>1
  <2> QED BY <1>4, <2>2
<1>6. PICK d \in behind : \A e \in behind : <<e, d>> \notin less
  BY <1>3, <1>5, WFMin
<1>7. ASSUME NEW k \in places PROVE k <= n - d
  <2>1. n - k \in behind
    BY <1>4
  <2>2. ~(n - k < d) /\ d \in Nat
    BY <1>2, <1>5, <1>6, <2>1
  <2> QED BY <2>2
<1> QED BY <1>4, <1>6, <1>7

\* A sequence without one of its elements.
LEMMA RemovedElements ==
  ASSUME NEW S, NEW s \in Seq(S), NEW m \in DOMAIN s
  PROVE  /\ RemoveAt(s, m) \in Seq(S) /\ Len(RemoveAt(s, m)) = Len(s) - 1
         /\ \A k \in 1..(Len(s) - 1) :
              RemoveAt(s, m)[k] = IF k < m THEN s[k] ELSE s[k + 1]
<1>1. PICK a : a = SubSeq(s, 1, m - 1)
  OBVIOUS
<1>2. PICK b : b = SubSeq(s, m + 1, Len(s))
  OBVIOUS
<1>3. RemoveAt(s, m) = a \o b
  BY <1>1, <1>2 DEF RemoveAt
<1>4. m \in 1..Len(s) /\ Len(s) \in Nat
  OBVIOUS
<1>5. a \in Seq(S) /\ Len(a) = m - 1 /\ \A k \in 1..(m - 1) : a[k] = s[k]
  BY <1>1, <1>4
<1>6. b \in Seq(S) /\ Len(b) = Len(s) - m /\ \A k \in 1..(Len(s) - m) : b[k] = s[m + k]
  BY <1>2, <1>4
<1>7. /\ a \o b \in Seq(S) /\ Len(a \o b) = Len(s) - 1
      /\ \A k \in 1..(Len(s) - 1) :
           (a \o b)[k] = IF k <= Len(a) THEN a[k] ELSE b[k - Len(a)]
  BY <1>4, <1>5, <1>6, SMTT(30)
<1>8. ASSUME NEW k \in 1..(Len(s) - 1) PROVE (a \o b)[k] = IF k < m THEN s[k] ELSE s[k + 1]
  <2>1. CASE k < m
    <3>1. k <= Len(a) /\ k \in 1..(m - 1)
      BY <1>4, <1>5, <2>1
    <3> QED BY <1>5, <1>7, <2>1, <3>1
  <2>2. CASE ~(k < m)
    <3>1. ~(k <= Len(a)) /\ k - Len(a) \in 1..(Len(s) - m) /\ m + (k - Len(a)) = k + 1
      BY <1>4, <1>5, <2>2
    <3> QED BY <1>6, <1>7, <2>2, <3>1
  <2> QED BY <2>1, <2>2
<1> QED BY <1>3, <1>7, <1>8

\* The latest are a matter of the tellings that count.
LEMMA LatestKept ==
  ASSUME NEW t, NEW u, NEW places, \A i \in places : u[i] = t[i]
  PROVE  LatestOf(u, places) = LatestOf(t, places)
BY DEF LatestOf

\* One more that counts replaces those of its skill.
LEMMA LatestAppended ==
  ASSUME NEW n \in Nat, NEW t, NEW u, NEW places \in SUBSET (1..n),
         \A i \in 1..n : u[i] = t[i],
         NEW i
  PROVE  i \in LatestOf(u, places \cup {n + 1}) <=>
           i = n + 1 \/ (i \in LatestOf(t, places) /\ t[i].what.name # u[n + 1].what.name)
<1>1. CASE i = n + 1
  <2>1. \A j \in places : j \in 1..n
    OBVIOUS
  <2>2. \A j \in 1..n : j <= n + 1
    OBVIOUS
  <2>3. \A j \in places \cup {n + 1} : j <= n + 1
    BY <2>1, <2>2
  <2> QED BY <1>1, <2>3 DEF LatestOf
<1>2. CASE i # n + 1
  <2>1. i \in places => i \in 1..n /\ u[i] = t[i] /\ ~(n + 1 <= i)
    <3>1. \A j \in places : j \in 1..n
      OBVIOUS
    <3>2. \A j \in 1..n : ~(n + 1 <= j)
      OBVIOUS
    <3> QED BY <3>1, <3>2
  <2>2. i \in LatestOf(u, places \cup {n + 1}) <=>
          /\ i \in places
          /\ \A j \in places : u[j].what.name = u[i].what.name => j <= i
          /\ u[n + 1].what.name = u[i].what.name => n + 1 <= i
    BY <1>2 DEF LatestOf
  <2>3. i \in LatestOf(t, places) <=>
          /\ i \in places
          /\ \A j \in places : t[j].what.name = t[i].what.name => j <= i
    BY DEF LatestOf
  <2> QED BY <1>2, <2>1, <2>2, <2>3
<1> QED BY <1>1, <1>2

\* A telling that does not count changes nothing.
LEMMA FollowsUncounted ==
  ASSUME NEW t \in Seq(Tellings), NEW x \in Tellings, NEW places \in SUBSET (DOMAIN t),
         NEW invocations, Follows(invocations, t, LatestOf(t, places))
  PROVE  Follows(invocations, Append(t, x), LatestOf(Append(t, x), places))
<1>1. PICK u : u = Append(t, x)
  OBVIOUS
<1>2. \A i \in DOMAIN t : u[i] = t[i]
  BY <1>1
<1>3. \A i \in places : u[i] = t[i]
  BY <1>2
<1>4. LatestOf(u, places) = LatestOf(t, places)
  BY <1>3, LatestKept
<1>5. LatestOf(t, places) \subseteq DOMAIN t
  BY DEF LatestOf
<1>6. Follows(invocations, u, LatestOf(t, places))
  <2>1. PICK latest : latest = LatestOf(t, places)
    OBVIOUS
  <2>2. PICK place \in [DOMAIN invocations -> latest] :
          /\ \A j, k \in DOMAIN invocations : j < k => place[j] < place[k]
          /\ \A p \in latest : \E k \in DOMAIN invocations : place[k] = p
          /\ \A k \in DOMAIN invocations : invocations[k] = t[place[k]].what
    BY <2>1 DEF Follows
  <2>3. \A k \in DOMAIN invocations : invocations[k] = u[place[k]].what
    BY <1>2, <1>5, <2>1, <2>2
  <2>4. Follows(invocations, u, latest)
    BY <2>2, <2>3 DEF Follows
  <2> QED BY <2>1, <2>4
<1> QED BY <1>1, <1>4, <1>6

\* One that counts is what note_command_invocation notes.
LEMMA FollowsNoted ==
  ASSUME NEW t \in Seq(Tellings), NEW x \in Tellings, NEW places \in SUBSET (DOMAIN t),
         NEW invocations \in Seq(Instructions), Follows(invocations, t, LatestOf(t, places))
  PROVE  /\ Noted(invocations, x.what) \in Seq(Instructions)
         /\ Follows(Noted(invocations, x.what), Append(t, x),
                    LatestOf(Append(t, x), places \cup {Len(t) + 1}))
<1>1. PICK u : u = Append(t, x)
  OBVIOUS
<1>2. PICK i : i = x.what
  OBVIOUS
<1>3. PICK n \in Nat : n = Len(t)
  OBVIOUS
<1>4. PICK before : before = LatestOf(t, places)
  OBVIOUS
<1>5. PICK after : after = LatestOf(u, places \cup {n + 1})
  OBVIOUS
<1>6. /\ \A p \in 1..n : u[p] = t[p]
      /\ u[n + 1] = x /\ DOMAIN t = 1..n /\ i \in Instructions
  BY <1>1, <1>2, <1>3 DEF Tellings
<1>7. \A p : p \in after <=> p = n + 1 \/ (p \in before /\ t[p].what.name # i.name)
  BY <1>2, <1>4, <1>5, <1>6, LatestAppended
<1>8. before \subseteq 1..n /\ before \subseteq places
  BY <1>4, <1>6 DEF LatestOf
<1>9. ASSUME NEW p \in before, NEW q \in before, t[q].what.name = t[p].what.name
       PROVE  q <= p
  BY <1>4, <1>8, <1>9 DEF LatestOf
<1>10. PICK place \in [DOMAIN invocations -> before] :
        /\ \A j, k \in DOMAIN invocations : j < k => place[j] < place[k]
        /\ \A p \in before : \E k \in DOMAIN invocations : place[k] = p
        /\ \A k \in DOMAIN invocations : invocations[k] = t[place[k]].what
  BY <1>4 DEF Follows
<1>11. PICK l \in Nat : l = Len(invocations) /\ DOMAIN invocations = 1..l
  OBVIOUS
<1>12. PICK same : same = {j \in DOMAIN invocations : invocations[j].name = i.name}
  OBVIOUS
\* It suffices to have what is left of the invocations, and where it was told.
<1>13. ASSUME NEW rest \in Seq(Instructions), NEW at \in [DOMAIN rest -> before],
              \A j, k \in DOMAIN rest : j < k => at[j] < at[k],
              \A k \in DOMAIN rest : rest[k] = t[at[k]].what /\ rest[k].name # i.name,
              \A p \in before : t[p].what.name # i.name => \E k \in DOMAIN rest : at[k] = p
       PROVE  Append(rest, i) \in Seq(Instructions) /\ Follows(Append(rest, i), u, after)
  <2>1. PICK m \in Nat : m = Len(rest) /\ DOMAIN rest = 1..m
    OBVIOUS
  <2>2. PICK noted : noted = Append(rest, i)
    OBVIOUS
  <2>3. /\ noted \in Seq(Instructions) /\ DOMAIN noted = 1..(m + 1)
        /\ \A k \in 1..m : noted[k] = rest[k]
        /\ noted[m + 1] = i
    BY <1>6, <2>1, <2>2
  <2>4. PICK to : to = [k \in 1..(m + 1) |-> IF k = m + 1 THEN n + 1 ELSE at[k]]
    OBVIOUS
  <2>5. /\ to[m + 1] = n + 1
        /\ \A k \in 1..m : to[k] = at[k] /\ to[k] \in before /\ to[k] \in 1..n
    <3>1. to[m + 1] = n + 1
      BY <2>4
    <3>2. ASSUME NEW k \in 1..m PROVE to[k] = at[k] /\ to[k] \in before
      <4>1. k \in 1..(m + 1) /\ k # m + 1
        OBVIOUS
      <4> QED BY <1>13, <2>1, <2>4, <4>1
    <3> QED BY <1>8, <3>1, <3>2
  <2>6. to \in [1..(m + 1) -> after]
    <3>1. ASSUME NEW k \in 1..m PROVE to[k] \in after
      <4>1. t[at[k]].what.name # i.name /\ at[k] \in before /\ to[k] = at[k]
        BY <1>13, <2>1, <2>5
      <4> QED BY <1>7, <4>1
    <3>2. to[m + 1] \in after
      BY <1>7, <2>5
    <3>3. \A k \in 1..(m + 1) : k \in 1..m \/ k = m + 1
      OBVIOUS
    <3> QED BY <2>4, <3>1, <3>2, <3>3
  <2>7. ASSUME NEW j \in 1..(m + 1), NEW k \in 1..(m + 1), j < k PROVE to[j] < to[k]
    <3>1. CASE k = m + 1
      BY <2>5, <2>7, <3>1
    <3>2. CASE k # m + 1
      <4>1. j \in 1..m /\ k \in 1..m
        BY <2>7, <3>2
      <4> QED BY <1>13, <2>1, <2>5, <2>7, <4>1
    <3> QED BY <3>1, <3>2
  <2>8. ASSUME NEW p \in after PROVE \E k \in 1..(m + 1) : to[k] = p
    <3>1. CASE p = n + 1
      BY <2>5, <3>1
    <3>2. CASE p # n + 1
      <4>1. p \in before /\ t[p].what.name # i.name
        BY <1>7, <3>2
      <4>2. PICK k \in 1..m : at[k] = p
        BY <1>13, <2>1, <4>1
      <4>3. k \in 1..(m + 1) /\ to[k] = p
        BY <2>5, <4>2
      <4> QED BY <4>3
    <3> QED BY <3>1, <3>2
  <2>9. ASSUME NEW k \in 1..(m + 1) PROVE noted[k] = u[to[k]].what
    <3>1. CASE k = m + 1
      BY <1>2, <1>6, <2>3, <2>5, <3>1
    <3>2. CASE k # m + 1
      <4>1. k \in 1..m
        BY <3>2
      <4>2. noted[k] = rest[k] /\ to[k] = at[k] /\ at[k] \in 1..n /\ rest[k] = t[at[k]].what
        BY <1>13, <2>1, <2>3, <2>5, <4>1
      <4>3. u[at[k]] = t[at[k]]
        BY <1>6, <4>2
      <4> QED BY <4>2, <4>3
    <3> QED BY <3>1, <3>2
  <2>10. Follows(noted, u, after)
    <3>1. /\ to \in [DOMAIN noted -> after]
          /\ \A j, k \in DOMAIN noted : j < k => to[j] < to[k]
          /\ \A p \in after : \E k \in DOMAIN noted : to[k] = p
          /\ \A k \in DOMAIN noted : noted[k] = u[to[k]].what
      BY <2>3, <2>6, <2>7, <2>8, <2>9
    <3> QED BY <3>1 DEF Follows
  <2> QED BY <2>2, <2>3, <2>10
<1>14. CASE same = {}
  <2>1. Noted(invocations, i) = Append(invocations, i)
    BY <1>12, <1>14 DEF Noted
  <2>2. \A k \in DOMAIN invocations : invocations[k].name # i.name
    BY <1>12, <1>14
  <2>3. Append(invocations, i) \in Seq(Instructions) /\ Follows(Append(invocations, i), u, after)
    BY <1>10, <1>13, <2>2
  <2> QED BY <1>1, <1>2, <1>3, <1>5, <2>1, <2>3
<1>15. CASE same # {}
  <2>1. PICK m : m = CHOOSE j \in same : TRUE
    OBVIOUS
  <2>2. m \in same /\ m \in 1..l /\ invocations[m].name = i.name
    BY <1>11, <1>12, <1>15, <2>1
  <2>3. PICK rest : rest = RemoveAt(invocations, m)
    OBVIOUS
  <2>4. Noted(invocations, i) = Append(rest, i)
    BY <1>12, <1>15, <2>1, <2>3 DEF Noted
  <2>5. /\ rest \in Seq(Instructions) /\ DOMAIN rest = 1..(l - 1)
        /\ \A k \in 1..(l - 1) : rest[k] = IF k < m THEN invocations[k] ELSE invocations[k + 1]
    BY <1>11, <2>2, <2>3, RemovedElements, SMTT(30)
  <2>6. PICK at : at = [k \in 1..(l - 1) |-> IF k < m THEN place[k] ELSE place[k + 1]]
    OBVIOUS
  <2>7. ASSUME NEW k \in 1..(l - 1)
        PROVE  \E h \in 1..l : /\ h = IF k < m THEN k ELSE k + 1
                               /\ h # m /\ at[k] = place[h] /\ rest[k] = invocations[h]
    <3>1. CASE k < m
      BY <1>11, <2>2, <2>5, <2>6, <3>1
    <3>2. CASE ~(k < m)
      BY <1>11, <2>2, <2>5, <2>6, <3>2
    <3> QED BY <3>1, <3>2
  <2>8. at \in [DOMAIN rest -> before]
    BY <1>10, <1>11, <2>5, <2>6, <2>7
  <2>9. ASSUME NEW j \in DOMAIN rest, NEW k \in DOMAIN rest, j < k PROVE at[j] < at[k]
    <3>1. PICK h \in 1..l : h = (IF j < m THEN j ELSE j + 1) /\ at[j] = place[h]
      BY <2>5, <2>7
    <3>2. PICK g \in 1..l : g = (IF k < m THEN k ELSE k + 1) /\ at[k] = place[g]
      BY <2>5, <2>7
    <3>3. h < g
      BY <2>2, <2>5, <2>9, <3>1, <3>2
    <3> QED BY <1>10, <1>11, <3>1, <3>2, <3>3
  <2>10. ASSUME NEW k \in DOMAIN rest PROVE rest[k] = t[at[k]].what /\ rest[k].name # i.name
    <3>1. PICK h \in 1..l : h # m /\ at[k] = place[h] /\ rest[k] = invocations[h]
      BY <2>5, <2>7
    <3>2. invocations[h] = t[place[h]].what /\ invocations[m] = t[place[m]].what
      BY <1>10, <1>11, <2>2
    <3>3. place[h] \in before /\ place[m] \in before /\ place[h] # place[m]
      <4>1. h < m \/ m < h
        BY <2>2, <3>1
      <4>2. place[h] \in 1..n /\ place[m] \in 1..n /\ (place[h] < place[m] \/ place[m] < place[h])
        BY <1>8, <1>10, <1>11, <2>2, <4>1
      <4> QED BY <1>10, <1>11, <2>2, <4>2
    <3>4. t[place[h]].what.name # t[place[m]].what.name
      <4>1. PICK p \in before : p = place[h]
        BY <3>3
      <4>2. PICK q \in before : q = place[m]
        BY <3>3
      <4>3. p # q /\ p \in Nat /\ q \in Nat
        BY <1>8, <3>3, <4>1, <4>2
      <4>4. t[p].what.name # t[q].what.name
        BY <1>9, <4>3
      <4> QED BY <4>1, <4>2, <4>4
    <3> QED BY <2>2, <3>1, <3>2, <3>4
  <2>11. ASSUME NEW p \in before, t[p].what.name # i.name PROVE \E k \in DOMAIN rest : at[k] = p
    <3>1. PICK h \in 1..l : place[h] = p
      BY <1>10, <1>11
    <3>2. h # m
      BY <1>10, <1>11, <2>2, <2>11, <3>1
    <3>3. CASE h < m
      <4>1. h \in 1..(l - 1)
        BY <2>2, <3>3
      <4> QED BY <2>5, <2>6, <3>1, <3>3, <4>1
    <3>4. CASE ~(h < m)
      <4>1. h - 1 \in 1..(l - 1) /\ ~(h - 1 < m) /\ (h - 1) + 1 = h
        BY <2>2, <3>2, <3>4
      <4> QED BY <2>5, <2>6, <3>1, <4>1
    <3> QED BY <3>3, <3>4
  <2>12. Append(rest, i) \in Seq(Instructions) /\ Follows(Append(rest, i), u, after)
    BY <1>13, <2>5, <2>8, <2>9, <2>10, <2>11
  <2> QED BY <1>1, <1>2, <1>3, <1>5, <2>4, <2>12
<1> QED BY <1>14, <1>15

-----------------------------------------------------------------------------
\* The skill that is invoked, or that an order names, tells what was scanned.
LEMMA WhatIsTold ==
  ASSUME NEW r \in Scannings, NEW n \in DOMAIN r
  PROVE  [name |-> n, allowed |-> r[n].allowed, model |-> r[n].model] \in Instructions
BY DEF Instructions

\* The invariant of the next state, when nothing is told and the quanta that count
\* are the same.
LEMMA NothingTold ==
  ASSUME SkillsInv, SkillsTyped', told' = told, ToldToSaved' = ToldToSaved,
         saved'.invocations = saved.invocations, ~run'.on, ran' = NoToolCall
  PROVE  SkillsInv'
BY DEF SkillsInv

\* A quantum begins with what is saved.
LEMMA BeginSkillsInv ==
  ASSUME SkillsInv, BeginQuantum PROVE SkillsInv'
<1>1. /\ ~run.on /\ skillQuanta' = skillQuanta + 1
      /\ UNCHANGED <<registry, saved, told, undone, ran>>
      /\ run' = [on |-> TRUE, registry |-> registry, denied |-> permissions,
                 allowed |-> ScopeOf(saved.invocations), model |-> ModelOf(saved.invocations),
                 invocations |-> saved.invocations, touched |-> {}]
  BY DEF BeginQuantum
<1>2. /\ run'.on /\ run'.registry = registry /\ run'.invocations = saved.invocations
      /\ run'.allowed = ScopeOf(saved.invocations) /\ run'.model = ModelOf(saved.invocations)
      /\ DOMAIN run' =
           {"on", "registry", "denied", "allowed", "model", "invocations", "touched"}
      /\ run'.on \in BOOLEAN
  BY <1>1
<1>3. SkillsTyped'
  <2>1. /\ skillQuanta \in Nat /\ undone \subseteq 1..skillQuanta
        /\ \A i \in DOMAIN told : told[i].by \in Nat /\ told[i].by <= skillQuanta
    <3>1. \A i \in DOMAIN told : told[i] \in Tellings
      BY DEF SkillsInv, SkillsTyped
    <3>2. \A i \in DOMAIN told : told[i].by \in Nat
      BY <3>1 DEF Tellings
    <3> QED BY <3>2 DEF SkillsInv, SkillsTyped
  <2>2. /\ skillQuanta' \in Nat /\ undone' \subseteq 1..skillQuanta' /\ skillQuanta' \notin undone'
        /\ skillQuanta' > 0
        /\ \A i \in DOMAIN told' : told'[i].by <= skillQuanta'
    BY <1>1, <2>1
  <2> QED BY <1>1, <1>2, <2>2 DEF SkillsInv, SkillsTyped
<1>4. ToldToSaved' = ToldToSaved /\ ToldToRun' = ToldToSaved
  BY <1>1, <1>2 DEF SkillsInv, SkillsTyped, ToldToSaved, ToldToRun
<1>5. ran' = NoToolCall
  BY <1>1 DEF SkillsInv
<1> QED BY <1>1, <1>2, <1>3, <1>4, <1>5 DEF SkillsInv

\* A call that runs is one of the quantum's scopes.
LEMMA CallSkillsInv ==
  ASSUME SkillsInv, NEW c, CallTool(c) PROVE SkillsInv'
<1>1. PICK f : run' = [run EXCEPT !.touched = @ \cup f]
  BY DEF CallTool
<1>2. /\ run.on /\ Permitted(c) /\ ran' = c
      /\ UNCHANGED <<registry, saved, skillQuanta, told, undone>>
  BY DEF CallTool
<1>3. /\ run'.on = run.on /\ run'.registry = run.registry /\ run'.allowed = run.allowed
      /\ run'.model = run.model /\ run'.invocations = run.invocations
      /\ DOMAIN run' = DOMAIN run
  BY <1>1 DEF SkillsInv, SkillsTyped
<1>4. SkillsTyped'
  BY <1>2, <1>3 DEF SkillsInv, SkillsTyped
<1>5. ToldToSaved' = ToldToSaved /\ ToldToRun' = ToldToRun
  BY <1>2, <1>3 DEF ToldToSaved, ToldToRun
<1>6. run.allowed # {} => Covered(c, run.allowed)
  BY <1>2 DEF Permitted
<1> QED BY <1>2, <1>3, <1>4, <1>5, <1>6 DEF SkillsInv

\* An invocation binds what the quantum would save, and not the quantum.
LEMMA InvokeSkillsInv ==
  ASSUME SkillsInv, NEW n \in DOMAIN run.registry, InvokeSkill(n) PROVE SkillsInv'
<1>1. PICK i : i = [name |-> n, allowed |-> run.registry[n].allowed,
                    model |-> run.registry[n].model]
  OBVIOUS
<1>2. PICK x : x = [by |-> skillQuanta, what |-> i]
  OBVIOUS
<1>3. PICK noted : noted = Noted(run.invocations, i)
  OBVIOUS
<1>4. /\ run.on /\ Permitted([tool |-> SkillTool, command |-> "none"])
      /\ run' = [run EXCEPT !.invocations = noted]
      /\ told' = Append(told, x)
      /\ ran' = [tool |-> SkillTool, command |-> "none"]
      /\ UNCHANGED <<registry, saved, skillQuanta, undone>>
  BY <1>1, <1>2, <1>3 DEF InvokeSkill
<1>5. x \in Tellings /\ x.by = skillQuanta /\ x.what = i
  BY <1>1, <1>2, <1>4, WhatIsTold DEF SkillsInv, SkillsTyped, Tellings
<1>6. /\ run'.on = run.on /\ run'.registry = run.registry /\ run'.allowed = run.allowed
      /\ run'.model = run.model /\ run'.invocations = noted /\ DOMAIN run' = DOMAIN run
  BY <1>4 DEF SkillsInv, SkillsTyped
<1>7. PICK l \in Nat : l = Len(told)
  BY DEF SkillsInv, SkillsTyped
<1>8. /\ told \in Seq(Tellings) /\ DOMAIN told = 1..l
      /\ told' \in Seq(Tellings) /\ DOMAIN told' = 1..(l + 1)
      /\ \A k \in 1..l : told'[k] = told[k]
      /\ told'[l + 1] = x
  BY <1>4, <1>5, <1>7 DEF SkillsInv, SkillsTyped
<1>9. ToldToSaved' = ToldToSaved /\ ToldToRun' = ToldToRun \cup {l + 1}
  BY <1>4, <1>5, <1>6, <1>8 DEF SkillsInv, SkillsTyped, ToldToSaved, ToldToRun
<1>10. ToldToSaved \subseteq DOMAIN told /\ ToldToRun \subseteq DOMAIN told
  BY DEF ToldToSaved, ToldToRun
<1>11. Follows(saved.invocations, told', LatestOf(told', ToldToSaved'))
  BY <1>4, <1>5, <1>8, <1>9, <1>10, FollowsUncounted DEF SkillsInv
<1>12. noted \in Seq(Instructions) /\ Follows(noted, told', LatestOf(told', ToldToRun'))
  BY <1>3, <1>4, <1>5, <1>7, <1>8, <1>9, <1>10, FollowsNoted DEF SkillsInv, SkillsTyped
<1>13. SkillsTyped'
  <2>1. ASSUME NEW k \in DOMAIN told' PROVE told'[k].by <= skillQuanta'
    BY <1>4, <1>5, <1>8 DEF SkillsInv, SkillsTyped
  <2> QED BY <1>4, <1>6, <1>8, <1>12, <2>1 DEF SkillsInv, SkillsTyped
<1>14. run.allowed # {} => Covered(ran', run.allowed)
  BY <1>4 DEF Permitted
<1> QED BY <1>4, <1>6, <1>11, <1>12, <1>13, <1>14 DEF SkillsInv

\* A quantum that ends saves what follows from all that counts now.
LEMMA EndSkillsInv ==
  ASSUME SkillsInv, EndQuantum PROVE SkillsInv'
<1>1. /\ run.on
      /\ saved' = [invocations |-> run.invocations,
                   activated |-> saved.activated \cup Matching(run.touched)]
      /\ run' = NoRun /\ ran' = NoToolCall
      /\ UNCHANGED <<registry, skillQuanta, told, undone>>
  BY DEF EndQuantum
<1>2. saved'.invocations = run.invocations /\ DOMAIN saved' = {"invocations", "activated"}
  BY <1>1
<1>3. /\ run'.on = FALSE
      /\ DOMAIN run' =
           {"on", "registry", "denied", "allowed", "model", "invocations", "touched"}
  BY <1>1 DEF NoRun
<1>4. SkillsTyped'
  BY <1>1, <1>2, <1>3 DEF SkillsInv, SkillsTyped
<1>5. ToldToSaved' = ToldToRun
  BY <1>1, <1>3 DEF ToldToSaved, ToldToRun
<1> QED BY <1>1, <1>2, <1>3, <1>4, <1>5 DEF SkillsInv

\* One that is not saved counts no more, and what was saved stays.
LEMMA FailSkillsInv ==
  ASSUME SkillsInv, FailQuantum \/ CrashRun PROVE SkillsInv'
<1>1. /\ registry' \in Scannings /\ run' = NoRun /\ ran' = NoToolCall
      /\ undone' = IF run.on THEN undone \cup {skillQuanta} ELSE undone
      /\ UNCHANGED <<saved, skillQuanta, told>>
  BY DEF FailQuantum, CrashRun, ReadShelf, SkillsInv, SkillsTyped
<1>2. /\ run'.on = FALSE
      /\ DOMAIN run' =
           {"on", "registry", "denied", "allowed", "model", "invocations", "touched"}
  BY <1>1 DEF NoRun
<1>3. undone' \subseteq 1..skillQuanta
  <2>1. run.on => skillQuanta \in 1..skillQuanta
    BY DEF SkillsInv, SkillsTyped
  <2> QED BY <1>1, <2>1 DEF SkillsInv, SkillsTyped
<1>4. SkillsTyped'
  BY <1>1, <1>2, <1>3 DEF SkillsInv, SkillsTyped
<1>5. ToldToSaved' = ToldToSaved
  BY <1>1, <1>2 DEF ToldToSaved
<1> QED BY <1>1, <1>2, <1>4, <1>5, NothingTold

\* An order binds the quanta that begin after it.
LEMMA OrderSkillsInv ==
  ASSUME SkillsInv, NEW n \in DOMAIN registry, OrderWithSkill(n) PROVE SkillsInv'
<1>1. PICK i : i = Reminder(n)
  OBVIOUS
<1>2. PICK x : x = [by |-> 0, what |-> i]
  OBVIOUS
<1>3. PICK noted : noted = Noted(saved.invocations, i)
  OBVIOUS
<1>4. /\ ~run.on
      /\ saved' = [saved EXCEPT !.invocations = noted]
      /\ told' = Append(told, x)
      /\ UNCHANGED <<registry, run, skillQuanta, undone, ran>>
  BY <1>1, <1>2, <1>3 DEF OrderWithSkill, SkillsInv, SkillsTyped
<1>5. x \in Tellings /\ x.by = 0 /\ x.what = i
  BY <1>1, <1>2, WhatIsTold DEF SkillsInv, SkillsTyped, Tellings, Reminder
<1>6. saved'.invocations = noted /\ DOMAIN saved' = {"invocations", "activated"}
  BY <1>4 DEF SkillsInv, SkillsTyped
<1>7. PICK l \in Nat : l = Len(told)
  BY DEF SkillsInv, SkillsTyped
<1>8. /\ told \in Seq(Tellings) /\ DOMAIN told = 1..l
      /\ told' \in Seq(Tellings) /\ DOMAIN told' = 1..(l + 1)
      /\ \A k \in 1..l : told'[k] = told[k]
      /\ told'[l + 1] = x
  BY <1>4, <1>5, <1>7 DEF SkillsInv, SkillsTyped
<1>9. ToldToSaved' = ToldToSaved \cup {l + 1} /\ ToldToSaved \subseteq DOMAIN told
  BY <1>4, <1>5, <1>8 DEF SkillsInv, SkillsTyped, ToldToSaved
<1>10. noted \in Seq(Instructions) /\ Follows(noted, told', LatestOf(told', ToldToSaved'))
  BY <1>3, <1>4, <1>5, <1>7, <1>8, <1>9, FollowsNoted DEF SkillsInv, SkillsTyped
<1>11. SkillsTyped'
  <2>1. ASSUME NEW k \in DOMAIN told' PROVE told'[k].by <= skillQuanta'
    BY <1>4, <1>5, <1>8 DEF SkillsInv, SkillsTyped
  <2> QED BY <1>4, <1>6, <1>8, <1>10, <2>1 DEF SkillsInv, SkillsTyped
<1> QED BY <1>4, <1>6, <1>10, <1>11 DEF SkillsInv

-----------------------------------------------------------------------------
\* The invariant holds for ever.
LEMMA SkillsInductive == SkillsSpec => []SkillsInv
<1>1. SkillsInit => SkillsInv
  <2> SUFFICES ASSUME SkillsInit PROVE SkillsInv
    OBVIOUS
  <2>1. /\ told = <<>> /\ saved.invocations = <<>> /\ undone = {} /\ skillQuanta = 0
        /\ DOMAIN saved = {"invocations", "activated"} /\ run.on = FALSE
        /\ registry \in Scannings /\ ran = NoToolCall
        /\ DOMAIN run = {"on", "registry", "denied", "allowed", "model", "invocations", "touched"}
    BY DEF SkillsInit, NoRun
  <2>2. LatestOf(told, ToldToSaved) = {}
    BY <2>1 DEF LatestOf, ToldToSaved
  <2>3. Follows(saved.invocations, told, {})
    <3>1. <<>> \in [DOMAIN <<>> -> {}] /\ DOMAIN <<>> = {}
      OBVIOUS
    <3> QED BY <2>1, <3>1 DEF Follows
  <2>4. SkillsTyped
    <3>1. <<>> \in Seq(Tellings) /\ <<>> \in Seq(Instructions) /\ DOMAIN <<>> = {}
      OBVIOUS
    <3> QED BY <2>1, <3>1 DEF SkillsTyped
  <2> QED BY <2>1, <2>2, <2>3, <2>4 DEF SkillsInv
<1>2. SkillsInv /\ [SkillsNext]_skillsVars => SkillsInv'
  <2> SUFFICES ASSUME SkillsInv, [SkillsNext]_skillsVars PROVE SkillsInv'
    OBVIOUS
  <2>1. CASE registry' \in Scannings /\ UNCHANGED <<saved, run, skillQuanta, told, undone, ran>>
    BY <2>1 DEF SkillsInv, SkillsTyped, ToldToSaved, ToldToRun
  <2>2. CASE ReloadSkills
    BY <2>1, <2>2 DEF ReloadSkills, ReadShelf
  <2>3. CASE UNCHANGED skillsVars
    BY <2>1, <2>3 DEF skillsVars, SkillsInv, SkillsTyped
  <2> QED BY <2>2, <2>3, BeginSkillsInv, EndSkillsInv, FailSkillsInv, CallSkillsInv,
             InvokeSkillsInv, OrderSkillsInv
          DEF SkillsNext
<1> QED BY <1>1, <1>2, PTL DEF SkillsSpec

\* The scopes of invocations are those of the instructions they follow from.
LEMMA ScopeFollows ==
  ASSUME NEW invocations, NEW t, NEW places, Follows(invocations, t, places)
  PROVE  ScopeOf(invocations) = UNION {t[i].what.allowed : i \in places}
<1>1. PICK place \in [DOMAIN invocations -> places] :
        /\ \A p \in places : \E k \in DOMAIN invocations : place[k] = p
        /\ \A k \in DOMAIN invocations : invocations[k] = t[place[k]].what
  BY DEF Follows
<1>2. ASSUME NEW e
      PROVE  e \in ScopeOf(invocations) <=> \E k \in DOMAIN invocations : e \in invocations[k].allowed
  BY DEF ScopeOf, Range
<1>3. ASSUME NEW e
      PROVE  (\E k \in DOMAIN invocations : e \in invocations[k].allowed) <=>
               \E i \in places : e \in t[i].what.allowed
  BY <1>1
<1> QED BY <1>2, <1>3

\* The model of invocations is the one that the last of them with a model names.
LEMMA ModelFollows ==
  ASSUME NEW invocations \in Seq(Instructions), NEW t, NEW places \in SUBSET Nat,
         Follows(invocations, t, places)
  PROVE  \/ /\ ModelOf(invocations) = NoModel
            /\ \A i \in places : t[i].what.model = NoModel
         \/ /\ ModelOf(invocations) # NoModel
            /\ \E i \in places : /\ t[i].what.model = ModelOf(invocations)
                                 /\ \A j \in places : j > i => t[j].what.model = NoModel
<1>1. PICK place \in [DOMAIN invocations -> places] :
        /\ \A j, k \in DOMAIN invocations : j < k => place[j] < place[k]
        /\ \A p \in places : \E k \in DOMAIN invocations : place[k] = p
        /\ \A k \in DOMAIN invocations : invocations[k] = t[place[k]].what
  BY DEF Follows
<1>2. PICK l \in Nat : DOMAIN invocations = 1..l
  OBVIOUS
<1>3. PICK with : with = {j \in DOMAIN invocations : invocations[j].model # NoModel}
  OBVIOUS
<1>4. CASE with = {}
  <2>1. ModelOf(invocations) = NoModel
    BY <1>3, <1>4 DEF ModelOf
  <2>2. \A i \in places : t[i].what.model = NoModel
    BY <1>1, <1>3, <1>4
  <2> QED BY <2>1, <2>2
<1>5. CASE with # {}
  <2>1. PICK last : last = CHOOSE j \in with : \A k \in with : k <= j
    OBVIOUS
  <2>2. last \in with /\ \A k \in with : k <= last
    BY <1>2, <1>3, <1>5, <2>1, LastPlace
  <2>3. ModelOf(invocations) = invocations[last].model
    BY <1>3, <1>5, <2>1 DEF ModelOf
  <2>4. /\ last \in 1..l /\ place[last] \in places
        /\ t[place[last]].what.model = invocations[last].model
        /\ invocations[last].model # NoModel
    BY <1>1, <1>2, <1>3, <2>2
  <2>5. ASSUME NEW j \in places, j > place[last] PROVE t[j].what.model = NoModel
    <3>1. PICK k \in 1..l : place[k] = j
      BY <1>1, <1>2
    <3>2. last < k
      <4>1. j \in Nat /\ place[last] \in Nat /\ place[k] > place[last]
        BY <2>4, <2>5, <3>1
      <4>2. k < last => place[k] < place[last]
        BY <1>1, <1>2, <2>4
      <4> QED BY <2>4, <3>1, <4>1, <4>2
    <3>3. k \notin with
      BY <2>2, <2>4, <3>2
    <3> QED BY <1>1, <1>2, <1>3, <3>1, <3>3
  <2> QED BY <2>3, <2>4, <2>5
<1> QED BY <1>4, <1>5

\* Through reloads, failed quanta and restarts a quantum works with the scopes and
\* the model of the skills whose instructions bind it (build_agent_tool_runtime).
THEOREM QuantaHonourTheirSkills == SkillsSpec => []QuantumHonoursItsSkills
<1>1. SkillsInv => QuantumHonoursItsSkills
  <2> SUFFICES ASSUME SkillsInv, run.on
               PROVE  /\ ran # NoToolCall /\ BindingScope # {} => Covered(ran, BindingScope)
                      /\ \/ run.model = NoModel /\ \A i \in Binding : told[i].what.model = NoModel
                         \/ run.model # NoModel /\ \E i \in Binding :
                              /\ told[i].what.model = run.model
                              /\ \A j \in Binding : j > i => told[j].what.model = NoModel
    BY DEF QuantumHonoursItsSkills
  <2>1. Binding = LatestOf(told, ToldToSaved)
    <3>1. ToldToSaved = {i \in DOMAIN told : told[i].by # skillQuanta /\ told[i].by \notin undone}
      BY DEF ToldToSaved
    <3> QED BY <3>1 DEF Binding
  <2>2. /\ Follows(saved.invocations, told, Binding) /\ saved.invocations \in Seq(Instructions)
        /\ run.allowed = ScopeOf(saved.invocations) /\ run.model = ModelOf(saved.invocations)
        /\ ran # NoToolCall /\ run.allowed # {} => Covered(ran, run.allowed)
    BY <2>1 DEF SkillsInv, SkillsTyped
  <2>3. Binding \in SUBSET Nat
    BY DEF Binding, LatestOf, SkillsInv, SkillsTyped
  <2>4. BindingScope = run.allowed
    BY <2>2, ScopeFollows DEF BindingScope
  <2> QED BY <2>2, <2>3, <2>4, ModelFollows
<1> QED BY <1>1, SkillsInductive, PTL

(***************************************************************************)
(* Session log                                                             *)
(*                                                                         *)
(* A log is read from the lines of a segment that are messages, by their   *)
(* places, so a line that a crash tore changes nothing.  The invariant is  *)
(* about the operation under way: the write calls that are left of it, the *)
(* lines it has written, and where a reader looks meanwhile.               *)
(***************************************************************************)

\* A set of places that is not empty has a first one.
LEMMA FirstOfPlaces ==
  ASSUME NEW n \in Nat, NEW places \in SUBSET (1..n), places # {}
  PROVE  \E j \in places : \A k \in places : j <= k
<1>1. PICK back : back = {d \in 1..n : n + 1 - d \in places}
  OBVIOUS
<1>2. back \in SUBSET (1..n) /\ back # {}
  <2>1. PICK j \in places : TRUE
    OBVIOUS
  <2>2. n + 1 - j \in 1..n /\ n + 1 - (n + 1 - j) = j
    BY <2>1
  <2> QED BY <1>1, <2>2
<1>3. PICK d \in back : \A e \in back : e <= d
  BY <1>2, LastPlace
<1>4. n + 1 - d \in places /\ d \in 1..n
  BY <1>1, <1>3
<1>5. ASSUME NEW k \in places PROVE n + 1 - d <= k
  <2>1. n + 1 - k \in 1..n /\ n + 1 - (n + 1 - k) = k
    OBVIOUS
  <2>2. n + 1 - k \in back
    BY <1>1, <2>1
  <2>3. n + 1 - k <= d
    BY <1>3, <2>2
  <2> QED BY <1>4, <2>1, <2>3
<1> QED BY <1>4, <1>5

\* The places up to p.
UpTo(places, p) == {q \in places : q <= p}

LEMMA UpToFinite ==
  ASSUME NEW n \in Nat, NEW places \in SUBSET (1..n), NEW p
  PROVE  /\ IsFiniteSet(places) /\ Cardinality(places) \in Nat
         /\ IsFiniteSet(UpTo(places, p)) /\ Cardinality(UpTo(places, p)) \in Nat
         /\ Cardinality(UpTo(places, p)) <= Cardinality(places)
<1>1. IsFiniteSet(1..n)
  BY FS_Interval
<1>2. IsFiniteSet(places)
  BY <1>1, FS_Subset
<1>3. UpTo(places, p) \in SUBSET places
  BY DEF UpTo
<1> QED BY <1>2, <1>3, FS_Subset, FS_CardinalityType

\* There is a k-th place for every k, and one only.
LEMMA NthPlace ==
  ASSUME NEW n \in Nat, NEW places \in SUBSET (1..n), NEW k \in 1..Cardinality(places)
  PROVE  /\ Nth(places, k) \in places
         /\ Cardinality(UpTo(places, Nth(places, k))) = k
<1>1. Cardinality(places) \in Nat /\ k \in Nat /\ k >= 1 /\ k <= Cardinality(places)
  BY UpToFinite
<1>2. PICK enough : enough = {p \in 1..n : Cardinality(UpTo(places, p)) >= k}
  OBVIOUS
<1>3. enough \in SUBSET (1..n) /\ enough # {}
  <2>1. places # {}
    BY <1>1, FS_EmptySet
  <2>2. n \in 1..n
    <3>1. PICK q \in places : TRUE
      BY <2>1
    <3>2. q \in 1..n
      BY <3>1
    <3> QED BY <3>2
  <2>3. UpTo(places, n) = places
    <3>1. \A q \in places : q <= n
      OBVIOUS
    <3> QED BY <3>1 DEF UpTo
  <2> QED BY <1>1, <1>2, <2>2, <2>3
<1>4. PICK p \in enough : \A q \in enough : p <= q
  BY <1>3, FirstOfPlaces
<1>5. p \in 1..n /\ Cardinality(UpTo(places, p)) >= k
  BY <1>2, <1>4
<1>6. Cardinality(UpTo(places, p - 1)) < k
  <2>1. CASE p = 1
    <3>1. UpTo(places, p - 1) = {}
      <4>1. ASSUME NEW q \in UpTo(places, p - 1) PROVE FALSE
        <5>1. q \in 1..n /\ q <= p - 1
          BY DEF UpTo
        <5> QED BY <2>1, <5>1
      <4> QED BY <4>1
    <3> QED BY <1>1, <3>1, FS_EmptySet
  <2>2. CASE p # 1
    <3>1. p - 1 \in 1..n /\ p - 1 \notin enough
      BY <1>4, <1>5, <2>2
    <3>2. Cardinality(UpTo(places, p - 1)) \in Nat
      BY UpToFinite
    <3> QED BY <1>1, <1>2, <3>1, <3>2
  <2> QED BY <2>1, <2>2
<1>7. p \in places
  <2> SUFFICES ASSUME p \notin places PROVE FALSE
    OBVIOUS
  <2>1. UpTo(places, p) = UpTo(places, p - 1)
    <3>1. ASSUME NEW q \in places PROVE q <= p <=> q <= p - 1
      <4>1. q \in 1..n /\ q # p /\ p \in 1..n
        BY <1>5
      <4> QED BY <4>1
    <3> QED BY <3>1 DEF UpTo
  <2>2. Cardinality(UpTo(places, p - 1)) \in Nat
    BY UpToFinite
  <2> QED BY <1>1, <1>5, <1>6, <2>1, <2>2
<1>8. Cardinality(UpTo(places, p)) = k
  <2>1. UpTo(places, p) = UpTo(places, p - 1) \cup {p}
    <3>1. ASSUME NEW q \in places PROVE q <= p <=> q <= p - 1 \/ q = p
      <4>1. q \in 1..n /\ p \in 1..n
        BY <1>5
      <4> QED BY <4>1
    <3> QED BY <1>7, <3>1 DEF UpTo
  <2>2. p \notin UpTo(places, p - 1)
    BY <1>5 DEF UpTo
  <2>3. Cardinality(UpTo(places, p)) = Cardinality(UpTo(places, p - 1)) + 1
    BY <2>1, <2>2, UpToFinite, FS_AddElement
  <2>4. Cardinality(UpTo(places, p - 1)) \in Nat
    BY UpToFinite
  <2> QED BY <1>1, <1>5, <1>6, <2>3, <2>4
<1>9. Nth(places, k) = CHOOSE q \in places : Cardinality(UpTo(places, q)) = k
  BY DEF Nth, UpTo
<1> QED BY <1>7, <1>8, <1>9

LEMMA NthOnly ==
  ASSUME NEW n \in Nat, NEW places \in SUBSET (1..n), NEW p \in places, NEW q \in places,
         Cardinality(UpTo(places, p)) = Cardinality(UpTo(places, q))
  PROVE  p = q
<1>1. ASSUME NEW a \in places, NEW b \in places, a < b
      PROVE  Cardinality(UpTo(places, a)) # Cardinality(UpTo(places, b))
  <2>1. UpTo(places, a) \in SUBSET UpTo(places, b)
    <3>1. ASSUME NEW r \in places, r <= a PROVE r <= b
      <4>1. r \in 1..n /\ a \in 1..n /\ b \in 1..n
        OBVIOUS
      <4> QED BY <1>1, <3>1, <4>1
    <3> QED BY <3>1 DEF UpTo
  <2>2. b \in UpTo(places, b) /\ b \notin UpTo(places, a)
    <3>1. a \in Int /\ b \in Int
      OBVIOUS
    <3> QED BY <1>1, <3>1 DEF UpTo
  <2>3. IsFiniteSet(UpTo(places, b))
    BY UpToFinite
  <2> QED BY <2>1, <2>2, <2>3, FS_Subset
<1>2. p \in Int /\ q \in Int
  OBVIOUS
<1>3. ~(p < q) /\ ~(q < p)
  BY <1>1
<1> QED BY <1>2, <1>3


\* What a line of a segment may be, and the lines that are messages.
LogEntries ==
  [role : {"meta", "summary", "fragment", "user", "assistant", "tool"},
   calls : SUBSET Nat, call : Nat, usage : Nat]

LogMessages == {m \in LogEntries : IsMessage(m)}

\* The places of the messages in a segment.
MessagePlaces(lines) == {i \in 1..Len(lines) : IsMessage(lines[i])}

\* The lines the model names.
LEMMA EntriesTyped ==
  /\ {Meta, Summary, Fragment} \subseteq LogEntries
  /\ ~IsMessage(Meta) /\ ~IsMessage(Summary) /\ ~IsMessage(Fragment)
  /\ {User, Assistant({1, 2}), ToolResult(1), ToolResult(2)} \subseteq LogMessages
<1>1. {Meta, Summary, Fragment} \subseteq LogEntries
  BY DEF Meta, Summary, Fragment, Text, LogEntries
<1>2. ~IsMessage(Meta) /\ ~IsMessage(Summary) /\ ~IsMessage(Fragment)
  BY DEF Meta, Summary, Fragment, Text, IsMessage
<1>3. User \in LogMessages
  BY DEF User, Text, LogMessages, LogEntries, IsMessage
<1>4. Assistant({1, 2}) \in LogMessages
  BY DEF Assistant, Text, LogMessages, LogEntries, IsMessage
<1>5. ToolResult(1) \in LogMessages /\ ToolResult(2) \in LogMessages
  BY DEF ToolResult, Text, LogMessages, LogEntries, IsMessage
<1> QED BY <1>1, <1>2, <1>3, <1>4, <1>5

\* The messages of a segment, one by one.
LEMMA MessagesAt ==
  ASSUME NEW lines \in Seq(LogEntries)
  PROVE  /\ Cardinality(MessagePlaces(lines)) \in Nat
         /\ MessagesIn(lines) \in Seq(LogMessages)
         /\ Len(MessagesIn(lines)) = Cardinality(MessagePlaces(lines))
         /\ \A k \in 1..Cardinality(MessagePlaces(lines)) :
              MessagesIn(lines)[k] = lines[Nth(MessagePlaces(lines), k)]
<1>1. Len(lines) \in Nat
  BY LenProperties
<1>2. MessagePlaces(lines) \in SUBSET (1..Len(lines))
  BY DEF MessagePlaces
<1>3. Cardinality(MessagePlaces(lines)) \in Nat
  BY <1>1, <1>2, UpToFinite
<1>4. MessagesIn(lines)
        = [k \in 1..Cardinality(MessagePlaces(lines)) |-> lines[Nth(MessagePlaces(lines), k)]]
  BY DEF MessagesIn, Picked, MessagePlaces
<1>5. ASSUME NEW k \in 1..Cardinality(MessagePlaces(lines))
      PROVE  lines[Nth(MessagePlaces(lines), k)] \in LogMessages
  <2>1. PICK p : p = Nth(MessagePlaces(lines), k)
    OBVIOUS
  <2>2. p \in MessagePlaces(lines)
    BY <1>1, <1>2, <2>1, NthPlace
  <2>3. p \in 1..Len(lines) /\ IsMessage(lines[p])
    BY <2>2 DEF MessagePlaces
  <2>4. lines[p] \in LogEntries
    BY <2>3, ElementOfSeq
  <2> QED BY <2>1, <2>3, <2>4 DEF LogMessages
<1>6. MessagesIn(lines) \in [1..Cardinality(MessagePlaces(lines)) -> LogMessages]
  BY <1>4, <1>5
<1>7. MessagesIn(lines) \in Seq(LogMessages)
  BY <1>3, <1>6, SeqDef
<1>8. Len(MessagesIn(lines)) = Cardinality(MessagePlaces(lines))
  BY <1>3, <1>6, <1>7, LenProperties
<1> QED BY <1>3, <1>4, <1>7, <1>8

\* A line more: the messages stay, and it is the last one if it is a message.
LEMMA MessagesAppend ==
  ASSUME NEW lines \in Seq(LogEntries), NEW entry \in LogEntries
  PROVE  MessagesIn(Append(lines, entry)) = IF IsMessage(entry)
                                            THEN Append(MessagesIn(lines), entry)
                                            ELSE MessagesIn(lines)
<1>1. PICK n \in Nat : n = Len(lines)
  BY LenProperties
<1>2. PICK after : after = Append(lines, entry)
  OBVIOUS
<1>3. /\ after \in Seq(LogEntries) /\ Len(after) = n + 1 /\ after[n + 1] = entry
      /\ \A i \in 1..n : after[i] = lines[i]
  BY <1>1, <1>2
<1>4. PICK old : old = MessagePlaces(lines)
  OBVIOUS
<1>5. PICK new : new = MessagePlaces(after)
  OBVIOUS
<1>6. old \in SUBSET (1..n) /\ old \in SUBSET (1..n+1) /\ new \in SUBSET (1..n+1)
  BY <1>1, <1>3, <1>4, <1>5 DEF MessagePlaces
<1>7. new = IF IsMessage(entry) THEN old \cup {n + 1} ELSE old
  <2>1. ASSUME NEW i \in 1..n+1
        PROVE  i \in new <=> IF i = n + 1 THEN IsMessage(entry) ELSE i \in old
    BY <1>1, <1>3, <1>4, <1>5 DEF MessagePlaces
  <2>2. \A i : i \in old \/ i \in new => i \in 1..n+1
    BY <1>6
  <2>3. \A i \in old : i # n + 1
    BY <1>6
  <2>4. CASE IsMessage(entry)
    <3>1. \A i : i \in new <=> i \in old \cup {n + 1}
      BY <2>1, <2>2, <2>3, <2>4
    <3> QED BY <2>4, <3>1
  <2>5. CASE ~IsMessage(entry)
    <3>1. \A i : i \in new <=> i \in old
      BY <2>1, <2>2, <2>3, <2>5
    <3> QED BY <2>5, <3>1
  <2> QED BY <2>4, <2>5
<1>8. n + 1 \notin old
  BY <1>6
<1>9. PICK c \in Nat : c = Cardinality(old)
  BY <1>6, UpToFinite
<1>10. Cardinality(new) = IF IsMessage(entry) THEN c + 1 ELSE c
  <2>1. IsFiniteSet(old)
    BY <1>6, UpToFinite
  <2> QED BY <1>7, <1>8, <1>9, <2>1, FS_AddElement
<1>18. PICK m \in Nat : m = n + 1
  OBVIOUS
<1>19. new \in SUBSET (1..m)
  BY <1>6, <1>18
<1>11. ASSUME NEW k \in 1..c PROVE Nth(new, k) = Nth(old, k)
  <2>1. PICK p : p = Nth(old, k)
    OBVIOUS
  <2>2. p \in old /\ Cardinality(UpTo(old, p)) = k
    BY <1>6, <1>9, <2>1, NthPlace
  <2>3. UpTo(new, p) = UpTo(old, p)
    <3>1. p \in 1..n /\ ~(n + 1 <= p)
      BY <1>6, <2>2
    <3> QED BY <1>7, <3>1 DEF UpTo
  <2>4. k \in 1..Cardinality(new)
    BY <1>9, <1>10
  <2>5. Nth(new, k) \in new /\ Cardinality(UpTo(new, Nth(new, k))) = k
    BY <1>19, <2>4, NthPlace
  <2>6. p \in new
    BY <1>7, <2>2
  <2>7. Cardinality(UpTo(new, Nth(new, k))) = Cardinality(UpTo(new, p))
    BY <2>2, <2>3, <2>5
  <2>8. Nth(new, k) = p
    BY <1>19, <2>5, <2>6, <2>7, NthOnly
  <2> QED BY <2>1, <2>8
<1>12. ASSUME IsMessage(entry) PROVE Nth(new, c + 1) = n + 1
  <2>1. Cardinality(new) = c + 1 /\ c + 1 \in 1..Cardinality(new)
    BY <1>9, <1>10, <1>12
  <2>2. Nth(new, c + 1) \in new /\ Cardinality(UpTo(new, Nth(new, c + 1))) = c + 1
    BY <1>19, <2>1, NthPlace
  <2>3. UpTo(new, n + 1) = new
    <3>1. ASSUME NEW q \in new PROVE q <= n + 1
      BY <1>6
    <3> QED BY <3>1 DEF UpTo
  <2>4. n + 1 \in new
    BY <1>7, <1>12
  <2>5. Cardinality(UpTo(new, Nth(new, c + 1))) = Cardinality(UpTo(new, n + 1))
    BY <2>1, <2>2, <2>3
  <2> QED BY <1>19, <2>2, <2>4, <2>5, NthOnly
<1>13. /\ MessagesIn(lines) \in Seq(LogMessages) /\ Len(MessagesIn(lines)) = c
       /\ \A k \in 1..c : MessagesIn(lines)[k] = lines[Nth(old, k)]
  BY <1>4, <1>9, MessagesAt
<1>14. /\ MessagesIn(after) \in Seq(LogMessages)
       /\ Len(MessagesIn(after)) = IF IsMessage(entry) THEN c + 1 ELSE c
       /\ \A k \in 1..Cardinality(new) : MessagesIn(after)[k] = after[Nth(new, k)]
  BY <1>3, <1>5, <1>10, MessagesAt
<1>15. ASSUME NEW k \in 1..c PROVE MessagesIn(after)[k] = MessagesIn(lines)[k]
  <2>1. k \in 1..Cardinality(new)
    BY <1>9, <1>10
  <2>2. Nth(old, k) \in 1..n
    BY <1>6, <1>9, NthPlace
  <2> QED BY <1>3, <1>11, <1>13, <1>14, <2>1, <2>2
<1>16. CASE ~IsMessage(entry)
  <2>1. Len(MessagesIn(after)) = Len(MessagesIn(lines))
    BY <1>13, <1>14, <1>16
  <2>2. MessagesIn(after) = MessagesIn(lines)
    BY <1>13, <1>14, <1>15, <2>1, SeqEqual
  <2> QED BY <1>2, <1>16, <2>2
<1>17. CASE IsMessage(entry)
  <2>1. PICK more : more = Append(MessagesIn(lines), entry)
    OBVIOUS
  <2>2. entry \in LogMessages
    BY <1>17 DEF LogMessages
  <2>3. /\ more \in Seq(LogMessages) /\ Len(more) = c + 1 /\ more[c + 1] = entry
        /\ \A k \in 1..c : more[k] = MessagesIn(lines)[k]
    BY <1>13, <2>1, <2>2
  <2>4. MessagesIn(after)[c + 1] = entry
    <3>1. c + 1 \in 1..Cardinality(new)
      BY <1>9, <1>10, <1>17
    <3> QED BY <1>3, <1>12, <1>14, <1>17, <3>1
  <2>5. Len(MessagesIn(after)) = Len(more)
    BY <1>14, <1>17, <2>3
  <2>6. \A k \in 1..Len(MessagesIn(after)) : MessagesIn(after)[k] = more[k]
    BY <1>9, <1>14, <1>15, <1>17, <2>3, <2>4
  <2>7. MessagesIn(after) = more
    BY <1>14, <2>3, <2>5, <2>6, SeqEqual
  <2> QED BY <1>2, <1>17, <2>1, <2>7
<1> QED BY <1>16, <1>17

\* What is read of a file are the messages of its lines: a torn line is none.
LEMMA MessagesOfFile ==
  ASSUME NEW f, f.lines \in Seq(LogEntries)
  PROVE  Messages(f) = MessagesIn(f.lines)
<1>1. CASE ~EndsTorn(f)
  BY <1>1 DEF Messages, Whole
<1>2. CASE EndsTorn(f)
  <2>1. f.lines # <<>> /\ f.lines[Len(f.lines)] = Fragment
    BY <1>2 DEF EndsTorn, Last
  <2>2. PICK n \in Nat : n = Len(f.lines)
    BY LenProperties
  <2>3. n >= 1
    BY <2>1, <2>2, EmptySeq
  <2>4. PICK front : front = Front(f.lines)
    OBVIOUS
  <2>5. front = SubSeq(f.lines, 1, n - 1)
    BY <2>2, <2>4 DEF Front
  <2>6. \A i \in 1..n : f.lines[i] \in LogEntries
    BY <2>2, ElementOfSeq
  <2>7. /\ front \in Seq(LogEntries) /\ Len(front) = n - 1
        /\ \A i \in 1..n-1 : front[i] = f.lines[i]
    <3>1. \A i \in 1..n-1 : f.lines[i] \in LogEntries
      BY <2>6
    <3>2. /\ SubSeq(f.lines, 1, n - 1) \in Seq(LogEntries)
          /\ Len(SubSeq(f.lines, 1, n - 1)) = IF 1 <= n - 1 THEN n - 1 - 1 + 1 ELSE 0
          /\ \A i \in 1..(n - 1 - 1 + 1) : SubSeq(f.lines, 1, n - 1)[i] = f.lines[1 + i - 1]
      BY <3>1, SubSeqProperties
    <3> QED BY <2>3, <2>5, <3>2
  <2>8. Append(front, Fragment) = f.lines
    <3>1. Fragment \in LogEntries
      BY EntriesTyped
    <3>2. PICK again : again = Append(front, Fragment)
      OBVIOUS
    <3>3. /\ again \in Seq(LogEntries) /\ Len(again) = n /\ again[n] = Fragment
          /\ \A i \in 1..n-1 : again[i] = front[i]
      BY <2>3, <2>7, <3>1, <3>2
    <3>4. \A i \in 1..n : again[i] = f.lines[i]
      BY <2>1, <2>2, <2>3, <2>7, <3>3
    <3>5. again = f.lines
      BY <2>2, <3>3, <3>4, SeqEqual
    <3> QED BY <3>2, <3>5
  <2>9. MessagesIn(f.lines) = MessagesIn(front)
    <3>1. Fragment \in LogEntries /\ ~IsMessage(Fragment)
      BY EntriesTyped
    <3>2. MessagesIn(Append(front, Fragment)) = MessagesIn(front)
      BY <2>7, <3>1, MessagesAppend
    <3> QED BY <2>8, <3>2
  <2> QED BY <1>2, <2>4, <2>9 DEF Messages, Whole
<1> QED BY <1>1, <1>2


LEMMA NoMessages == <<>> \in Seq(LogEntries) /\ MessagesIn(<<>>) = <<>>
<1>1. <<>> \in Seq(LogEntries) /\ Len(<<>>) = 0
  BY EmptySeq
<1>2. MessagePlaces(<<>>) = {}
  BY <1>1 DEF MessagePlaces
<1>3. Cardinality(MessagePlaces(<<>>)) = 0
  BY <1>2, FS_EmptySet
<1>4. MessagesIn(<<>>) \in Seq(LogMessages) /\ Len(MessagesIn(<<>>)) = 0
  BY <1>1, <1>3, MessagesAt
<1> QED BY <1>1, <1>4, EmptySeq

\* Of lines of which those after the first c are messages, these are read.
LEMMA MessagesAfter ==
  ASSUME NEW lines \in Seq(LogEntries), NEW c \in 0..Len(lines),
         \A i \in 1..Len(lines) : IsMessage(lines[i]) <=> i > c
  PROVE  MessagesIn(lines) = SubSeq(lines, c + 1, Len(lines))
<1>1. PICK n \in Nat : n = Len(lines)
  BY LenProperties
<1>2. c \in Nat /\ c <= n
  BY <1>1
<1>3. PICK places : places = MessagePlaces(lines)
  OBVIOUS
<1>4. places = c+1..n
  <2>1. ASSUME NEW i \in 1..n PROVE IsMessage(lines[i]) <=> i > c
    BY <1>1, <2>1
  <2>2. \A i : i \in places <=> i \in c+1..n
    BY <1>1, <1>2, <1>3, <2>1 DEF MessagePlaces
  <2> QED BY <2>2
<1>5. places \in SUBSET (1..n)
  BY <1>2, <1>4
<1>6. ASSUME NEW p \in Int, p >= c, p <= n PROVE Cardinality(UpTo(places, p)) = p - c
  <2>1. UpTo(places, p) = c+1..p
    <3>1. ASSUME NEW q \in Int PROVE (q \in c+1..n /\ q <= p) <=> q \in c+1..p
      BY <1>2, <1>6
    <3>2. \A q : q \in UpTo(places, p) => q \in Int
      BY <1>4 DEF UpTo
    <3>3. \A q : q \in UpTo(places, p) <=> q \in c+1..p
      BY <1>4, <3>1, <3>2 DEF UpTo
    <3> QED BY <3>3
  <2>2. Cardinality(c+1..p) = IF c + 1 > p THEN 0 ELSE p - (c + 1) + 1
    BY <1>2, FS_Interval
  <2> QED BY <1>2, <1>6, <2>1, <2>2
<1>7. Cardinality(places) = n - c
  <2>1. Cardinality(c+1..n) = IF c + 1 > n THEN 0 ELSE n - (c + 1) + 1
    BY <1>2, FS_Interval
  <2> QED BY <1>2, <1>4, <2>1
<1>8. ASSUME NEW k \in 1..n-c PROVE MessagesIn(lines)[k] = lines[c + k]
  <2>1. k \in 1..Cardinality(places)
    BY <1>7
  <2>2. Nth(places, k) \in places /\ Cardinality(UpTo(places, Nth(places, k))) = k
    BY <1>5, <2>1, NthPlace
  <2>3. c + k \in places /\ c + k \in Int /\ c + k >= c /\ c + k <= n
    BY <1>2, <1>4
  <2>4. Cardinality(UpTo(places, c + k)) = k
    BY <1>2, <1>6, <2>3
  <2>5. Nth(places, k) = c + k
    BY <1>5, <2>2, <2>3, <2>4, NthOnly
  <2> QED BY <1>3, <2>1, <2>5, MessagesAt
<1>9. PICK part : part = SubSeq(lines, c + 1, n)
  OBVIOUS
<1>10. /\ part \in Seq(LogEntries) /\ Len(part) = n - c
       /\ \A k \in 1..n-c : part[k] = lines[c + k]
  <2>1. \A i \in c+1..n : lines[i] \in LogEntries
    BY <1>1, <1>2, ElementOfSeq
  <2>2. /\ part \in Seq(LogEntries)
        /\ Len(part) = IF c + 1 <= n THEN n - (c + 1) + 1 ELSE 0
        /\ \A k \in 1..(n - (c + 1) + 1) : part[k] = lines[(c + 1) + k - 1]
    BY <1>2, <1>9, <2>1, SubSeqProperties
  <2>3. n - (c + 1) + 1 = n - c /\ \A k \in 1..n-c : (c + 1) + k - 1 = c + k
    BY <1>2
  <2> QED BY <1>2, <2>2, <2>3
<1>11. MessagesIn(lines) \in Seq(LogMessages) /\ Len(MessagesIn(lines)) = n - c
  BY <1>3, <1>7, MessagesAt
<1>12. MessagesIn(lines) \in Seq(LogEntries)
  <2>1. LogMessages \subseteq LogEntries
    BY DEF LogMessages
  <2> QED BY <1>11, <2>1, SeqMonotonic
<1>13. MessagesIn(lines) = part
  BY <1>8, <1>10, <1>11, <1>12, SeqEqual
<1> QED BY <1>1, <1>9, <1>13

\* A repaired conversation is one.
LEMMA SanitizedTyped ==
  ASSUME NEW seq \in Seq(LogMessages)
  PROVE  Sanitized(seq) \in Seq(LogMessages)
<1>1. PICK n \in Nat : n = Len(seq)
  BY LenProperties
<1>2. CASE Unanswered(seq) = {}
  <2>1. CutAt(seq) = 0
    BY <1>2 DEF CutAt
  <2> QED BY <2>1 DEF Sanitized
<1>3. CASE Unanswered(seq) # {}
  <2>1. PICK places : places = Unanswered(seq)
    OBVIOUS
  <2>2. places \in SUBSET (1..n) /\ places # {}
    BY <1>1, <1>3, <2>1 DEF Unanswered
  <2>3. \E i \in places : \A j \in places : i <= j
    BY <2>2, FirstOfPlaces
  <2>4. CutAt(seq) = CHOOSE i \in places : \A j \in places : i <= j
    BY <1>3, <2>1 DEF CutAt
  <2>5. CutAt(seq) \in 1..n
    BY <2>2, <2>3, <2>4
  <2>6. \A i \in 1..CutAt(seq)-1 : seq[i] \in LogMessages
    <3>1. ASSUME NEW i \in 1..CutAt(seq)-1 PROVE i \in 1..n
      BY <2>5
    <3> QED BY <1>1, <3>1, ElementOfSeq
  <2>7. SubSeq(seq, 1, CutAt(seq) - 1) \in Seq(LogMessages)
    <3>1. CutAt(seq) - 1 \in Int
      BY <2>5
    <3> QED BY <2>6, <3>1, SubSeqProperties
  <2>8. CutAt(seq) # 0
    BY <2>5
  <2> QED BY <2>7, <2>8 DEF Sanitized
<1> QED BY <1>2, <1>3

\* Lines that leave a log when they are written one by one, and a beginning of it
\* until then.
FillsWith(full, log) ==
  /\ full \in Seq(LogEntries) /\ full # <<>>
  /\ MessagesIn(full) = log
  /\ \A j \in 0..Len(full) : MessagesIn(SubSeq(full, 1, j)) \in Prefixes(log)

\* The lines of a new segment and of one that is written again do.
LEMMA HeadAndLog ==
  ASSUME NEW head \in {<<>>, <<Summary>>}, NEW log \in Seq(LogMessages)
  PROVE  FillsWith(<<Meta>> \o (head \o log), log)
<1>1. PICK full : full = <<Meta>> \o (head \o log)
  OBVIOUS
<1>2. PICK n \in Nat : n = Len(log)
  BY LenProperties
<1>3. PICK c \in 1..2 : /\ c = 1 + Len(head) /\ Len(head) = c - 1
                       /\ head \in Seq(LogEntries) /\ \A i \in 1..c-1 : head[i] = Summary
  <2>1. CASE head = <<>>
    <3>1. head \in Seq(LogEntries) /\ Len(head) = 0
      BY <2>1, EmptySeq
    <3> QED BY <3>1
  <2>2. CASE head = <<Summary>>
    <3>1. head \in Seq(LogEntries) /\ Len(head) = 1 /\ head[1] = Summary
      BY <2>2, EntriesTyped
    <3> QED BY <3>1
  <2> QED BY <2>1, <2>2
<1>4. /\ full \in Seq(LogEntries) /\ Len(full) = c + n
      /\ \A i \in 1..c : ~IsMessage(full[i])
      /\ \A i \in 1..n : full[c + i] = log[i] /\ IsMessage(full[c + i])
  <2>1. log \in Seq(LogEntries) /\ \A i \in 1..n : log[i] \in LogMessages
    <3>1. LogMessages \subseteq LogEntries
      BY DEF LogMessages
    <3>2. \A i \in 1..n : log[i] \in LogMessages
      BY <1>2, ElementOfSeq
    <3> QED BY <3>1, <3>2, SeqMonotonic
  <2>2. <<Meta>> \in Seq(LogEntries) /\ Len(<<Meta>>) = 1 /\ <<Meta>>[1] = Meta
    BY EntriesTyped
  <2>3. PICK rest : rest = head \o log
    OBVIOUS
  <2>4. /\ rest \in Seq(LogEntries) /\ Len(rest) = c - 1 + n
        /\ \A i \in 1..c-1+n : rest[i] = IF i <= c - 1 THEN head[i] ELSE log[i - (c - 1)]
    BY <1>2, <1>3, <2>1, <2>3, ConcatProperties
  <2>5. /\ full \in Seq(LogEntries) /\ Len(full) = 1 + (c - 1 + n)
        /\ \A i \in 1..1+(c-1+n) : full[i] = IF i <= 1 THEN <<Meta>>[i] ELSE rest[i - 1]
    <3>1. full = <<Meta>> \o rest
      BY <1>1, <2>3
    <3>2. /\ full \in Seq(LogEntries) /\ Len(full) = Len(<<Meta>>) + Len(rest)
          /\ \A i \in 1..Len(<<Meta>>) + Len(rest) :
               full[i] = IF i <= Len(<<Meta>>) THEN <<Meta>>[i] ELSE rest[i - Len(<<Meta>>)]
      BY <2>2, <2>4, <3>1, ConcatProperties
    <3>3. PICK one : one = <<Meta>>
      OBVIOUS
    <3>4. Len(one) = 1
      BY <2>2, <3>3
    <3> QED BY <2>4, <3>2, <3>3, <3>4
  <2>6. ASSUME NEW i \in 1..c PROVE ~IsMessage(full[i])
    <3>1. CASE i = 1
      BY <2>2, <2>5, <3>1, EntriesTyped
    <3>2. CASE i # 1
      <4>1. i - 1 \in 1..c-1 /\ i - 1 \in 1..c-1+n /\ i \in 1..1+(c-1+n) /\ ~(i <= 1)
        BY <3>2
      <4>2. full[i] = Summary
        BY <1>3, <2>4, <2>5, <4>1, SMTT(30)
      <4> QED BY <4>2, EntriesTyped
    <3> QED BY <3>1, <3>2
  <2>7. ASSUME NEW i \in 1..n PROVE full[c + i] = log[i] /\ IsMessage(full[c + i])
    <3>1. /\ c + i \in 1..1+(c-1+n) /\ ~(c + i <= 1)
          /\ c + i - 1 \in 1..c-1+n /\ ~(c + i - 1 <= c - 1) /\ c + i - 1 - (c - 1) = i
      OBVIOUS
    <3>2. full[c + i] = rest[c + i - 1]
      BY <2>5, <3>1
    <3>4. rest[c + i - 1] = log[i]
      <4>1. PICK q \in 1..c-1+n : q = c + i - 1
        BY <3>1
      <4>2. ~(q <= c - 1) /\ q - (c - 1) = i
        BY <4>1
      <4>3. rest[q] = log[q - (c - 1)]
        BY <2>4, <4>2
      <4> QED BY <4>1, <4>2, <4>3
    <3>3. log[i] \in LogMessages
      BY <2>1
    <3> QED BY <3>2, <3>3, <3>4 DEF LogMessages
  <2>8. Len(full) = c + n
    BY <2>5
  <2> QED BY <2>5, <2>6, <2>7, <2>8
<1>5. ASSUME NEW j \in 0..c+n
      PROVE  MessagesIn(SubSeq(full, 1, j)) = SubSeq(log, 1, IF j < c THEN 0 ELSE j - c)
  <2>1. PICK some : some = SubSeq(full, 1, j)
    OBVIOUS
  <2>2. \A i \in 1..j : full[i] \in LogEntries
    BY <1>4, ElementOfSeq
  <2>3. /\ some \in Seq(LogEntries) /\ Len(some) = j
        /\ \A i \in 1..j : some[i] = full[i]
    <3>1. /\ some \in Seq(LogEntries) /\ Len(some) = IF 1 <= j THEN j - 1 + 1 ELSE 0
          /\ \A i \in 1..(j - 1 + 1) : some[i] = full[1 + i - 1]
      BY <2>1, <2>2, SubSeqProperties
    <3> QED BY <3>1
  <2>4. PICK d \in Nat : d = IF j < c THEN j ELSE c
    OBVIOUS
  <2>5. d \in 0..Len(some)
    BY <2>3, <2>4
  <2>6. ASSUME NEW i \in 1..Len(some) PROVE IsMessage(some[i]) <=> i > d
    <3>1. CASE i <= c
      <4>1. ~IsMessage(some[i])
        BY <1>4, <2>3, <3>1
      <4> QED BY <2>3, <2>4, <3>1, <4>1
    <3>2. CASE i > c
      <4>1. i - c \in 1..n /\ c + (i - c) = i
        BY <2>3, <3>2
      <4>2. IsMessage(some[i])
        BY <1>4, <2>3, <4>1
      <4> QED BY <2>3, <2>4, <3>2, <4>2
    <3> QED BY <3>1, <3>2
  <2>7. MessagesIn(some) = SubSeq(some, d + 1, j)
    BY <2>3, <2>5, <2>6, MessagesAfter
  <2>8. PICK read : read = SubSeq(some, d + 1, j)
    OBVIOUS
  <2>9. PICK part : part = SubSeq(log, 1, IF j < c THEN 0 ELSE j - c)
    OBVIOUS
  <2>10. /\ read \in Seq(LogEntries) /\ Len(read) = j - d
         /\ \A i \in 1..j-d : read[i] = some[d + i]
    <3>1. \A i \in d+1..j : some[i] \in LogEntries
      BY <2>3, <2>4, ElementOfSeq
    <3>2. /\ read \in Seq(LogEntries)
          /\ Len(read) = IF d + 1 <= j THEN j - (d + 1) + 1 ELSE 0
          /\ \A i \in 1..(j - (d + 1) + 1) : read[i] = some[(d + 1) + i - 1]
      BY <2>8, <3>1, SubSeqProperties
    <3>3. j - (d + 1) + 1 = j - d /\ \A i \in 1..j-d : (d + 1) + i - 1 = d + i
      BY <2>4
    <3> QED BY <2>4, <3>2, <3>3
  <2>11. PICK e : e = IF j < c THEN 0 ELSE j - c
    OBVIOUS
  <2>12. e \in 0..n /\ e = j - d
    BY <2>4, <2>11
  <2>13. /\ part \in Seq(LogMessages) /\ Len(part) = e
         /\ \A i \in 1..e : part[i] = log[i]
    <3>1. \A i \in 1..e : log[i] \in LogMessages
      BY <1>2, <2>12, ElementOfSeq
    <3>2. /\ part \in Seq(LogMessages) /\ Len(part) = IF 1 <= e THEN e - 1 + 1 ELSE 0
          /\ \A i \in 1..(e - 1 + 1) : part[i] = log[1 + i - 1]
      BY <2>9, <2>11, <3>1, SubSeqProperties
    <3> QED BY <2>12, <3>2
  <2>14. part \in Seq(LogEntries)
    <3>1. LogMessages \subseteq LogEntries
      BY DEF LogMessages
    <3> QED BY <2>13, <3>1, SeqMonotonic
  <2>15. ASSUME NEW i \in 1..e PROVE read[i] = part[i]
    <3>1. ~(j < c) /\ d = c /\ i \in 1..n /\ c + i \in 1..j
      BY <2>4, <2>11, <2>12
    <3>2. read[i] = some[c + i]
      BY <2>10, <2>12, <3>1
    <3> QED BY <1>4, <2>3, <2>13, <3>1, <3>2
  <2>16. read = part
    BY <2>10, <2>12, <2>13, <2>14, <2>15, SeqEqual
  <2> QED BY <2>1, <2>7, <2>8, <2>9, <2>16
<1>6. ASSUME NEW j \in 0..Len(full) PROVE MessagesIn(SubSeq(full, 1, j)) \in Prefixes(log)
  <2>1. j \in 0..c+n
    BY <1>4
  <2>2. PICK e : e = IF j < c THEN 0 ELSE j - c
    OBVIOUS
  <2>4. e \in 0..n
    BY <2>1, <2>2
  <2>3. MessagesIn(SubSeq(full, 1, j)) = SubSeq(log, 1, e)
    BY <1>5, <2>1, <2>2
  <2> QED BY <1>2, <2>3, <2>4 DEF Prefixes
<1>7. MessagesIn(full) = log
  <2>1. c + n \in 0..c+n /\ (IF c + n < c THEN 0 ELSE c + n - c) = n
    OBVIOUS
  <2>2. SubSeq(full, 1, c + n) = full
    BY <1>4, SubSeqFull
  <2>3. SubSeq(log, 1, n) = log
    BY <1>2, SubSeqFull
  <2>4. MessagesIn(SubSeq(full, 1, c + n)) = SubSeq(log, 1, n)
    BY <1>5, <2>1
  <2> QED BY <2>2, <2>3, <2>4
<1>8. full # <<>>
  <2>1. Len(full) # 0
    BY <1>4
  <2> QED BY <2>1, EmptySeq
<1> QED BY <1>1, <1>4, <1>6, <1>7, <1>8 DEF FillsWith


\* The write calls of an operation.
LogCalls ==
  [call : {"create", "line", "newline", "unpoint", "point"}, seg : Segments, entry : LogEntries]

\* The calls that make a segment of these lines.
FillCalls(s, full) == <<FileCall("create", s)>> \o Lines(s, full)
FillThen(s, full, tail) == FillCalls(s, full) \o tail

LEMMA CallsTyped ==
  ASSUME NEW s \in Segments, NEW entry \in LogEntries
  PROVE  /\ FileCall("create", s) \in LogCalls
         /\ PointTo(s) \in Seq(LogCalls) /\ Len(PointTo(s)) = 2
         /\ PointTo(s)[1] = FileCall("unpoint", s) /\ PointTo(s)[2] = FileCall("point", s)
         /\ Line(s, entry) \in Seq(LogCalls) /\ Len(Line(s, entry)) = 2
         /\ Line(s, entry)[1] = [call |-> "line", seg |-> s, entry |-> entry]
         /\ Line(s, entry)[2] = FileCall("newline", s)
<1>1. Meta \in LogEntries
  BY EntriesTyped
<1>2. /\ FileCall("create", s) \in LogCalls /\ FileCall("unpoint", s) \in LogCalls
      /\ FileCall("point", s) \in LogCalls /\ FileCall("newline", s) \in LogCalls
  BY <1>1 DEF FileCall, LogCalls
<1>3. [call |-> "line", seg |-> s, entry |-> entry] \in LogCalls
  BY DEF LogCalls
<1>4. PointTo(s) = <<FileCall("unpoint", s), FileCall("point", s)>>
  BY DEF PointTo
<1>5. Line(s, entry) = <<[call |-> "line", seg |-> s, entry |-> entry], FileCall("newline", s)>>
  BY DEF Line, FileCall
<1> QED BY <1>2, <1>3, <1>4, <1>5

\* A line and its newline for each entry.
LEMMA LinesAt ==
  ASSUME NEW s \in Segments, NEW full \in Seq(LogEntries)
  PROVE  /\ Lines(s, full) \in Seq(LogCalls) /\ Len(Lines(s, full)) = 2 * Len(full)
         /\ \A j \in 1..Len(full) :
              /\ Lines(s, full)[2 * j - 1] = [call |-> "line", seg |-> s, entry |-> full[j]]
              /\ Lines(s, full)[2 * j] = FileCall("newline", s)
<1>1. PICK n \in Nat : n = Len(full)
  BY LenProperties
<1>2. PICK calls : calls = Lines(s, full)
  OBVIOUS
<1>3. calls = [k \in 1..2 * n |-> Line(s, full[(k + 1) \div 2])[2 - (k % 2)]]
  BY <1>1, <1>2 DEF Lines
<1>4. ASSUME NEW j \in 1..n
      PROVE  /\ calls[2 * j - 1] = [call |-> "line", seg |-> s, entry |-> full[j]]
             /\ calls[2 * j] = FileCall("newline", s)
  <2>1. /\ 2 * j - 1 \in 1..2 * n /\ 2 * j \in 1..2 * n
        /\ ((2 * j - 1) + 1) \div 2 = j /\ 2 - ((2 * j - 1) % 2) = 1
        /\ (2 * j + 1) \div 2 = j /\ 2 - ((2 * j) % 2) = 2
    OBVIOUS
  <2>2. calls[2 * j - 1] = Line(s, full[j])[1] /\ calls[2 * j] = Line(s, full[j])[2]
    BY <1>3, <2>1
  <2>3. full[j] \in LogEntries
    BY <1>1, ElementOfSeq
  <2> QED BY <2>2, <2>3, CallsTyped
<1>5. ASSUME NEW k \in 1..2 * n PROVE calls[k] \in LogCalls
  <2>1. PICK j \in 1..n : k = 2 * j - 1 \/ k = 2 * j
    <3>1. (k + 1) \div 2 \in 1..n
      OBVIOUS
    <3>2. k = 2 * ((k + 1) \div 2) - 1 \/ k = 2 * ((k + 1) \div 2)
      OBVIOUS
    <3> QED BY <3>1, <3>2
  <2>2. full[j] \in LogEntries
    BY <1>1, ElementOfSeq
  <2>3. /\ [call |-> "line", seg |-> s, entry |-> full[j]] \in LogCalls
        /\ FileCall("newline", s) \in LogCalls
    BY <2>2, EntriesTyped DEF LogCalls, FileCall
  <2> QED BY <1>4, <2>1, <2>3
<1>6. calls \in [1..2 * n -> LogCalls]
  BY <1>3, <1>5
<1>7. 2 * n \in Nat
  OBVIOUS
<1>8. calls \in Seq(LogCalls)
  BY <1>6, <1>7, SeqDef
<1>9. Len(calls) = 2 * n
  BY <1>6, <1>7, <1>8, LenProperties
<1> QED BY <1>1, <1>2, <1>4, <1>8, <1>9

\* The elements of a part of a sequence.
LEMMA PartOf ==
  ASSUME NEW S, NEW seq \in Seq(S), NEW a \in Nat, NEW b \in Nat,
         1 <= a, a <= b + 1, b <= Len(seq)
  PROVE  /\ SubSeq(seq, a, b) \in Seq(S) /\ Len(SubSeq(seq, a, b)) = b - a + 1
         /\ \A i \in 1..b - a + 1 : SubSeq(seq, a, b)[i] = seq[a + i - 1]
<1>1. Len(seq) \in Nat
  BY LenProperties
<1>2. \A i \in a..b : seq[i] \in S
  <2>1. ASSUME NEW i \in a..b PROVE i \in 1..Len(seq)
    BY <1>1
  <2> QED BY <2>1, ElementOfSeq
<1>3. /\ SubSeq(seq, a, b) \in Seq(S)
      /\ Len(SubSeq(seq, a, b)) = IF a <= b THEN b - a + 1 ELSE 0
      /\ \A i \in 1..b - a + 1 : SubSeq(seq, a, b)[i] = seq[a + i - 1]
  BY <1>2, SubSeqProperties
<1>4. (IF a <= b THEN b - a + 1 ELSE 0) = b - a + 1
  OBVIOUS
<1> QED BY <1>3, <1>4

\* A sequence that ends in another.
LEMMA EndOf ==
  ASSUME NEW S, NEW seq \in Seq(S), NEW end \in Seq(S), NEW d \in Nat,
         Len(seq) = d + Len(end), \A i \in 1..Len(end) : seq[d + i] = end[i]
  PROVE  SubSeq(seq, d + 1, d + Len(end)) = end
<1>1. PICK m \in Nat : m = Len(end)
  BY LenProperties
<1>2. PICK a \in Nat : a = d + 1
  OBVIOUS
<1>3. PICK b \in Nat : b = d + m
  OBVIOUS
<1>4. PICK part : part = SubSeq(seq, a, b)
  OBVIOUS
<1>5. 1 <= a /\ a <= b + 1 /\ b <= Len(seq)
  BY <1>1, <1>2, <1>3
<1>6. /\ part \in Seq(S) /\ Len(part) = b - a + 1
      /\ \A i \in 1..b - a + 1 : part[i] = seq[a + i - 1]
  BY <1>4, <1>5, PartOf
<1>7. b - a + 1 = m
  BY <1>2, <1>3
<1>8. ASSUME NEW i \in 1..m PROVE part[i] = end[i]
  <2>1. part[i] = seq[a + i - 1] /\ a + i - 1 = d + i
    BY <1>2, <1>6, <1>7
  <2> QED BY <1>1, <2>1
<1>9. part = end
  BY <1>1, <1>6, <1>7, <1>8, SeqEqual
<1> QED BY <1>1, <1>2, <1>3, <1>4, <1>9

\* The calls that make a segment, and what follows them.
LEMMA FillCallsAt ==
  ASSUME NEW s \in Segments, NEW full \in Seq(LogEntries), NEW tail \in Seq(LogCalls)
  PROVE  /\ FillThen(s, full, tail) \in Seq(LogCalls)
         /\ Len(FillThen(s, full, tail)) = 2 * Len(full) + 1 + Len(tail)
         /\ FillThen(s, full, tail)[1] = FileCall("create", s)
         /\ \A j \in 1..Len(full) :
              /\ FillThen(s, full, tail)[2 * j] = [call |-> "line", seg |-> s, entry |-> full[j]]
              /\ FillThen(s, full, tail)[2 * j + 1] = FileCall("newline", s)
         /\ SubSeq(FillThen(s, full, tail), 2 * Len(full) + 2, Len(FillThen(s, full, tail))) = tail
<1>0. PICK calls : calls = FillThen(s, full, tail)
  OBVIOUS
<1>1. PICK n \in Nat : n = Len(full)
  BY LenProperties
<1>2. PICK m \in Nat : m = Len(tail)
  BY LenProperties
<1>3. PICK lines : lines = Lines(s, full)
  OBVIOUS
<1>4. /\ lines \in Seq(LogCalls) /\ Len(lines) = 2 * n
      /\ \A j \in 1..n : /\ lines[2 * j - 1] = [call |-> "line", seg |-> s, entry |-> full[j]]
                         /\ lines[2 * j] = FileCall("newline", s)
  BY <1>1, <1>3, LinesAt
<1>5. PICK first : first = <<FileCall("create", s)>>
  OBVIOUS
<1>6. first \in Seq(LogCalls) /\ Len(first) = 1 /\ first[1] = FileCall("create", s)
  <2>1. FileCall("create", s) \in LogCalls
    BY EntriesTyped DEF FileCall, LogCalls
  <2> QED BY <1>5, <2>1
<1>7. PICK fill : fill = first \o lines
  OBVIOUS
<1>8. /\ fill \in Seq(LogCalls) /\ Len(fill) = 1 + 2 * n
      /\ \A i \in 1..1 + 2 * n : fill[i] = IF i <= 1 THEN first[i] ELSE lines[i - 1]
  <2>1. /\ fill \in Seq(LogCalls) /\ Len(fill) = Len(first) + Len(lines)
        /\ \A i \in 1..Len(first) + Len(lines) :
             fill[i] = IF i <= Len(first) THEN first[i] ELSE lines[i - Len(first)]
    BY <1>4, <1>6, <1>7, ConcatProperties
  <2> QED BY <1>4, <1>6, <2>1
<1>9. calls = fill \o tail
  BY <1>0, <1>3, <1>5, <1>7 DEF FillCalls, FillThen
<1>10. /\ calls \in Seq(LogCalls) /\ Len(calls) = 1 + 2 * n + m
       /\ \A i \in 1..1 + 2 * n + m :
            calls[i] = IF i <= 1 + 2 * n THEN fill[i] ELSE tail[i - (1 + 2 * n)]
  <2>1. /\ calls \in Seq(LogCalls) /\ Len(calls) = Len(fill) + Len(tail)
        /\ \A i \in 1..Len(fill) + Len(tail) :
             calls[i] = IF i <= Len(fill) THEN fill[i] ELSE tail[i - Len(fill)]
    <3>1. fill \in Seq(LogCalls)
      BY <1>8
    <3> QED BY <1>9, <3>1, ConcatProperties
  <2> QED BY <1>2, <1>8, <2>1
<1>11. calls[1] = FileCall("create", s)
  <2>1. /\ 1 \in 1..1 + 2 * n /\ 1 \in 1..1 + 2 * n + m /\ 1 <= 1 + 2 * n
    OBVIOUS
  <2>2. calls[1] = fill[1]
    BY <1>10, <2>1
  <2>3. fill[1] = first[1]
    BY <1>8, <2>1
  <2> QED BY <1>6, <2>2, <2>3
<1>12. ASSUME NEW j \in 1..n
       PROVE  /\ calls[2 * j] = [call |-> "line", seg |-> s, entry |-> full[j]]
              /\ calls[2 * j + 1] = FileCall("newline", s)
  <2>1. /\ 2 * j \in 1..1 + 2 * n /\ 2 * j \in 1..1 + 2 * n + m /\ ~(2 * j <= 1)
        /\ 2 * j + 1 \in 1..1 + 2 * n /\ 2 * j + 1 \in 1..1 + 2 * n + m /\ ~(2 * j + 1 <= 1)
        /\ 2 * j <= 1 + 2 * n /\ 2 * j + 1 <= 1 + 2 * n /\ 2 * j + 1 - 1 = 2 * j
    OBVIOUS
  <2>2. calls[2 * j] = fill[2 * j] /\ calls[2 * j + 1] = fill[2 * j + 1]
    BY <1>10, <2>1
  <2>3. fill[2 * j] = lines[2 * j - 1] /\ fill[2 * j + 1] = lines[2 * j]
    BY <1>8, <2>1
  <2> QED BY <1>4, <2>2, <2>3
<1>13. SubSeq(calls, 2 * n + 2, 1 + 2 * n + m) = tail
  <2>1. PICK d \in Nat : d = 1 + 2 * n
    OBVIOUS
  <2>2. Len(calls) = d + Len(tail) /\ calls \in Seq(LogCalls)
    BY <1>2, <1>10, <2>1
  <2>3. ASSUME NEW i \in 1..Len(tail) PROVE calls[d + i] = tail[i]
    <3>1. PICK q \in 1..1 + 2 * n + m : q = d + i
      BY <1>2, <2>1
    <3>2. ~(q <= 1 + 2 * n) /\ q - (1 + 2 * n) = i
      BY <1>2, <2>1, <3>1
    <3> QED BY <1>10, <3>1, <3>2
  <2>4. SubSeq(calls, d + 1, d + Len(tail)) = tail
    BY <2>2, <2>3, EndOf
  <2>5. d + 1 = 2 * n + 2 /\ d + Len(tail) = 1 + 2 * n + m
    BY <1>2, <2>1
  <2> QED BY <2>4, <2>5
<1>14. Len(calls) = 2 * n + 1 + m /\ 2 * n + 1 + m = 1 + 2 * n + m
  BY <1>10
<1>15. SubSeq(calls, 2 * n + 2, Len(calls)) = tail
  BY <1>10, <1>13
<1> QED BY <1>0, <1>1, <1>2, <1>10, <1>11, <1>12, <1>14, <1>15

\* The next of the calls that are left, and the rest.
LEMMA NextCall ==
  ASSUME NEW calls \in Seq(LogCalls), NEW k \in 1..Len(calls), NEW left,
         left = SubSeq(calls, k, Len(calls))
  PROVE  /\ left # <<>> /\ Head(left) = calls[k]
         /\ Tail(left) = SubSeq(calls, k + 1, Len(calls))
         /\ Len(left) = 1 <=> k = Len(calls)
         /\ k = Len(calls) => Tail(left) = <<>>
<1>1. PICK n \in Nat : n = Len(calls)
  BY LenProperties
<1>2. Head(left) = calls[k] /\ Tail(left) = SubSeq(calls, k + 1, n)
  BY <1>1, HeadTailOfSubSeq
<1>3. left \in Seq(LogCalls) /\ Len(left) = n - k + 1
  <2>1. \A i \in k..n : calls[i] \in LogCalls
    BY <1>1, ElementOfSeq
  <2>2. left \in Seq(LogCalls) /\ Len(left) = IF k <= n THEN n - k + 1 ELSE 0
    BY <1>1, <2>1, SubSeqProperties
  <2> QED BY <1>1, <2>2
<1>4. left # <<>>
  <2>1. Len(left) # 0
    BY <1>1, <1>3
  <2> QED BY <2>1, EmptySeq
<1>5. k = n => SubSeq(calls, k + 1, n) = <<>>
  BY <1>1, SubSeqEmpty
<1> QED BY <1>1, <1>2, <1>3, <1>4, <1>5


LogFile == [lines : Seq(LogEntries), ended : BOOLEAN, exists : BOOLEAN]

StoreStates == {"closed", "open", "loaded"}

LogTyped ==
  /\ segment \in [Segments -> LogFile]
  /\ pointer \in Segments \cup {NoSegment} /\ current \in Segments \cup {NoSegment}
  /\ store \in StoreStates /\ replayed \in Seq(LogMessages)
  /\ result \in [store : StoreStates, current : Segments \cup {NoSegment},
                 replayed : Seq(LogMessages)]

\* Segments are begun in their order, and the pointer and a store are at one that
\* is there.
LogFiles ==
  /\ \A s \in Existing : \A t \in Segments : t < s => t \in Existing
  /\ pointer # NoSegment => pointer \in Existing
  /\ store # "closed" => current \in Existing
  /\ store = "closed" => current = NoSegment
  /\ Existing = {} => <<>> \in promise

\* What is read of a segment, unless a line of it was joined to another.
Holds(s, log) == s \notin joined => MessagesIn(segment[s].lines) = log

\* What a reader finds was promised, torn lines or not.
LogFound ==
  ResolvedLog # NoSegment /\ ResolvedLog \notin joined
    => MessagesIn(segment[ResolvedLog].lines) \in promise

\* There is no later segment, and all earlier ones are there.
Newest(s) ==
  \A t \in Segments : (t < s => t \in Existing) /\ (t > s => t \notin Existing)

\* A segment is being written, and these lines are what is in it so far.
Filled(s, full, k) ==
  \/ k = 1
  \/ \E j \in 1..Len(full) :
       /\ k = 2 * j /\ s \in Existing
       /\ Holds(s, MessagesIn(SubSeq(full, 1, j - 1)))
  \/ \E j \in 1..Len(full) :
       /\ k = 2 * j + 1 /\ s \in Existing
       /\ Holds(s, MessagesIn(SubSeq(full, 1, j)))

FilledBy(full, tail, k) ==
  LET calls == FillThen(result.current, full, tail)
  IN /\ logWrites = SubSeq(calls, k, Len(calls))
     /\ Filled(result.current, full, k)

\* A segment is written from its first line on: the current one again, or a new
\* one, which the pointer will name.
Filling ==
  /\ result.current \in Segments /\ result.store # "closed" /\ pointer = current
  /\ result.replayed \in promise
  /\ store = "closed" \/ result.current = current => Prefixes(result.replayed) \subseteq promise
  /\ \E full : FillsWith(full, result.replayed) /\
       \E tail \in {<<>>, PointTo(result.current)} :
         /\ IF tail = <<>> THEN result.current = current
            ELSE result.current # current /\ Newest(result.current)
         /\ \E k \in Nat : FilledBy(full, tail, k)

\* The pointer is being moved to the latest segment.
Pointing ==
  /\ result.current \in Existing /\ Newest(result.current) /\ result.store # "closed"
  /\ result.current \notin joined => MessagesIn(segment[result.current].lines) \in promise
  /\ result.store = "loaded" => Holds(result.current, result.replayed)
  /\ \/ logWrites = PointTo(result.current) /\ pointer = current
     \/ logWrites = <<FileCall("point", result.current)>> /\ pointer = NoSegment

\* A message is being appended.
Appending ==
  /\ store = "loaded" /\ pointer = current
  /\ result.store = "loaded" /\ result.current = current
  /\ {replayed, result.replayed} \subseteq promise
  /\ \E m \in LogMessages :
       /\ result.replayed = Append(replayed, m)
       /\ \/ logWrites = Line(current, m) /\ Holds(current, replayed)
          \/ logWrites = <<FileCall("newline", current)>> /\ Holds(current, result.replayed)

Resting ==
  /\ logWrites = <<>>
  /\ store # "closed" => pointer = current
  /\ store = "loaded" => Holds(current, replayed)

LogDoing == Filling \/ Pointing \/ Appending \/ Resting

LogKept == LogTyped /\ LogFiles /\ LogFound /\ LogDoing

-----------------------------------------------------------------------------
LEMMA SegmentNumbers ==
  /\ MaxSegments \in Nat /\ Segments = 1..MaxSegments /\ NoSegment \notin Segments
  /\ Segments \subseteq Nat /\ 1 \in Segments
BY LogBoundsAssumption DEF Segments, NoSegment

\* The last segment of a set of them.
LEMMA LastSegment ==
  ASSUME NEW set \in SUBSET Segments
  PROVE  /\ set # {} => MaxOf(set) \in set /\ \A t \in set : t <= MaxOf(set)
         /\ \A s \in set : (\A t \in set : t <= s) => MaxOf(set) = s
<1>1. set # {} => MaxOf(set) \in set /\ \A t \in set : t <= MaxOf(set)
  <2>1. set # {} => \E j \in set : \A k \in set : k <= j
    BY SegmentNumbers, LastPlace
  <2> QED BY <2>1 DEF MaxOf
<1>2. ASSUME NEW s \in set, \A t \in set : t <= s PROVE MaxOf(set) = s
  <2>1. MaxOf(set) \in set /\ s <= MaxOf(set) /\ MaxOf(set) <= s
    BY <1>1, <1>2
  <2>2. MaxOf(set) \in Nat /\ s \in Nat
    BY <2>1, SegmentNumbers
  <2> QED BY <2>1, <2>2
<1> QED BY <1>1, <1>2

\* Where a reader looks.
LEMMA Resolving ==
  ASSUME LogTyped
  PROVE  /\ Existing \in SUBSET Segments
         /\ pointer \in Existing => ResolvedLog = pointer
         /\ pointer = NoSegment => ResolvedLog = IF Existing = {} THEN NoSegment
                                                 ELSE MaxOf(Existing)
         /\ ResolvedLog \in Existing \cup {NoSegment}
         /\ ResolvedLog = NoSegment => Existing = {}
<1>1. Existing \in SUBSET Segments
  BY DEF Existing
<1>2. NoSegment \notin Existing
  BY <1>1, SegmentNumbers
<1>3. Existing # {} => MaxOf(Existing) \in Existing
  BY <1>1, LastSegment
<1> QED BY <1>1, <1>2, <1>3 DEF ResolvedLog

\* A reader finds what it would have found when neither the pointer nor the
\* segment it is at changes.
LEMMA FoundStays ==
  ASSUME LogTyped, LogFound, Existing' = Existing, pointer' = pointer,
         \A x \in joined : x \in joined', \A log \in promise : log \in promise',
         \A s \in Segments : s \notin joined'
           => MessagesIn(segment'[s].lines) = MessagesIn(segment[s].lines)
  PROVE  LogFound'
<1>1. ResolvedLog' = ResolvedLog
  BY DEF ResolvedLog
<1>2. ResolvedLog # NoSegment => ResolvedLog \in Segments
  BY Resolving
<1> QED BY <1>1, <1>2 DEF LogFound

\* What writing a line does to a segment.
LEMMA LineWritten ==
  ASSUME LogTyped, NEW s \in Segments, NEW entry \in LogEntries,
         segment' = [segment EXCEPT ![s] = WithLine(@, entry)],
         joined' = IF ~segment[s].ended THEN joined \cup {s} ELSE joined
  PROVE  /\ segment' \in [Segments -> LogFile] /\ Existing' = Existing
         /\ \A t \in Segments : t # s => segment'[t] = segment[t]
         /\ \A t : t # s => (t \in joined' <=> t \in joined)
         /\ s \in joined => s \in joined'
         /\ s \notin joined'
              => MessagesIn(segment'[s].lines) = MessagesIn(Append(segment[s].lines, entry))
<1>1. PICK f : f = segment[s]
  OBVIOUS
<1>2. f \in LogFile /\ f.lines \in Seq(LogEntries)
  BY <1>1 DEF LogTyped, LogFile
<1>3. PICK g : g = WithLine(f, entry)
  OBVIOUS
<1>4. g = IF f.ended THEN [f EXCEPT !.lines = Append(f.lines, entry), !.ended = FALSE]
          ELSE [f EXCEPT !.lines = Append(Front(f.lines), Fragment)]
  BY <1>3 DEF WithLine
<1>5. Append(f.lines, entry) \in Seq(LogEntries)
  BY <1>2
<1>6. Append(Front(f.lines), Fragment) \in Seq(LogEntries)
  <2>1. Front(f.lines) \in Seq(LogEntries)
    <3>1. PICK n \in Nat : n = Len(f.lines)
      BY <1>2, LenProperties
    <3>2. \A i \in 1..n-1 : f.lines[i] \in LogEntries
      <4>1. ASSUME NEW i \in 1..n-1 PROVE i \in 1..Len(f.lines)
        BY <3>1
      <4> QED BY <1>2, <4>1, ElementOfSeq
    <3>3. SubSeq(f.lines, 1, n - 1) \in Seq(LogEntries)
      BY <3>2, SubSeqProperties
    <3> QED BY <3>1, <3>3 DEF Front
  <2>2. Fragment \in LogEntries
    BY EntriesTyped
  <2> QED BY <2>1, <2>2
<1>7. f.ended => g.lines = Append(f.lines, entry)
  BY <1>2, <1>4, <1>5 DEF LogFile
<1>8. g \in LogFile /\ g.exists = f.exists
  BY <1>2, <1>4, <1>5, <1>6 DEF LogFile
<1>9. segment' = [segment EXCEPT ![s] = g]
  BY <1>1, <1>3
<1>10. segment' \in [Segments -> LogFile] /\ segment'[s] = g
  BY <1>8, <1>9 DEF LogTyped
<1>11. \A t \in Segments : t # s => segment'[t] = segment[t]
  BY <1>9 DEF LogTyped
<1>12. Existing' = Existing
  <2>1. \A t \in Segments : segment'[t].exists = segment[t].exists
    BY <1>1, <1>8, <1>10, <1>11
  <2> QED BY <2>1 DEF Existing
<1>13. s \notin joined' => MessagesIn(segment'[s].lines) = MessagesIn(Append(f.lines, entry))
  <2>1. s \notin joined' => f.ended
    BY <1>1
  <2> QED BY <1>7, <1>8, <1>10, <2>1
<1>14. \A t : t # s => (t \in joined' <=> t \in joined)
  OBVIOUS
<1>15. s \in joined => s \in joined'
  OBVIOUS
<1> QED BY <1>1, <1>10, <1>11, <1>12, <1>13, <1>14, <1>15

\* What ending a line or emptying a file does to a segment.
LEMMA FileReplaced ==
  ASSUME LogTyped, NEW s \in Segments, NEW g \in LogFile, g.exists \/ ~segment[s].exists,
         segment' = [segment EXCEPT ![s] = g]
  PROVE  /\ segment' \in [Segments -> LogFile] /\ segment'[s] = g
         /\ Existing' = IF g.exists THEN Existing \cup {s} ELSE Existing
         /\ \A t \in Segments : t # s => segment'[t] = segment[t]
<1>1. segment' \in [Segments -> LogFile] /\ segment'[s] = g
  BY DEF LogTyped
<1>2. \A t \in Segments : t # s => segment'[t] = segment[t]
  BY DEF LogTyped
<1>3. Existing' = IF g.exists THEN Existing \cup {s} ELSE Existing
  <2>1. \A t \in Segments : segment'[t].exists <=> (segment[t].exists \/ (t = s /\ g.exists))
    BY <1>1, <1>2
  <2> QED BY <2>1 DEF Existing
<1> QED BY <1>1, <1>2, <1>3


\* The process dies, perhaps within a line: what is left of it is no message.
LEMMA DieKeeps ==
  ASSUME LogKept, Die
  PROVE  LogKept'
<1>1. LogTyped /\ LogFiles /\ LogFound
  BY DEF LogKept
<1>2. /\ store' = "closed" /\ current' = NoSegment /\ replayed' = <<>>
      /\ logWrites' = <<>> /\ result' = Nothing /\ pointer' = pointer /\ promise' = promise
  BY DEF Die, Given, Nothing
<1>3. /\ segment' \in [Segments -> LogFile] /\ Existing' = Existing
      /\ \A x \in joined : x \in joined'
      /\ \A s \in Segments : s \notin joined'
           => MessagesIn(segment'[s].lines) = MessagesIn(segment[s].lines)
  <2>1. CASE UNCHANGED <<segment, joined>>
    BY <1>1, <2>1 DEF LogTyped, Existing
  <2>2. CASE ~UNCHANGED <<segment, joined>>
    <3>1. PICK s : s = Head(logWrites).seg
      OBVIOUS
    <3>2. /\ segment' = [segment EXCEPT ![s] = WithLine(@, Fragment)]
          /\ joined' = IF ~segment[s].ended THEN joined \cup {s} ELSE joined
      BY <2>2, <3>1 DEF Die
    <3>3. CASE s \in Segments
      <4>1. Fragment \in LogEntries /\ ~IsMessage(Fragment)
        BY EntriesTyped
      <4>2. /\ segment' \in [Segments -> LogFile] /\ Existing' = Existing
            /\ \A t \in Segments : t # s => segment'[t] = segment[t]
            /\ \A t : t # s => (t \in joined' <=> t \in joined)
            /\ s \in joined => s \in joined'
            /\ s \notin joined'
                 => MessagesIn(segment'[s].lines) = MessagesIn(Append(segment[s].lines, Fragment))
        BY <1>1, <3>2, <3>3, <4>1, LineWritten
      <4>3. segment[s].lines \in Seq(LogEntries)
        BY <1>1, <3>3 DEF LogTyped, LogFile
      <4>4. MessagesIn(Append(segment[s].lines, Fragment)) = MessagesIn(segment[s].lines)
        BY <4>1, <4>3, MessagesAppend
      <4> QED BY <4>2, <4>4
    <3>4. CASE s \notin Segments
      <4>1. segment' = segment
        BY <1>1, <3>2, <3>4 DEF LogTyped
      <4>2. \A x \in joined : x \in joined'
        BY <3>2
      <4> QED BY <1>1, <4>1, <4>2 DEF LogTyped, Existing
    <3> QED BY <3>3, <3>4
  <2> QED BY <2>1, <2>2
<1>4. LogTyped'
  <2>1. /\ Nothing \in [store : StoreStates, current : Segments \cup {NoSegment},
                        replayed : Seq(LogMessages)]
        /\ <<>> \in Seq(LogMessages)
    BY EmptySeq DEF Nothing, StoreStates
  <2> QED BY <1>1, <1>2, <1>3, <2>1 DEF LogTyped, StoreStates
<1>5. LogFiles'
  BY <1>1, <1>2, <1>3 DEF LogFiles
<1>6. LogFound'
  BY <1>1, <1>2, <1>3, FoundStays
<1>7. Resting'
  BY <1>2 DEF Resting
<1> QED BY <1>4, <1>5, <1>6, <1>7 DEF LogKept, LogDoing

\* What is left of a segment to write when all of it is.
LEMMA FillBegins ==
  ASSUME NEW s \in Segments, NEW full \in Seq(LogEntries), NEW tail \in Seq(LogCalls)
  PROVE  /\ FillThen(s, full, tail) # <<>>
         /\ FillThen(s, full, tail)
              = SubSeq(FillThen(s, full, tail), 1, Len(FillThen(s, full, tail)))
<1>0. PICK calls : calls = FillThen(s, full, tail)
  OBVIOUS
<1>1. calls \in Seq(LogCalls) /\ Len(calls) = 2 * Len(full) + 1 + Len(tail)
  BY <1>0, FillCallsAt
<1>2. Len(full) \in Nat /\ Len(tail) \in Nat
  BY LenProperties
<1>3. Len(calls) # 0
  BY <1>1, <1>2
<1>4. calls # <<>>
  BY <1>3, EmptySeq
<1>5. SubSeq(calls, 1, Len(calls)) = calls
  BY <1>1, SubSeqFull
<1> QED BY <1>0, <1>4, <1>5

\* The calls of the operations are those of a segment that is filled.
LEMMA OperationsFill ==
  ASSUME NEW s \in Segments, NEW log \in Seq(LogMessages), NEW head \in {<<>>, <<Summary>>}
  PROVE  /\ PointTo(s) \in Seq(LogCalls) /\ PointTo(s) # <<>>
         /\ NewSegment(s, head \o log) = FillThen(s, <<Meta>> \o (head \o log), PointTo(s))
         /\ Rewrite(s, head \o log) = FillThen(s, <<Meta>> \o (head \o log), <<>>)
<1>0. PICK full : full = <<Meta>> \o (head \o log)
  OBVIOUS
<1>1. full \in Seq(LogEntries)
  BY <1>0, HeadAndLog DEF FillsWith
<1>2. Meta \in LogEntries
  BY EntriesTyped
<1>3. PointTo(s) \in Seq(LogCalls) /\ PointTo(s) # <<>>
  <2>1. PointTo(s) \in Seq(LogCalls) /\ Len(PointTo(s)) = 2
    BY <1>2, CallsTyped
  <2>2. Len(PointTo(s)) # 0
    BY <2>1
  <2> QED BY <2>1, <2>2, EmptySeq
<1>4. NewSegment(s, head \o log) = FillCalls(s, full) \o PointTo(s)
  BY <1>0 DEF NewSegment, FillCalls
<1>5. Rewrite(s, head \o log) = FillCalls(s, full)
  BY <1>0 DEF Rewrite, FillCalls
<1>6. FillCalls(s, full) \in Seq(LogCalls)
  <2>1. FileCall("create", s) \in LogCalls
    BY <1>2, CallsTyped
  <2>2. Lines(s, full) \in Seq(LogCalls)
    BY <1>1, LinesAt
  <2>3. <<FileCall("create", s)>> \in Seq(LogCalls)
    BY <2>1
  <2> QED BY <2>2, <2>3, ConcatProperties DEF FillCalls
<1>7. FillCalls(s, full) \o <<>> = FillCalls(s, full)
  BY <1>6, ConcatEmptySeq
<1> QED BY <1>0, <1>3, <1>4, <1>5, <1>7 DEF FillThen

LEMMA OpenStoreKeeps ==
  ASSUME LogKept, OpenStore
  PROVE  LogKept'
<1>1. LogTyped /\ LogFiles /\ LogFound
  BY DEF LogKept
<1>2. store = "closed" /\ logWrites = <<>> /\ UNCHANGED <<segment, pointer, promise, joined>>
  BY DEF OpenStore, Idle
<1>3. Existing' = Existing
  BY <1>2 DEF Existing
<1>4. LogFound'
  BY <1>1, <1>2, <1>3, FoundStays
<1>5. current = NoSegment
  BY <1>1, <1>2 DEF LogFiles
<1>6. CASE Existing = {}
  <2>1. /\ logWrites' = NewSegment(1, <<>>) /\ result' = Opened(1)
        /\ UNCHANGED <<store, current, replayed>>
    BY <1>6 DEF OpenStore
  <2>2. PICK log : log = <<>>
    OBVIOUS
  <2>3. log \in Seq(LogMessages) /\ log \o log = log /\ log \in {<<>>, <<Summary>>}
    <3>1. <<>> \in Seq(LogMessages)
      BY EmptySeq
    <3>2. <<>> \o <<>> = <<>>
      BY <3>1, ConcatEmptySeq
    <3> QED BY <2>2, <3>1, <3>2
  <2>4. PICK full : full = <<Meta>> \o (log \o log)
    OBVIOUS
  <2>5. FillsWith(full, log)
    BY <2>3, <2>4, HeadAndLog
  <2>6. /\ full \in Seq(LogEntries) /\ PointTo(1) \in Seq(LogCalls) /\ PointTo(1) # <<>>
        /\ NewSegment(1, log) = FillThen(1, full, PointTo(1))
    <3>1. PICK head \in {<<>>, <<Summary>>} : head = log
      BY <2>3
    <3>2. /\ PointTo(1) \in Seq(LogCalls) /\ PointTo(1) # <<>>
          /\ NewSegment(1, head \o log) = FillThen(1, <<Meta>> \o (head \o log), PointTo(1))
      BY <2>3, SegmentNumbers, OperationsFill
    <3> QED BY <2>3, <2>4, <2>5, <3>1, <3>2 DEF FillsWith
  <2>7. PICK calls : calls = FillThen(1, full, PointTo(1))
    OBVIOUS
  <2>8. calls = SubSeq(calls, 1, Len(calls)) /\ logWrites' = calls
    BY <2>1, <2>2, <2>6, <2>7, SegmentNumbers, FillBegins
  <2>9. result'.current = 1 /\ result'.store = "open" /\ result'.replayed = log
    BY <2>1, <2>2 DEF Opened
  <2>10. LogTyped'
    <3>1. result' \in [store : StoreStates, current : Segments \cup {NoSegment},
                       replayed : Seq(LogMessages)]
      BY <2>1, <2>2, <2>3, SegmentNumbers DEF Opened, StoreStates
    <3> QED BY <1>1, <1>2, <2>1, <3>1 DEF LogTyped
  <2>11. LogFiles'
    BY <1>1, <1>2, <1>3, <2>1 DEF LogFiles
  <2>12. Filling'
    <3>1. log \in promise /\ Prefixes(log) \subseteq promise
      <4>1. <<>> \in promise
        BY <1>1, <1>6 DEF LogFiles
      <4>2. ASSUME NEW l \in 0..Len(log) PROVE SubSeq(log, 1, l) = <<>>
        <5>1. Len(<<>>) = 0
          BY EmptySeq
        <5>2. l = 0
          BY <2>2, <5>1
        <5> QED BY <5>2, SubSeqEmpty
      <4>3. Prefixes(log) \subseteq {<<>>}
        BY <4>2 DEF Prefixes
      <4> QED BY <2>2, <4>1, <4>3
    <3>2. pointer = NoSegment
      BY <1>1, <1>6 DEF LogFiles
    <3>3. FilledBy(full, PointTo(1), 1)'
      BY <2>7, <2>8, <2>9 DEF FilledBy, Filled
    <3>4. Newest(1)'
      <4>1. \A t \in Segments : ~(t < 1)
        BY SegmentNumbers
      <4> QED BY <1>3, <1>6, <4>1 DEF Newest
    <3>5. 1 # current /\ 1 \in Segments
      BY <1>5, SegmentNumbers
    <3>6. PICK tail : tail = PointTo(1)
      OBVIOUS
    <3>7. tail \in {<<>>, PointTo(result'.current)} /\ tail # <<>>
      BY <2>6, <2>9, <3>6
    <3>8. \E k \in Nat : FilledBy(full, tail, k)'
      BY <3>3, <3>6
    <3> QED BY <1>2, <1>5, <2>1, <2>5, <2>9, <3>1, <3>2, <3>4, <3>5, <3>7, <3>8 DEF Filling
  <2> QED BY <1>4, <2>10, <2>11, <2>12 DEF LogKept, LogDoing
<1>7. CASE Existing # {}
  <2>1. PICK s : s = ResolvedLog
    OBVIOUS
  <2>2. s \in Existing /\ s \in Segments
    BY <1>1, <1>7, <2>1, Resolving
  <2>3. result' = Opened(s)
    BY <1>7, <2>1 DEF OpenStore
  <2>4. result' \in [store : StoreStates, current : Segments \cup {NoSegment},
                     replayed : Seq(LogMessages)]
    <3>1. <<>> \in Seq(LogMessages)
      BY EmptySeq
    <3> QED BY <2>2, <2>3, <3>1 DEF Opened, StoreStates
  <2>5. CASE pointer = s
    <3>1. /\ store' = "open" /\ current' = s /\ replayed' = <<>> /\ logWrites' = <<>>
      BY <1>2, <1>7, <2>1, <2>5 DEF OpenStore, Given, Opened
    <3>2. <<>> \in Seq(LogMessages)
      BY EmptySeq
    <3>3. LogTyped'
      BY <1>1, <1>2, <2>2, <2>4, <3>1, <3>2 DEF LogTyped, StoreStates
    <3>4. LogFiles'
      BY <1>1, <1>2, <1>3, <2>2, <3>1 DEF LogFiles
    <3>5. Resting'
      BY <1>2, <2>5, <3>1 DEF Resting
    <3> QED BY <1>4, <3>3, <3>4, <3>5 DEF LogKept, LogDoing
  <2>6. CASE pointer # s
    <3>1. logWrites' = PointTo(s) /\ UNCHANGED <<store, current, replayed>>
      BY <1>7, <2>1, <2>6 DEF OpenStore
    <3>2. pointer = NoSegment
      <4>1. pointer \notin Existing
        BY <1>1, <2>1, <2>6, Resolving
      <4> QED BY <1>1, <4>1 DEF LogFiles
    <3>3. s = MaxOf(Existing)
      BY <1>1, <1>7, <2>1, <3>2, Resolving
    <3>4. Newest(s)
      <4>1. \A t \in Existing : t <= s
        BY <1>1, <1>7, <3>3, Resolving, LastSegment
      <4>2. ASSUME NEW t \in Segments, t > s PROVE t \notin Existing
        <5>1. t \in Nat /\ s \in Nat /\ ~(t <= s)
          BY <2>2, <4>2, SegmentNumbers
        <5> QED BY <4>1, <5>1
      <4> QED BY <1>1, <2>2, <4>2 DEF LogFiles, Newest
    <3>5. result'.current = s /\ result'.store = "open"
      BY <2>3 DEF Opened
    <3>6. s \notin joined => MessagesIn(segment[s].lines) \in promise
      BY <1>1, <2>1, <2>2, SegmentNumbers DEF LogFound
    <3>7. LogTyped'
      BY <1>1, <1>2, <2>4, <3>1 DEF LogTyped
    <3>8. LogFiles'
      BY <1>1, <1>2, <1>3, <3>1 DEF LogFiles
    <3>9. Pointing'
      BY <1>2, <1>3, <1>5, <2>2, <3>1, <3>2, <3>4, <3>5, <3>6, SMTT(30) DEF Pointing, Newest
    <3> QED BY <1>4, <3>7, <3>8, <3>9 DEF LogKept, LogDoing
  <2> QED BY <2>5, <2>6
<1> QED BY <1>6, <1>7


\* A log is the longest of its beginnings.
LEMMA WholePrefix ==
  ASSUME NEW log \in Seq(LogMessages)
  PROVE  log \in Prefixes(log)
<1>1. Len(log) \in Nat /\ SubSeq(log, 1, Len(log)) = log
  BY LenProperties, SubSeqFull
<1>2. Len(log) \in 0..Len(log)
  BY <1>1
<1> QED BY <1>1, <1>2 DEF Prefixes

\* An operation of an open store, with nothing left to write of the one before.
LEMMA StoreIdle ==
  ASSUME LogKept, Idle, store # "closed"
  PROVE  /\ Resting /\ pointer = current /\ current \in Existing /\ current \in Segments
         /\ ResolvedLog = current
<1>1. logWrites = <<>> /\ LogTyped /\ LogFiles
  BY DEF Idle, LogKept
<1>2. ~Pointing /\ ~Appending
  <2>1. PICK s : s = result.current
    OBVIOUS
  <2>2. PointTo(s) # <<>>
    BY DEF PointTo
  <2>3. ~Pointing
    BY <1>1, <2>1, <2>2 DEF Pointing
  <2>4. \A m : Line(current, m) # <<>>
    BY DEF Line
  <2>5. ~Appending
    BY <1>1, <2>4 DEF Appending
  <2> QED BY <2>3, <2>5
<1>3. ~Filling
  <2>0. SUFFICES ASSUME Filling PROVE FALSE
    OBVIOUS
  <2>1. PICK s \in Segments : s = result.current
    BY <2>0 DEF Filling
  <2>2. PICK full : /\ FillsWith(full, result.replayed)
                    /\ \E tail \in {<<>>, PointTo(s)} : \E k \in Nat : FilledBy(full, tail, k)
    BY <2>0, <2>1 DEF Filling
  <2>3. PICK tail \in {<<>>, PointTo(s)} : \E k \in Nat : FilledBy(full, tail, k)
    BY <2>2
  <2>4. PICK k \in Nat : FilledBy(full, tail, k)
    BY <2>3
  <2>5. PICK n \in Nat : n = Len(full)
    BY <2>2, LenProperties DEF FillsWith
  <2>6. full \in Seq(LogEntries) /\ n >= 1
    BY <2>2, <2>5, EmptySeq DEF FillsWith
  <2>7. k >= 1 /\ k <= 2 * n + 1
    BY <2>1, <2>4, <2>5, <2>6 DEF FilledBy, Filled
  <2>8. tail \in Seq(LogCalls) /\ Len(tail) \in Nat
    <3>1. <<>> \in Seq(LogCalls)
      BY EmptySeq
    <3>2. PointTo(s) \in Seq(LogCalls)
      BY EntriesTyped, CallsTyped
    <3>3. tail \in Seq(LogCalls)
      BY <3>1, <3>2
    <3> QED BY <3>3, LenProperties
  <2>9. PICK calls : calls = FillThen(s, full, tail)
    OBVIOUS
  <2>10. calls \in Seq(LogCalls) /\ Len(calls) = 2 * n + 1 + Len(tail)
    BY <2>5, <2>6, <2>8, <2>9, FillCallsAt
  <2>11. k \in 1..Len(calls) /\ SubSeq(calls, k, Len(calls)) = <<>>
    BY <1>1, <2>1, <2>4, <2>7, <2>8, <2>9, <2>10 DEF FilledBy
  <2> QED BY <2>10, <2>11, NextCall
<1>4. Resting
  BY <1>2, <1>3 DEF LogKept, LogDoing
<1>5. pointer = current /\ current \in Existing
  BY <1>1, <1>4 DEF Resting, LogFiles
<1>6. current \in Segments
  BY <1>5 DEF Existing
<1> QED BY <1>1, <1>4, <1>5, <1>6, Resolving

\* A load that drops nothing, and one that writes the segment again.
LEMMA LoadSnapshotKeeps ==
  ASSUME LogKept, LoadSnapshot
  PROVE  LogKept'
<1>1. LogTyped /\ LogFiles /\ LogFound
  BY DEF LogKept
<1>2. store # "closed" /\ Idle
  BY DEF LoadSnapshot
<1>3. PICK f : f = segment[current]
  OBVIOUS
<1>4. PICK kept : kept = Sanitized(Messages(f))
  OBVIOUS
<1>5. /\ Resting /\ pointer = current /\ current \in Existing /\ current \in Segments
      /\ ResolvedLog = current
  BY <1>2, StoreIdle
<1>6. f \in LogFile /\ f.lines \in Seq(LogEntries)
  BY <1>1, <1>3, <1>5 DEF LogTyped, LogFile
<1>7. Messages(f) = MessagesIn(f.lines) /\ MessagesIn(f.lines) \in Seq(LogMessages)
  BY <1>6, MessagesOfFile, MessagesAt
<1>8. kept \in Seq(LogMessages) /\ kept \in Prefixes(kept)
  BY <1>4, <1>7, SanitizedTyped, WholePrefix
<1>9. UNCHANGED <<segment, pointer, joined>>
  BY DEF LoadSnapshot, Starts
<1>10. Existing' = Existing
  BY <1>9 DEF Existing
<1>11. ResolvedLog' = ResolvedLog
  BY <1>9, <1>10 DEF ResolvedLog
<1>12. LogLoaded(current, kept) \in [store : StoreStates, current : Segments \cup {NoSegment},
                                     replayed : Seq(LogMessages)]
  BY <1>5, <1>8 DEF LogLoaded, StoreStates
<1>13. CASE ~NeedsRewrite(f)
  <2>1. /\ promise' = {kept} /\ store' = "loaded" /\ current' = current /\ replayed' = kept
        /\ logWrites' = logWrites /\ result' = result
    BY <1>3, <1>4, <1>13 DEF LoadSnapshot, Starts, Given, LogLoaded
  <2>2. kept = MessagesIn(f.lines)
    BY <1>4, <1>7, <1>13 DEF NeedsRewrite
  <2>3. LogTyped'
    BY <1>1, <1>5, <1>8, <1>9, <2>1 DEF LogTyped, StoreStates
  <2>4. LogFiles'
    BY <1>1, <1>5, <1>9, <1>10, <2>1 DEF LogFiles
  <2>5. LogFound'
    BY <1>3, <1>5, <1>9, <1>11, <2>1, <2>2 DEF LogFound
  <2>6. Resting'
    BY <1>3, <1>5, <1>9, <2>1, <2>2 DEF Resting, Holds
  <2> QED BY <2>3, <2>4, <2>5, <2>6 DEF LogKept, LogDoing
<1>14. CASE NeedsRewrite(f)
  <2>1. PICK head \in {<<>>, <<Summary>>} : head = SummaryOf(f)
    BY DEF SummaryOf
  <2>2. PICK full : full = <<Meta>> \o (head \o kept)
    OBVIOUS
  <2>3. FillsWith(full, kept)
    BY <1>8, <2>2, HeadAndLog
  <2>4. PICK calls : calls = FillThen(current, full, <<>>)
    OBVIOUS
  <2>5. Rewrite(current, SummaryOf(f) \o kept) = calls
    BY <1>5, <1>8, <2>1, <2>2, <2>4, OperationsFill
  <2>6. calls # <<>> /\ calls = SubSeq(calls, 1, Len(calls))
    <3>1. full \in Seq(LogEntries) /\ <<>> \in Seq(LogCalls)
      BY <2>3, EmptySeq DEF FillsWith
    <3> QED BY <1>5, <2>4, <3>1, FillBegins
  <2>7. /\ promise' = Prefixes(kept) \cup {Messages(f)}
        /\ logWrites' = calls /\ result' = LogLoaded(current, kept)
        /\ UNCHANGED <<store, current, replayed>>
    BY <1>3, <1>4, <1>14, <2>5, <2>6 DEF LoadSnapshot, Starts
  <2>8. /\ result'.current = current /\ result'.store = "loaded" /\ result'.replayed = kept
    BY <2>7 DEF LogLoaded
  <2>9. LogTyped'
    BY <1>1, <1>9, <1>12, <2>7 DEF LogTyped
  <2>10. LogFiles'
    BY <1>1, <1>5, <1>9, <1>10, <2>7 DEF LogFiles
  <2>11. LogFound'
    BY <1>3, <1>5, <1>7, <1>9, <1>11, <2>7 DEF LogFound
  <2>12. Filling'
    <3>1. FilledBy(full, <<>>, 1)'
      BY <2>4, <2>6, <2>7, <2>8 DEF FilledBy, Filled
    <3>2. PICK tail : tail = <<>>
      OBVIOUS
    <3>3. tail \in {<<>>, PointTo(result'.current)} /\ \E k \in Nat : FilledBy(full, tail, k)'
      BY <3>1, <3>2
    <3> QED BY <1>5, <1>8, <1>9, <2>3, <2>7, <2>8, <3>2, <3>3 DEF Filling
  <2> QED BY <2>9, <2>10, <2>11, <2>12 DEF LogKept, LogDoing
<1> QED BY <1>13, <1>14

LEMMA AppendMessageKeeps ==
  ASSUME LogKept, NEW m \in LogMessages, AppendMessage(m)
  PROVE  LogKept'
<1>1. LogTyped /\ LogFiles /\ LogFound
  BY DEF LogKept
<1>2. store = "loaded" /\ Idle
  BY DEF AppendMessage
<1>3. /\ Resting /\ pointer = current /\ current \in Existing /\ current \in Segments
      /\ ResolvedLog = current
  BY <1>2, StoreIdle
<1>4. Line(current, m) # <<>>
  BY DEF Line
<1>5. /\ promise' = {replayed, Append(replayed, m)}
      /\ logWrites' = Line(current, m) /\ result' = LogLoaded(current, Append(replayed, m))
      /\ UNCHANGED <<segment, pointer, joined, store, current, replayed>>
  BY <1>4 DEF AppendMessage, Starts
<1>6. Existing' = Existing
  BY <1>5 DEF Existing
<1>7. ResolvedLog' = ResolvedLog
  BY <1>5, <1>6 DEF ResolvedLog
<1>8. result'.current = current /\ result'.store = "loaded" /\ result'.replayed = Append(replayed, m)
  BY <1>5 DEF LogLoaded
<1>9. LogTyped'
  <2>1. replayed \in Seq(LogMessages) /\ Append(replayed, m) \in Seq(LogMessages)
    BY <1>1 DEF LogTyped
  <2>2. result' \in [store : StoreStates, current : Segments \cup {NoSegment},
                     replayed : Seq(LogMessages)]
    BY <1>3, <1>5, <2>1 DEF LogLoaded, StoreStates
  <2> QED BY <1>1, <1>5, <2>2 DEF LogTyped
<1>10. LogFiles'
  BY <1>1, <1>3, <1>5, <1>6 DEF LogFiles
<1>11. Holds(current, replayed)
  BY <1>2, <1>3 DEF Resting
<1>12. LogFound'
  BY <1>3, <1>5, <1>7, <1>11 DEF LogFound, Holds
<1>13. Appending'
  BY <1>2, <1>3, <1>5, <1>8, <1>11 DEF Appending, Holds
<1> QED BY <1>9, <1>10, <1>12, <1>13 DEF LogKept, LogDoing

LEMMA RolloverKeeps ==
  ASSUME LogKept, NEW kept \in Seq(LogMessages), Rollover(kept)
  PROVE  LogKept'
<1>1. LogTyped /\ LogFiles /\ LogFound
  BY DEF LogKept
<1>2. store = "loaded" /\ Idle /\ Segments \ Existing # {}
  BY DEF Rollover
<1>3. /\ Resting /\ pointer = current /\ current \in Existing /\ current \in Segments
      /\ ResolvedLog = current
  BY <1>2, StoreIdle
<1>4. PICK free : free = Segments \ Existing
  OBVIOUS
<1>5. PICK s : s = CHOOSE x \in free : \A y \in free : x <= y
  OBVIOUS
<1>6. s \in free /\ \A y \in free : s <= y
  <2>1. free \in SUBSET Segments /\ free # {}
    BY <1>2, <1>4
  <2>2. \E x \in free : \A y \in free : x <= y
    BY <2>1, SegmentNumbers, FirstOfPlaces
  <2> QED BY <1>5, <2>2
<1>7. s \in Segments /\ s \notin Existing /\ s # current
  BY <1>3, <1>4, <1>6
<1>8. Newest(s)
  <2>1. ASSUME NEW t \in Segments, t < s PROVE t \in Existing
    <3>1. t \in Nat /\ s \in Nat /\ ~(s <= t)
      BY <1>7, <2>1, SegmentNumbers
    <3> QED BY <1>4, <1>6, <3>1
  <2>2. ASSUME NEW t \in Segments, t > s PROVE t \notin Existing
    <3>1. s < t
      BY <1>7, <2>2, SegmentNumbers
    <3> QED BY <1>1, <1>7, <3>1 DEF LogFiles
  <2> QED BY <2>1, <2>2 DEF Newest
<1>9. PICK head \in {<<>>, <<Summary>>} : head = <<Summary>>
  OBVIOUS
<1>10. PICK full : full = <<Meta>> \o (head \o kept)
  OBVIOUS
<1>11. FillsWith(full, kept)
  BY <1>10, HeadAndLog
<1>12. PICK tail : tail = PointTo(s)
  OBVIOUS
<1>13. PICK calls : calls = FillThen(s, full, tail)
  OBVIOUS
<1>14. /\ tail \in Seq(LogCalls) /\ tail # <<>>
       /\ NewSegment(s, <<Summary>> \o kept) = calls
  BY <1>7, <1>9, <1>10, <1>12, <1>13, OperationsFill
<1>15. calls # <<>> /\ calls = SubSeq(calls, 1, Len(calls))
  <2>1. full \in Seq(LogEntries)
    BY <1>11 DEF FillsWith
  <2> QED BY <1>7, <1>13, <1>14, <2>1, FillBegins
<1>16. /\ promise' = {replayed, kept}
       /\ logWrites' = calls /\ result' = LogLoaded(s, kept)
       /\ UNCHANGED <<segment, pointer, joined, store, current, replayed>>
  BY <1>4, <1>5, <1>14, <1>15 DEF Rollover, Starts
<1>17. Existing' = Existing
  BY <1>16 DEF Existing
<1>18. ResolvedLog' = ResolvedLog
  BY <1>16, <1>17 DEF ResolvedLog
<1>19. result'.current = s /\ result'.store = "loaded" /\ result'.replayed = kept
  BY <1>16 DEF LogLoaded
<1>20. LogTyped'
  <2>1. result' \in [store : StoreStates, current : Segments \cup {NoSegment},
                     replayed : Seq(LogMessages)]
    BY <1>7, <1>16 DEF LogLoaded, StoreStates
  <2> QED BY <1>1, <1>16, <2>1 DEF LogTyped
<1>21. LogFiles'
  BY <1>1, <1>3, <1>16, <1>17 DEF LogFiles
<1>22. LogFound'
  <2>1. Holds(current, replayed)
    BY <1>2, <1>3 DEF Resting
  <2> QED BY <1>3, <1>16, <1>18, <2>1 DEF LogFound, Holds
<1>23. Filling'
  <2>1. FilledBy(full, tail, 1)'
    BY <1>13, <1>15, <1>16, <1>19 DEF FilledBy, Filled
  <2>2. tail \in {<<>>, PointTo(result'.current)} /\ \E k \in Nat : FilledBy(full, tail, k)'
    BY <1>12, <1>19, <2>1
  <2>3. Newest(s)'
    BY <1>8, <1>17 DEF Newest
  <2> QED BY <1>2, <1>3, <1>7, <1>11, <1>14, <1>16, <1>19, <2>2, <2>3 DEF Filling
<1> QED BY <1>20, <1>21, <1>22, <1>23 DEF LogKept, LogDoing


\* While a segment is filled a reader finds a beginning of the new log in it, if
\* that is where it looks.
LEMMA FoundWhileFilling ==
  ASSUME LogTyped, LogFiles, LogFound, NEW s \in Segments, NEW log,
         pointer = current, s # current => Newest(s),
         store = "closed" \/ s = current => Prefixes(log) \subseteq promise,
         pointer' = pointer, promise' = promise, Existing' = Existing \cup {s},
         \A t \in Segments : t # s => segment'[t] = segment[t],
         \A t : t # s => (t \in joined' <=> t \in joined),
         s \notin joined' => MessagesIn(segment'[s].lines) \in Prefixes(log)
  PROVE  LogFound'
<1>1. PICK r : r = ResolvedLog'
  OBVIOUS
<1>2. SUFFICES ASSUME r # NoSegment, r \notin joined'
               PROVE  MessagesIn(segment'[r].lines) \in promise
  BY <1>1 DEF LogFound
<1>3. PICK after : after = Existing \cup {s}
  OBVIOUS
<1>4. r = IF pointer \in after THEN pointer ELSE MaxOf(after)
  BY <1>1, <1>3 DEF ResolvedLog
<1>5. Existing \in SUBSET Segments /\ after \in SUBSET Segments
  BY <1>3, Resolving
<1>6. CASE r = s
  <2>1. store = "closed" \/ s = current
    <3>1. CASE pointer \in after
      BY <1>4, <1>6, <3>1
    <3>2. CASE pointer \notin after
      <4>1. pointer = NoSegment
        BY <1>3, <3>2 DEF LogFiles
      <4>2. current \notin Existing
        BY <1>5, <4>1, SegmentNumbers
      <4> QED BY <4>2 DEF LogFiles
    <3> QED BY <3>1, <3>2
  <2> QED BY <1>2, <1>6, <2>1
<1>7. CASE r # s
  <2>1. pointer \in after
    <3>0. SUFFICES ASSUME pointer \notin after PROVE FALSE
      OBVIOUS
    <3>1. pointer = NoSegment
      BY <1>3, <3>0 DEF LogFiles
    <3>2. Newest(s)
      BY <3>1, SegmentNumbers
    <3>3. ASSUME NEW t \in after PROVE t <= s
      <4>1. t \in Segments /\ (t > s => t \notin Existing)
        BY <1>5, <3>2, <3>3 DEF Newest
      <4>2. t \in Nat /\ s \in Nat /\ (t = s \/ t \in Existing)
        BY <1>3, <3>3, <4>1, SegmentNumbers
      <4> QED BY <4>1, <4>2
    <3>4. s \in after
      BY <1>3
    <3>5. MaxOf(after) = s
      BY <1>5, <3>3, <3>4, LastSegment
    <3> QED BY <1>4, <1>7, <3>0, <3>5
  <2>2. r = pointer /\ r \in Existing /\ r \in Segments
    BY <1>3, <1>4, <1>5, <1>7, <2>1
  <2>3. ResolvedLog = r
    BY <2>2, Resolving
  <2>4. r \notin joined /\ segment'[r] = segment[r]
    BY <1>2, <1>7, <2>2
  <2> QED BY <1>2, <2>3, <2>4 DEF LogFound
<1> QED BY <1>6, <1>7

\* The lines that are in a segment and the next one.
LEMMA OneMore ==
  ASSUME NEW lines \in Seq(LogEntries), NEW full \in Seq(LogEntries), NEW j \in 1..Len(full),
         MessagesIn(lines) = MessagesIn(SubSeq(full, 1, j - 1))
  PROVE  MessagesIn(Append(lines, full[j])) = MessagesIn(SubSeq(full, 1, j))
<1>1. PICK n \in Nat : n = Len(full)
  BY LenProperties
<1>2. full[j] \in LogEntries
  BY ElementOfSeq
<1>3. PICK before : before = SubSeq(full, 1, j - 1)
  OBVIOUS
<1>4. before \in Seq(LogEntries) /\ Len(before) = j - 1 /\ \A i \in 1..j-1 : before[i] = full[i]
  <2>1. j - 1 \in Nat /\ 1 <= (j - 1) + 1 /\ j - 1 <= Len(full)
    BY <1>1
  <2>2. PICK b \in Nat : b = j - 1
    BY <2>1
  <2>3. /\ SubSeq(full, 1, b) \in Seq(LogEntries) /\ Len(SubSeq(full, 1, b)) = b - 1 + 1
        /\ \A i \in 1..b - 1 + 1 : SubSeq(full, 1, b)[i] = full[1 + i - 1]
    BY <2>1, <2>2, PartOf
  <2>4. b - 1 + 1 = b /\ \A i \in 1..b : 1 + i - 1 = i
    OBVIOUS
  <2> QED BY <1>3, <2>2, <2>3, <2>4
<1>5. PICK upto : upto = SubSeq(full, 1, j)
  OBVIOUS
<1>6. upto \in Seq(LogEntries) /\ Len(upto) = j /\ \A i \in 1..j : upto[i] = full[i]
  <2>1. j \in Nat /\ 1 <= j + 1 /\ j <= Len(full)
    BY <1>1
  <2>2. /\ SubSeq(full, 1, j) \in Seq(LogEntries) /\ Len(SubSeq(full, 1, j)) = j - 1 + 1
        /\ \A i \in 1..j - 1 + 1 : SubSeq(full, 1, j)[i] = full[1 + i - 1]
    BY <2>1, PartOf
  <2>3. j - 1 + 1 = j /\ \A i \in 1..j : 1 + i - 1 = i
    OBVIOUS
  <2> QED BY <1>5, <2>2, <2>3
<1>7. upto = Append(before, full[j])
  <2>1. PICK more : more = Append(before, full[j])
    OBVIOUS
  <2>2. /\ more \in Seq(LogEntries) /\ Len(more) = j /\ more[j] = full[j]
        /\ \A i \in 1..j-1 : more[i] = before[i]
    BY <1>2, <1>4, <2>1
  <2>3. ASSUME NEW i \in 1..j PROVE more[i] = upto[i]
    <3>1. i = j \/ i \in 1..j-1
      OBVIOUS
    <3> QED BY <1>4, <1>6, <2>2, <3>1
  <2>4. more = upto
    BY <1>6, <2>2, <2>3, SeqEqual
  <2> QED BY <2>1, <2>4
<1>8. MessagesIn(upto) = IF IsMessage(full[j]) THEN Append(MessagesIn(before), full[j])
                         ELSE MessagesIn(before)
  BY <1>2, <1>4, <1>7, MessagesAppend
<1>9. MessagesIn(Append(lines, full[j])) = IF IsMessage(full[j])
                                           THEN Append(MessagesIn(lines), full[j])
                                           ELSE MessagesIn(lines)
  BY <1>2, MessagesAppend
<1> QED BY <1>3, <1>5, <1>8, <1>9

LEMMA FillingWrites ==
  ASSUME LogKept, Filling, Write
  PROVE  LogKept'
<1>1. LogTyped /\ LogFiles /\ LogFound
  BY DEF LogKept
<1>2. PICK s \in Segments : s = result.current
  BY DEF Filling
<1>3. PICK log \in Seq(LogMessages) : log = result.replayed
  BY <1>1 DEF LogTyped
<1>4. PICK full : /\ FillsWith(full, log)
                  /\ \E tail \in {<<>>, PointTo(s)} :
                       /\ IF tail = <<>> THEN s = current ELSE s # current /\ Newest(s)
                       /\ \E k \in Nat : FilledBy(full, tail, k)
  BY <1>2, <1>3 DEF Filling
<1>5. PICK tail \in {<<>>, PointTo(s)} :
        /\ IF tail = <<>> THEN s = current ELSE s # current /\ Newest(s)
        /\ \E k \in Nat : FilledBy(full, tail, k)
  BY <1>4
<1>6. PICK k \in Nat : FilledBy(full, tail, k)
  BY <1>5
<1>7. PICK n \in Nat : n = Len(full)
  BY <1>4, LenProperties DEF FillsWith
<1>8. full \in Seq(LogEntries) /\ n >= 1
  BY <1>4, <1>7, EmptySeq DEF FillsWith
<1>9. PointTo(s) \in Seq(LogCalls) /\ Len(PointTo(s)) = 2 /\ PointTo(s) # <<>>
  <2>1. PointTo(s) \in Seq(LogCalls) /\ Len(PointTo(s)) = 2
    BY EntriesTyped, CallsTyped
  <2>2. PointTo(s) # <<>>
    BY DEF PointTo
  <2> QED BY <2>1, <2>2
<1>10. PICK m \in Nat : m = Len(tail)
  <2>1. <<>> \in Seq(LogCalls) /\ Len(<<>>) = 0
    BY EmptySeq
  <2> QED BY <1>9, <2>1
<1>11. tail \in Seq(LogCalls) /\ (m = 0 <=> tail = <<>>)
  <2>1. <<>> \in Seq(LogCalls) /\ Len(<<>>) = 0
    BY EmptySeq
  <2>2. tail \in Seq(LogCalls)
    BY <1>9, <2>1
  <2> QED BY <1>9, <1>10, <2>1, <2>2
<1>12. PICK calls : calls = FillThen(s, full, tail)
  OBVIOUS
<1>13. /\ calls \in Seq(LogCalls) /\ Len(calls) = 2 * n + 1 + m
       /\ calls[1] = FileCall("create", s)
       /\ \A j \in 1..n : /\ calls[2 * j] = [call |-> "line", seg |-> s, entry |-> full[j]]
                          /\ calls[2 * j + 1] = FileCall("newline", s)
       /\ SubSeq(calls, 2 * n + 2, Len(calls)) = tail
  BY <1>7, <1>8, <1>10, <1>11, <1>12, FillCallsAt
<1>14. logWrites = SubSeq(calls, k, Len(calls)) /\ Filled(s, full, k)
  BY <1>2, <1>6, <1>12 DEF FilledBy
<1>15. k >= 1 /\ k <= 2 * n + 1
  BY <1>7, <1>8, <1>14 DEF Filled
<1>16. /\ Head(logWrites) = calls[k] /\ Tail(logWrites) = SubSeq(calls, k + 1, Len(calls))
       /\ Len(logWrites) = 1 <=> k = 2 * n + 1 + m
  <2>1. k \in 1..Len(calls)
    BY <1>13, <1>15
  <2> QED BY <1>13, <1>14, <2>1, NextCall
<1>17. PICK w : w = calls[k]
  OBVIOUS
<1>18. Applied(w) /\ logWrites' = SubSeq(calls, k + 1, Len(calls)) /\ result' = result
  BY <1>16, <1>17 DEF Write
<1>19. /\ pointer = current /\ result.store # "closed" /\ log \in promise
       /\ store = "closed" \/ s = current => Prefixes(log) \subseteq promise
       /\ s # current => Newest(s)
  BY <1>2, <1>3, <1>5 DEF Filling
<1>20. /\ segment[s] \in LogFile /\ segment[s].lines \in Seq(LogEntries)
       /\ s \in Existing <=> segment[s].exists
  BY <1>1 DEF LogTyped, LogFile, Existing
\* As long as lines are left nothing but the segment changes.
<1>21. ASSUME k # 2 * n + 1 + m, pointer' = pointer,
              segment' \in [Segments -> LogFile], Existing' = Existing \cup {s},
              \A t \in Segments : t # s => segment'[t] = segment[t],
              \A t : t # s => (t \in joined' <=> t \in joined),
              Filled(s, full, k + 1)',
              s \notin joined' => MessagesIn(segment'[s].lines) \in Prefixes(log)
       PROVE  LogKept'
  <2>1. UNCHANGED <<store, current, replayed, promise>>
    BY <1>16, <1>21 DEF Write
  <2>2. LogTyped'
    BY <1>1, <1>18, <1>21, <2>1 DEF LogTyped
  <2>3. LogFiles'
    <3>1. \A x \in Existing' : \A t \in Segments : t < x => t \in Existing'
      <4>1. ASSUME NEW x \in Existing \cup {s}, NEW t \in Segments, t < x
            PROVE  t \in Existing \cup {s}
        <5>1. CASE x \in Existing
          BY <1>1, <4>1, <5>1 DEF LogFiles
        <5>2. CASE x = s
          <6>1. s \in Existing \/ Newest(s)
            <7>1. CASE s = current
              <8>1. store # "closed"
                BY <1>1, <7>1, SegmentNumbers DEF LogFiles
              <8> QED BY <1>1, <7>1, <8>1 DEF LogFiles
            <7>2. CASE s # current
              BY <1>19, <7>2
            <7> QED BY <7>1, <7>2
          <6> QED BY <1>1, <4>1, <5>2, <6>1 DEF LogFiles, Newest
        <5> QED BY <5>1, <5>2
      <4> QED BY <1>21, <4>1
    <3>2. /\ pointer' # NoSegment => pointer' \in Existing'
          /\ store' # "closed" => current' \in Existing'
          /\ store' = "closed" => current' = NoSegment
          /\ Existing' # {}
      BY <1>1, <1>21, <2>1 DEF LogFiles
    <3> QED BY <3>1, <3>2 DEF LogFiles
  <2>4. LogFound'
    BY <1>1, <1>19, <1>21, <2>1, FoundWhileFilling
  <2>5. Filling'
    <3>1. s # current => Newest(s)'
      BY <1>19, <1>21 DEF Newest
    <3>2. FilledBy(full, tail, k + 1)'
      BY <1>2, <1>12, <1>18, <1>21 DEF FilledBy
    <3>3. k + 1 \in Nat
      OBVIOUS
    <3>4. \E l \in Nat : FilledBy(full, tail, l)'
      BY <3>2, <3>3
    <3> QED BY <1>2, <1>3, <1>4, <1>5, <1>18, <1>19, <1>21, <2>1, <3>1, <3>4 DEF Filling
  <2> QED BY <2>2, <2>3, <2>4, <2>5 DEF LogKept, LogDoing
<1>22. CASE k = 1
  <2>1. w = FileCall("create", s)
    BY <1>13, <1>17, <1>22
  <2>2. w.call = "create" /\ w.seg = s
    BY <2>1 DEF FileCall
  <2>3. segment' = [segment EXCEPT ![s] = Empty] /\ pointer' = pointer
    BY <1>18, <2>2 DEF Applied
  <2>4. joined' = joined
    BY <1>16, <1>17, <2>2 DEF Write
  <2>5. Empty \in LogFile /\ Empty.exists = TRUE /\ Empty.lines = <<>>
    BY NoMessages DEF Empty, Absent, LogFile
  <2>6. /\ segment' \in [Segments -> LogFile] /\ segment'[s] = Empty
        /\ Existing' = Existing \cup {s}
        /\ \A t \in Segments : t # s => segment'[t] = segment[t]
    BY <1>1, <2>3, <2>5, FileReplaced
  <2>7. MessagesIn(segment'[s].lines) = <<>> /\ SubSeq(full, 1, 0) = <<>>
    BY <2>5, <2>6, NoMessages, SubSeqEmpty
  <2>8. Filled(s, full, k + 1)'
    <3>1. 1 \in 1..Len(full) /\ k + 1 = 2 * 1 /\ 1 - 1 = 0
      BY <1>7, <1>8, <1>22
    <3>2. s \in Existing' /\ Holds(s, MessagesIn(SubSeq(full, 1, 1 - 1)))'
      BY <2>6, <2>7, <3>1, NoMessages DEF Holds
    <3> QED BY <3>1, <3>2 DEF Filled
  <2>9. <<>> \in Prefixes(log)
    <3>1. 0 \in 0..Len(log) /\ SubSeq(log, 1, 0) = <<>>
      BY LenProperties, SubSeqEmpty
    <3> QED BY <3>1 DEF Prefixes
  <2>10. k # 2 * n + 1 + m
    BY <1>8, <1>22
  <2> QED BY <1>21, <2>3, <2>4, <2>6, <2>7, <2>8, <2>9, <2>10
<1>23. CASE \E j \in 1..Len(full) : /\ k = 2 * j /\ s \in Existing
                                    /\ Holds(s, MessagesIn(SubSeq(full, 1, j - 1)))
  <2>1. PICK j \in 1..n : /\ k = 2 * j /\ s \in Existing
                          /\ Holds(s, MessagesIn(SubSeq(full, 1, j - 1)))
    BY <1>7, <1>23
  <2>2. w = [call |-> "line", seg |-> s, entry |-> full[j]]
    BY <1>13, <1>17, <2>1
  <2>3. w.call = "line" /\ w.seg = s /\ w.entry = full[j]
    BY <2>2
  <2>4. segment' = [segment EXCEPT ![s] = WithLine(@, full[j])] /\ pointer' = pointer
    BY <1>18, <2>3 DEF Applied
  <2>5. joined' = IF ~segment[s].ended THEN joined \cup {s} ELSE joined
    BY <1>16, <1>17, <2>3 DEF Write
  <2>6. full[j] \in LogEntries
    BY <1>7, <1>8, ElementOfSeq
  <2>7. /\ segment' \in [Segments -> LogFile] /\ Existing' = Existing
        /\ \A t \in Segments : t # s => segment'[t] = segment[t]
        /\ \A t : t # s => (t \in joined' <=> t \in joined)
        /\ s \in joined => s \in joined'
        /\ s \notin joined'
             => MessagesIn(segment'[s].lines) = MessagesIn(Append(segment[s].lines, full[j]))
    BY <1>1, <2>4, <2>5, <2>6, LineWritten
  <2>8. s \notin joined' => MessagesIn(segment'[s].lines) = MessagesIn(SubSeq(full, 1, j))
    <3>1. ASSUME s \notin joined'
          PROVE  MessagesIn(segment[s].lines) = MessagesIn(SubSeq(full, 1, j - 1))
      BY <2>1, <2>7, <3>1 DEF Holds
    <3>2. ASSUME s \notin joined'
          PROVE  MessagesIn(Append(segment[s].lines, full[j])) = MessagesIn(SubSeq(full, 1, j))
      BY <1>7, <1>8, <1>20, <3>1, <3>2, OneMore
    <3> QED BY <2>7, <3>2
  <2>9. Filled(s, full, k + 1)'
    <3>1. j \in 1..Len(full) /\ k + 1 = 2 * j + 1
      BY <1>7, <2>1
    <3>2. s \in Existing' /\ Holds(s, MessagesIn(SubSeq(full, 1, j)))'
      BY <2>1, <2>7, <2>8 DEF Holds
    <3> QED BY <3>1, <3>2 DEF Filled
  <2>10. MessagesIn(SubSeq(full, 1, j)) \in Prefixes(log)
    BY <1>4, <1>7 DEF FillsWith
  <2>11. k # 2 * n + 1 + m /\ Existing' = Existing \cup {s}
    BY <2>1, <2>7
  <2> QED BY <1>21, <2>4, <2>7, <2>8, <2>9, <2>10, <2>11
<1>24. CASE \E j \in 1..Len(full) : /\ k = 2 * j + 1 /\ s \in Existing
                                    /\ Holds(s, MessagesIn(SubSeq(full, 1, j)))
  <2>1. PICK j \in 1..n : /\ k = 2 * j + 1 /\ s \in Existing
                          /\ Holds(s, MessagesIn(SubSeq(full, 1, j)))
    BY <1>7, <1>24
  <2>2. w = FileCall("newline", s)
    BY <1>13, <1>17, <2>1
  <2>3. w.call = "newline" /\ w.seg = s
    BY <2>2 DEF FileCall
  <2>4. segment' = [segment EXCEPT ![s].ended = TRUE] /\ pointer' = pointer
    BY <1>18, <2>3 DEF Applied
  <2>5. joined' = joined
    BY <1>16, <1>17, <2>3 DEF Write
  <2>6. PICK g : g = [segment[s] EXCEPT !.ended = TRUE]
    OBVIOUS
  <2>7. g \in LogFile /\ g.lines = segment[s].lines /\ g.exists = segment[s].exists
    BY <1>20, <2>6 DEF LogFile
  <2>8. segment' = [segment EXCEPT ![s] = g]
    BY <2>4, <2>6
  <2>9. /\ segment' \in [Segments -> LogFile] /\ segment'[s] = g
        /\ Existing' = Existing
        /\ \A t \in Segments : t # s => segment'[t] = segment[t]
    <3>1. g.exists \/ ~segment[s].exists
      BY <2>7
    <3>2. /\ segment' \in [Segments -> LogFile] /\ segment'[s] = g
          /\ Existing' = IF g.exists THEN Existing \cup {s} ELSE Existing
          /\ \A t \in Segments : t # s => segment'[t] = segment[t]
      BY <1>1, <2>7, <2>8, <3>1, FileReplaced
    <3> QED BY <2>1, <3>2
  <2>10. s \notin joined => MessagesIn(segment'[s].lines) = MessagesIn(SubSeq(full, 1, j))
    BY <2>1, <2>7, <2>9 DEF Holds
  <2>11. MessagesIn(SubSeq(full, 1, j)) \in Prefixes(log)
    BY <1>4, <1>7 DEF FillsWith
  <2>12. CASE j < n
    <3>1. Filled(s, full, k + 1)'
      <4>1. j + 1 \in 1..Len(full) /\ k + 1 = 2 * (j + 1) /\ (j + 1) - 1 = j
        BY <1>7, <2>1, <2>12
      <4>2. s \in Existing' /\ Holds(s, MessagesIn(SubSeq(full, 1, (j + 1) - 1)))'
        BY <2>1, <2>5, <2>9, <2>10, <4>1 DEF Holds
      <4> QED BY <4>1, <4>2 DEF Filled
    <3>2. k # 2 * n + 1 + m /\ Existing' = Existing \cup {s}
      BY <2>1, <2>9, <2>12
    <3> QED BY <1>21, <2>4, <2>5, <2>9, <2>10, <2>11, <3>1, <3>2
  <2>13. CASE j = n
    <3>1. k = 2 * n + 1 /\ logWrites' = tail
      <4>1. k = 2 * n + 1 /\ k + 1 = 2 * n + 2
        BY <2>1, <2>13
      <4> QED BY <1>13, <1>18, <4>1
    <3>2. s \notin joined => MessagesIn(segment'[s].lines) = log
      <4>1. SubSeq(full, 1, n) = full
        BY <1>7, <1>8, SubSeqFull
      <4> QED BY <1>4, <2>10, <2>13, <4>1 DEF FillsWith
    <3>3. CASE tail = <<>>
      <4>1. s = current /\ k = 2 * n + 1 + m
        BY <1>5, <1>11, <3>1, <3>3
      <4>2. /\ store' = result.store /\ current' = s /\ replayed' = log
            /\ promise' = IF result.store = "loaded" THEN {log} ELSE promise
        BY <1>2, <1>3, <1>16, <4>1 DEF Write, Given
      <4>3. LogTyped'
        BY <1>1, <1>18, <2>4, <2>9, <4>2 DEF LogTyped
      <4>4. LogFiles'
        BY <1>1, <1>19, <2>1, <2>4, <2>9, <4>2 DEF LogFiles
      <4>5. ResolvedLog' = s
        BY <1>19, <2>1, <2>4, <2>9, <4>1 DEF ResolvedLog
      <4>6. LogFound'
        BY <1>19, <2>5, <3>2, <4>2, <4>5 DEF LogFound
      <4>7. Resting'
        BY <1>19, <2>4, <2>5, <3>1, <3>2, <3>3, <4>1, <4>2 DEF Resting, Holds
      <4> QED BY <4>3, <4>4, <4>6, <4>7 DEF LogKept, LogDoing
    <3>4. CASE tail # <<>>
      <4>1. tail = PointTo(s) /\ s # current /\ Newest(s) /\ k # 2 * n + 1 + m
        BY <1>5, <1>11, <3>1, <3>4
      <4>2. UNCHANGED <<store, current, replayed, promise>>
        BY <1>16, <4>1 DEF Write
      <4>3. LogTyped'
        BY <1>1, <1>18, <2>4, <2>9, <4>2 DEF LogTyped
      <4>4. LogFiles'
        BY <1>1, <2>4, <2>9, <4>2 DEF LogFiles
      <4>5. LogFound'
        <5>1. \A t \in Segments : MessagesIn(segment'[t].lines) = MessagesIn(segment[t].lines)
          BY <2>7, <2>9
        <5> QED BY <1>1, <2>4, <2>5, <2>9, <4>2, <5>1, FoundStays
      <4>6. Pointing'
        <5>1. Newest(s)'
          BY <2>9, <4>1 DEF Newest
        <5>2. result'.current = s /\ result'.store # "closed" /\ result'.replayed = log
          BY <1>2, <1>3, <1>18, <1>19
        <5>3. s \in Existing'
          BY <2>1, <2>9
        <5>4. s \notin joined' => MessagesIn(segment'[s].lines) = log /\ log \in promise'
          BY <1>19, <2>5, <3>2, <4>2
        <5>5. Holds(s, log)'
          BY <5>4 DEF Holds
        <5>6. logWrites' = PointTo(s) /\ pointer' = current'
          BY <1>19, <2>4, <3>1, <4>1, <4>2
        <5> QED BY <5>1, <5>2, <5>3, <5>4, <5>5, <5>6 DEF Pointing
      <4> QED BY <4>3, <4>4, <4>5, <4>6 DEF LogKept, LogDoing
    <3> QED BY <3>3, <3>4
  <2>14. j < n \/ j = n
    OBVIOUS
  <2> QED BY <2>12, <2>13, <2>14
<1> QED BY <1>14, <1>22, <1>23, <1>24 DEF Filled

LEMMA PointingWrites ==
  ASSUME LogKept, Pointing, Write
  PROVE  LogKept'
<1>1. LogTyped /\ LogFiles /\ LogFound
  BY DEF LogKept
<1>2. PICK s : s = result.current
  OBVIOUS
<1>3. /\ s \in Existing /\ s \in Segments /\ Newest(s) /\ result.store # "closed"
      /\ s \notin joined => MessagesIn(segment[s].lines) \in promise
      /\ result.store = "loaded" => Holds(s, result.replayed)
  BY <1>2 DEF Pointing, Existing
<1>4. CASE logWrites = PointTo(s)
  <2>1. /\ pointer = current /\ logWrites = <<FileCall("unpoint", s), FileCall("point", s)>>
    <3>1. PointTo(s) # <<FileCall("point", s)>>
      BY DEF PointTo
    <3> QED BY <1>2, <1>4, <3>1 DEF Pointing, PointTo
  <2>2. /\ Head(logWrites) = FileCall("unpoint", s) /\ Len(logWrites) = 2
        /\ Tail(logWrites) = <<FileCall("point", s)>>
    BY <2>1
  <2>3. Head(logWrites).call = "unpoint"
    BY <2>2 DEF FileCall
  <2>4. /\ pointer' = NoSegment /\ segment' = segment /\ logWrites' = <<FileCall("point", s)>>
        /\ UNCHANGED <<store, current, replayed, promise, joined, result>>
    <3>1. pointer' = NoSegment /\ segment' = segment
      BY <2>3 DEF Write, Applied
    <3>2. logWrites' = <<FileCall("point", s)>> /\ result' = result
      BY <2>2 DEF Write
    <3>3. UNCHANGED <<store, current, replayed, promise>>
      BY <2>2 DEF Write
    <3>4. joined' = joined
      BY <2>3 DEF Write
    <3> QED BY <3>1, <3>2, <3>3, <3>4
  <2>5. Existing' = Existing
    BY <2>4 DEF Existing
  <2>6. LogTyped'
    BY <1>1, <2>4 DEF LogTyped
  <2>7. LogFiles'
    BY <1>1, <2>4, <2>5 DEF LogFiles
  <2>8. MaxOf(Existing) = s
    <3>1. ASSUME NEW t \in Existing PROVE t <= s
      <4>1. t \in Segments /\ ~(t > s)
        BY <1>3, <3>1 DEF Newest, Existing
      <4>2. t \in Nat /\ s \in Nat
        BY <1>3, <4>1, SegmentNumbers
      <4> QED BY <4>1, <4>2
    <3> QED BY <1>1, <1>3, <3>1, Resolving, LastSegment
  <2>9. ResolvedLog' = s
    <3>1. NoSegment \notin Existing
      BY SegmentNumbers DEF Existing
    <3> QED BY <1>3, <2>4, <2>5, <2>8, <3>1 DEF ResolvedLog
  <2>10. LogFound'
    BY <1>3, <2>4, <2>9 DEF LogFound
  <2>11. Newest(s)'
    BY <1>3, <2>5 DEF Newest
  <2>12. Pointing'
    BY <1>2, <1>3, <2>4, <2>5, <2>11 DEF Pointing, Holds
  <2> QED BY <2>6, <2>7, <2>10, <2>12 DEF LogKept, LogDoing
<1>5. CASE logWrites = <<FileCall("point", s)>>
  <2>1. Head(logWrites) = FileCall("point", s) /\ Len(logWrites) = 1 /\ Tail(logWrites) = <<>>
    BY <1>5
  <2>2. Head(logWrites).call = "point" /\ Head(logWrites).seg = s
    BY <2>1 DEF FileCall
  <2>3. /\ pointer' = s /\ segment' = segment /\ logWrites' = <<>>
        /\ UNCHANGED <<joined, result>>
    BY <2>1, <2>2 DEF Write, Applied
  <2>4. /\ store' = result.store /\ current' = s /\ replayed' = result.replayed
        /\ promise' = IF result.store = "loaded" THEN {result.replayed} ELSE promise
    BY <1>2, <2>1 DEF Write, Given
  <2>5. Existing' = Existing
    BY <2>3 DEF Existing
  <2>6. LogTyped'
    BY <1>1, <1>3, <2>3, <2>4 DEF LogTyped
  <2>7. LogFiles'
    BY <1>1, <1>3, <2>3, <2>4, <2>5 DEF LogFiles
  <2>8. ResolvedLog' = s
    BY <1>3, <2>3, <2>5 DEF ResolvedLog
  <2>9. LogFound'
    BY <1>3, <2>3, <2>4, <2>8 DEF LogFound, Holds
  <2>10. Resting'
    BY <1>3, <2>3, <2>4 DEF Resting, Holds
  <2> QED BY <2>6, <2>7, <2>9, <2>10 DEF LogKept, LogDoing
<1> QED BY <1>2, <1>4, <1>5 DEF Pointing

LEMMA AppendingWrites ==
  ASSUME LogKept, Appending, Write
  PROVE  LogKept'
<1>1. LogTyped /\ LogFiles /\ LogFound
  BY DEF LogKept
<1>2. PICK s : s = current
  OBVIOUS
<1>3. /\ store = "loaded" /\ pointer = s /\ result.store = "loaded" /\ result.current = s
      /\ replayed \in promise /\ result.replayed \in promise
  BY <1>2 DEF Appending
<1>4. s \in Existing /\ s \in Segments
  BY <1>1, <1>2, <1>3 DEF LogFiles, Existing
<1>5. ResolvedLog = s
  BY <1>1, <1>3, <1>4, Resolving
<1>6. PICK m \in LogMessages :
        /\ result.replayed = Append(replayed, m)
        /\ \/ logWrites = Line(s, m) /\ Holds(s, replayed)
           \/ logWrites = <<FileCall("newline", s)>> /\ Holds(s, result.replayed)
  BY <1>2 DEF Appending
<1>7. segment[s] \in LogFile /\ segment[s].lines \in Seq(LogEntries)
  BY <1>1, <1>4 DEF LogTyped, LogFile
<1>8. CASE logWrites = Line(s, m) /\ Holds(s, replayed)
  <2>1. PICK w : w = [call |-> "line", seg |-> s, entry |-> m]
    OBVIOUS
  <2>2. logWrites = <<w, FileCall("newline", s)>>
    BY <1>8, <2>1 DEF Line, FileCall
  <2>3. /\ Head(logWrites) = w /\ Len(logWrites) = 2
        /\ Tail(logWrites) = <<FileCall("newline", s)>>
    BY <2>2
  <2>4. w.call = "line" /\ w.seg = s /\ w.entry = m
    BY <2>1
  <2>5. /\ segment' = [segment EXCEPT ![s] = WithLine(@, m)] /\ pointer' = pointer
        /\ joined' = IF ~segment[s].ended THEN joined \cup {s} ELSE joined
        /\ logWrites' = <<FileCall("newline", s)>>
        /\ UNCHANGED <<store, current, replayed, promise, result>>
    <3>1. segment' = [segment EXCEPT ![s] = WithLine(@, m)] /\ pointer' = pointer
      BY <2>3, <2>4 DEF Write, Applied
    <3>2. joined' = IF ~segment[s].ended THEN joined \cup {s} ELSE joined
      BY <2>3, <2>4 DEF Write
    <3>3. logWrites' = <<FileCall("newline", s)>> /\ result' = result
      BY <2>3 DEF Write
    <3>4. UNCHANGED <<store, current, replayed, promise>>
      BY <2>3 DEF Write
    <3> QED BY <3>1, <3>2, <3>3, <3>4
  <2>6. m \in LogEntries /\ IsMessage(m)
    BY DEF LogMessages
  <2>7. /\ segment' \in [Segments -> LogFile] /\ Existing' = Existing
        /\ s \in joined => s \in joined'
        /\ s \notin joined'
             => MessagesIn(segment'[s].lines) = MessagesIn(Append(segment[s].lines, m))
    BY <1>1, <1>4, <2>5, <2>6, LineWritten
  <2>8. MessagesIn(Append(segment[s].lines, m)) = Append(MessagesIn(segment[s].lines), m)
    BY <1>7, <2>6, MessagesAppend
  <2>9. s \notin joined' => MessagesIn(segment'[s].lines) = result.replayed
    BY <1>6, <1>8, <2>7, <2>8 DEF Holds
  <2>10. LogTyped'
    BY <1>1, <2>5, <2>7 DEF LogTyped
  <2>11. LogFiles'
    BY <1>1, <2>5, <2>7 DEF LogFiles
  <2>12. ResolvedLog' = s
    BY <1>3, <1>4, <2>5, <2>7 DEF ResolvedLog
  <2>13. LogFound'
    BY <1>3, <2>5, <2>9, <2>12 DEF LogFound
  <2>14. Appending'
    BY <1>2, <1>3, <1>6, <2>5, <2>9 DEF Appending, Holds
  <2> QED BY <2>10, <2>11, <2>13, <2>14 DEF LogKept, LogDoing
<1>9. CASE logWrites = <<FileCall("newline", s)>> /\ Holds(s, result.replayed)
  <2>1. Head(logWrites) = FileCall("newline", s) /\ Len(logWrites) = 1 /\ Tail(logWrites) = <<>>
    BY <1>9
  <2>2. Head(logWrites).call = "newline" /\ Head(logWrites).seg = s
    BY <2>1 DEF FileCall
  <2>3. PICK g : g = [segment[s] EXCEPT !.ended = TRUE]
    OBVIOUS
  <2>4. g \in LogFile /\ g.lines = segment[s].lines /\ g.exists = segment[s].exists
    BY <1>7, <2>3 DEF LogFile
  <2>5. /\ segment' = [segment EXCEPT ![s] = g] /\ pointer' = pointer
        /\ joined' = joined /\ result' = result /\ logWrites' = <<>>
    BY <2>1, <2>2, <2>3 DEF Write, Applied
  <2>6. /\ store' = "loaded" /\ current' = s /\ replayed' = result.replayed
        /\ promise' = {result.replayed}
    BY <1>3, <2>1 DEF Write, Given
  <2>7. segment' \in [Segments -> LogFile] /\ segment'[s] = g /\ Existing' = Existing
    <3>1. g.exists \/ ~segment[s].exists
      BY <2>4
    <3>2. /\ segment' \in [Segments -> LogFile] /\ segment'[s] = g
          /\ Existing' = IF g.exists THEN Existing \cup {s} ELSE Existing
      BY <1>1, <1>4, <2>4, <2>5, <3>1, FileReplaced
    <3> QED BY <1>4, <3>2
  <2>8. s \notin joined => MessagesIn(segment'[s].lines) = result.replayed
    BY <1>9, <2>4, <2>7 DEF Holds
  <2>9. LogTyped'
    BY <1>1, <1>3, <1>4, <2>5, <2>6, <2>7 DEF LogTyped, StoreStates
  <2>10. LogFiles'
    BY <1>1, <1>4, <2>5, <2>6, <2>7 DEF LogFiles
  <2>11. ResolvedLog' = s
    BY <1>3, <1>4, <2>5, <2>7 DEF ResolvedLog
  <2>12. LogFound'
    BY <2>5, <2>6, <2>8, <2>11 DEF LogFound
  <2>13. Resting'
    BY <1>3, <2>5, <2>6, <2>8 DEF Resting, Holds
  <2> QED BY <2>9, <2>10, <2>12, <2>13 DEF LogKept, LogDoing
<1> QED BY <1>6, <1>8, <1>9

LEMMA LogStarts ==
  ASSUME LogInit
  PROVE  LogKept
<1>1. Existing = {} /\ ResolvedLog = NoSegment
  <2>1. \A s \in Segments : segment[s].exists = FALSE
    BY DEF LogInit, Absent
  <2>2. Existing = {}
    BY <2>1 DEF Existing
  <2> QED BY <2>2 DEF LogInit, ResolvedLog
<1>2. LogTyped
  <2>1. <<>> \in Seq(LogMessages) /\ <<>> \in Seq(LogEntries)
    BY EmptySeq
  <2>2. Absent \in LogFile
    BY <2>1 DEF Absent, LogFile
  <2>3. segment \in [Segments -> LogFile]
    BY <2>2 DEF LogInit
  <2> QED BY <2>1, <2>3 DEF LogInit, LogTyped, Nothing, StoreStates
<1>3. LogFiles
  BY <1>1 DEF LogInit, LogFiles
<1>4. LogFound
  BY <1>1 DEF LogFound
<1>5. Resting
  BY DEF LogInit, Resting
<1> QED BY <1>2, <1>3, <1>4, <1>5 DEF LogKept, LogDoing

LEMMA LogNextKeeps ==
  ASSUME LogKept, [LogNext]_logVars
  PROVE  LogKept'
<1>1. CASE OpenStore
  BY <1>1, OpenStoreKeeps
<1>2. CASE LoadSnapshot
  BY <1>2, LoadSnapshotKeeps
<1>3. CASE Write
  <2>1. logWrites # <<>>
    BY <1>3 DEF Write, Idle
  <2>2. Filling \/ Pointing \/ Appending
    BY <2>1 DEF LogKept, LogDoing, Resting
  <2> QED BY <1>3, <2>2, FillingWrites, PointingWrites, AppendingWrites
<1>4. CASE Die
  BY <1>4, DieKeeps
<1>5. CASE \E m \in {User, Assistant({1, 2}), ToolResult(1), ToolResult(2)} : AppendMessage(m)
  BY <1>5, EntriesTyped, AppendMessageKeeps
<1>6. CASE \E i \in CutPoints(replayed) \ {1} : Rollover(SubSeq(replayed, i, Len(replayed)))
  <2>1. PICK i \in CutPoints(replayed) : Rollover(SubSeq(replayed, i, Len(replayed)))
    BY <1>6
  <2>2. replayed \in Seq(LogMessages)
    BY DEF LogKept, LogTyped
  <2>3. PICK n \in Nat : n = Len(replayed)
    BY <2>2, LenProperties
  <2>4. i \in 1..n
    BY <2>3 DEF CutPoints
  <2>5. \A j \in i..n : replayed[j] \in LogMessages
    <3>1. ASSUME NEW j \in i..n PROVE j \in 1..Len(replayed)
      BY <2>3, <2>4
    <3> QED BY <2>2, <3>1, ElementOfSeq
  <2>6. SubSeq(replayed, i, n) \in Seq(LogMessages)
    BY <2>4, <2>5, SubSeqProperties
  <2> QED BY <2>1, <2>3, <2>6, RolloverKeeps
<1>7. CASE UNCHANGED logVars
  <2>1. LogTyped' /\ LogFiles' /\ LogFound'
    BY <1>7 DEF logVars, LogKept, LogTyped, LogFiles, LogFound, Existing, ResolvedLog
  <2>2. Filling => Filling'
    BY <1>7, ZenonT(40) DEF logVars, Filling, FilledBy, Filled, Holds, Newest, Existing
  <2>3. Pointing => Pointing'
    BY <1>7 DEF logVars, Pointing, Holds, Newest, Existing
  <2>4. Appending => Appending'
    BY <1>7 DEF logVars, Appending, Holds
  <2>5. Resting => Resting'
    BY <1>7 DEF logVars, Resting, Holds
  <2> QED BY <2>1, <2>2, <2>3, <2>4, <2>5 DEF LogKept, LogDoing
<1> QED BY <1>1, <1>2, <1>3, <1>4, <1>5, <1>6, <1>7 DEF LogNext

\* Whoever reads the log after a crash, wherever it fell, finds a log that was
\* promised: what was there before the operation that was cut short, what it was
\* to leave or, of a repair, a beginning of that (session.rs 361, 614, 685).
THEOREM LogSurvivesCrashes == LogSpec => []CrashKeepsLog
<1>1. LogKept => CrashKeepsLog
  <2>0. SUFFICES ASSUME LogKept, ResolvedLog # NoSegment, ResolvedLog \notin joined
                 PROVE  Sanitized(Messages(segment[ResolvedLog]))
                          \in {Sanitized(log) : log \in promise}
    BY DEF CrashKeepsLog
  <2>1. LogTyped /\ LogFound
    BY <2>0 DEF LogKept
  <2>2. ResolvedLog \in Segments
    BY <2>0, <2>1, Resolving
  <2>3. segment[ResolvedLog].lines \in Seq(LogEntries)
    BY <2>1, <2>2 DEF LogTyped, LogFile
  <2>4. Messages(segment[ResolvedLog]) \in promise
    BY <2>0, <2>1, <2>3, MessagesOfFile DEF LogFound
  <2> QED BY <2>4
<1> QED BY <1>1, LogStarts, LogNextKeeps, PTL DEF LogSpec
=============================================================================
