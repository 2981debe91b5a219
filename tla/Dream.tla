-------------------------------- MODULE Dream --------------------------------
(***************************************************************************)
(* The nightly dream (crates/sa-core/src/dream.rs, run_dream_scheduler,    *)
(* run_background_dream and replace_dream_scheduler of                     *)
(* crates/sa/src/main.rs).  A scheduler tries once when it starts and then *)
(* after each midnight; a hot reload cancels the scheduler there is, which *)
(* looks at its token between two tries only, and starts a new one, so     *)
(* several may be at work.  They share the state file, which is truncated  *)
(* and then written, and the lock file.                                    *)
(*                                                                         *)
(* What the dream's agent does with the memory files is not modelled: a    *)
(* dream succeeds or fails.  Its tools are those of                        *)
(* build_background_tool_runtime, which reach no agent and no user.        *)
(***************************************************************************)
EXTENDS Integers, FiniteSets

CONSTANTS
  MaxDays,        \* bound: dates
  MaxSchedulers,  \* bound: schedulers started
  MaxKills        \* bound: crashes of the process

\* There is a first date, and a first scheduler.
ASSUME DreamAssumption ==
  {MaxDays, MaxSchedulers} \subseteq Nat \ {0} /\ MaxKills \in Nat

Schedulers == 1..MaxSchedulers
Days == 1..MaxDays
NoDay == 0
Nobody == 0
Truncated == -1   \* the state file, emptied and not written

VARIABLES
  today,
  material,   \* there is a memory file, a note or a session with history
  dreamFile,  \* last_success_local_date in memory/.dream-state.json, or Truncated
  lockedBy,   \* who holds memory/.dream.lock
  dreamer,    \* per scheduler, how far it is
  since,      \* per scheduler, the date it took when it began to try
  loaded,     \* per scheduler, the state it loaded and is about to write
  quitting,   \* per scheduler, its CancelToken
  started,    \* counter: schedulers
  kills,      \* counter: crashes
  dreamt,     \* history: dreams that succeeded, per date
  doubtful    \* history: dates on which a scheduler had found a dream due, and
              \* not yet asked for the lock, when another one finished

dreamVars == <<today, material, dreamFile, lockedBy, dreamer, since, loaded, quitting, started, kills,
               dreamt, doubtful>>
worldVars == <<today, material, started, kills>>
historyVars == <<dreamt, doubtful>>

BeginTrying(k) == dreamer' = [dreamer EXCEPT ![k] = "try"]

DreamInit ==
  /\ today = 1 /\ material \in BOOLEAN
  /\ dreamFile = NoDay /\ lockedBy = Nobody
  /\ dreamer = [k \in Schedulers |-> IF k = 1 THEN "try" ELSE "none"]
  /\ since = [k \in Schedulers |-> NoDay] /\ loaded = [k \in Schedulers |-> NoDay]
  /\ quitting = [k \in Schedulers |-> FALSE]
  /\ started = 1 /\ kills = 0
  /\ dreamt = [d \in Days |-> 0] /\ doubtful = {}

-----------------------------------------------------------------------------
(* One try                                                                  *)

\* Mutant: the date of the last dream is not looked at.
DueAnyTime(file, d) == file # NoDay \/ material

\* should_run_now, with the state file readable: once a date, and for the first
\* time only when there is something to dream of.
Due(file, d) == file # d /\ (file # NoDay \/ material)

Stop(k) ==
  /\ dreamer[k] = "try" /\ quitting[k]
  /\ dreamer' = [dreamer EXCEPT ![k] = "stopped"]
  /\ UNCHANGED <<worldVars, dreamFile, lockedBy, since, loaded, quitting, historyVars>>

\* The try is over, the scheduler sleeps until the midnight after this moment.
GoesToSleep(k) ==
  /\ dreamer' = [dreamer EXCEPT ![k] = "asleep"]
  /\ since' = [since EXCEPT ![k] = today]

Look(k) ==
  /\ dreamer[k] = "try" /\ ~quitting[k]
  /\ IF dreamFile # Truncated /\ Due(dreamFile, today)
     THEN dreamer' = [dreamer EXCEPT ![k] = "lock"] /\ since' = [since EXCEPT ![k] = today]
     ELSE GoesToSleep(k)
  /\ UNCHANGED <<worldVars, dreamFile, lockedBy, loaded, quitting, historyVars>>

TakeLock(k) == lockedBy' = k

\* try_acquire_lock.
Lock(k) ==
  /\ dreamer[k] = "lock"
  /\ IF lockedBy = Nobody
     THEN TakeLock(k) /\ dreamer' = [dreamer EXCEPT ![k] = "load"] /\ UNCHANGED since
     ELSE GoesToSleep(k) /\ UNCHANGED lockedBy
  /\ UNCHANGED <<worldVars, dreamFile, loaded, quitting, historyVars>>

Unlock(k) == lockedBy' = IF lockedBy = k THEN Nobody ELSE lockedBy

\* mark_started and mark_completed begin with load_state.
LoadDreamState(k) ==
  /\ dreamer[k] \in {"load", "reload"}
  /\ IF dreamFile = Truncated
     THEN GoesToSleep(k) /\ Unlock(k) /\ UNCHANGED loaded
     ELSE /\ dreamer' = [dreamer EXCEPT ![k] = IF @ = "load" THEN "truncate" ELSE "retruncate"]
          /\ loaded' = [loaded EXCEPT ![k] = dreamFile]
          /\ UNCHANGED <<lockedBy, since>>
  /\ UNCHANGED <<worldVars, dreamFile, quitting, historyVars>>

\* save_state: File::create, then the contents.
Truncate(k) ==
  /\ dreamer[k] \in {"truncate", "retruncate"}
  /\ dreamFile' = Truncated
  /\ dreamer' = [dreamer EXCEPT ![k] = IF @ = "truncate" THEN "write" ELSE "rewrite"]
  /\ UNCHANGED <<worldVars, lockedBy, since, loaded, quitting, historyVars>>

MarkStarted(k) ==
  /\ dreamer[k] = "write"
  /\ dreamFile' = loaded[k]
  /\ dreamer' = [dreamer EXCEPT ![k] = "dreaming"]
  /\ UNCHANGED <<worldVars, lockedBy, since, loaded, quitting, historyVars>>

DreamFails(k) ==
  /\ dreamer[k] = "dreaming"
  /\ GoesToSleep(k) /\ Unlock(k)
  /\ UNCHANGED <<worldVars, dreamFile, loaded, quitting, historyVars>>

DreamSucceeds(k) ==
  /\ dreamer[k] = "dreaming"
  /\ dreamer' = [dreamer EXCEPT ![k] = "reload"]
  /\ UNCHANGED <<worldVars, dreamFile, lockedBy, since, loaded, quitting, historyVars>>

\* The date is the one on which the try began.
MarkCompleted(k) ==
  /\ dreamer[k] = "rewrite"
  /\ dreamFile' = since[k]
  /\ GoesToSleep(k) /\ Unlock(k)
  /\ dreamt' = [dreamt EXCEPT ![since[k]] = @ + 1]
  /\ doubtful' = IF \E j \in Schedulers : dreamer[j] = "lock"
                 THEN doubtful \cup {since[k]} ELSE doubtful
  /\ UNCHANGED <<worldVars, loaded, quitting>>

\* The timer, and the token that ends the sleep.
Wake(k) ==
  /\ dreamer[k] = "asleep" /\ today > since[k]
  /\ BeginTrying(k)
  /\ UNCHANGED <<worldVars, dreamFile, lockedBy, since, loaded, quitting, historyVars>>

CancelledAsleep(k) ==
  /\ dreamer[k] = "asleep" /\ quitting[k]
  /\ dreamer' = [dreamer EXCEPT ![k] = "stopped"]
  /\ UNCHANGED <<worldVars, dreamFile, lockedBy, since, loaded, quitting, historyVars>>

-----------------------------------------------------------------------------
(* Reloads, restarts and time                                               *)

\* replace_dream_scheduler: the one there is is cancelled; a new one is started
\* unless the configuration disables the dream.
Reload ==
  /\ started < MaxSchedulers
  /\ quitting' = [k \in Schedulers |-> k <= started]
  /\ started' = started + 1
  /\ \/ BeginTrying(started')
     \/ dreamer' = [dreamer EXCEPT ![started'] = "stopped"]
  /\ UNCHANGED <<today, material, dreamFile, lockedBy, since, loaded, kills, historyVars>>

\* The process is killed and started again.  The lock goes with it.
Kill ==
  /\ kills < MaxKills /\ started < MaxSchedulers
  /\ kills' = kills + 1 /\ started' = started + 1
  /\ dreamer' = [k \in Schedulers |-> CASE k <= started -> "stopped"
                                       [] k = started' -> "try"
                                       [] OTHER -> "none"]
  /\ lockedBy' = Nobody
  /\ UNCHANGED <<today, material, dreamFile, since, loaded, quitting, historyVars>>

Midnight ==
  /\ today < MaxDays /\ today' = today + 1
  /\ UNCHANGED <<material, dreamFile, lockedBy, dreamer, since, loaded, quitting, started, kills, historyVars>>

Remember ==
  /\ ~material /\ material' = TRUE
  /\ UNCHANGED <<today, dreamFile, lockedBy, dreamer, since, loaded, quitting, started, kills, historyVars>>

-----------------------------------------------------------------------------
DreamStep(k) ==
  \/ Stop(k)
  \/ Look(k)
  \/ Lock(k)
  \/ LoadDreamState(k)
  \/ Truncate(k)
  \/ MarkStarted(k)
  \/ DreamFails(k)
  \/ DreamSucceeds(k)
  \/ MarkCompleted(k)
  \/ Wake(k)
  \/ CancelledAsleep(k)

DreamNext ==
  \/ \E k \in Schedulers : DreamStep(k)
  \/ Reload
  \/ Kill
  \/ Midnight
  \/ Remember

DreamSpec == DreamInit /\ [][DreamNext]_dreamVars

-----------------------------------------------------------------------------
DreamTypeOK ==
  /\ today \in Days /\ material \in BOOLEAN
  /\ dreamFile \in Days \cup {NoDay, Truncated}
  /\ lockedBy \in Schedulers \cup {Nobody}
  /\ dreamer \in [Schedulers -> {"none", "try", "lock", "load", "truncate", "write", "dreaming", "reload",
                                 "retruncate", "rewrite", "asleep", "stopped"}]
  /\ {since, loaded} \subseteq [Schedulers -> Days \cup {NoDay}]
  /\ quitting \in [Schedulers -> BOOLEAN]
  /\ started \in Schedulers /\ kills \in 0..MaxKills
  /\ dreamt \in [Days -> 0..MaxSchedulers] /\ doubtful \subseteq Days

\* "Run at most once per local calendar date" (should_run_now): a date is dreamt
\* of twice only when a scheduler that a reload put beside another one had found
\* the dream due before the other one finished, and took the lock after it.  The
\* lock is taken after that look and nothing is looked at again under it.
DreamtTwiceOnlyInDoubt == \A d \in Days : dreamt[d] > 1 => d \in doubtful
=============================================================================
