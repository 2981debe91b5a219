------------------------------ MODULE SessionLock ------------------------------
(***************************************************************************)
(* Who may use a session directory (crates/sa-core/src/session.rs,         *)
(* SessionProcessLock): a set of reserved directories inside the process,  *)
(* and between processes a lock file, which holds the pid of its owner so  *)
(* that the file of a dead one can be removed.                             *)
(*                                                                         *)
(* Locks are the advisory ones of Unix: they belong to the open file, go   *)
(* with it, and keep nobody from reading or removing it.  A pid is not     *)
(* used again.  One directory.                                             *)
(***************************************************************************)
EXTENDS Integers, FiniteSets

CONSTANTS
  Processes,
  Stores,     \* stores that a process may open on the directory
  MaxOpens,   \* bound: calls of acquire
  MaxMishaps  \* bound: pids that were not written, probes that told nothing

ASSUME LockBoundsAssumption == {Stores, MaxOpens, MaxMishaps} \subseteq Nat

\* What a file holds that names no process.
ASSUME PidsAssumption == {"dead pid", "unwritten"} \cap Processes = {}

Openers == Processes \X (1..Stores)
Pid(o) == o[1]

NoLockFile == 0
LeftOver == 1  \* the file that a process of long ago left, if any
MaxFiles == 2 * MaxOpens + 1  \* bound that is not met: acquire opens it twice at most
LockFiles == LeftOver..MaxFiles
Pids == Processes \cup {"dead pid", "unwritten"}

VARIABLES
  lockFile,  \* the file that .sa-session.lock names
  pid,       \* what is written in each file, removed ones included
  opener,    \* per opener how far it is, the file it has open, the pid it read;
             \* history: it has written its pid; owners that had when it read the
             \* file; the file it has open was removed by one that had not seen it
  reserved,  \* LIVE_SESSION_LOCKS: processes with a reservation
  departed,  \* processes that have ended
  filesMade, opens, mishaps  \* counters

lockVars == <<lockFile, pid, opener, reserved, departed, filesMade, opens, mishaps>>
lockCounters == <<filesMade, opens, mishaps>>

Out == [at |-> "out", fd |-> NoLockFile, read |-> "unwritten", wrote |-> FALSE, saw |-> {}, unseen |-> FALSE]

LockInit ==
  /\ lockFile \in {NoLockFile, LeftOver}
  /\ pid = [f \in LockFiles |-> IF f = lockFile THEN "dead pid" ELSE "unwritten"]
  /\ opener = [o \in Openers |-> Out]
  /\ reserved = {} /\ departed = {}
  /\ filesMade = LeftOver /\ opens = 0 /\ mishaps = 0

\* Between taking the lock and closing the file.
Holding == {"truncate", "write", "owner", "closing"}
Holders(f) == {o \in Openers : opener[o].fd = f /\ opener[o].at \in Holding}
Owners == {o \in Openers : opener[o].at = "owner"}

To(o, position) == opener' = [opener EXCEPT ![o].at = position]
Mishap == mishaps < MaxMishaps /\ mishaps' = mishaps + 1

-----------------------------------------------------------------------------
(* acquire and try_lock_file                                                *)

\* reserve_live_session_lock.
Reserve(o) ==
  /\ opener[o].at = "out" /\ Pid(o) \notin departed /\ opens < MaxOpens
  /\ opens' = opens + 1
  /\ IF Pid(o) \in reserved
     THEN UNCHANGED <<opener, reserved>>
     ELSE To(o, "open") /\ reserved' = reserved \cup {Pid(o)}
  /\ UNCHANGED <<lockFile, pid, departed, filesMade, mishaps>>

\* Mutant: the file is opened with truncate, and so emptied under its owner.
PidsOnceOpenEmptied(f) == [pid EXCEPT ![f] = "unwritten"]

\* OpenOptions: nothing is truncated before the lock is held.
PidsOnceOpen(f) == pid

\* The file is created when it is not there.
OpenLockFile(o) ==
  /\ opener[o].at \in {"open", "reopen"}
  /\ IF lockFile = NoLockFile
     THEN filesMade < MaxFiles /\ filesMade' = filesMade + 1 /\ lockFile' = filesMade'
     ELSE UNCHANGED <<filesMade, lockFile>>
  /\ pid' = PidsOnceOpen(lockFile')
  /\ opener' = [opener EXCEPT ![o].fd = lockFile', ![o].at = IF @ = "open" THEN "lock" ELSE "relock"]
  /\ UNCHANGED <<reserved, departed, opens, mishaps>>

\* acquire fails: the file is closed and the reservation released.
AcquireFails(o) ==
  /\ opener' = [opener EXCEPT ![o] = Out]
  /\ reserved' = reserved \ {Pid(o)}

\* The lock is had, looked into when it is somebody's, and looked into once only.
TryLock(o) ==
  /\ opener[o].at \in {"lock", "relock"}
  /\ \/ /\ Holders(opener[o].fd) = {}
        /\ To(o, "truncate") /\ UNCHANGED reserved
     \/ /\ Holders(opener[o].fd) # {} /\ opener[o].at = "lock"
        /\ opener' = [opener EXCEPT ![o].at = "read", ![o].fd = NoLockFile, ![o].unseen = FALSE]
        /\ UNCHANGED reserved
     \/ /\ Holders(opener[o].fd) # {} /\ opener[o].at = "relock"
        /\ AcquireFails(o)
  /\ UNCHANGED <<lockFile, pid, departed, lockCounters>>

\* The pid is written under the lock; errors are ignored.
EmptyFile(o) ==
  /\ opener[o].at = "truncate"
  /\ To(o, "write")
  /\ pid' = [pid EXCEPT ![opener[o].fd] = "unwritten"]
  /\ UNCHANGED <<lockFile, reserved, departed, lockCounters>>

WritePid(o) ==
  /\ opener[o].at = "write"
  /\ \/ /\ pid' = [pid EXCEPT ![opener[o].fd] = Pid(o)] /\ UNCHANGED mishaps
        /\ opener' = [opener EXCEPT ![o].at = "owner", ![o].wrote = TRUE]
     \/ Mishap /\ To(o, "owner") /\ UNCHANGED pid
  /\ UNCHANGED <<lockFile, reserved, departed, filesMade, opens>>

-----------------------------------------------------------------------------
(* A lock that is taken                                                     *)

\* is_stale_lock reads the file: without a pid, or without a file, it is stale.
ReadPid(o) ==
  /\ opener[o].at = "read"
  /\ LET found == IF lockFile = NoLockFile THEN "unwritten" ELSE pid[lockFile] IN
       opener' = [opener EXCEPT ![o].at = IF found = "unwritten" THEN "remove" ELSE "probe",
                                ![o].read = found,
                                ![o].saw = {q \in Holders(lockFile) : opener[q].wrote}]
  /\ UNCHANGED <<lockFile, pid, reserved, departed, lockCounters>>

\* is_process_dead.  A kill that cannot be run, or that may not signal the
\* process of another user, counts as a death; then the opener has seen nobody.
Probe(o) ==
  /\ opener[o].at = "probe"
  /\ \/ /\ opener[o].read \in departed \cup {"dead pid"}
        /\ To(o, "remove") /\ UNCHANGED <<reserved, mishaps>>
     \/ /\ opener[o].read \in Processes \ departed
        /\ AcquireFails(o) /\ UNCHANGED mishaps
     \/ /\ Mishap /\ UNCHANGED reserved
        /\ opener' = [opener EXCEPT ![o].at = "remove", ![o].saw = {}]
  /\ UNCHANGED <<lockFile, pid, departed, filesMade, opens>>

RemoveLockFile(o) ==
  /\ opener[o].at = "remove"
  /\ lockFile' = NoLockFile
  /\ LET struck == {q \in Openers : lockFile # NoLockFile /\ opener[q].fd = lockFile} IN
       opener' = [q \in Openers |->
         IF q = o THEN [opener[o] EXCEPT !.at = "reopen"]
         ELSE [opener[q] EXCEPT !.unseen = @ \/ q \in struck \ opener[o].saw]]
  /\ UNCHANGED <<pid, reserved, departed, lockCounters>>

-----------------------------------------------------------------------------
(* The end of a store, and of a process                                     *)

\* Drop releases the reservation; the file, a field, is closed after it.
Release(o) ==
  /\ opener[o].at = "owner"
  /\ To(o, "closing")
  /\ reserved' = reserved \ {Pid(o)}
  /\ UNCHANGED <<lockFile, pid, departed, lockCounters>>

CloseLockFile(o) ==
  /\ opener[o].at = "closing"
  /\ opener' = [opener EXCEPT ![o] = Out]
  /\ UNCHANGED <<lockFile, pid, reserved, departed, lockCounters>>

\* The process ends, by its own will or not; the file stays as it is.
ProcessEnds(p) ==
  /\ p \notin departed
  /\ departed' = departed \cup {p}
  /\ opener' = [o \in Openers |-> IF Pid(o) = p THEN Out ELSE opener[o]]
  /\ reserved' = reserved \ {p}
  /\ UNCHANGED <<lockFile, pid, lockCounters>>

OpenerStep(o) ==
  \/ Reserve(o)
  \/ OpenLockFile(o)
  \/ TryLock(o)
  \/ EmptyFile(o)
  \/ WritePid(o)
  \/ ReadPid(o)
  \/ Probe(o)
  \/ RemoveLockFile(o)
  \/ Release(o)
  \/ CloseLockFile(o)

LockNext ==
  \/ \E o \in Openers : OpenerStep(o)
  \/ \E p \in Processes : ProcessEnds(p)

LockSpec == LockInit /\ [][LockNext]_lockVars

-----------------------------------------------------------------------------
LockTypeOK ==
  /\ lockFile \in LockFiles \cup {NoLockFile}
  /\ pid \in [LockFiles -> Pids]
  /\ opener \in [Openers ->
       [at : Holding \cup {"out", "open", "lock", "read", "probe", "remove", "reopen", "relock"},
        fd : LockFiles \cup {NoLockFile}, read : Pids,
        wrote : BOOLEAN, saw : SUBSET Openers, unseen : BOOLEAN]]
  /\ reserved \subseteq Processes /\ departed \subseteq Processes
  /\ filesMade \in LockFiles /\ opens \in 0..MaxOpens /\ mishaps \in 0..MaxMishaps

\* Two stores use the directory at once only when the file of one of them was
\* removed by an opener that could not know of it: it read the file before that
\* one had written its pid, or its probe told it nothing.  An owner that has
\* written its pid keeps the directory for itself, whoever looks, ends or comes.
SharedOnlyUnseen ==
  \A o, q \in Owners : o # q => opener[o].unseen \/ opener[q].unseen

\* "Acquire one exclusive lock for the whole persistent session directory"
\* (SessionProcessLock::acquire).
OneOwner == Cardinality(Owners) <= 1
=============================================================================
