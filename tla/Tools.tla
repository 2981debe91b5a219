------------------------------- MODULE Tools -------------------------------
(***************************************************************************)
(* The tools that change files (crates/sa-core/src/tools.rs): the agents   *)
(* work on one workspace, each with the ToolSession of its quantum, and so *)
(* do the user and the commands of Bash.  ToolSession is rebuilt from the  *)
(* agent's state when a quantum starts and exported when it ends           *)
(* (crates/sa/src/main.rs, execute_agent_quantum).                         *)
(*                                                                         *)
(* A file's content is the write it came from: no file, a whole version or *)
(* emptied, what is there while it is being written or after a write that  *)
(* was cut off.  A file is written by opening it, which empties it, and    *)
(* filling it.                                                             *)
(* What the other tools do is in the modules of the parts they call; here  *)
(* they are calls that end.                                                *)
(***************************************************************************)
EXTENDS Integers, FiniteSets

CONSTANTS
  Workers,       \* agents
  Paths,         \* files of the workspace
  Checkpoint,    \* runtime/checkpoint.md, one of them
  MaxBatch,      \* bound: calls in one assistant message
  MaxQuanta,     \* bound: quanta
  MaxVersions,   \* bound: contents ever written
  MaxOutside     \* bound: changes by the user or a command

ASSUME ToolsAssumption ==
  Checkpoint \in Paths /\ {MaxBatch, MaxQuanta, MaxVersions, MaxOutside} \subseteq Nat

Missing == 0
Written == 1..MaxVersions
Emptied == MaxVersions + 1

\* What a ToolSession knows of a file: nothing, that it was Read before the
\* session was restored, or the content it was Read with.
Unread == MaxVersions + 2
VersionLost == MaxVersions + 3

VARIABLES
  disk,      \* content of each file
  marks,     \* ToolSession::readable_for_edit
  readSet,   \* AgentState::tool_session_read_set
  job,       \* the quantum and the call under way
  cancelling, \* CancelToken of the quantum
  versions,  \* counter: contents written so far
  quanta,    \* counter: quanta begun
  outside,   \* counter: changes by the user or a command
  seen,      \* history: content the agent last Read in full, in this process,
             \* if it has not edited the file since
  spoiled    \* history: files two writes overlapped on, or a write was cut off on

toolsVars == <<disk, marks, readSet, job, cancelling, versions, quanta, outside, seen, spoiled>>

\* No call is under way, and n are left of the batch.
Between(at, n) ==
  [at |-> at, tool |-> "none", path |-> Checkpoint, base |-> Missing, is |-> Missing, left |-> n]
NoJob == Between("idle", 0)

ToolsInit ==
  /\ disk = [p \in Paths |-> Missing]
  /\ marks = [w \in Workers |-> [p \in Paths |-> Unread]]
  /\ readSet = [w \in Workers |-> {}]
  /\ job = [w \in Workers |-> NoJob]
  /\ cancelling = [w \in Workers |-> FALSE]
  /\ versions = 0 /\ quanta = 0 /\ outside = 0
  /\ seen = [w \in Workers |-> [p \in Paths |-> Unread]]
  /\ spoiled = {}

-----------------------------------------------------------------------------
(* Quanta                                                                   *)

\* ToolSession::from_state, and a model's batch of calls.
BeginBatch(w, calls) ==
  /\ job[w].at = "idle"
  /\ quanta < MaxQuanta /\ quanta' = quanta + 1
  /\ job' = [job EXCEPT ![w] = Between("next", calls)]
  /\ marks' = [marks EXCEPT ![w] = [p \in Paths |-> IF p \in readSet[w] THEN VersionLost ELSE Unread]]
  /\ UNCHANGED <<disk, readSet, cancelling, versions, outside, seen, spoiled>>

Quits(w) ==
  /\ job' = [job EXCEPT ![w] = NoJob]
  /\ marks' = [marks EXCEPT ![w] = [p \in Paths |-> Unread]]
  /\ cancelling' = [cancelling EXCEPT ![w] = FALSE]
  /\ UNCHANGED <<disk, versions, quanta, outside, seen, spoiled>>

\* The quantum's tool session goes back into the agent's state.
EndBatch(w) ==
  /\ job[w].at = "next" /\ job[w].left = 0
  /\ readSet' = [readSet EXCEPT ![w] = {p \in Paths : marks[w][p] # Unread}]
  /\ Quits(w)

\* A call whose arguments are no JSON, or a control tool in a batch, fails the
\* quantum: its session is dropped.
FailBatch(w) ==
  /\ job[w].at = "next" /\ job[w].left > 0
  /\ UNCHANGED readSet
  /\ Quits(w)

CancelQuantum(w) ==
  /\ job[w].at # "idle" /\ ~cancelling[w]
  /\ cancelling' = [cancelling EXCEPT ![w] = TRUE]
  /\ UNCHANGED <<disk, marks, readSet, job, versions, quanta, outside, seen, spoiled>>

\* The bound on contents, looked at by whoever writes one.
Room == versions < MaxVersions

\* A call may start.
Calls(w) == job[w].at = "next" /\ job[w].left > 0 /\ ~cancelling[w]

\* The call under way gets to a point: of which tool, on which file, changing which
\* content into which.
GoesTo(w, at, tool, p, base, is) ==
  job' = [job EXCEPT ![w] = [at |-> at, tool |-> tool, path |-> p, base |-> base, is |-> is,
                             left |-> job[w].left]]

\* The call under way ends, with a result or an error for the model.
Done(w) == job' = [job EXCEPT ![w] = Between("next", job[w].left - 1)]

\* Calls that are refused, cancelled or change no file.
OtherCall(w) ==
  /\ job[w].at = "next" /\ job[w].left > 0
  /\ Done(w)
  /\ UNCHANGED <<disk, marks, readSet, cancelling, versions, quanta, outside, seen, spoiled>>

-----------------------------------------------------------------------------
(* Read and Edit                                                            *)

\* Read of a whole file: note_read.  A part of a file is read by OtherCall.
ReadFile(w, p) ==
  /\ Calls(w) /\ disk[p] # Missing
  /\ marks' = [marks EXCEPT ![w][p] = disk[p]]
  /\ seen' = [seen EXCEPT ![w][p] = disk[p]]
  /\ Done(w)
  /\ UNCHANGED <<disk, readSet, cancelling, versions, quanta, outside, spoiled>>

\* Mutant of FreshlyRead: the file was Read, whatever it is now.
FreshlyReadOnce(w, p) == disk[p] # Missing /\ marks[w][p] # Unread

\* require_fresh_read accepts: Read in this session, and the same content.
FreshlyRead(w, p) == disk[p] # Missing /\ marks[w][p] = disk[p]

\* Edit reads the file, checks it and finds its text; otherwise OtherCall.
CheckEdit(w, p) ==
  /\ Calls(w) /\ FreshlyRead(w, p)
  /\ GoesTo(w, "open", "Edit", p, disk[p], Missing)
  /\ UNCHANGED <<disk, marks, readSet, cancelling, versions, quanta, outside, seen, spoiled>>

\* Read back for verification: the new text is found if the file is this write,
\* and may be if it is another's.  Only then the mark is cleared.
Verify(w) ==
  /\ job[w].at = "verify"
  /\ LET p == job[w].path IN
     \/ /\ disk[p] # Missing
        /\ marks' = [marks EXCEPT ![w][p] = Unread]
        /\ seen' = [seen EXCEPT ![w][p] = Unread]
     \/ /\ disk[p] # job[w].is
        /\ UNCHANGED <<marks, seen>>
  /\ Done(w)
  /\ UNCHANGED <<disk, readSet, cancelling, versions, quanta, outside, spoiled>>

-----------------------------------------------------------------------------
(* Writing                                                                  *)

\* UpdateWorkCheckpoint: the one file all agents share is written over.
CallCheckpoint(w) ==
  /\ Calls(w)
  /\ GoesTo(w, "open", "UpdateWorkCheckpoint", Checkpoint, Missing, Missing)
  /\ UNCHANGED <<disk, marks, readSet, cancelling, versions, quanta, outside, seen, spoiled>>

\* Those that write the file now.
Writers(p) == {w \in Workers : job[w].at = "fill" /\ job[w].path = p}

OpenedBy(p) ==
  /\ Room /\ versions' = versions + 1
  /\ disk' = [disk EXCEPT ![p] = Emptied]
  /\ spoiled' = IF Writers(p) = {} THEN spoiled \ {p} ELSE spoiled \cup {p}

\* tokio::fs::write: open with truncation, ...
OpenFile(w) ==
  /\ job[w].at = "open"
  /\ OpenedBy(job[w].path)
  /\ GoesTo(w, "fill", job[w].tool, job[w].path, job[w].base, versions')
  /\ UNCHANGED <<marks, readSet, cancelling, quanta, outside, seen>>

\* Write opens with create_new: an existing file is refused (OtherCall).
CreateFile(w, p) ==
  /\ Calls(w) /\ disk[p] = Missing
  /\ OpenedBy(p)
  /\ GoesTo(w, "fill", "Write", p, Missing, versions')
  /\ UNCHANGED <<marks, readSet, cancelling, quanta, outside, seen>>

\* ... and fill.  Of a file removed or replaced meanwhile nothing shows; over what
\* another wrote into it meanwhile, the longer one's end remains: a content of
\* neither, here a version of its own.
FillFile(w) ==
  /\ job[w].at = "fill"
  /\ LET p == job[w].path IN
     \/ disk[p] # Missing /\ disk' = [disk EXCEPT ![p] = job[w].is] /\ UNCHANGED versions
     \/ disk[p] # Emptied /\ UNCHANGED <<disk, versions>>
     \/ /\ disk[p] \in Written /\ Room /\ versions' = versions + 1
        /\ disk' = [disk EXCEPT ![p] = versions']
  /\ IF job[w].tool = "Edit"
     THEN GoesTo(w, "verify", "Edit", job[w].path, job[w].base, job[w].is)
     ELSE Done(w)
  /\ UNCHANGED <<marks, readSet, cancelling, quanta, outside, seen, spoiled>>

\* The disk is full, or the like.
FillFails(w) ==
  /\ job[w].at = "fill"
  /\ Done(w)
  /\ spoiled' = spoiled \cup {job[w].path}
  /\ UNCHANGED <<disk, marks, readSet, cancelling, versions, quanta, outside, seen>>

-----------------------------------------------------------------------------
(* Bash, the user, and the process                                          *)

CallBash(w) ==
  /\ Calls(w)
  /\ GoesTo(w, "bash", "Bash", Checkpoint, Missing, Missing)
  /\ UNCHANGED <<disk, marks, readSet, cancelling, versions, quanta, outside, seen, spoiled>>

\* The command exits, its timeout runs out or the quantum is cancelled: a command
\* still running is killed.
EndBash(w) ==
  /\ job[w].at = "bash"
  /\ Done(w)
  /\ UNCHANGED <<disk, marks, readSet, cancelling, versions, quanta, outside, seen, spoiled>>

\* The user or a command replaces or removes a file.
ChangeOutside(p) ==
  /\ outside < MaxOutside /\ outside' = outside + 1
  /\ \/ /\ Room /\ versions' = versions + 1
        /\ disk' = [disk EXCEPT ![p] = versions']
     \/ /\ disk[p] # Missing /\ UNCHANGED versions
        /\ disk' = [disk EXCEPT ![p] = Missing]
  /\ spoiled' = IF Writers(p) = {} THEN spoiled \ {p} ELSE spoiled \cup {p}
  /\ UNCHANGED <<marks, readSet, job, cancelling, seen, quanta>>

\* The process ends: what was open stays as it is.
Restart ==
  /\ \E w \in Workers : job[w].at # "idle"
  /\ spoiled' = spoiled \cup {p \in Paths : Writers(p) # {}}
  /\ job' = [w \in Workers |-> NoJob]
  /\ marks' = [w \in Workers |-> [p \in Paths |-> Unread]]
  /\ seen' = [w \in Workers |-> [p \in Paths |-> Unread]]
  /\ cancelling' = [w \in Workers |-> FALSE]
  /\ UNCHANGED <<disk, readSet, versions, quanta, outside>>

-----------------------------------------------------------------------------
ToolStep(w) ==
  \/ OtherCall(w) \/ Verify(w) \/ OpenFile(w) \/ FillFile(w) \/ FillFails(w) \/ EndBash(w)

ToolsNext ==
  \/ \E w \in Workers :
       \/ \E calls \in 1..MaxBatch : BeginBatch(w, calls)
       \/ EndBatch(w) \/ FailBatch(w) \/ CancelQuantum(w)
       \/ CallCheckpoint(w) \/ CallBash(w)
       \/ \E p \in Paths : ReadFile(w, p) \/ CheckEdit(w, p) \/ CreateFile(w, p)
       \/ ToolStep(w)
  \/ \E p \in Paths : ChangeOutside(p)
  \/ Restart

ToolsSpec == ToolsInit /\ [][ToolsNext]_toolsVars

-----------------------------------------------------------------------------
Contents == {Missing, Emptied} \cup Written
Marks == {Unread, VersionLost, Emptied} \cup Written

\* Every variable keeps its type.
ToolsTypeOK ==
  /\ disk \in [Paths -> Contents]
  /\ marks \in [Workers -> [Paths -> Marks]] /\ seen \in [Workers -> [Paths -> Marks]]
  /\ readSet \in [Workers -> SUBSET Paths] /\ cancelling \in [Workers -> BOOLEAN]
  /\ job \in [Workers -> [at : {"idle", "next", "open", "fill", "verify", "bash"},
                          tool : {"none", "Edit", "Write", "UpdateWorkCheckpoint", "Bash"},
                          path : Paths, base : Contents, is : Contents, left : 0..MaxBatch]]
  /\ versions \in 0..MaxVersions /\ quanta \in 0..MaxQuanta /\ outside \in 0..MaxOutside
  /\ spoiled \subseteq Paths

\* "A file must be Read before it is Edited": the content an Edit changes is the
\* one its agent last Read in full, in this process, whoever wrote meanwhile
\* (ToolSession::require_fresh_read, invalidate_after_edit, from_state).
EditIsOfWhatWasRead ==
  \A w \in Workers :
    job[w].tool = "Edit" /\ job[w].at = "open" => job[w].base = seen[w][job[w].path]

\* A file that nobody is writing is one whole content, unless a write of it failed,
\* was cut off by the end of the process, or overlapped with another: an interrupt
\* cuts no write off (ToolExecutor::write, edit, update_work_checkpoint).
FilesAreWhole ==
  \A p \in Paths : disk[p] = Emptied => Writers(p) # {} \/ p \in spoiled

\* An agent may edit a file "that has already been Read in this session" (the
\* description of Edit in tools.rs): one it Read since the process started, that is
\* still what it Read, and that it has not edited since.
ReadFileMayBeEdited ==
  \A w \in Workers : \A p \in Paths :
    Calls(w) /\ seen[w][p] # Unread /\ seen[w][p] = disk[p] => FreshlyRead(w, p)
=============================================================================
