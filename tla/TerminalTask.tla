----------------------------- MODULE TerminalTask -----------------------------
(***************************************************************************)
(* One background command (crates/sa/src/main.rs, start_terminal_task and  *)
(* run_background_bash_command): the thread of the task starts a shell,    *)
(* two pumps carry what is written to its two pipes over one channel to    *)
(* that thread, which writes the log, watches for the shell's end and      *)
(* kills it when the time is over.  A command may leave a process behind   *)
(* (`server &`) that holds both pipes.                                     *)
(*                                                                         *)
(* A chunk is what one read of a pipe returns.  How an agent learns of the *)
(* end of a task is in WaitDependency.                                     *)
(***************************************************************************)
EXTENDS Integers, Sequences

CONSTANTS
  MaxPrograms,  \* candidate_bash_programs
  MaxChunks,    \* bound: chunks written to one pipe
  MaxRestarts   \* bound: crashes of the process

ASSUME TerminalAssumption == MaxPrograms \in Nat \ {0} /\ {MaxChunks, MaxRestarts} \subseteq Nat

Pipes == {"stdout", "stderr"}

VARIABLES
  runner,    \* how far the thread of the task is; "lost" when the process is gone
  tried,     \* programs that were not found
  shell,     \* the child: none, running, exited or killed
  heir,      \* a process the command left behind: none, running or exited
  wrote,     \* per pipe, chunks written
  pipe,      \* per pipe, chunks not read yet
  pump,      \* per pipe, its pump: none, pumping, ended or failed
  chunks,    \* the channel
  taskLog,   \* runtime/tasks/<id>.log
  sawExit,   \* child_status.is_some()
  sawEof,    \* streams_closed
  timedOut,
  record,    \* status in runtime/tasks/<id>.json: None, Running, Exited or Failed
  restarts   \* counter

processVars == <<shell, heir, wrote>>
pumpVars == <<pipe, pump>>
loopVars == <<taskLog, sawExit, sawEof, timedOut>>
terminalVars == <<runner, tried, processVars, pumpVars, chunks, loopVars, record, restarts>>

TerminalInit ==
  /\ runner = "call" /\ tried = 0
  /\ shell = "none" /\ heir = "none" /\ wrote = [p \in Pipes |-> 0]
  /\ pipe = [p \in Pipes |-> <<>>] /\ pump = [p \in Pipes |-> "none"]
  /\ chunks = <<>> /\ taskLog = <<>>
  /\ sawExit = FALSE /\ sawEof = FALSE /\ timedOut = FALSE
  /\ record = "None" /\ restarts = 0

-----------------------------------------------------------------------------
(* Starting the command                                                     *)

\* The task is saved as Running, then written to the audit log; when that fails
\* the call fails and nothing is started.
StartTerminalTask ==
  /\ runner = "call"
  /\ record' = "Running"
  /\ runner' \in {"spawn", "refused"}
  /\ UNCHANGED <<tried, processVars, pumpVars, chunks, loopVars, restarts>>

\* The thread ends with an error; a child that still runs is killed when it is
\* dropped.
FailTask ==
  /\ runner' = "ended" /\ record' = "Failed"
  /\ shell' = IF shell = "running" THEN "killed" ELSE shell
  /\ chunks' = <<>>

ProgramNotFound ==
  /\ runner = "spawn"
  /\ tried' = tried + 1
  /\ IF tried' = MaxPrograms THEN FailTask
     ELSE UNCHANGED <<runner, record, shell, chunks>>
  /\ UNCHANGED <<heir, wrote, pumpVars, loopVars, restarts>>

SpawnFails ==
  /\ runner = "spawn"
  /\ FailTask
  /\ UNCHANGED <<tried, heir, wrote, pumpVars, loopVars, restarts>>

Spawn ==
  /\ runner = "spawn"
  /\ shell' = "running" /\ runner' = "open"
  /\ UNCHANGED <<tried, heir, wrote, pumpVars, chunks, loopVars, record, restarts>>

OpenLogFails ==
  /\ runner = "open"
  /\ FailTask
  /\ UNCHANGED <<tried, heir, wrote, pumpVars, loopVars, restarts>>

OpenLog ==
  /\ runner = "open"
  /\ runner' = "loop"
  /\ pump' = [p \in Pipes |-> "pumping"]
  /\ UNCHANGED <<tried, processVars, pipe, chunks, loopVars, record, restarts>>

-----------------------------------------------------------------------------
(* The command                                                              *)

HoldsPipes == shell = "running" \/ heir = "running"

CommandWrites(p) ==
  /\ HoldsPipes /\ wrote[p] < MaxChunks
  /\ wrote' = [wrote EXCEPT ![p] = @ + 1]
  /\ pipe' = [pipe EXCEPT ![p] = Append(@, wrote'[p])]
  /\ UNCHANGED <<runner, tried, shell, heir, pump, chunks, loopVars, record, restarts>>

CommandForks ==
  /\ shell = "running" /\ heir = "none" /\ heir' = "running"
  /\ UNCHANGED <<runner, tried, shell, wrote, pumpVars, chunks, loopVars, record, restarts>>

ShellExits ==
  /\ shell = "running" /\ shell' = "exited"
  /\ UNCHANGED <<runner, tried, heir, wrote, pumpVars, chunks, loopVars, record, restarts>>

HeirExits ==
  /\ heir = "running" /\ heir' = "exited"
  /\ UNCHANGED <<runner, tried, shell, wrote, pumpVars, chunks, loopVars, record, restarts>>

-----------------------------------------------------------------------------
(* The pumps                                                                *)

\* A chunk is sent while the thread of the task still receives.
PumpChunk(p) ==
  /\ pump[p] = "pumping" /\ pipe[p] # <<>>
  /\ pipe' = [pipe EXCEPT ![p] = Tail(@)]
  /\ IF runner = "loop"
     THEN chunks' = Append(chunks, [from |-> p, chunk |-> Head(pipe[p])]) /\ UNCHANGED pump
     ELSE pump' = [pump EXCEPT ![p] = "ended"] /\ UNCHANGED chunks
  /\ UNCHANGED <<runner, tried, processVars, loopVars, record, restarts>>

PumpEnds(p) ==
  /\ pump[p] = "pumping" /\ pipe[p] = <<>> /\ ~HoldsPipes
  /\ pump' = [pump EXCEPT ![p] = "ended"]
  /\ UNCHANGED <<runner, tried, processVars, pipe, chunks, loopVars, record, restarts>>

PumpFails(p) ==
  /\ pump[p] = "pumping"
  /\ pump' = [pump EXCEPT ![p] = "failed"]
  /\ UNCHANGED <<runner, tried, processVars, pipe, chunks, loopVars, record, restarts>>

-----------------------------------------------------------------------------
(* The thread of the task                                                   *)

Receive ==
  /\ runner = "loop" /\ ~sawEof /\ chunks # <<>>
  /\ chunks' = Tail(chunks)
  /\ taskLog' = Append(taskLog, Head(chunks))
  /\ UNCHANGED <<runner, tried, processVars, pumpVars, sawExit, sawEof, timedOut, record, restarts>>

WriteLogFails ==
  /\ runner = "loop" /\ ~sawEof /\ chunks # <<>>
  /\ FailTask
  /\ UNCHANGED <<tried, heir, wrote, pumpVars, loopVars, restarts>>

\* The channel is closed once both pumps have dropped their ends.
ReceiveEof ==
  /\ runner = "loop" /\ ~sawEof /\ chunks = <<>>
  /\ \A p \in Pipes : pump[p] # "pumping"
  /\ sawEof' = TRUE
  /\ UNCHANGED <<runner, tried, processVars, pumpVars, chunks, taskLog, sawExit, timedOut, record, restarts>>

Poll ==
  /\ runner = "loop" /\ ~sawExit /\ shell \in {"exited", "killed"}
  /\ sawExit' = TRUE
  /\ UNCHANGED <<runner, tried, processVars, pumpVars, chunks, taskLog, sawEof, timedOut, record, restarts>>

\* Mutant: the shell is taken for ended, and not killed, when the time is over.
TimeoutKeepsShell ==
  /\ runner = "loop" /\ ~timedOut /\ ~sawExit
  /\ timedOut' = TRUE /\ sawExit' = TRUE
  /\ UNCHANGED <<runner, tried, processVars, pumpVars, chunks, taskLog, sawEof, record, restarts>>

\* The timer is looked at while the shell is not known to have ended.
Timeout ==
  /\ runner = "loop" /\ ~timedOut /\ ~sawExit
  /\ timedOut' = TRUE /\ sawExit' = TRUE
  /\ shell' = IF shell = "running" THEN "killed" ELSE shell
  /\ UNCHANGED <<runner, tried, heir, wrote, pumpVars, chunks, taskLog, sawEof, record, restarts>>

\* Mutant: the loop is left when the shell has ended, with chunks under way.
LoopIsOverEarly == sawExit

\* The loop goes on until both the shell and its output have ended.
LoopIsOver == sawExit /\ sawEof

Finish ==
  /\ runner = "loop" /\ LoopIsOver
  /\ runner' = "ended"
  /\ record' = IF timedOut \/ \E p \in Pipes : pump[p] = "failed" THEN "Failed" ELSE "Exited"
  /\ UNCHANGED <<tried, processVars, pumpVars, chunks, loopVars, restarts>>

-----------------------------------------------------------------------------
(* Crash and restart                                                        *)

\* The shell outlives the process, or is killed with it.
CrashTask ==
  /\ runner \in {"spawn", "open", "loop", "refused"} /\ restarts < MaxRestarts
  /\ restarts' = restarts + 1
  /\ runner' = "lost"
  /\ shell' \in {shell, IF shell = "running" THEN "killed" ELSE shell}
  /\ pump' = [p \in Pipes |-> IF pump[p] = "pumping" THEN "ended" ELSE pump[p]]
  /\ chunks' = <<>>
  /\ UNCHANGED <<tried, heir, wrote, pipe, loopVars, record>>

\* recover_runtime: a task still marked Running is reconciled as Failed.
RecoverTask ==
  /\ runner = "lost" /\ record = "Running"
  /\ record' = "Failed"
  /\ UNCHANGED <<runner, tried, processVars, pumpVars, chunks, loopVars, restarts>>

-----------------------------------------------------------------------------
Command ==
  \/ \E p \in Pipes : CommandWrites(p)
  \/ CommandForks
  \/ ShellExits
  \/ HeirExits

TaskThread ==
  \/ ProgramNotFound
  \/ SpawnFails
  \/ Spawn
  \/ OpenLogFails
  \/ OpenLog
  \/ Finish

TerminalNext ==
  \/ StartTerminalTask
  \/ TaskThread
  \/ Command
  \/ \E p \in Pipes : PumpChunk(p) \/ PumpEnds(p) \/ PumpFails(p)
  \/ Receive
  \/ WriteLogFails
  \/ ReceiveEof
  \/ Poll
  \/ Timeout
  \/ CrashTask
  \/ RecoverTask

\* The tasks are scheduled, time passes, and a process that crashed is started
\* again.  Nothing makes a command or what it left behind end.
TerminalFairness ==
  /\ WF_terminalVars(TaskThread)
  /\ \A p \in Pipes : WF_terminalVars(PumpChunk(p) \/ PumpEnds(p))
  /\ WF_terminalVars(Receive \/ ReceiveEof)
  /\ WF_terminalVars(Poll)
  /\ WF_terminalVars(Timeout)
  /\ WF_terminalVars(RecoverTask)

TerminalSpec == TerminalInit /\ [][TerminalNext]_terminalVars /\ TerminalFairness

-----------------------------------------------------------------------------
TerminalTypeOK ==
  /\ runner \in {"call", "refused", "spawn", "open", "loop", "ended", "lost"}
  /\ tried \in 0..MaxPrograms
  /\ shell \in {"none", "running", "exited", "killed"}
  /\ heir \in {"none", "running", "exited"}
  /\ wrote \in [Pipes -> 0..MaxChunks]
  /\ pipe \in [Pipes -> Seq(1..MaxChunks)]
  /\ pump \in [Pipes -> {"none", "pumping", "ended", "failed"}]
  /\ {chunks, taskLog} \subseteq Seq([from : Pipes, chunk : 1..MaxChunks])
  /\ {sawExit, sawEof, timedOut} \subseteq BOOLEAN
  /\ record \in {"None", "Running", "Exited", "Failed"}
  /\ restarts \in 0..MaxRestarts

\* The chunks of a pipe among the entries of a log before the k-th.
ChunksBefore(entries, p, k) ==
  {entries[i].chunk : i \in {j \in 1..k - 1 : entries[j].from = p}}
Chunks(entries, p) == ChunksBefore(entries, p, Len(entries) + 1)

\* Before a chunk come those with a lower number, each once.
KeepsOrder(entries, p) ==
  \A k \in DOMAIN entries :
    entries[k].from = p => ChunksBefore(entries, p, k) = 1..entries[k].chunk - 1

\* The log of a background command holds what it wrote, each pipe in its order
\* and nothing left out in between; and when the task is recorded as Exited, the
\* log is complete, what processes left behind wrote included: the end of the
\* shell is not the end of its output (run_background_bash_command).
LogHoldsOutput ==
  \A p \in Pipes :
    /\ KeepsOrder(taskLog, p)
    /\ record = "Exited" => Chunks(taskLog, p) = 1..wrote[p]

\* A command whose thread was started is recorded as ended, whatever the command
\* does and however often the process crashes, unless a process it left behind
\* holds its pipes for ever: the time limit kills the shell, and the thread then
\* waits for the end of both pipes (run_background_bash_command).
CommandIsRecorded ==
  (runner = "spawn" ~> record \in {"Exited", "Failed"}) \/ <>[](heir = "running")
=============================================================================
