------------------------------ MODULE AgentWake ------------------------------
(***************************************************************************)
(* The wake-up protocol of the durable supervisor (crates/sa/src/main.rs). *)
(*                                                                         *)
(* Every agent has a durable state file, a durable append-only mailbox and *)
(* an in-memory WakeState.  Callers (WebSocket handlers, timers, tools of  *)
(* other agents) append mail or change the state file and then call        *)
(* wake_agent; one supervisor task receives agent ids from an unbounded    *)
(* channel, takes a permit of the model-call semaphore and spawns one task *)
(* per quantum; the task ends the cycle with finish_agent_wake_cycle.      *)
(*                                                                         *)
(* Only wake_state is protected by a lock.  The state file is loaded,      *)
(* changed and saved as a whole by whoever wants to change it, so each     *)
(* load and each save is a step of its own and `copy' variables hold what  *)
(* a thread loaded.                                                        *)
(*                                                                         *)
(* Abstracted: what a mail says, the session, the dependency a Wait names  *)
(* (module WaitDependency), the durable control checkpoint (ControlCheckpoint) *)
(* and which work is active (only whether one is).                         *)
(***************************************************************************)
EXTENDS Integers, Sequences, FiniteSets

CONSTANTS
  Agents,      \* agent ids
  Callers,     \* threads outside the supervisor that post, answer, ...
  Tasks,       \* slots for the tasks the supervisor spawns
  Permits,     \* team.max_concurrent_model_calls
  MaxMail,     \* bound: entries per mailbox
  MaxReloads,  \* bound: hot reloads (each replaces the semaphore)
  NoAgent

ASSUME NoAgentAssumption == NoAgent \notin Agents
ASSUME PermitsAssumption == Permits \in Nat \ {0}
ASSUME BoundsAssumption == MaxMail \in Nat /\ MaxReloads \in Nat

Parked == {"WaitingUser", "WaitingDependency"}
Status == {"Idle", "Running"} \cup Parked

\* The fields of state.json the protocol reads: offset is last_mailbox_offset,
\* work says whether active_work_id is Some.  waiting_on is Some exactly when
\* the status is WaitingDependency.
AgentState == [status : Status, work : BOOLEAN, offset : 0..MaxMail]
Fresh == [status |-> "Idle", work |-> FALSE, offset |-> 0]

Results == {"Continue", "Ask", "Wait", "Finish", "Cancelled", "Error"}

\* A caller between two operations, and what it remembers inside one: the
\* agent, the state it loaded, whether it is answering a question.
CallerPcs == {"idle", "check", "wake", "send", "resumeLoad", "resumeSave",
              "forget", "overSave", "notify", "cancelLoad", "cancelSave"}
CallerState == [pc : CallerPcs, agent : Agents \cup {NoAgent},
                copy : AgentState, answers : BOOLEAN]
IdleCaller == [pc |-> "idle", agent |-> NoAgent, copy |-> Fresh, answers |-> FALSE]

\* A spawned task: the agent, the semaphore its permit is from, the state it
\* loaded, the mail it read (upto), how run_quantum ended, its CancelToken and
\* the result of execute_agent_quantum.
TaskPcs == {"free", "load", "save", "examine", "selfWake", "read", "running",
            "commit", "settle", "finish", "resend"}
TaskState == [pc : TaskPcs, agent : Agents \cup {NoAgent}, sem : 0..MaxReloads,
              copy : AgentState, upto : 0..MaxMail, result : Results,
              cancelled : BOOLEAN, rerun : BOOLEAN]
FreeTask == [pc |-> "free", agent |-> NoAgent, sem |-> 0, copy |-> Fresh,
             upto |-> 0, result |-> "Continue", cancelled |-> FALSE,
             rerun |-> FALSE]

VARIABLES
  disk,              \* state.json of every agent
  mailbox,           \* number of entries in mailbox.jsonl
  question,          \* pending_question.json exists
  asking,            \* the question is in the in-memory pending list
  running_or_queued, \* WakeState.running_or_queued
  rerun_requested,   \* WakeState.rerun_requested
  wakeQueue,         \* the unbounded wake channel
  held, heldSem,     \* supervisor: agent received, semaphore it waits on
  semaphore,         \* generation of model_call_semaphore
  caller,            \* threads outside the supervisor
  task,              \* tasks spawned by the supervisor
  abandoned,         \* history: why unread mail lost its wake-up, or "no"
  consumed           \* history: largest offset ever committed by a quantum

files == <<disk, mailbox, question>>
questions == <<question, asking>>
wakeState == <<running_or_queued, rerun_requested>>
supervisor == <<held, heldSem, semaphore>>
history == <<abandoned, consumed>>
vars == <<files, asking, wakeState, wakeQueue, supervisor, caller, task, history>>

Init ==
  /\ disk = [a \in Agents |-> Fresh]
  /\ mailbox = [a \in Agents |-> 0]
  /\ question = [a \in Agents |-> FALSE]
  /\ asking = [a \in Agents |-> FALSE]
  /\ running_or_queued = [a \in Agents |-> FALSE]
  /\ rerun_requested = [a \in Agents |-> FALSE]
  /\ wakeQueue = <<>>
  /\ held = NoAgent
  /\ heldSem = 0
  /\ semaphore = 0
  /\ caller = [c \in Callers |-> IdleCaller]
  /\ task = [t \in Tasks |-> FreeTask]
  /\ abandoned = [a \in Agents |-> "no"]
  /\ consumed = [a \in Agents |-> 0]

\* A caller starts an operation on agent a, goes on, loads the state s, ends.
\* Nothing it loaded is used after the step that saves it, so it is dropped.
CallerBegins(c, to, a, s, answers) ==
  caller' = [caller EXCEPT ![c] =
               [pc |-> to, agent |-> a, copy |-> s, answers |-> answers]]
CallerGoes(c, to) == caller' = [caller EXCEPT ![c].pc = to, ![c].copy = Fresh]
CallerLoads(c, to, s) == caller' = [caller EXCEPT ![c].pc = to, ![c].copy = s]
CallerEnds(c) == caller' = [caller EXCEPT ![c] = IdleCaller]
TaskGoes(t, to) == task' = [task EXCEPT ![t].pc = to]
TaskLoads(t, to, s) == task' = [task EXCEPT ![t].pc = to, ![t].copy = s]

\* execute_agent_quantum returns rerun, or has only to append a notice first.
TaskReturns(t, to, rerun) ==
  task' = [task EXCEPT ![t] =
             [FreeTask EXCEPT !.pc = to, !.agent = task[t].agent,
                              !.sem = task[t].sem, !.rerun = rerun]]

SaveState(a, s) == disk' = [disk EXCEPT ![a] = s]

\* One more line in mailbox.jsonl (append_mailbox_entry holds a per-agent lock).
AppendEntry(a) ==
  /\ mailbox[a] < MaxMail
  /\ mailbox' = [mailbox EXCEPT ![a] = @ + 1]

\* A notice of the runtime.  The bound must not stop its sender half way, so
\* at the bound it is dropped from the model.
AppendNotice(a) ==
  \/ AppendEntry(a)
  \/ mailbox[a] = MaxMail /\ UNCHANGED mailbox
-----------------------------------------------------------------------------
(***************************************************************************)
(* wake_agent and append_mailbox_message, run by a caller.                 *)
(***************************************************************************)
Post(c, a) ==
  /\ caller[c].pc = "idle"
  /\ CallerBegins(c, "check", a, Fresh, FALSE)
  /\ AppendEntry(a)
  /\ UNCHANGED <<disk, questions, wakeState, wakeQueue, supervisor, task, history>>

\* The status is loaded after the append; a parked agent is not woken.
CheckTarget(c) ==
  /\ caller[c].pc = "check"
  /\ IF disk[caller[c].agent].status \in Parked
     THEN CallerEnds(c)
     ELSE CallerGoes(c, "wake")
  /\ UNCHANGED <<files, asking, wakeState, wakeQueue, supervisor, task, history>>

\* wake_agent has returned.
AfterWake(c) == IF caller[c].answers THEN CallerGoes(c, "forget") ELSE CallerEnds(c)

\* Mutant of ClaimWake: a wake-up of a running agent is dropped.
ClaimWakeDropped(c) ==
  LET a == caller[c].agent IN
  /\ caller[c].pc = "wake"
  /\ running_or_queued' = [running_or_queued EXCEPT ![a] = TRUE]
  /\ IF running_or_queued[a] THEN AfterWake(c) ELSE CallerGoes(c, "send")
  /\ UNCHANGED <<files, asking, rerun_requested, wakeQueue, supervisor, task, history>>

\* wake_agent inside the wake_state lock.
ClaimWake(c) ==
  LET a == caller[c].agent IN
  /\ caller[c].pc = "wake"
  /\ \/ /\ running_or_queued[a]
        /\ rerun_requested' = [rerun_requested EXCEPT ![a] = TRUE]
        /\ UNCHANGED running_or_queued
        /\ AfterWake(c)
     \/ /\ ~running_or_queued[a]
        /\ running_or_queued' = [running_or_queued EXCEPT ![a] = TRUE]
        /\ rerun_requested' = [rerun_requested EXCEPT ![a] = FALSE]
        /\ CallerGoes(c, "send")
  /\ UNCHANGED <<files, asking, wakeQueue, supervisor, task, history>>

\* wake_agent after the lock was dropped.
SendWake(c) ==
  /\ caller[c].pc = "send"
  /\ wakeQueue' = Append(wakeQueue, caller[c].agent)
  /\ AfterWake(c)
  /\ UNCHANGED <<files, asking, wakeState, supervisor, task, history>>
-----------------------------------------------------------------------------
(***************************************************************************)
(* answer_question: the pending list is only read at the start; the tool   *)
(* result is appended, the question file removed, the state set to Idle,   *)
(* the agent woken, and the pending entry removed last.                    *)
(***************************************************************************)
Answer(c, a) ==
  /\ caller[c].pc = "idle"
  /\ asking[a]
  /\ CallerBegins(c, "resumeLoad", a, Fresh, TRUE)
  /\ question' = [question EXCEPT ![a] = FALSE]
  /\ UNCHANGED <<disk, mailbox, asking, wakeState, wakeQueue, supervisor, task, history>>

\* Without the work the question was asked for, nothing is resumed.
ResumeLoad(c) ==
  LET s == disk[caller[c].agent] IN
  /\ caller[c].pc = "resumeLoad"
  /\ CallerLoads(c, IF s.work THEN "resumeSave" ELSE "forget", s)
  /\ UNCHANGED <<files, asking, wakeState, wakeQueue, supervisor, task, history>>

ResumeSave(c) ==
  /\ caller[c].pc = "resumeSave"
  /\ SaveState(caller[c].agent, [caller[c].copy EXCEPT !.status = "Idle"])
  /\ CallerGoes(c, "wake")
  /\ UNCHANGED <<mailbox, questions, wakeState, wakeQueue, supervisor, task, history>>

ForgetQuestion(c) ==
  /\ caller[c].pc = "forget"
  /\ asking' = [asking EXCEPT ![caller[c].agent] = FALSE]
  /\ CallerEnds(c)
  /\ UNCHANGED <<files, wakeState, wakeQueue, supervisor, task, history>>
-----------------------------------------------------------------------------
(***************************************************************************)
(* wake_waiters_for_dependency and handle_wait_timeout: load a waiting     *)
(* agent, save it Idle, then append a notice (which wakes it).             *)
(***************************************************************************)
WaitOver(c, a) ==
  /\ caller[c].pc = "idle"
  /\ disk[a].status = "WaitingDependency"
  /\ CallerBegins(c, "overSave", a, disk[a], FALSE)
  /\ UNCHANGED <<files, asking, wakeState, wakeQueue, supervisor, task, history>>

OverSave(c) ==
  /\ caller[c].pc = "overSave"
  /\ SaveState(caller[c].agent, [caller[c].copy EXCEPT !.status = "Idle"])
  /\ CallerGoes(c, "notify")
  /\ UNCHANGED <<mailbox, questions, wakeState, wakeQueue, supervisor, task, history>>

Notify(c) ==
  /\ caller[c].pc = "notify"
  /\ AppendNotice(caller[c].agent)
  /\ CallerGoes(c, "check")
  /\ UNCHANGED <<disk, questions, wakeState, wakeQueue, supervisor, task, history>>
-----------------------------------------------------------------------------
(***************************************************************************)
(* request_interrupt: cancel the running quantum of an agent with active   *)
(* work, then load its state and save it Idle without work.  The agent is  *)
(* not woken.                                                              *)
(***************************************************************************)
Interrupt(c, a) ==
  /\ caller[c].pc = "idle"
  /\ disk[a].work
  /\ CallerBegins(c, "cancelLoad", a, Fresh, FALSE)
  /\ task' = [t \in Tasks |->
        IF task[t].agent = a /\ task[t].pc = "running"
        THEN [task[t] EXCEPT !.cancelled = TRUE] ELSE task[t]]
  /\ UNCHANGED <<files, asking, wakeState, wakeQueue, supervisor, history>>

CancelLoad(c) ==
  /\ caller[c].pc = "cancelLoad"
  /\ CallerLoads(c, "cancelSave", disk[caller[c].agent])
  /\ UNCHANGED <<files, asking, wakeState, wakeQueue, supervisor, task, history>>

Unread(a) == consumed[a] < mailbox[a]

CancelSave(c) ==
  LET a == caller[c].agent
      s == caller[c].copy
      atQuestion == s.status = "WaitingUser"
  IN
  /\ caller[c].pc = "cancelSave"
  /\ SaveState(a, [s EXCEPT !.status = "Idle", !.work = FALSE])
  /\ question' = [question EXCEPT ![a] = @ /\ ~atQuestion /\ ~s.work]
  /\ asking' = [asking EXCEPT ![a] = @ /\ ~atQuestion]
  /\ abandoned' = [abandoned EXCEPT ![a] =
        IF disk[a].status \in Parked /\ Unread(a) THEN "interrupted" ELSE @]
  /\ CallerEnds(c)
  /\ UNCHANGED <<mailbox, wakeState, wakeQueue, supervisor, task, consumed>>
-----------------------------------------------------------------------------
(***************************************************************************)
(* supervisor_loop, and the part of reload_runtime_from_disk it depends on.*)
(***************************************************************************)
Receive ==
  /\ held = NoAgent
  /\ wakeQueue # <<>>
  /\ held' = Head(wakeQueue)
  /\ wakeQueue' = Tail(wakeQueue)
  /\ heldSem' = semaphore
  /\ UNCHANGED <<files, asking, wakeState, semaphore, caller, task, history>>

PermitsTaken(g) == {t \in Tasks : task[t].pc # "free" /\ task[t].sem = g}

\* acquire_owned succeeds and tokio::spawn starts the quantum; the permit is
\* held until the spawned task ends.
Spawn(t) ==
  /\ held # NoAgent
  /\ task[t].pc = "free"
  /\ Cardinality(PermitsTaken(heldSem)) < Permits
  /\ task' = [task EXCEPT ![t].pc = "load", ![t].agent = held, ![t].sem = heldSem]
  /\ held' = NoAgent
  /\ UNCHANGED <<files, asking, wakeState, wakeQueue, heldSem, semaphore, caller, history>>

\* The new semaphore has all its permits; whoever waits on or holds a permit
\* of the old one keeps it.
Reload ==
  /\ semaphore < MaxReloads
  /\ semaphore' = semaphore + 1
  /\ UNCHANGED <<files, asking, wakeState, wakeQueue, held, heldSem, caller, task, history>>
-----------------------------------------------------------------------------
(***************************************************************************)
(* execute_agent_quantum, run by a spawned task.                           *)
(***************************************************************************)
QuantumLoad(t) ==
  /\ task[t].pc = "load"
  /\ TaskLoads(t, "save", disk[task[t].agent])
  /\ UNCHANGED <<files, asking, wakeState, wakeQueue, supervisor, caller, history>>

\* The session paths are refreshed from the session file in between.
QuantumSave(t) ==
  /\ task[t].pc = "save"
  /\ SaveState(task[t].agent, task[t].copy)
  /\ TaskGoes(t, "examine")
  /\ UNCHANGED <<mailbox, questions, wakeState, wakeQueue, supervisor, caller, history>>

\* The quantum has nothing to do: return Ok(false).
GiveUp(t) == TaskReturns(t, "finish", FALSE)

\* Save the loaded state with the status Idle and go on.
Unpark(t, to) ==
  LET s == [task[t].copy EXCEPT !.status = "Idle"] IN
  /\ SaveState(task[t].agent, s)
  /\ TaskLoads(t, to, s)

\* Mutant of QuantumExamine: a WaitingUser agent waits whether or not its
\* question still exists.
QuantumExamineStuck(t) ==
  /\ task[t].pc = "examine"
  /\ IF task[t].copy.status \in Parked THEN GiveUp(t) ELSE TaskGoes(t, "read")
  /\ UNCHANGED <<files, asking, wakeState, wakeQueue, supervisor, caller, history>>

\* Give up or go on, by the status that was loaded.
QuantumExamine(t) ==
  LET a == task[t].agent
      status == task[t].copy.status
  IN
  /\ task[t].pc = "examine"
  /\ \/ /\ status = "WaitingDependency"   \* not satisfied
        /\ GiveUp(t)
        /\ UNCHANGED <<disk, mailbox>>
     \/ /\ status = "WaitingDependency"   \* satisfied
        /\ Unpark(t, "selfWake")
        /\ AppendNotice(a)
     \/ /\ status = "WaitingUser" /\ question[a]
        /\ GiveUp(t)
        /\ UNCHANGED <<disk, mailbox>>
     \/ /\ status = "WaitingUser" /\ ~question[a]
        /\ Unpark(t, "read")
        /\ UNCHANGED mailbox
     \/ /\ status \notin Parked
        /\ TaskGoes(t, "read")
        /\ UNCHANGED <<disk, mailbox>>
  /\ UNCHANGED <<questions, wakeState, wakeQueue, supervisor, caller, history>>

\* append_mailbox_message to the agent itself, after its entry is written:
\* the agent is running_or_queued, so wake_agent only asks for a rerun.
SelfWake(t, from, to) ==
  LET a == task[t].agent IN
  /\ task[t].pc = from
  /\ IF disk[a].status \in Parked
     THEN UNCHANGED rerun_requested
     ELSE rerun_requested' = [rerun_requested EXCEPT ![a] = TRUE]
  /\ TaskGoes(t, to)
  /\ UNCHANGED <<files, asking, running_or_queued, wakeQueue, supervisor, caller, history>>

\* Read the mailbox after last_mailbox_offset; without work and without mail
\* there is nothing to run.
QuantumRead(t) ==
  LET a == task[t].agent
      s == [task[t].copy EXCEPT !.status = "Running", !.work = TRUE]
  IN
  /\ task[t].pc = "read"
  /\ IF ~task[t].copy.work /\ mailbox[a] = task[t].copy.offset
     THEN GiveUp(t) /\ UNCHANGED <<disk, abandoned>>
     ELSE /\ SaveState(a, s)
          /\ task' = [task EXCEPT ![t].pc = "running", ![t].copy = Fresh,
                                  ![t].upto = mailbox[a]]
          /\ abandoned' = [abandoned EXCEPT ![a] = "no"]
  /\ UNCHANGED <<mailbox, questions, wakeState, wakeQueue, supervisor, caller, consumed>>

\* run_quantum returns and the state is loaded again.  A cancelled token makes
\* it fail, unless the quantum was already over when the token was set.
QuantumReturns(t) ==
  /\ task[t].pc = "running"
  /\ \E r \in Results :
       /\ r = "Cancelled" => task[t].cancelled
       /\ r = "Error" => ~task[t].cancelled
       /\ task' = [task EXCEPT ![t].pc = "commit", ![t].result = r,
                               ![t].copy = disk[task[t].agent]]
  /\ UNCHANGED <<files, asking, wakeState, wakeQueue, supervisor, caller, history>>

\* Mutant of Consumed: mail that came in during the quantum is marked as well.
ConsumedAll(t) == [task[t].copy EXCEPT !.offset = mailbox[task[t].agent]]

\* The loaded state with the mail of this quantum marked as consumed.
Consumed(t) == [task[t].copy EXCEPT !.offset = task[t].upto]

\* Save the state the quantum ends in; the cycle goes round again if rerun.
Commit(t, s, to, rerun) ==
  /\ SaveState(task[t].agent, s)
  /\ TaskReturns(t, to, rerun)

\* Continue: whether a rerun follows depends on the finish reminder.
CommitContinue(t) ==
  /\ task[t].result = "Continue"
  /\ \E rerun \in BOOLEAN :
       Commit(t, [Consumed(t) EXCEPT !.status = "Idle"], "finish", rerun)
  /\ UNCHANGED <<mailbox, questions>>

\* Ask: without a question on file the new one is persisted.
CommitAsk(t) ==
  LET a == task[t].agent IN
  /\ task[t].result = "Ask"
  /\ \/ /\ ~question[a]
        /\ Commit(t, [Consumed(t) EXCEPT !.status = "WaitingUser"], "finish", FALSE)
        /\ question' = [question EXCEPT ![a] = TRUE]
        /\ asking' = [asking EXCEPT ![a] = TRUE]
     \/ /\ question[a]
        /\ Commit(t, Consumed(t), "finish", FALSE)
        /\ UNCHANGED questions
  /\ UNCHANGED mailbox

\* Wait: park, or, when the dependency is already satisfied, stay idle and
\* append the notice.
CommitWait(t) ==
  /\ task[t].result = "Wait"
  /\ \/ /\ Commit(t, [Consumed(t) EXCEPT !.status = "WaitingDependency"], "finish", FALSE)
        /\ UNCHANGED mailbox
     \/ /\ Commit(t, [Consumed(t) EXCEPT !.status = "Idle"], "settle", TRUE)
        /\ AppendNotice(task[t].agent)
  /\ UNCHANGED questions

\* Finish: nothing to finish, a confirmation asked for (with a rerun the
\* first time), or the work is over.
CommitFinish(t) ==
  /\ task[t].result = "Finish"
  /\ \/ /\ ~task[t].copy.work
        /\ Commit(t, Consumed(t), "finish", FALSE)
        /\ UNCHANGED question
     \/ /\ task[t].copy.work
        /\ \E rerun \in BOOLEAN :
             Commit(t, [Consumed(t) EXCEPT !.status = "Idle"], "finish", rerun)
        /\ UNCHANGED question
     \/ /\ task[t].copy.work
        /\ Commit(t, [Consumed(t) EXCEPT !.status = "Idle", !.work = FALSE], "finish", FALSE)
        /\ question' = [question EXCEPT ![task[t].agent] = FALSE]
  /\ UNCHANGED <<mailbox, asking>>

CommitCancelled(t) ==
  /\ task[t].result = "Cancelled"
  /\ Commit(t, [Consumed(t) EXCEPT !.status = "Idle"], "finish", FALSE)
  /\ UNCHANGED <<mailbox, questions>>

\* A failed quantum keeps its mail unread for the next wake-up.
CommitError(t) ==
  /\ task[t].result = "Error"
  /\ Commit(t, [task[t].copy EXCEPT !.status = "Idle"], "finish", FALSE)
  /\ UNCHANGED <<mailbox, questions>>

QuantumCommit(t) ==
  LET a == task[t].agent
      upto == task[t].upto
      failed == task[t].result = "Error"
  IN
  /\ task[t].pc = "commit"
  /\ \/ CommitContinue(t) \/ CommitAsk(t) \/ CommitWait(t)
     \/ CommitFinish(t) \/ CommitCancelled(t) \/ CommitError(t)
  /\ abandoned' = [abandoned EXCEPT ![a] = IF failed THEN "failed" ELSE @]
  /\ consumed' = [consumed EXCEPT ![a] = IF ~failed /\ @ < upto THEN upto ELSE @]
  /\ UNCHANGED <<wakeState, wakeQueue, supervisor, caller>>
-----------------------------------------------------------------------------
(***************************************************************************)
(* finish_agent_wake_cycle; the task ends and gives its permit back.       *)
(***************************************************************************)
\* Mutant of FinishCycle: the flag is cleared although the agent is resent.
FinishCycleUnflagged(t) ==
  LET a == task[t].agent IN
  /\ task[t].pc = "finish"
  /\ running_or_queued' = [running_or_queued EXCEPT ![a] = FALSE]
  /\ rerun_requested' = [rerun_requested EXCEPT ![a] = FALSE]
  /\ IF task[t].rerun \/ rerun_requested[a]
     THEN TaskGoes(t, "resend")
     ELSE task' = [task EXCEPT ![t] = FreeTask]
  /\ UNCHANGED <<files, asking, wakeQueue, supervisor, caller, history>>

\* Mutant of FinishCycle: only the quantum's own wish for a rerun counts.
FinishCycleForgetful(t) ==
  LET a == task[t].agent IN
  /\ task[t].pc = "finish"
  /\ rerun_requested' = [rerun_requested EXCEPT ![a] = FALSE]
  /\ \/ task[t].rerun /\ UNCHANGED running_or_queued /\ TaskGoes(t, "resend")
     \/ /\ ~task[t].rerun
        /\ running_or_queued' = [running_or_queued EXCEPT ![a] = FALSE]
        /\ task' = [task EXCEPT ![t] = FreeTask]
  /\ UNCHANGED <<files, asking, wakeQueue, supervisor, caller, history>>

FinishCycle(t) ==
  LET a == task[t].agent IN
  /\ task[t].pc = "finish"
  /\ \/ /\ task[t].rerun \/ rerun_requested[a]
        /\ rerun_requested' = [rerun_requested EXCEPT ![a] = FALSE]
        /\ UNCHANGED running_or_queued
        /\ TaskGoes(t, "resend")
     \/ /\ ~task[t].rerun /\ ~rerun_requested[a]
        /\ running_or_queued' = [running_or_queued EXCEPT ![a] = FALSE]
        /\ UNCHANGED rerun_requested
        /\ task' = [task EXCEPT ![t] = FreeTask]
  /\ UNCHANGED <<files, asking, wakeQueue, supervisor, caller, history>>

Resend(t) ==
  /\ task[t].pc = "resend"
  /\ wakeQueue' = Append(wakeQueue, task[t].agent)
  /\ task' = [task EXCEPT ![t] = FreeTask]
  /\ UNCHANGED <<files, asking, wakeState, supervisor, caller, history>>
-----------------------------------------------------------------------------
CallerStarts(c) ==
  \E a \in Agents : Post(c, a) \/ Answer(c, a) \/ WaitOver(c, a) \/ Interrupt(c, a)

CallerStep(c) ==
  \/ CheckTarget(c) \/ ClaimWake(c) \/ SendWake(c)
  \/ ResumeLoad(c) \/ ResumeSave(c) \/ ForgetQuestion(c)
  \/ OverSave(c) \/ Notify(c)
  \/ CancelLoad(c) \/ CancelSave(c)

TaskStep(t) ==
  \/ QuantumLoad(t) \/ QuantumSave(t) \/ QuantumExamine(t)
  \/ SelfWake(t, "selfWake", "read") \/ QuantumRead(t) \/ QuantumReturns(t)
  \/ QuantumCommit(t) \/ SelfWake(t, "settle", "finish")
  \/ FinishCycle(t) \/ Resend(t)

Next ==
  \/ \E c \in Callers : CallerStarts(c) \/ CallerStep(c)
  \/ Receive
  \/ \E t \in Tasks : Spawn(t) \/ TaskStep(t)
  \/ Reload

\* tokio polls every ready task; run_quantum has timeouts on its model calls.
\* Nothing obliges the outside world to post, answer, interrupt or reload.
Fairness ==
  /\ \A c \in Callers : WF_vars(CallerStep(c))
  /\ WF_vars(Receive)
  /\ WF_vars(\E t \in Tasks : Spawn(t))
  /\ \A t \in Tasks : WF_vars(TaskStep(t))

Spec == Init /\ [][Next]_vars
FairSpec == Spec /\ Fairness
-----------------------------------------------------------------------------
FilesOK ==
  /\ disk \in [Agents -> AgentState]
  /\ mailbox \in [Agents -> 0..MaxMail]
  /\ question \in [Agents -> BOOLEAN]

SupervisorOK ==
  /\ asking \in [Agents -> BOOLEAN]
  /\ running_or_queued \in [Agents -> BOOLEAN]
  /\ rerun_requested \in [Agents -> BOOLEAN]
  /\ wakeQueue \in Seq(Agents)
  /\ held \in Agents \cup {NoAgent}
  /\ heldSem \in 0..MaxReloads
  /\ semaphore \in 0..MaxReloads

CallersOK ==
  /\ caller \in [Callers -> CallerState]
  /\ \A c \in Callers : caller[c].pc # "idle" => caller[c].agent \in Agents

TasksOK ==
  /\ task \in [Tasks -> TaskState]
  /\ \A t \in Tasks : task[t].pc # "free" => task[t].agent \in Agents

HistoryOK ==
  /\ abandoned \in [Agents -> {"no", "failed", "interrupted"}]
  /\ consumed \in [Agents -> 0..MaxMail]

\* Every variable has its type, and whoever is inside an operation on an
\* agent knows the agent.
TypeOK == FilesOK /\ SupervisorOK /\ CallersOK /\ TasksOK /\ HistoryOK

\* Where the one wake-up an agent may have in flight can be: with a caller
\* about to send it, in the channel, with the supervisor, or with a task.
InSend(c, a) == caller[c].pc = "send" /\ caller[c].agent = a
InQueue(i, a) == wakeQueue[i] = a
InTask(t, a) == task[t].pc # "free" /\ task[t].agent = a

Sending(a) == \E c \in Callers : InSend(c, a)
Queued(a) == \E i \in DOMAIN wakeQueue : InQueue(i, a)
Spawned(a) == \E t \in Tasks : InTask(t, a)

OneSender(a) == \A c, d \in Callers : InSend(c, a) /\ InSend(d, a) => c = d
QueuedOnce(a) == \A i, j \in DOMAIN wakeQueue : InQueue(i, a) /\ InQueue(j, a) => i = j
OneTask(a) == \A t, u \in Tasks : InTask(t, a) /\ InTask(u, a) => t = u

\* An agent never has two wake-ups in flight: it is not queued twice, not
\* queued while its quantum runs, and no two tasks run it.  A quantum loads,
\* changes and saves the whole state file and appends to the session without
\* a lock, so the code relies on this.
SingleFlight ==
  \A a \in Agents :
    /\ OneSender(a) /\ QueuedOnce(a) /\ OneTask(a)
    /\ Sending(a) => ~Queued(a) /\ held # a /\ ~Spawned(a)
    /\ Queued(a) => held # a /\ ~Spawned(a)
    /\ held = a => ~Spawned(a)

\* A wake-up is in flight for the agent.
InFlight(a) == Sending(a) \/ Queued(a) \/ held = a \/ Spawned(a)

\* WakeState.running_or_queued is an exact record of that: were it stale in
\* one direction the agent would run twice, in the other never again.
FlagIsExact == \A a \in Agents : running_or_queued[a] <=> InFlight(a)

\* The wake-up in flight has yet to read the mailbox, or will go round again.
WillRead(a) ==
  \/ Sending(a) \/ Queued(a) \/ held = a
  \/ \E t \in Tasks : InTask(t, a) /\
       \/ task[t].pc \in {"load", "save", "examine", "selfWake", "read", "resend"}
       \/ task[t].pc \in {"settle", "finish"} /\ task[t].rerun
       \/ rerun_requested[a]

\* A caller that still has to decide whether to wake the agent.
OnItsWay(a) ==
  \E c \in Callers :
    /\ caller[c].agent = a
    /\ caller[c].pc \in {"check", "wake", "resumeLoad", "resumeSave",
                        "overSave", "notify"}

\* No lost wake-up: mail that no quantum has consumed is in the batch of the
\* running quantum, or will be read by a wake-up in flight, or its sender is
\* about to wake the agent, or the agent is parked; the exceptions are a
\* quantum that failed (the mail waits for the next wake-up) and an interrupt
\* of a parked agent.
NoLostWake ==
  \A a \in Agents :
    Unread(a) =>
      \/ WillRead(a)
      \/ OnItsWay(a)
      \/ disk[a].status \in Parked
      \/ abandoned[a] # "no"
      \/ \E t \in Tasks : InTask(t, a) /\ task[t].pc \in {"running", "commit"}
                             /\ task[t].upto = mailbox[a]

\* Somebody who will look at the agent's state again is under way.
Attended(a) == WillRead(a) \/ OnItsWay(a)

\* An agent with active work does not stay WaitingUser once its question is
\* gone from disk, whatever the quantum, the answer and the interrupt
\* overwrite of each other's state.
NoLimbo ==
  \A a \in Agents :
    disk[a].status = "WaitingUser" /\ disk[a].work /\ ~question[a] => Attended(a)

\* Every accepted mail is consumed sooner or later, unless the agent is
\* parked, the quantum that read it failed, or an interrupt abandoned it.
MailIsConsumed ==
  \A a \in Agents :
    Unread(a) ~> \/ ~Unread(a)
                 \/ disk[a].status \in Parked
                 \/ abandoned[a] # "no"

\* runtime/state.rs:41: WaitingUser means blocked on a user answer, so there
\* is a question that can be answered.  An Ask that commits after an interrupt
\* leaves a WaitingUser agent without work; its answer resumes nothing.
WaitingUserCanBeAnswered ==
  \A a \in Agents :
    disk[a].status = "WaitingUser" => asking[a] \/ question[a] \/ Attended(a)

\* runtime/state.rs:222: last_mailbox_offset is the last consumed offset.  Late
\* saves of the whole state may put it back, and mail is read twice; but no
\* mail is skipped: the offset is never beyond what a quantum has consumed.
NoMailSkipped == \A a \in Agents : disk[a].offset <= consumed[a]
-----------------------------------------------------------------------------
(***************************************************************************)
(* The supervisor implements SerialExecutor: an agent is requested while   *)
(* its wake-up is under way or a rerun is remembered, and it runs from the *)
(* spawn of its quantum to the decision that ends the cycle.               *)
(***************************************************************************)
Resending(a) == \E t \in Tasks : InTask(t, a) /\ task[t].pc = "resend"
Executing(a) == \E t \in Tasks : InTask(t, a) /\ task[t].pc # "resend"

requestedAgents ==
  {a \in Agents : \/ rerun_requested[a] \/ Sending(a) \/ Queued(a)
                  \/ held = a \/ Resending(a)}

runningAgents == {a \in Agents : Executing(a)}

Executor == INSTANCE SerialExecutor WITH requested <- requestedAgents,
                                         running <- runningAgents
ExecutorSpec == Executor!Spec
ExecutorLive == Executor!LiveSpec
=============================================================================
