-------------------------- MODULE ControlCheckpoint --------------------------
(***************************************************************************)
(* The durable control checkpoint of one agent (crates/sa/src/main.rs,     *)
(* crates/sa-core/src/session.rs), with crashes.                           *)
(*                                                                         *)
(* When the model decides to Ask, Wait or Finish, the quantum saves the    *)
(* decision in the state file (pending_control), appends the assistant     *)
(* message with the tool call to the session, carries the decision out and *)
(* clears the checkpoint.  An answer appends the tool result.  Whoever     *)
(* loads the session first cuts off the last turn if a tool call in it has *)
(* no result.  The process may die between any two writes; a restart       *)
(* recovers from the files.                                                *)
(*                                                                         *)
(* One step is one durable write.  Quanta of the agent are serial and a    *)
(* wake-up is never lost (module AgentWake), so a Boolean stands for it;   *)
(* the load-change-save races on the state file are AgentWake's subject    *)
(* too, and here a save that follows its load at once is one step.         *)
(* Abstracted: what messages say (all but control turns are "other"),      *)
(* interrupts, and which dependency a Wait names.                          *)
(***************************************************************************)
EXTENDS Integers, Sequences, FiniteSets

CONSTANTS
  Clients,     \* frontends that may answer
  MaxCalls,    \* bound: control tool calls the model makes
  MaxWorks,    \* bound: works submitted
  MaxCrashes   \* bound: crashes

ASSUME BoundsAssumption == {MaxCalls, MaxWorks, MaxCrashes} \subseteq Nat

Calls == 1..MaxCalls
Works == 1..MaxWorks
None == 0
Kinds == {"Ask", "Wait", "Finish"}

\* Messages of the session: a control call, its result, or anything else.
\* Runs of other messages count as one.
Other == [type |-> "other", call |-> None]
Call(n) == [type |-> "call", call |-> n]
Result(n) == [type |-> "result", call |-> n]
Message == {Other} \cup {Call(n) : n \in Calls} \cup {Result(n) : n \in Calls}

\* state.json: active_work_id, pending_control (kind and tool call).
AgentState == [status : {"Idle", "Running", "WaitingUser", "WaitingDependency"},
               work : Works \cup {None}, control : Kinds \cup {"none"},
               call : Calls \cup {None}]
Fresh == [status |-> "Idle", work |-> None, control |-> "none", call |-> None]

QuantumPcs == {"idle", "save", "examine", "run", "decide", "append", "ask",
               "askSave", "clear", "finish", "finishSave", "terminal", "report"}
AnswerPcs == {"idle", "append", "clear", "resume", "forget"}

\* pending_question.json.  A call can be asked about again only by another
\* incarnation of the process, so call and incarnation stand for question_id.
NoQuestion == [call |-> None, work |-> None, asked |-> 0]
Question == [call : Calls, work : Works, asked : 0..MaxCrashes]

AnswerState == [pc : AnswerPcs, question : Question \cup {NoQuestion}, applied : BOOLEAN]
NoAnswer == [pc |-> "idle", question |-> NoQuestion, applied |-> FALSE]

VARIABLES
  state,      \* state.json
  session,    \* messages of the active session segment
  question,   \* pending_question.json
  workStatus, \* runtime/works/<work>.json
  reported,   \* works whose end went to the parent and the waiters
  process,    \* "down", "recovering" (before the first client) or "up"
  wake,       \* a wake-up of the agent is in flight
  pending,    \* in-memory list of questions that can be answered
  restored,   \* recover_runtime: the questions it found
  pc, copy,   \* the quantum: where it is and the state it loaded
  rerun,      \* its result
  answer,     \* per client, answer_question
  nextCall, crashes, \* counters
  answered,   \* history: calls whose answer was accepted
  asked,      \* history: questions per call
  ended       \* history: works whose Finish was accepted

durable == <<state, session, question, workStatus, reported>>
runtime == <<process, restored>>
counters == <<nextCall, crashes>>
history == <<answered, asked, ended>>
vars == <<durable, runtime, wake, pending, pc, copy, rerun, answer, counters, history>>

Init ==
  /\ state = Fresh
  /\ session = <<>>
  /\ question = NoQuestion
  /\ workStatus = [w \in Works |-> "none"]
  /\ reported = {}
  /\ process = "up"
  /\ wake = FALSE
  /\ pending = {}
  /\ restored = {}
  /\ pc = "idle"
  /\ copy = Fresh
  /\ rerun = FALSE
  /\ answer = [c \in Clients |-> NoAnswer]
  /\ nextCall = 1
  /\ crashes = 0
  /\ answered = {}
  /\ asked = [n \in Calls |-> 0]
  /\ ended = {}
-----------------------------------------------------------------------------
\* The call at i has its result among the results that follow it.
Complete(s, i) ==
  \E j \in i + 1..Len(s) :
    /\ s[j] = Result(s[i].call)
    /\ \A k \in i + 1..j : s[k].type = "result"

Incomplete(s) == {i \in DOMAIN s : s[i].type = "call" /\ ~Complete(s, i)}

\* sanitize_replayable_messages: everything from the first incomplete call on
\* is cut off.
BeforeIncomplete(s) == {n \in DOMAIN s : \A i \in Incomplete(s) : n < i}
Repaired(s) == SubSeq(s, 1, Cardinality(BeforeIncomplete(s)))

\* append_control_message_if_missing.
WithControl(s, n) ==
  LET r == Repaired(s) IN
  IF r # <<>> /\ r[Len(r)] = Call(n) THEN r ELSE Append(r, Call(n))

WithOther(s) == IF s # <<>> /\ s[Len(s)] = Other THEN s ELSE Append(s, Other)

\* has_raw_tool_result reads the file without repairing it.
HasResult(s, n) == \E i \in DOMAIN s : s[i] = Result(n)
-----------------------------------------------------------------------------
\* submit_task to an agent without active work.
Submit ==
  /\ process = "up" /\ state.work = None
  /\ \E w \in Works :
       /\ workStatus[w] = "none"
       /\ \A v \in Works : v < w => workStatus[v] # "none"
       /\ workStatus' = [workStatus EXCEPT ![w] = "Running"]
       /\ state' = [Fresh EXCEPT !.work = w]
  /\ wake' = TRUE
  /\ UNCHANGED <<session, question, reported, runtime, pending, pc, copy, rerun,
                 answer, counters, history>>

\* append_mailbox_message: mail to an agent that is not parked wakes it.
Mail ==
  /\ process = "up" /\ ~wake
  /\ state.status \notin {"WaitingUser", "WaitingDependency"}
  /\ state.work # None
  /\ wake' = TRUE
  /\ UNCHANGED <<durable, runtime, pending, pc, copy, rerun, answer, counters, history>>

\* wake_waiters_for_dependency or a timeout: the wait is over.
WaitOver ==
  /\ process # "down" /\ state.status = "WaitingDependency"
  /\ state' = [state EXCEPT !.status = "Idle"]
  /\ wake' = TRUE
  /\ UNCHANGED <<session, question, workStatus, reported, runtime, pending, pc, copy,
                 rerun, answer, counters, history>>
-----------------------------------------------------------------------------
(***************************************************************************)
(* execute_agent_quantum.                                                  *)
(***************************************************************************)
Elsewhere == UNCHANGED <<runtime, answer, crashes, answered>>
NoHistory == Elsewhere /\ UNCHANGED <<asked, ended>>

\* Load the state, load (and so repair) the session.
Begin ==
  /\ wake /\ pc = "idle"
  /\ wake' = FALSE
  /\ copy' = state
  /\ session' = Repaired(session)
  /\ pc' = "save"
  /\ UNCHANGED <<state, question, workStatus, reported, pending, rerun, nextCall>>
  /\ NoHistory

\* Mutant of Save: a checkpoint found in the state file is passed over.
SaveIgnoringCheckpoint ==
  /\ pc = "save"
  /\ state' = copy
  /\ pc' = "examine"
  /\ UNCHANGED <<session, question, workStatus, reported, wake, pending, copy, rerun, nextCall>>
  /\ NoHistory

\* A checkpoint is carried out before anything else.
Save ==
  /\ pc = "save"
  /\ state' = copy
  /\ pc' = IF copy.control # "none" THEN "append" ELSE "examine"
  /\ UNCHANGED <<session, question, workStatus, reported, wake, pending, copy, rerun, nextCall>>
  /\ NoHistory

\* The quantum returns Ok(again); the supervisor goes round again if so.
Return(again) ==
  /\ pc' = "idle"
  /\ wake' = (wake \/ again)
  /\ copy' = Fresh
  /\ rerun' = FALSE

\* Nothing to do, or go on with the status Idle.
Examine ==
  /\ pc = "examine"
  /\ \/ /\ \/ copy.status = "WaitingDependency"
           \/ copy.status = "WaitingUser" /\ question # NoQuestion
           \/ copy.status = "Idle" /\ copy.work = None
        /\ Return(FALSE)
        /\ UNCHANGED <<state, session>>
     \/ /\ \/ copy.status = "WaitingUser" /\ question = NoQuestion
           \/ copy.status = "WaitingDependency"   \* satisfied meanwhile
           \/ copy.status \in {"Idle", "Running"}
        /\ copy.work # None
        /\ state' = [copy EXCEPT !.status = "Running"]
        /\ copy' = [copy EXCEPT !.status = "Running"]
        /\ session' = WithOther(session)
        /\ pc' = "run"
        /\ UNCHANGED <<wake, rerun>>
  /\ UNCHANGED <<question, workStatus, reported, pending, nextCall>>
  /\ NoHistory

\* run_quantum returns: load the state and the session again.
Run ==
  /\ pc = "run"
  /\ copy' = state
  /\ session' = Repaired(session)
  /\ pc' = "decide"
  /\ UNCHANGED <<state, question, workStatus, reported, wake, pending, rerun, nextCall>>
  /\ NoHistory

\* Continue (or an error), or the checkpoint of a control decision.
Decide ==
  /\ pc = "decide"
  /\ \/ /\ state' = [copy EXCEPT !.status = "Idle"]
        /\ \E again \in BOOLEAN : Return(again)
        /\ UNCHANGED nextCall
     \/ /\ nextCall <= MaxCalls
        /\ \E kind \in Kinds :
             /\ state' = [copy EXCEPT !.control = kind, !.call = nextCall]
             /\ copy' = state'
        /\ nextCall' = nextCall + 1
        /\ pc' = "append"
        /\ UNCHANGED <<wake, rerun>>
  /\ UNCHANGED <<session, question, workStatus, reported, pending>>
  /\ NoHistory

\* apply_pending_control, first the session.
AppendControl ==
  /\ pc = "append"
  /\ session' = WithControl(session, copy.call)
  /\ pc' = CASE copy.control = "Ask" -> "ask"
             [] copy.control = "Wait" -> "clear"
             [] copy.control = "Finish" -> "finish"
  /\ UNCHANGED <<state, question, workStatus, reported, wake, pending, copy, rerun, nextCall>>
  /\ NoHistory

\* The question of the decision at hand.
Asking == [call |-> copy.call, work |-> copy.work, asked |-> crashes]

\* Ask: a question on file is kept, otherwise persist_pending_question.
Ask ==
  /\ pc = "ask"
  /\ \/ question # NoQuestion /\ pc' = "clear" /\ UNCHANGED <<question, asked>>
     \/ /\ question = NoQuestion
        /\ question' = Asking
        /\ asked' = [asked EXCEPT ![copy.call] = @ + 1]
        /\ pc' = "askSave"
  /\ UNCHANGED <<state, session, workStatus, reported, wake, pending, copy, rerun, nextCall, ended>>
  /\ Elsewhere

AskSave ==
  /\ pc = "askSave"
  /\ state' = [copy EXCEPT !.status = "WaitingUser"]
  /\ copy' = state'
  /\ pending' = pending \cup {Asking}
  /\ pc' = "clear"
  /\ UNCHANGED <<session, question, workStatus, reported, wake, rerun, nextCall>>
  /\ NoHistory

Cleared == [state EXCEPT !.control = "none", !.call = None]

\* The checkpoint is cleared; a Wait parks the agent, or, when the dependency
\* is already satisfied, leaves it idle with a notice.
Clear ==
  /\ pc = "clear"
  /\ IF copy.control = "Wait"
     THEN \E satisfied \in BOOLEAN :
            /\ state' = [Cleared EXCEPT !.status =
                           IF satisfied THEN "Idle" ELSE "WaitingDependency"]
            /\ Return(satisfied)
     ELSE state' = Cleared /\ Return(rerun)
  /\ UNCHANGED <<session, question, workStatus, reported, pending, nextCall>>
  /\ NoHistory

\* Mutant of Finish: the work is on record as finished before the state that
\* resumes it is saved.
FinishRecordedFirst ==
  /\ pc = "finish"
  /\ question' = NoQuestion
  /\ workStatus' = [workStatus EXCEPT ![copy.work] = "Finished"]
  /\ pc' = "finishSave"
  /\ UNCHANGED <<state, copy, rerun, session, reported, wake, pending, nextCall>>
  /\ NoHistory

\* handle_finish_outcome: a confirmation is needed (with a rerun the first
\* time), or the work is over and the question removed.  (Only an interrupt
\* leaves a Finish without work.)
Finish ==
  /\ pc = "finish"
  /\ \/ /\ state' = [copy EXCEPT !.status = "Idle"]
        /\ copy' = state'
        /\ rerun' \in BOOLEAN
        /\ pc' = "clear"
        /\ UNCHANGED question
     \/ /\ question' = NoQuestion
        /\ pc' = "finishSave"
        /\ UNCHANGED <<state, copy, rerun>>
  /\ UNCHANGED <<session, workStatus, reported, wake, pending, nextCall>>
  /\ NoHistory

\* The state is saved without the work and without the checkpoint ...
FinishSave ==
  /\ pc = "finishSave"
  /\ state' = Fresh
  /\ ended' = ended \cup {copy.work}
  /\ pc' = "terminal"
  /\ UNCHANGED <<session, question, workStatus, reported, wake, pending, copy, rerun, nextCall, asked>>
  /\ Elsewhere

\* ... then the work gets its terminal record ...
Terminal ==
  /\ pc = "terminal"
  /\ workStatus' = [workStatus EXCEPT ![copy.work] = "Finished"]
  /\ pc' = "report"
  /\ UNCHANGED <<state, session, question, reported, wake, pending, copy, rerun, nextCall>>
  /\ NoHistory

\* ... and the parent and the waiters hear of it.
Report ==
  /\ pc = "report"
  /\ reported' = reported \cup {copy.work}
  /\ pc' = "clear"
  /\ UNCHANGED <<state, session, question, workStatus, wake, pending, copy, rerun, nextCall>>
  /\ NoHistory

Quantum ==
  \/ Begin \/ Save \/ Examine \/ Run \/ Decide \/ AppendControl \/ Ask \/ AskSave
  \/ Clear \/ Finish \/ FinishSave \/ Terminal \/ Report
-----------------------------------------------------------------------------
(***************************************************************************)
(* answer_question.  The question stays in the pending list until the end. *)
(***************************************************************************)
AnswerOnly ==
  UNCHANGED <<workStatus, reported, runtime, pc, copy, rerun, counters, asked, ended>>

AnswerGoes(c, to) == answer' = [answer EXCEPT ![c].pc = to]

\* The question is read under the lock of the list, the session after it.
AnswerStarts(c) ==
  /\ process = "up" /\ answer[c].pc = "idle"
  /\ \E q \in pending :
       answer' = [answer EXCEPT ![c] =
         [pc |-> "append", question |-> q, applied |-> HasResult(session, q.call)]]
  /\ UNCHANGED <<state, session, question, wake, pending, answered>>
  /\ AnswerOnly

\* Mutant of AnswerAppend: the result is appended without the check.
AnswerAppendAlways(c) ==
  /\ answer[c].pc = "append"
  /\ session' = Append(session, Result(answer[c].question.call))
  /\ AnswerGoes(c, "clear")
  /\ UNCHANGED <<state, question, wake, pending, answered>>
  /\ AnswerOnly

AnswerAppend(c) ==
  /\ answer[c].pc = "append"
  /\ session' = IF answer[c].applied THEN session
                ELSE Append(session, Result(answer[c].question.call))
  /\ AnswerGoes(c, "clear")
  /\ UNCHANGED <<state, question, wake, pending, answered>>
  /\ AnswerOnly

\* clear_pending_question removes the file of the agent, whatever it asks.
AnswerClear(c) ==
  /\ answer[c].pc = "clear"
  /\ question' = NoQuestion
  /\ answered' = answered \cup {answer[c].question.call}
  /\ AnswerGoes(c, "resume")
  /\ UNCHANGED <<state, session, wake, pending>>
  /\ AnswerOnly

AnswerResume(c) ==
  /\ answer[c].pc = "resume"
  /\ IF state.work = answer[c].question.work
     THEN state' = [state EXCEPT !.status = "Idle"] /\ wake' = TRUE
     ELSE UNCHANGED <<state, wake>>
  /\ AnswerGoes(c, "forget")
  /\ UNCHANGED <<session, question, pending, answered>>
  /\ AnswerOnly

\* Mutant of AnswerForget: every question of the agent is forgotten.
AnswerForgetAll(c) ==
  /\ answer[c].pc = "forget"
  /\ pending' = {}
  /\ answer' = [answer EXCEPT ![c] = NoAnswer]
  /\ UNCHANGED <<state, session, question, wake, answered>>
  /\ AnswerOnly

AnswerForget(c) ==
  /\ answer[c].pc = "forget"
  /\ pending' = pending \ {answer[c].question}
  /\ answer' = [answer EXCEPT ![c] = NoAnswer]
  /\ UNCHANGED <<state, session, question, wake, answered>>
  /\ AnswerOnly

AnswerStep(c) ==
  AnswerAppend(c) \/ AnswerClear(c) \/ AnswerResume(c) \/ AnswerForget(c)
-----------------------------------------------------------------------------
\* The process dies; only the files remain.
Crash ==
  /\ process # "down" /\ crashes < MaxCrashes
  /\ crashes' = crashes + 1
  /\ process' = "down"
  /\ wake' = FALSE
  /\ pending' = {}
  /\ restored' = {}
  /\ pc' = "idle"
  /\ copy' = Fresh
  /\ rerun' = FALSE
  /\ answer' = [c \in Clients |-> NoAnswer]
  /\ UNCHANGED <<durable, nextCall, history>>

\* Mutant of Resumable: an agent that was not idle is left alone.
ResumableIfIdle == state.status = "Idle" /\ state.work # None

Resumable == state.work # None \/ state.control # "none"

\* recover_runtime (with team.auto_resume): a question on file is collected; a
\* satisfied wait ends; otherwise work or a checkpoint is resumed.
Recover ==
  /\ process = "down"
  /\ process' = "recovering"
  /\ \/ /\ question # NoQuestion
        /\ state' = [state EXCEPT !.status = "WaitingUser"]
        /\ restored' = {question}
        /\ UNCHANGED wake
     \/ /\ question = NoQuestion
        /\ state.status = "WaitingDependency"
        /\ \E satisfied \in BOOLEAN :
             /\ state' = IF satisfied THEN [state EXCEPT !.status = "Idle"] ELSE state
             /\ wake' = satisfied
        /\ UNCHANGED restored
     \/ /\ question = NoQuestion
        /\ state.status # "WaitingDependency"
        /\ IF Resumable
           THEN state' = [state EXCEPT !.status = "Idle"] /\ wake' = TRUE
           ELSE UNCHANGED <<state, wake>>
        /\ UNCHANGED restored
  /\ UNCHANGED <<session, question, workStatus, reported, pending, pc, copy, rerun,
                 answer, counters, history>>

\* The list is replaced by what was collected; the supervisor has been running
\* since Hub::new, so a resumed agent may have asked meanwhile.  Then clients
\* are served.
RecoverDone ==
  /\ process = "recovering"
  /\ pending' = restored
  /\ process' = "up"
  /\ restored' = {}
  /\ UNCHANGED <<durable, wake, pc, copy, rerun, answer, counters, history>>
-----------------------------------------------------------------------------
Next ==
  \/ Submit \/ Mail \/ WaitOver
  \/ Quantum
  \/ \E c \in Clients : AnswerStarts(c) \/ AnswerStep(c)
  \/ Crash \/ Recover \/ RecoverDone

\* Threads that are scheduled run and a dead process is restarted; nobody has
\* to submit, write, answer or end a wait.
Fairness ==
  /\ WF_vars(Quantum)
  /\ \A c \in Clients : WF_vars(AnswerStep(c))
  /\ WF_vars(Recover \/ RecoverDone)

Spec == Init /\ [][Next]_vars
FairSpec == Spec /\ Fairness
-----------------------------------------------------------------------------
FilesOK ==
  /\ state \in AgentState
  /\ session \in Seq(Message)
  /\ question \in Question \cup {NoQuestion}
  /\ workStatus \in [Works -> {"none", "Running", "Finished"}]
  /\ reported \subseteq Works

ProcessOK ==
  /\ process \in {"down", "recovering", "up"}
  /\ wake \in BOOLEAN /\ rerun \in BOOLEAN
  /\ pending \subseteq Question /\ restored \subseteq Question
  /\ pc \in QuantumPcs /\ copy \in AgentState
  /\ answer \in [Clients -> AnswerState]
  /\ nextCall \in 1..MaxCalls + 1 /\ crashes \in 0..MaxCrashes

HistoryOK ==
  /\ answered \subseteq Calls /\ ended \subseteq Works
  /\ asked \in [Calls -> Nat]

\* Every variable has its type; a checkpoint names its tool call, a dead
\* process remembers nothing, and there is a decision to carry out whenever
\* the quantum is carrying one out.
TypeOK ==
  /\ FilesOK /\ ProcessOK /\ HistoryOK
  /\ state.control # "none" <=> state.call # None
  /\ process = "down" => pc = "idle" /\ ~wake /\ pending = {}
  /\ pc \in {"append", "ask", "askSave", "clear"} => copy.call # None

\* A tool call has at most one result, even when the process dies between the
\* append and the removal of the question and the answer is given again.
OneResultPerCall ==
  \A i, j \in DOMAIN session :
    session[i].type = "result" /\ session[i] = session[j] => i = j

\* The work an agent is on is open in the work index, although state and index
\* are different files, a quantum saves the state it loaded and submits come in
\* between: no crash lets a restart resume a work whose end is on record.
ActiveWorkIsOpen == state.work # None => workStatus[state.work] = "Running"

\* A WaitingUser agent whose question is gone goes on, through crashes and
\* whatever the quantum and the answer overwrite of each other's state.
AnsweredAgentResumes ==
  state.status = "WaitingUser" /\ question = NoQuestion
    ~> state.status # "WaitingUser" \/ question # NoQuestion

\* A decision that reached the state file is carried out sooner or later
\* (docs/development/2026-04-14-durable-agent-runtime.md:211-212), unless a
\* question on file holds it up.
DecisionIsApplied ==
  state.control # "none" ~> state.control = "none" \/ question # NoQuestion

\* session.rs:368-373: a pending Ask legitimately leaves its turn without a
\* result, and the repair would be incorrect meanwhile.  So the turn of a
\* question that can be answered is in the session.  Mail that came in during
\* the quantum makes the supervisor run the agent again, and that repairs.
AskTurnIsKept ==
  \A q \in pending :
    q = question /\ ~HasResult(session, q.call)
      => \E i \in DOMAIN session : session[i] = Call(q.call)

\* A call is asked again only because the process died: after the question was
\* saved and before the checkpoint was cleared.
AskedAgainOnlyAfterCrash == \A n \in Calls : asked[n] <= 1 + crashes

\* docs/...-durable-agent-runtime.md:211-212 and 229: a finished work becomes
\* finished in the index and its parent hears of it.  The checkpoint is cleared
\* with the active work, before either, and nothing recovers the rest.
FinishIsCompleted ==
  process = "up" /\ pc \notin {"terminal", "report"} =>
    \A w \in ended : workStatus[w] = "Finished" /\ w \in reported

\* A question on file can be answered, whoever was answered meanwhile.  (After a
\* crash it need not be: an agent that recovery resumed may ask before
\* RecoverDone replaces the list, and its question is lost from it.)
QuestionIsAnswerable ==
  process = "up" /\ question # NoQuestion /\ pc # "askSave" /\ crashes = 0
    => question \in pending
=============================================================================
