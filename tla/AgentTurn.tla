------------------------------ MODULE AgentTurn ------------------------------
(***************************************************************************)
(* A run of the model (crates/sa-core/src/agent.rs): one quantum of a      *)
(* durable agent, which replays the session, appends the mail, compacts,   *)
(* calls the model once and executes the tool calls of its answer; or a    *)
(* task without session (dream, sub-agents of the runner), which does so   *)
(* step after step.                                                        *)
(*                                                                         *)
(* The session log is a conversation here (SessionLog has its files), and  *)
(* what the hub does around a quantum is the mailbox offset it moves. What *)
(* the model answers, what tools give and whether a call fails are free.   *)
(* A retriable error of the summariser changes nothing: that call is tried *)
(* again for ever. Events, prompts, the review at a Finish and sessions of  *)
(* tasks, which no caller asks for, are left out.                          *)
(***************************************************************************)
EXTENDS Transcript

CONSTANTS
  Trigger, KeepRecent, MinMessages,   \* CompactionConfig
  MaxRetries, MaxConsecutive,         \* retry caps of AgentRunnerConfig
  WarnEvery, RemindEvery,             \* 7 and 10
  MaxMail, MaxRuns, MaxSteps          \* bounds: mail, quanta or tasks, steps of a task

ASSUME TurnAssumption ==
  /\ {Trigger, KeepRecent, MinMessages, MaxRetries, MaxConsecutive} \subseteq Nat
  /\ {WarnEvery, RemindEvery} \subseteq Nat \ {0}
  /\ {MaxMail, MaxRuns, MaxSteps} \subseteq Nat

VARIABLES
  mode,       \* "quantum" or "task", of the whole run
  at,         \* where the run is
  memory,     \* messages
  summary,    \* CompactionState: weight of the summary, 0 for none
  log,        \* the session: its messages and its summary
  mail, offset, taken,   \* mail posted, last_mailbox_offset, mail appended by this quantum
  calls,      \* tool calls of the turn that are still to execute
  model,      \* "main" or "fallback"
  exhausted,  \* history: models whose quota was exhausted during this request
  errors, retries,       \* model_error_count, total_retries
  step, lastTool,        \* of a task
  cancelled,  \* the cancel token
  compacted,  \* a pass of this compaction succeeded
  runs,       \* counter
  interposed, \* history: a message came between a turn's calls and their results
  digested    \* history: mail the summary of the log stands for

turnVars == <<mode, at, memory, summary, log, mail, offset, taken, calls, model, exhausted,
             errors, retries, step, lastTool, cancelled, compacted, runs, interposed, digested>>

Mail(i) == [User EXCEPT !.call = i]
Cap(n) == IF n > 1 THEN n ELSE 1
NewLog == [messages |-> <<>>, summary |-> 0]

TurnInit ==
  /\ mode \in {"quantum", "task"} /\ at = "idle"
  /\ memory = <<>> /\ summary = 0 /\ log = NewLog
  /\ mail = 0 /\ offset = 0 /\ taken = 0
  /\ calls = <<>> /\ model = "main" /\ exhausted = {}
  /\ errors = 0 /\ retries = 0 /\ step = 0 /\ lastTool = 0
  /\ cancelled = FALSE /\ compacted = FALSE /\ runs = 0
  /\ interposed = FALSE /\ digested = {}

postVars == <<mode, mail, runs>>
callVars == <<model, exhausted, errors, retries>>
stepVars == <<step, lastTool>>
noteVars == <<interposed, digested>>

\* append_message_and_persist, of several messages.
Says(messages) ==
  /\ memory' = memory \o messages
  /\ log' = IF mode = "quantum" THEN [log EXCEPT !.messages = @ \o messages] ELSE log

Silent == UNCHANGED <<memory, log>>

\* The run is over.  The hub moves past the mail unless the quantum failed of
\* itself (an error, and no interrupt).
Ends(ok) ==
  /\ at' = "idle" /\ calls' = <<>> /\ compacted' = FALSE
  /\ offset' = IF ok \/ cancelled THEN taken ELSE offset
  /\ UNCHANGED <<summary, taken, cancelled, postVars, callVars, stepVars>>

Fails == Ends(FALSE) /\ Silent /\ UNCHANGED noteVars

-----------------------------------------------------------------------------
(* Starting                                                                 *)

Post ==
  /\ mail < MaxMail /\ mail' = mail + 1
  /\ UNCHANGED <<mode, at, memory, summary, log, offset, taken, calls, callVars, stepVars,
                 cancelled, compacted, runs, noteVars>>

Interrupt ==
  /\ at # "idle" /\ ~cancelled /\ cancelled' = TRUE
  /\ UNCHANGED <<mode, at, memory, summary, log, mail, offset, taken, calls, callVars, stepVars,
                 compacted, runs, noteVars>>

Begins(messages, s, where) ==
  /\ at = "idle" /\ runs < MaxRuns /\ runs' = runs + 1
  /\ memory' = messages /\ summary' = s /\ at' = where
  /\ model' = "main" /\ exhausted' = {} /\ errors' = 0 /\ retries' = 0
  /\ step' = 0 /\ lastTool' = 0 /\ cancelled' = FALSE
  /\ UNCHANGED <<mode, mail, offset, calls, compacted, noteVars>>

\* run_quantum: the session is loaded, repaired if need be.
StartQuantum ==
  /\ mode = "quantum"
  /\ Begins(Sanitized(log.messages), log.summary, "mail")
  /\ log' = [log EXCEPT !.messages = Sanitized(@)]
  /\ taken' = offset

\* Mutant of TakeMail: mail is appended to what the model sees only.
TakeMailUnsaved ==
  /\ at = "mail"
  /\ IF taken < mail
     THEN /\ memory' = Append(memory, Mail(taken + 1)) /\ UNCHANGED log
          /\ taken' = taken + 1 /\ UNCHANGED at
     ELSE Silent /\ UNCHANGED taken /\ at' = "compact"
  /\ UNCHANGED <<summary, offset, calls, cancelled, compacted, postVars, callVars, stepVars,
                 noteVars>>

TakeMail ==
  /\ at = "mail"
  /\ IF taken < mail
     THEN Says(<<Mail(taken + 1)>>) /\ taken' = taken + 1 /\ UNCHANGED at
     ELSE Silent /\ UNCHANGED taken /\ at' = "compact"
  /\ UNCHANGED <<summary, offset, calls, cancelled, compacted, postVars, callVars, stepVars,
                 noteVars>>

\* run_task_inner without a session.
StartTask ==
  /\ mode = "task"
  /\ Begins(<<User>>, 0, "step")
  /\ UNCHANGED <<log, taken>>

\* The start of a step: files that stop or redirect the task, reminders.
Step ==
  LET now == step + 1
      due(n) == IF now % n = 0 THEN <<User>> ELSE <<>>
  IN /\ at = "step" /\ ~cancelled /\ now <= MaxSteps
     /\ \E intervene \in {<<>>, <<User>>} : Says(intervene \o due(WarnEvery) \o due(RemindEvery))
     /\ step' = now /\ at' = "compact"
     /\ UNCHANGED <<summary, offset, taken, calls, cancelled, compacted, postVars, callVars,
                    lastTool, noteVars>>

\* runtime/stop, or an interrupt.
StopTask == at = "step" /\ Fails

-----------------------------------------------------------------------------
(* maybe_compact_history                                                    *)

Plan == Prepared(memory, MinMessages, KeepRecent)

\* Small enough: what the passes left becomes a new segment.
CompactDone ==
  /\ at = "compact" /\ Tokens(summary, memory) < Trigger
  /\ IF compacted /\ mode = "quantum"
     THEN /\ log' = [messages |-> memory, summary |-> summary]
          /\ digested' = digested \cup {i \in 1..MaxMail : \E j \in 1..Len(log.messages) :
                                          log.messages[j] = Mail(i)}
     ELSE UNCHANGED <<log, digested>>
  /\ compacted' = FALSE /\ at' = "request"
  /\ UNCHANGED <<memory, summary, offset, taken, calls, cancelled, postVars, callVars, stepVars,
                 interposed>>

CompactStart ==
  /\ at = "compact" /\ Tokens(summary, memory) >= Trigger
  /\ Plan.ok
  /\ at' = "summarise"
  /\ UNCHANGED <<memory, summary, log, offset, taken, calls, cancelled, compacted, postVars,
                 callVars, stepVars, noteVars>>

CompactStuck == at = "compact" /\ Tokens(summary, memory) >= Trigger /\ ~Plan.ok /\ Fails

\* A pass: the older messages become a summary of some weight.  In a split turn
\* its first half is summarised by a second call.
Summarised ==
  \E weight \in 1..2 :
    /\ at = "summarise"
    /\ weight + Len(Plan.kept) < summary + Len(memory)
    /\ memory' = WithoutUsage(Plan.kept) /\ summary' = weight
    /\ compacted' = TRUE /\ at' = "compact"
    /\ UNCHANGED <<log, offset, taken, calls, cancelled, postVars, callVars, stepVars, noteVars>>

\* An error that is not retriable, an empty answer, an interrupt, no progress.
SummaryFails == at = "summarise" /\ Fails

-----------------------------------------------------------------------------
(* Calling the model                                                        *)

BuildRequest ==
  /\ at = "request" /\ ~cancelled
  /\ model' = "main" /\ exhausted' = {} /\ at' = "call"
  /\ UNCHANGED <<memory, summary, log, offset, taken, calls, cancelled, compacted, postVars,
                 errors, retries, stepVars, noteVars>>

\* An interrupt is looked for before every call.
RequestCancelled == at = "request" /\ cancelled /\ Fails

CallAgain(m, e) ==
  /\ at = "call" /\ ~cancelled
  /\ model' = m /\ errors' = e /\ retries' = retries + 1
  /\ UNCHANGED <<at, memory, summary, log, offset, taken, calls, cancelled, compacted, postVars,
                 stepVars, noteVars>>

\* Mutant of SwitchOnQuota: back and forth, and not counted.
SwitchOnQuotaForth ==
  /\ at = "call" /\ ~cancelled
  /\ model' = IF model = "main" THEN "fallback" ELSE "main"
  /\ exhausted' = exhausted \cup {model}
  /\ UNCHANGED <<at, memory, summary, log, offset, taken, calls, cancelled, compacted, postVars,
                 errors, retries, stepVars, noteVars>>

\* The quota of the model is exhausted: the fallback is called at once.
SwitchOnQuota ==
  /\ model # "fallback" /\ CallAgain("fallback", 0)
  /\ exhausted' = exhausted \cup {model}

\* Any other retriable error: the same model after a delay, or, after too many
\* in a row of a task, the fallback.
Retry ==
  /\ retries + 1 < Cap(MaxRetries)
  /\ ~(mode = "task" /\ errors + 1 >= Cap(MaxConsecutive) /\ model # "fallback")
  /\ CallAgain(model, errors + 1)
  /\ UNCHANGED exhausted

SwitchOnErrors ==
  /\ retries + 1 < Cap(MaxRetries)
  /\ mode = "task" /\ errors + 1 >= Cap(MaxConsecutive) /\ model # "fallback"
  /\ CallAgain("fallback", 0)
  /\ UNCHANGED exhausted

\* Not retriable, an interrupt, the quota of the fallback, the cap on retries.
\* (A deployment without fallback is one whose fallback fails so at once.)
CallFails == at = "call" /\ Fails

-----------------------------------------------------------------------------
(* The answer                                                               *)

\* The answer and the tokens the provider counted, if it did.
Answer(set) == {[Assistant(set) EXCEPT !.usage = u] : u \in {0, summary + Len(memory) + 1}}

\* (A token set while the model answers may be seen later.)  Text, or nothing at
\* all, which is not kept: the quantum is over.
AnswerText ==
  /\ at = "call" /\ mode = "quantum"
  /\ \E m \in {<<>>} \cup {<<a>> : a \in Answer({})} : Says(m)
  /\ Ends(TRUE)
  /\ UNCHANGED noteVars

\* A control call on its own; the hub takes it from here (ControlCheckpoint).
AnswerControl ==
  /\ at = "call" /\ mode = "quantum"
  /\ Ends(TRUE) /\ Silent /\ UNCHANGED noteVars

\* Tool calls: the turn begins.
AnswerCalls ==
  \E n \in 1..2 : \E a \in Answer(1..n) :
    /\ at = "call" /\ mode = "quantum"
    /\ Says(<<a>>)
    /\ calls' = [i \in 1..n |-> i]
    /\ at' = "tools"
    /\ UNCHANGED <<summary, offset, taken, cancelled, compacted, postVars, callVars, stepVars,
                   noteVars>>

\* A task: text without its summary tag is followed by a warning, and text
\* without calls by a prompt to go on, at most twice in a row.
AnswerTask ==
  \E n \in 0..2 : \E a \in Answer(1..n) : \E text, tagged \in BOOLEAN :
    LET said == IF text \/ n > 0 THEN <<a>> ELSE <<>>
        warned == IF text /\ ~tagged THEN <<User>> ELSE <<>>
        prompt == IF n = 0 /\ step - lastTool < 3 THEN <<User>> ELSE <<>>
    IN /\ at = "call" /\ mode = "task"
       /\ Says(said \o warned \o prompt)
       /\ interposed' = (interposed \/ (n > 0 /\ warned # <<>>))
       /\ errors' = 0 /\ calls' = [i \in 1..n |-> i]
       /\ lastTool' = IF n > 0 THEN step ELSE lastTool
       /\ at' = IF n > 0 THEN "tools" ELSE IF prompt # <<>> THEN "step" ELSE "idle"
       /\ UNCHANGED <<summary, offset, taken, cancelled, compacted, postVars, model, exhausted,
                      retries, step, digested>>

-----------------------------------------------------------------------------
(* Tools                                                                    *)

ToolGives(messages) ==
  /\ at = "tools" /\ calls # <<>>
  /\ Says(messages)
  /\ calls' = Tail(calls)
  /\ UNCHANGED <<at, summary, offset, taken, cancelled, compacted, postVars, callVars, stepVars,
                 digested>>

\* An observation, or the error as one.
ToolResultSaid == ToolGives(<<ToolResult(Head(calls))>>) /\ UNCHANGED interposed

\* An image is shown by a message of the user, after its result.
ToolImage ==
  /\ ToolGives(<<ToolResult(Head(calls)), User>>)
  /\ interposed' = (interposed \/ Len(calls) > 1)

\* Arguments that do not parse, a control call among others, an interrupt or a
\* Finish of a task.
ToolEndsRun == at = "tools" /\ calls # <<>> /\ Fails

TurnDone ==
  /\ at = "tools" /\ calls = <<>>
  /\ IF mode = "quantum" THEN Ends(TRUE)
     ELSE /\ at' = "step"
          /\ UNCHANGED <<summary, offset, taken, calls, cancelled, compacted, postVars, callVars,
                         stepVars>>
  /\ Silent /\ UNCHANGED noteVars

\* The process dies and starts again; a task is lost.
Crash ==
  /\ at # "idle"
  /\ at' = "idle" /\ memory' = <<>> /\ summary' = 0 /\ calls' = <<>> /\ compacted' = FALSE
  /\ UNCHANGED <<log, offset, taken, cancelled, postVars, callVars, stepVars, noteVars>>

Call == \/ SwitchOnQuota \/ Retry \/ SwitchOnErrors \/ CallFails
        \/ AnswerText \/ AnswerControl \/ AnswerCalls \/ AnswerTask
Tools == ToolResultSaid \/ ToolImage \/ ToolEndsRun \/ TurnDone

TurnNext ==
  \/ Post \/ Interrupt \/ StartQuantum \/ TakeMail \/ StartTask \/ Step \/ StopTask
  \/ CompactDone \/ CompactStart \/ CompactStuck \/ Summarised \/ SummaryFails
  \/ BuildRequest \/ RequestCancelled \/ Call \/ Tools \/ Crash

\* A quantum is a task of the runtime, the calls of the model and of tools end;
\* nothing is assumed of the summariser.
TurnFairness ==
  /\ WF_turnVars(TakeMail) /\ WF_turnVars(CompactDone) /\ WF_turnVars(CompactStart)
  /\ WF_turnVars(CompactStuck) /\ WF_turnVars(BuildRequest \/ RequestCancelled)
  /\ WF_turnVars(Call) /\ WF_turnVars(Tools)

TurnSpec == TurnInit /\ [][TurnNext]_turnVars /\ TurnFairness

-----------------------------------------------------------------------------
(* Every variable keeps its type.                                           *)
TurnTypeOK ==
  /\ mode \in {"quantum", "task"}
  /\ at \in {"idle", "mail", "step", "compact", "summarise", "request", "call", "tools"}
  /\ offset \in 0..taken /\ taken \in 0..mail /\ mail \in 0..MaxMail
  /\ model \in {"main", "fallback"} /\ exhausted \subseteq {"main", "fallback"}
  /\ retries \in 0..Cap(MaxRetries) + MaxSteps + 1 /\ errors \in 0..retries
  /\ step \in 0..MaxSteps /\ lastTool \in 0..step
  /\ cancelled \in BOOLEAN /\ compacted \in BOOLEAN /\ runs \in 0..MaxRuns
  /\ interposed \in BOOLEAN /\ digested \subseteq 1..MaxMail

\* Every request has the results of a turn right after its calls, one for each,
\* and no result without its call: through compaction, repair, crashes and
\* errors between two tools.  Excepted are conversations in which the code put
\* a user message among results (agent.rs 1321, 736).
RequestIsWellFormed ==
  at = "call" /\ ~interposed => WellFormed(Request(summary, memory))

\* Mail the hub will not deliver again is in the session or summarised there
\* (main.rs 2561, 2690; agent.rs 454).
MailIsKept ==
  \A i \in 1..offset :
    i \in digested \/ \E j \in 1..Len(log.messages) : log.messages[j] = Mail(i)

\* A quantum that calls the model comes to its end; only the summariser may keep
\* one waiting for ever.
QuantumEnds == mode = "quantum" /\ at \in {"call", "tools"} ~> at = "idle"
=============================================================================
