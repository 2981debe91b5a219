------------------------------- MODULE HubWorks -------------------------------
(***************************************************************************)
(* Works and who they belong to (crates/sa/src/main.rs): submits and their *)
(* idempotence, the input owner, child works, interrupts, mail that names  *)
(* a work, the work index runtime/works and what a restart makes of it.    *)
(*                                                                         *)
(* A work is on record in runtime/works and active in the state file of an *)
(* agent.  A quantum of an agent loads the state, and after an await saves *)
(* it with the active work or the work its mail names; it runs the model   *)
(* and commits to the state as it is by then.  Submits, interrupts and     *)
(* other agents' tools change the same files meanwhile, and the process    *)
(* may die between any two steps.                                          *)
(*                                                                         *)
(* Quanta of one agent are serial and a wake-up is not lost (AgentWake),   *)
(* so a Boolean stands for it.  A step is what the code does between two   *)
(* awaits; threads that meet, or crashes, within such a stretch are the    *)
(* subject of AgentWake and ControlCheckpoint.  Ask and Wait are left out, *)
(* and so are the statuses Failed, Deleting and Deleted, which nothing     *)
(* sets.                                                                   *)
(***************************************************************************)
EXTENDS Integers, Sequences, FiniteSets

CONSTANTS
  Agents, Root,   \* agent ids, the root agent's
  Transferable,   \* agents created with allow_input_transfer_target
  Clients,        \* frontends that submit
  NoAgent,
  MaxSubmits,     \* bound: submit ids the clients use
  MaxWorks,       \* bound: work ids, submit ids among them
  MaxEvents,      \* bound: deliveries of submits, interrupts and crashes
  MaxTools,       \* bound: mail, orders and transfers of input by tools
  MaxDepth,       \* MAX_SUBAGENT_DEPTH
  MaxAgents       \* team.max_active_agents

ASSUME AgentsAssumption == Root \in Agents /\ NoAgent \notin Agents
                           /\ Transferable \subseteq Agents \ {Root}
ASSUME BoundsAssumption ==
  /\ {MaxSubmits, MaxWorks, MaxEvents, MaxTools, MaxDepth, MaxAgents} \subseteq Nat
  /\ MaxSubmits < MaxWorks

None == 0
Submits == 1..MaxSubmits
\* Ids of works: a submit id, the id of an ordered work, or the last one, which
\* stands for the works quanta make up for mail that names none.
Works == 1..MaxWorks
MadeUp == MaxWorks

\* One entry of a mailbox: the work it names, and for the report of a child
\* the work reported.
Entry == [kind : {"input", "report", "note"}, work : Works \cup {None},
          about : Works \cup {None}]
Input(w) == [kind |-> "input", work |-> w, about |-> None]
Note(w) == [kind |-> "note", work |-> w, about |-> None]
Report(w, about) == [kind |-> "report", work |-> w, about |-> about]

\* state.json.  heard is work_has_user_output of the root, of a child
\* work_has_parent_message; confirm says that a finish awaits confirmation.
AgentState == [parent : Agents \cup {NoAgent}, status : {"Idle", "Running"},
               active : Works \cup {None}, parentWork : Works \cup {None},
               heard : BOOLEAN, confirm : BOOLEAN, offset : Nat]
NoState == [parent |-> NoAgent, status |-> "none"]
NewState(parent) ==
  [parent |-> parent, status |-> "Idle", active |-> None, parentWork |-> None,
   heard |-> FALSE, confirm |-> FALSE, offset |-> 0]

\* Mutant of On: a work without a parent work keeps the last one's.
OnStale(s, w, parentWork) ==
  [s EXCEPT !.active = w, !.parentWork = IF parentWork = None THEN @ ELSE parentWork,
            !.heard = FALSE, !.confirm = FALSE]

\* A state with its work started, or without one.
On(s, w, parentWork) ==
  [s EXCEPT !.active = w, !.parentWork = parentWork, !.heard = FALSE, !.confirm = FALSE]
Off(s) == [On(s, None, None) EXCEPT !.status = "Idle"]

VARIABLES
  state,      \* state.json of every agent
  works,      \* runtime/works: status and owner
  mail,       \* mailbox.jsonl
  owner,      \* TeamState.input_owner_agent_id
  seen,       \* Hub::seen_tasks, in memory
  up,         \* the process lives
  wake,       \* a wake-up of the agent is in flight
  pc, copy,   \* execute_agent_quantum: where it is, the state it holds
  run,        \* RunningAgentExecution: its work, cancelled, and max_offset
  op,         \* per client, the submit that submit_task is about to accept
  interrupt,  \* request_interrupt: agents to cancel, and the task
  nextWork, events, tools,  \* counters
  ordered,    \* history: the work that ordered a child work
  given       \* history: submits a quantum has given to the model

files == <<state, works, mail, owner>>
quantum == <<wake, pc, copy, run>>
history == <<ordered, given>>
vars == <<state, works, mail, owner, seen, up, wake, pc, copy, run, op, interrupt,
          nextWork, events, tools, ordered, given>>

NoRecord == [status |-> "none", owner |-> NoAgent]
NoRun == [work |-> None, cancelled |-> FALSE, offset |-> 0]
NoInterrupt == [agents |-> {}, task |-> None]

Exists(a) == state[a] # NoState
Unread(a) == Len(mail[a]) > state[a].offset

\* One more event, one more tool call.
Event == events < MaxEvents /\ events' = events + 1
Tool == tools < MaxTools /\ tools' = tools + 1

Init ==
  /\ state = [a \in Agents |-> IF a = Root THEN NewState(NoAgent) ELSE NoState]
  /\ works = [w \in Works |-> NoRecord]
  /\ mail = [a \in Agents |-> <<>>]
  /\ owner = Root
  /\ seen = [s \in Submits |-> None]
  /\ up = TRUE
  /\ wake = [a \in Agents |-> FALSE]
  /\ pc = [a \in Agents |-> "idle"]
  /\ copy = [a \in Agents |-> NoState]
  /\ run = [a \in Agents |-> NoRun]
  /\ op = [c \in Clients |-> None]
  /\ interrupt = NoInterrupt
  /\ nextWork = MaxSubmits + 1
  /\ events = 0 /\ tools = 0
  /\ ordered = [w \in Works |-> None]
  /\ given = {}

\* append_mailbox_message to some agents: entries is a function from agents to
\* what they get.
Post(entries) ==
  /\ mail' = [a \in Agents |-> IF a \in DOMAIN entries THEN Append(mail[a], entries[a])
                               ELSE mail[a]]
  /\ wake' = [a \in Agents |-> wake[a] \/ a \in DOMAIN entries]

Save(a, s) == state' = [state EXCEPT ![a] = s]
Record(w, status, a) == works' = [works EXCEPT ![w] = [status |-> status, owner |-> a]]

-----------------------------------------------------------------------------
(* submit_task                                                              *)

\* A client delivers a submit, again perhaps; one seen before is answered.
Deliver(c, s) ==
  /\ up /\ op[c] = None /\ Event
  /\ IF seen[s] # None THEN UNCHANGED op
     ELSE op' = [op EXCEPT ![c] = s]
  /\ UNCHANGED <<files, seen, up, quantum, interrupt, nextWork, tools, history>>

CanHoldInput(a) == Exists(a) /\ (a = Root \/ a \in Transferable)

\* effective_input_owner; a new work is started for the owner, or the work it
\* is on goes on; the submit is remembered and mailed.
AcceptSubmit(c) ==
  LET s == op[c]
      a == IF CanHoldInput(owner) THEN owner ELSE Root
      w == IF state[a].active = None THEN s ELSE state[a].active
  IN /\ s # None
     /\ owner' = a
     /\ IF state[a].active = None
        THEN /\ Record(w, "Running", a)
             /\ Save(a, [On(state[a], w, None) EXCEPT !.status = "Idle"])
        ELSE UNCHANGED <<works, state>>
     /\ seen' = [seen EXCEPT ![s] = w]
     /\ Post([x \in {a} |-> Input(w)])
     /\ op' = [op EXCEPT ![c] = None]
     /\ UNCHANGED <<up, pc, copy, run, interrupt, nextWork, events, tools, history>>

-----------------------------------------------------------------------------
(* execute_agent_quantum                                                    *)

Begin(a) ==
  /\ up /\ wake[a] /\ pc[a] = "idle" /\ Exists(a)
  /\ wake' = [wake EXCEPT ![a] = FALSE]
  /\ pc' = [pc EXCEPT ![a] = "loaded"]
  /\ copy' = [copy EXCEPT ![a] = state[a]]
  /\ UNCHANGED <<files, seen, up, run, op, interrupt, nextWork, events, tools, history>>

BatchOf(a) == SubSeq(mail[a], copy[a].offset + 1, Len(mail[a]))

\* Nothing to do: still the state is saved as it was loaded.
GiveUp(a) ==
  /\ pc[a] = "loaded" /\ copy[a].active = None /\ BatchOf(a) = <<>>
  /\ Save(a, copy[a])
  /\ pc' = [pc EXCEPT ![a] = "idle"]
  /\ copy' = [copy EXCEPT ![a] = NoState]
  /\ UNCHANGED <<works, mail, owner, seen, up, wake, run, op, interrupt, nextWork, events,
                 tools, history>>

\* The first work the mail names, or one made up.
Adopted(batch) ==
  LET named == {i \in 1..Len(batch) : batch[i].work # None}
  IN IF named = {} THEN MadeUp
     ELSE batch[CHOOSE i \in named : \A j \in named : i <= j].work

\* The state as it was loaded is saved with a work, put on record whatever its
\* record says if the agent had none; the run is registered and the mail given
\* to the model.
StartRun(a) ==
  LET batch == BatchOf(a)
      s == IF copy[a].active # None THEN copy[a] ELSE On(copy[a], Adopted(batch), None)
  IN /\ pc[a] = "loaded" /\ (copy[a].active # None \/ batch # <<>>)
     /\ IF copy[a].active # None THEN UNCHANGED works ELSE Record(s.active, "Running", a)
     /\ Save(a, [s EXCEPT !.status = "Running"])
     /\ copy' = [copy EXCEPT ![a] = s]
     /\ run' = [run EXCEPT ![a] = [work |-> s.active, cancelled |-> FALSE,
                                   offset |-> Len(mail[a])]]
     /\ pc' = [pc EXCEPT ![a] = "run"]
     /\ given' = given \cup {batch[i].work : i \in {j \in 1..Len(batch) : batch[j].kind = "input"}}
     /\ UNCHANGED <<mail, owner, seen, up, wake, op, interrupt, nextWork, events, tools,
                    ordered>>

Back(a) ==
  /\ pc' = [pc EXCEPT ![a] = "idle"]
  /\ copy' = [copy EXCEPT ![a] = NoState]
  /\ run' = [run EXCEPT ![a] = NoRun]

\* run_quantum returned: the state is loaded again, moved past the mail, and
\* the outcome saved in it.
Reloaded(a) == [state[a] EXCEPT !.offset = run[a].offset]

\* A text, after which the agent goes on or not (the finish reminder decides).
Continue(a) ==
  /\ pc[a] = "run"
  /\ Save(a, [Reloaded(a) EXCEPT !.status = "Idle", !.confirm = FALSE])
  /\ wake' \in {wake, [wake EXCEPT ![a] = TRUE]}
  /\ Back(a)
  /\ UNCHANGED <<works, mail, owner, seen, up, op, interrupt, nextWork, events, tools,
                 history>>

\* A Finish that needs the user or the parent to have heard something first.
NeedsConfirmation(a, silently) ==
  /\ ~silently
  /\ ~state[a].heard
  /\ state[a].parent = NoAgent => owner = a

FinishUnconfirmed(a, silently) ==
  /\ pc[a] = "run" /\ state[a].active # None
  /\ NeedsConfirmation(a, silently)
  /\ Save(a, [Reloaded(a) EXCEPT !.status = "Idle", !.confirm = TRUE])
  /\ wake' = [wake EXCEPT ![a] = @ \/ ~copy[a].confirm]
  /\ Back(a)
  /\ UNCHANGED <<works, mail, owner, seen, up, op, interrupt, nextWork, events, tools, history>>

\* handle_finish_outcome ends the work the state file has by now; a parent is
\* told.
Finish(a, silently) ==
  LET s == state[a]
  IN /\ pc[a] = "run" /\ s.active # None
     /\ silently => copy[a].confirm /\ s.confirm
     /\ ~NeedsConfirmation(a, silently)
     /\ Save(a, Off(Reloaded(a)))
     /\ Record(s.active, "Finished", a)
     /\ Post([p \in {s.parent} \ {NoAgent} |-> Report(s.parentWork, s.active)])
     /\ Back(a)
     /\ UNCHANGED <<owner, seen, up, op, interrupt, nextWork, events, tools, history>>

\* A Finish without active work, or a confirmation nobody asked for, is an error.
RunFails(a) ==
  /\ pc[a] = "run"
  /\ IF run[a].cancelled
     THEN Save(a, [Reloaded(a) EXCEPT !.status = "Idle"])
     ELSE Save(a, [state[a] EXCEPT !.status = "Idle"])
  /\ Back(a)
  /\ UNCHANGED <<works, mail, owner, seen, up, wake, op, interrupt, nextWork, events, tools, history>>

-----------------------------------------------------------------------------
(* Tools of a run                                                           *)

\* The work a tool call came from has been heard of, if it is still active.
Heard(a) == IF state[a].active = run[a].work THEN Save(a, [state[a] EXCEPT !.heard = TRUE])
            ELSE UNCHANGED state

\* Send and ShowFile of the root.
MarkOutput(a) ==
  /\ pc[a] = "run" /\ copy[a].parent = NoAgent
  /\ Heard(a)
  /\ UNCHANGED <<works, mail, owner, seen, up, quantum, op, interrupt, nextWork,
                 events, tools, history>>

\* Mail by a tool; talk with the parent is remembered.
ToolMail(a, entries) ==
  /\ pc[a] = "run" /\ Tool
  /\ Post(entries)
  /\ IF state[a].parent \in DOMAIN entries THEN Heard(a) ELSE UNCHANGED state
  /\ UNCHANGED <<works, owner, seen, up, pc, copy, run, op, interrupt, nextWork,
                 events, history>>

\* NotifyParent names the parent's work of when the run began.
NotifyParent(a) ==
  copy[a].parent # NoAgent /\ ToolMail(a, [p \in {copy[a].parent} |-> Note(copy[a].parentWork)])

\* MessageAgent names the work that ordered the sender's, or the target's own.
MessageAgent(a, b) ==
  Exists(b) /\ ToolMail(a, [x \in {b} |-> Note(IF state[a].parent = b THEN state[a].parentWork
                                               ELSE state[b].active)])

Ancestors(b) ==
  LET up_[x \in Agents] == IF state[x].parent = NoAgent THEN {}
                           ELSE {state[x].parent} \cup up_[state[x].parent]
  IN up_[b]

\* resolve_agent_scope
Scope(a, scope) ==
  {b \in Agents \ {a} : Exists(b) /\
     CASE scope = "children" -> state[b].parent = a
       [] scope = "descendants" -> a \in Ancestors(b)
       [] scope = "siblings" -> state[a].parent # NoAgent /\ state[b].parent = state[a].parent
       [] OTHER -> TRUE}

BroadcastAgents(a, scope) ==
  ToolMail(a, [b \in Scope(a, scope) |-> Note(state[b].active)])

Depth(a) == Cardinality(Ancestors(a))

MayOrder(a, b) ==
  /\ Depth(a) + 1 <= MaxDepth
  /\ IF Exists(b) THEN /\ state[b].parent = a /\ state[b].status = "Idle"
                       /\ state[b].active = None /\ ~state[b].confirm
     ELSE Cardinality({x \in Agents : Exists(x)}) < MaxAgents

\* run_durable_subagent: a child work on a new child or an idle one of the
\* caller's.
OrderWork(a, b) ==
  /\ pc[a] = "run" /\ a # b /\ nextWork < MadeUp /\ MayOrder(a, b) /\ Tool
  /\ Record(nextWork, "Running", b)
  /\ Save(b, On(IF Exists(b) THEN state[b] ELSE NewState(a), nextWork, run[a].work))
  /\ Post([x \in {b} |-> Input(nextWork)])
  /\ ordered' = [ordered EXCEPT ![nextWork] = run[a].work]
  /\ nextWork' = nextWork + 1
  /\ UNCHANGED <<owner, seen, up, pc, copy, run, op, interrupt, events, given>>

\* set_input_owner: both agents get a notice for their active work, or for the
\* work that moved the input.
Notice(a, w) == Note(IF state[a].active = None THEN w ELSE state[a].active)

SetInputOwner(a, w) ==
  /\ owner' = a
  /\ IF owner = a THEN UNCHANGED <<mail, wake>>
     ELSE Post([b \in {x \in {owner, a} : Exists(x)} |-> Notice(b, w)])

TransferInput(a, b) ==
  /\ pc[a] = "run" /\ state[a].parent = NoAgent
  /\ b = a \/ (b \in Transferable /\ CanHoldInput(b))
  /\ Tool
  /\ SetInputOwner(b, run[a].work)
  /\ UNCHANGED <<state, works, seen, up, pc, copy, run, op, interrupt, nextWork,
                 events, history>>

-----------------------------------------------------------------------------
(* request_interrupt                                                        *)

Holders(w) == {a \in Agents : Exists(a) /\ state[a].active = w}

\* The agents on the work are found, the input goes back to the root if a
\* child held it and the work, and the runs are told to stop.
Interrupt(w) ==
  /\ up /\ interrupt = NoInterrupt /\ Holders(w) # {} /\ Event
  /\ interrupt' = [agents |-> Holders(w), task |-> w]
  /\ IF owner \in Holders(w) \ {Root} THEN SetInputOwner(Root, w)
     ELSE UNCHANGED <<owner, mail, wake>>
  /\ run' = [a \in Agents |-> IF a \in Holders(w) /\ pc[a] = "run"
                              THEN [run[a] EXCEPT !.cancelled = TRUE] ELSE run[a]]
  /\ UNCHANGED <<state, works, seen, up, pc, copy, op, nextWork, tools, history>>

\* cancel_active_work: whatever work the agent is on by now.
CancelWork(a) ==
  /\ a \in interrupt.agents
  /\ Save(a, [Off(state[a]) EXCEPT !.confirm = IF state[a].active = None THEN state[a].confirm
                                               ELSE FALSE])
  /\ IF state[a].active = None THEN UNCHANGED works
     ELSE Record(state[a].active, "Cancelled", a)
  /\ interrupt' = IF interrupt.agents = {a} THEN NoInterrupt
                  ELSE [interrupt EXCEPT !.agents = @ \ {a}]
  /\ UNCHANGED <<mail, owner, seen, up, quantum, op, nextWork, events, tools, history>>

-----------------------------------------------------------------------------
(* The process dies and starts again                                        *)

Crash ==
  /\ up /\ Event
  /\ up' = FALSE
  /\ seen' = [s \in Submits |-> None]
  /\ wake' = [a \in Agents |-> FALSE]
  /\ pc' = [a \in Agents |-> "idle"]
  /\ copy' = [a \in Agents |-> NoState]
  /\ run' = [a \in Agents |-> NoRun]
  /\ op' = [c \in Clients |-> None]
  /\ interrupt' = NoInterrupt
  /\ UNCHANGED <<files, nextWork, tools, history>>

\* Mutant of Resumes: only agents that were running go on.
ResumesRunning(a) == Exists(a) /\ state[a].status = "Running"

Resumes(a) == Exists(a) /\ (state[a].active # None \/ Unread(a) \/ state[a].confirm)

\* recover_runtime: active works without a record get one, agents with
\* something left to do are woken.
Recover ==
  /\ ~up
  /\ up' = TRUE
  /\ works' = [w \in Works |->
                 IF works[w] = NoRecord /\ Holders(w) # {}
                 THEN [status |-> "Running", owner |-> CHOOSE a \in Holders(w) : TRUE]
                 ELSE works[w]]
  /\ state' = [a \in Agents |-> IF Resumes(a) THEN [state[a] EXCEPT !.status = "Idle"]
                                ELSE state[a]]
  /\ wake' = [a \in Agents |-> Resumes(a)]
  /\ UNCHANGED <<mail, owner, seen, pc, copy, run, op, interrupt, nextWork, events, tools, history>>

-----------------------------------------------------------------------------
Outcome(a) ==
  \/ Continue(a)
  \/ \E silently \in BOOLEAN : FinishUnconfirmed(a, silently) \/ Finish(a, silently)
  \/ RunFails(a)

QuantumStep(a) ==
  \/ Begin(a) \/ GiveUp(a) \/ StartRun(a) \/ Outcome(a)

ToolCall(a) ==
  \/ MarkOutput(a) \/ NotifyParent(a)
  \/ \E scope \in {"children", "descendants", "siblings", "all"} : BroadcastAgents(a, scope)
  \/ \E b \in Agents : MessageAgent(a, b) \/ OrderWork(a, b) \/ TransferInput(a, b)

Next ==
  \/ \E c \in Clients : \/ \E s \in Submits : Deliver(c, s)
                        \/ AcceptSubmit(c)
  \/ \E a \in Agents : QuantumStep(a) \/ ToolCall(a) \/ CancelWork(a)
  \/ \E w \in Works : Interrupt(w)
  \/ Crash \/ Recover

Spec == Init /\ [][Next]_vars

\* The handlers and quanta are tokio tasks that run to their end; a restart
\* follows a crash.  No tool need be called and no client need act.
Fairness ==
  /\ \A c \in Clients : WF_vars(AcceptSubmit(c))
  /\ \A a \in Agents : WF_vars(QuantumStep(a))
  /\ WF_vars(Recover)
  /\ WF_vars(\E a \in Agents : CancelWork(a))

FairSpec == Spec /\ Fairness

-----------------------------------------------------------------------------
(* Every variable keeps its type.                                           *)
TypeOK ==
  /\ state \in [Agents -> AgentState \cup {NoState}]
  /\ works \in [Works -> [status : {"Running", "Finished", "Cancelled"}, owner : Agents]
                         \cup {NoRecord}]
  /\ mail \in [Agents -> Seq(Entry)]
  /\ owner \in Agents
  /\ seen \in [Submits -> Works \cup {None}]
  /\ up \in BOOLEAN
  /\ wake \in [Agents -> BOOLEAN]
  /\ pc \in [Agents -> {"idle", "loaded", "run"}]
  /\ copy \in [Agents -> AgentState \cup {NoState}]
  /\ run \in [Agents -> [work : Works \cup {None}, cancelled : BOOLEAN, offset : Nat]]
  /\ op \in [Clients -> Submits \cup {None}]
  /\ \A a \in Agents : pc[a] = "run" => run[a].work \in Works
  /\ interrupt \in [agents : SUBSET Agents, task : Works \cup {None}]
  /\ nextWork \in MaxSubmits + 1..MaxWorks
  /\ {events, tools} \subseteq Nat
  /\ ordered \in [Works -> Works \cup {None}]
  /\ given \subseteq Works \cup {None}

\* A child's report is mail for the work that ordered the work it reports, or
\* for no work in particular, and never for another work of the parent, through
\* reuse of the child, adopted works, interrupts and restarts (main.rs 2134;
\* the design note binds reports to parent_work_id for this reason).
ReportIsForItsOrder ==
  \A a \in Agents : \A i \in 1..Len(mail[a]) :
    mail[a][i].kind = "report" => mail[a][i].work \in {ordered[mail[a][i].about], None}

\* Mail of a submit that is in a mailbox is eventually given to the model, be
\* it after a crash: the wake-up or recover_runtime's look at unread mail sees
\* to it (main.rs 1225, 2349).
SubmitIsServed ==
  \A w \in Works \ {MadeUp} :
    (\E a \in Agents : \E i \in 1..Len(mail[a]) : mail[a][i] = Input(w)) ~> (w \in given)

\* A run that was told to stop finishes no other work: a submit that comes
\* while the work is being cancelled starts a work of its own "instead of being
\* attached to the doomed run" (main.rs 3533-3535).
DoomedRunLeavesOthers ==
  [][\A a \in Agents : \A silently \in BOOLEAN :
       run[a].cancelled /\ (FinishUnconfirmed(a, silently) \/ Finish(a, silently))
         => state[a].active = run[a].work]_vars
=============================================================================
