--------------------------- MODULE WaitDependency ---------------------------
(***************************************************************************)
(* Wait and whoever ends it (crates/sa/src/main.rs).                       *)
(*                                                                         *)
(* An agent may park on another agent becoming idle, on a work reaching    *)
(* its end or on a background task exiting, with or without a timeout.     *)
(* Applying the Wait first looks whether the dependency is satisfied and   *)
(* then saves the parked state; whoever satisfies a dependency first       *)
(* records that and then looks for agents parked on it.  Neither holds a   *)
(* lock.  The list of parked agents is read once and each of them is saved *)
(* as it was read.                                                         *)
(*                                                                         *)
(* Quanta of one agent are serial and a wake-up is never lost (AgentWake), *)
(* so a Boolean stands for it.  A load, a decision and a save that follow  *)
(* at once are one step, except where one of the races above needs them    *)
(* apart.  Abstracted: every agent has one work (its id stands for the     *)
(* work's); mail is what it does to wake-ups; the durable checkpoint of    *)
(* the Wait is ControlCheckpoint's subject.                                *)
(***************************************************************************)
EXTENDS Integers, Sequences, FiniteSets

CONSTANTS
  Agents, Tasks,  \* agent ids, ids of background tasks
  NoAgent,
  Client,         \* the thread that interrupts
  Parent,         \* parent_agent_id
  Owner,          \* owner_agent_id of the tasks
  MaxWaits, MaxInterrupts, MaxCrashes  \* bounds

ASSUME NoAgentAssumption == NoAgent \notin Agents
ASSUME ProcessesAssumption == Agents \cap Tasks = {} /\ Client \notin Agents \cup Tasks
ASSUME ParentAssumption == Parent \in [Agents -> Agents \cup {NoAgent}]
ASSUME OwnerAssumption == Owner \in [Tasks -> Agents]
ASSUME BoundsAssumption == {MaxWaits, MaxInterrupts, MaxCrashes} \subseteq Nat

Targets == ({"agent", "work"} \X Agents) \cup ({"task"} \X Tasks)
NoTarget == <<"none", NoAgent>>

\* WaitingDependency: timer stands for timeout_at, 0 when there is none.
Dependency == [on : Targets, timer : 0..MaxWaits]
NoDep == [on |-> NoTarget, timer |-> 0]

\* state.json: active says whether active_work_id is Some.
AgentState == [status : {"Idle", "Running", "WaitingDependency"},
               waiting_on : Dependency \cup {NoDep}, active : BOOLEAN]
Started == [status |-> "Idle", waiting_on |-> NoDep, active |-> TRUE]

Processes == Agents \cup Tasks \cup {Client}

\* What a process has to announce, and the parked agents it has read.
Announcement == [todo : Seq(Targets), listed : BOOLEAN,
                 left : SUBSET [agent : Agents, state : AgentState]]
Silent == [todo |-> <<>>, listed |-> FALSE, left |-> {}]
Announces(targets) == [Silent EXCEPT !.todo = targets]

VARIABLES
  state,       \* state.json of every agent
  work,        \* runtime/works: status of the agent's work
  task,        \* runtime/tasks: status
  wake,        \* a wake-up of the agent is in flight
  pc, copy, intent, \* quantum: where it is, the state it loaded, its Wait
  cancelled,   \* its CancelToken
  taskPc,      \* thread of a background task
  victim,      \* agent the client is interrupting
  announce,    \* wake_waiters_for_dependency, per process
  timers,      \* sleeping timeouts
  expired,     \* timeouts that have passed
  waits, interrupts, crashes \* counters

files == <<state, work, task>>
quanta == <<pc, copy, intent, cancelled>>
others == <<taskPc, victim>>
time == <<timers, expired>>
counters == <<waits, interrupts, crashes>>
vars == <<files, wake, quanta, others, announce, time, counters>>

Init ==
  /\ state = [a \in Agents |-> Started]
  /\ work = [a \in Agents |-> "Running"]
  /\ task = [t \in Tasks |-> "Running"]
  /\ wake = [a \in Agents |-> TRUE]
  /\ pc = [a \in Agents |-> "idle"]
  /\ copy = [a \in Agents |-> Started]
  /\ intent = [a \in Agents |-> NoDep]
  /\ cancelled = [a \in Agents |-> FALSE]
  /\ taskPc = [t \in Tasks |-> "running"]
  /\ victim = NoAgent
  /\ announce = [p \in Processes |-> Silent]
  /\ timers = {}
  /\ expired = {}
  /\ waits = 0 /\ interrupts = 0 /\ crashes = 0
-----------------------------------------------------------------------------
\* wait_satisfied_notice.
Ended(a) == work[a] \in {"Finished", "Cancelled"}
Reached(on) ==
  \/ on[1] = "agent" /\ state[on[2]].status = "Idle"
  \/ on[1] = "work" /\ Ended(on[2])
  \/ on[1] = "task" /\ task[on[2]] # "Running"
Satisfied(d) == d.timer \in expired \/ Reached(d.on)

Resumed(s) == [s EXCEPT !.status = "Idle", !.waiting_on = NoDep]

\* append_mailbox_message.
Mailed(a) == [wake EXCEPT ![a] = @ \/ state[a].status # "WaitingDependency"]

\* schedule_wait_timeout.
Scheduled(a, d) ==
  IF d.timer = 0 THEN timers ELSE timers \cup {[agent |-> a, dep |-> d]}
-----------------------------------------------------------------------------
(***************************************************************************)
(* wake_waiters_for_dependency, run by process p.                          *)
(***************************************************************************)
\* Mutant of Waiters: whoever waits, for whatever.
WaitersForAnything(on) ==
  {w \in [agent : Agents, state : {state[a] : a \in Agents}] :
     w.state = state[w.agent] /\ w.state.waiting_on # NoDep}

Waiters(on) ==
  {w \in [agent : Agents, state : {state[a] : a \in Agents}] :
     w.state = state[w.agent] /\ w.state.waiting_on.on = on}

\* list_agent_states.
ListWaiters(p) ==
  /\ announce[p].todo # <<>> /\ ~announce[p].listed
  /\ LET found == Waiters(Head(announce[p].todo)) IN
       announce' = [announce EXCEPT ![p] =
         IF found = {} THEN Announces(Tail(@.todo))
         ELSE [@ EXCEPT !.listed = TRUE, !.left = found]]
  /\ UNCHANGED <<files, wake, quanta, others, time, counters>>

\* What is left to announce once w is woken.
Rest(r, w) ==
  IF r.left = {w} THEN Announces(Tail(r.todo)) ELSE [r EXCEPT !.left = @ \ {w}]

\* One of them is saved as it was read, mailed and so woken.
WakeWaiter(p) ==
  /\ announce[p].listed
  /\ \E w \in announce[p].left :
       /\ state' = [state EXCEPT ![w.agent] = Resumed(w.state)]
       /\ wake' = [wake EXCEPT ![w.agent] = TRUE]
       /\ announce' = [announce EXCEPT ![p] = Rest(@, w)]
  /\ UNCHANGED <<work, task, quanta, others, time, counters>>

AnnounceStep(p) == ListWaiters(p) \/ WakeWaiter(p)
-----------------------------------------------------------------------------
(***************************************************************************)
(* execute_agent_quantum of agent a.                                       *)
(***************************************************************************)
QuantumGoes(a, to) == pc' = [pc EXCEPT ![a] = to]
SaveState(a, s) == state' = [state EXCEPT ![a] = s]

\* A parked agent looks again whether its dependency is satisfied.
Begin(a) ==
  LET s == state[a] IN
  /\ wake[a] /\ pc[a] = "idle"
  /\ \/ /\ s.status = "WaitingDependency" /\ ~Satisfied(s.waiting_on)
        /\ timers' = Scheduled(a, s.waiting_on)
        /\ wake' = [wake EXCEPT ![a] = FALSE]
        /\ UNCHANGED <<state, pc>>
     \/ /\ s.status = "WaitingDependency" /\ Satisfied(s.waiting_on)
        /\ SaveState(a, [Resumed(s) EXCEPT !.status = "Running"])
        /\ QuantumGoes(a, "run")
        /\ UNCHANGED <<wake, timers>>   \* its notice wakes the agent again
     \/ /\ s.status # "WaitingDependency"
        /\ wake' = [wake EXCEPT ![a] = FALSE]
        /\ IF s.active
           THEN SaveState(a, [s EXCEPT !.status = "Running"]) /\ QuantumGoes(a, "run")
           ELSE UNCHANGED <<state, pc>>
        /\ UNCHANGED timers
  /\ UNCHANGED <<work, task, copy, intent, cancelled, others, announce, expired, counters>>

\* run_quantum ends with Continue or an error.  An error, or a second reply
\* without a tool call, is not followed by another quantum.
Continue(a) ==
  /\ pc[a] = "run"
  /\ SaveState(a, [state[a] EXCEPT !.status = "Idle"])
  /\ \/ wake' = [wake EXCEPT ![a] = TRUE]
     \/ UNCHANGED wake
  /\ QuantumGoes(a, "idle")
  /\ cancelled' = [cancelled EXCEPT ![a] = FALSE]
  /\ UNCHANGED <<work, task, copy, intent, others, announce, time, counters>>

\* It ends because the token was cancelled.
Cancelled(a) ==
  /\ pc[a] = "run" /\ cancelled[a]
  /\ SaveState(a, [state[a] EXCEPT !.status = "Idle"])
  /\ QuantumGoes(a, "tell")
  /\ cancelled' = [cancelled EXCEPT ![a] = FALSE]
  /\ announce' = [announce EXCEPT ![a] = Announces(<<<<"agent", a>>>>)]
  /\ UNCHANGED <<work, task, wake, copy, intent, others, time, counters>>

\* It ends with a Wait: load the state, look, save.
Wait(a) ==
  /\ pc[a] = "run" /\ waits < MaxWaits
  /\ waits' = waits + 1
  /\ \E on \in Targets \ {<<"agent", a>>, <<"work", a>>}, timer \in {0, waits + 1} :
       intent' = [intent EXCEPT ![a] = [on |-> on, timer |-> timer]]
  /\ copy' = [copy EXCEPT ![a] = state[a]]
  /\ QuantumGoes(a, "check")
  /\ cancelled' = [cancelled EXCEPT ![a] = FALSE]
  /\ UNCHANGED <<files, wake, others, announce, time, interrupts, crashes>>

\* Satisfied: stay idle, append the notice, run again.
Check(a) ==
  /\ pc[a] = "check"
  /\ IF Satisfied(intent[a])
     THEN /\ SaveState(a, Resumed(copy[a]))
          /\ wake' = [wake EXCEPT ![a] = TRUE]
          /\ copy' = [copy EXCEPT ![a] = Started]
          /\ intent' = [intent EXCEPT ![a] = NoDep]
          /\ QuantumGoes(a, "idle")
     ELSE QuantumGoes(a, "park") /\ UNCHANGED <<state, wake, copy, intent>>
  /\ UNCHANGED <<work, task, cancelled, others, announce, time, counters>>

\* Mutant of Park: the timeout is not scheduled.
ParkUntimed(a) ==
  /\ pc[a] = "park"
  /\ SaveState(a, [copy[a] EXCEPT !.status = "WaitingDependency",
                                  !.waiting_on = intent[a]])
  /\ copy' = [copy EXCEPT ![a] = Started]
  /\ intent' = [intent EXCEPT ![a] = NoDep]
  /\ QuantumGoes(a, "idle")
  /\ UNCHANGED <<work, task, wake, cancelled, others, announce, time, counters>>

Park(a) ==
  /\ pc[a] = "park"
  /\ SaveState(a, [copy[a] EXCEPT !.status = "WaitingDependency",
                                  !.waiting_on = intent[a]])
  /\ timers' = Scheduled(a, intent[a])
  /\ copy' = [copy EXCEPT ![a] = Started]
  /\ intent' = [intent EXCEPT ![a] = NoDep]
  /\ QuantumGoes(a, "idle")
  /\ UNCHANGED <<work, task, wake, cancelled, others, announce, expired, counters>>

\* It ends with a Finish that counts: save the state, ...
Finish(a) ==
  /\ pc[a] = "run" /\ state[a].active
  /\ SaveState(a, [Resumed(state[a]) EXCEPT !.active = FALSE])
  /\ QuantumGoes(a, "record")
  /\ cancelled' = [cancelled EXCEPT ![a] = FALSE]
  /\ UNCHANGED <<work, task, wake, copy, intent, others, announce, time, counters>>

\* ... record the end of the work, ...
Record(a) ==
  /\ pc[a] = "record"
  /\ work' = [work EXCEPT ![a] = "Finished"]
  /\ QuantumGoes(a, "report")
  /\ UNCHANGED <<state, task, wake, copy, intent, cancelled, others, announce, time, counters>>

\* Mutant of Report: only those already parked are told.
ReportUnmailed(a) ==
  /\ pc[a] = "report"
  /\ announce' = [announce EXCEPT ![a] = Announces(<<<<"agent", a>>, <<"work", a>>>>)]
  /\ QuantumGoes(a, "tell")
  /\ UNCHANGED <<files, wake, copy, intent, cancelled, others, time, counters>>

\* ... tell the parent, and then whoever waits.
Report(a) ==
  /\ pc[a] = "report"
  /\ wake' = IF Parent[a] = NoAgent THEN wake ELSE Mailed(Parent[a])
  /\ announce' = [announce EXCEPT ![a] = Announces(<<<<"agent", a>>, <<"work", a>>>>)]
  /\ QuantumGoes(a, "tell")
  /\ UNCHANGED <<files, copy, intent, cancelled, others, time, counters>>

Told(a) ==
  /\ pc[a] = "tell" /\ announce[a].todo = <<>>
  /\ QuantumGoes(a, "idle")
  /\ UNCHANGED <<files, wake, copy, intent, cancelled, others, announce, time, counters>>

QuantumStep(a) ==
  \/ Begin(a) \/ Continue(a) \/ Cancelled(a) \/ Wait(a) \/ Check(a) \/ Park(a)
  \/ Finish(a) \/ Record(a) \/ Report(a) \/ Told(a)
  \/ AnnounceStep(a)
-----------------------------------------------------------------------------
(***************************************************************************)
(* The thread of a background task: record, mail the owner, announce.      *)
(***************************************************************************)
TaskOnly == UNCHANGED <<state, work, quanta, victim, time, counters>>

TaskExits(t) ==
  /\ taskPc[t] = "running"
  /\ task' = [task EXCEPT ![t] = "Exited"]
  /\ taskPc' = [taskPc EXCEPT ![t] = "mail"]
  /\ UNCHANGED <<wake, announce>>
  /\ TaskOnly

\* Mutant of MailOwner: only those already parked are told.
MailNobody(t) ==
  /\ taskPc[t] = "mail"
  /\ announce' = [announce EXCEPT ![t] = Announces(<<<<"task", t>>>>)]
  /\ taskPc' = [taskPc EXCEPT ![t] = "done"]
  /\ UNCHANGED <<task, wake>>
  /\ TaskOnly

MailOwner(t) ==
  /\ taskPc[t] = "mail"
  /\ wake' = Mailed(Owner[t])
  /\ announce' = [announce EXCEPT ![t] = Announces(<<<<"task", t>>>>)]
  /\ taskPc' = [taskPc EXCEPT ![t] = "done"]
  /\ UNCHANGED task
  /\ TaskOnly

TaskStep(t) == MailOwner(t) \/ AnnounceStep(t)
-----------------------------------------------------------------------------
(***************************************************************************)
(* request_interrupt: cancel the quantum, save the state, record, announce.*)
(***************************************************************************)
Interrupt(a) ==
  /\ victim = NoAgent /\ announce[Client].todo = <<>>
  /\ interrupts < MaxInterrupts
  /\ state[a].active
  /\ interrupts' = interrupts + 1
  /\ cancelled' = [cancelled EXCEPT ![a] = pc[a] = "run"]
  /\ SaveState(a, [Resumed(state[a]) EXCEPT !.active = FALSE])
  /\ victim' = a
  /\ UNCHANGED <<work, task, wake, pc, copy, intent, taskPc, announce, time, waits, crashes>>

RecordCancelled ==
  /\ victim # NoAgent
  /\ work' = [work EXCEPT ![victim] = "Cancelled"]
  /\ announce' = [announce EXCEPT ![Client] =
                    Announces(<<<<"agent", victim>>, <<"work", victim>>>>)]
  /\ victim' = NoAgent
  /\ UNCHANGED <<state, task, wake, quanta, taskPc, time, counters>>

ClientStep == RecordCancelled \/ AnnounceStep(Client)
-----------------------------------------------------------------------------
\* Time passes; handle_wait_timeout ends a wait only if it is still the one
\* the timer was set for.
Expire ==
  /\ \E n \in 1..waits \ expired : expired' = expired \cup {n}
  /\ UNCHANGED <<files, wake, quanta, others, announce, timers, counters>>

Timeout ==
  /\ \E r \in timers :
       /\ r.dep.timer \in expired
       /\ timers' = timers \ {r}
       /\ IF state[r.agent].waiting_on = r.dep
          THEN /\ SaveState(r.agent, Resumed(state[r.agent]))
               /\ wake' = [wake EXCEPT ![r.agent] = TRUE]
          ELSE UNCHANGED <<state, wake>>
  /\ UNCHANGED <<work, task, quanta, others, announce, expired, counters>>
-----------------------------------------------------------------------------
(***************************************************************************)
(* The process dies and recover_runtime starts from the files: a task that *)
(* was running is recorded as failed and announced; a parked agent whose   *)
(* dependency is satisfied goes on; other agents with work are resumed.    *)
(* Agents are recovered one after the other, so one parked on an agent may *)
(* be looked at before (not in later) or after that agent is set Idle.     *)
(***************************************************************************)
Crash ==
  /\ crashes < MaxCrashes
  /\ crashes' = crashes + 1
  /\ task' = [t \in Tasks |-> IF task[t] = "Running" THEN "Failed" ELSE task[t]]
  /\ \E later \in SUBSET Agents :
       LET goesOn(a) ==
             LET d == state[a].waiting_on IN
             IF state[a].status # "WaitingDependency" THEN state[a].active
             ELSE \/ Satisfied(d)
                  \/ d.on[1] = "task"
                  \/ /\ d.on[1] = "agent" /\ a \in later
                     /\ state[d.on[2]].status = "Running" /\ state[d.on[2]].active
       IN /\ state' = [a \in Agents |-> IF goesOn(a) THEN Resumed(state[a]) ELSE state[a]]
          /\ wake' = [a \in Agents |-> goesOn(a)]
          /\ timers' = {r \in [agent : Agents, dep : {state[a].waiting_on : a \in Agents}] :
                          /\ r.dep = state[r.agent].waiting_on
                          /\ r.dep.timer # 0 /\ ~goesOn(r.agent)}
  /\ pc' = [a \in Agents |-> "idle"]
  /\ copy' = [a \in Agents |-> Started]
  /\ intent' = [a \in Agents |-> NoDep]
  /\ cancelled' = [a \in Agents |-> FALSE]
  /\ taskPc' = [t \in Tasks |-> "done"]
  /\ victim' = NoAgent
  /\ announce' = [p \in Processes |-> Silent]
  /\ UNCHANGED <<work, expired, waits, interrupts>>
-----------------------------------------------------------------------------
Next ==
  \/ \E a \in Agents : QuantumStep(a) \/ Interrupt(a)
  \/ \E t \in Tasks : TaskExits(t) \/ TaskStep(t)
  \/ ClientStep
  \/ Expire \/ Timeout
  \/ Crash

\* Threads that can run do, and time passes; a task need not exit.
Fairness ==
  /\ \A a \in Agents : WF_vars(QuantumStep(a))
  /\ \A t \in Tasks : WF_vars(TaskStep(t))
  /\ WF_vars(ClientStep)
  /\ WF_vars(Expire) /\ WF_vars(Timeout)

Spec == Init /\ [][Next]_vars
FairSpec == Spec /\ Fairness
-----------------------------------------------------------------------------
\* Every variable has its type; waiting_on is Some exactly when the status is
\* WaitingDependency, whoever wrote the state file last; only the quantum that
\* applies a Wait remembers a state.
TypeOK ==
  /\ state \in [Agents -> AgentState]
  /\ work \in [Agents -> {"Running", "Finished", "Cancelled"}]
  /\ task \in [Tasks -> {"Running", "Exited", "Failed"}]
  /\ wake \in [Agents -> BOOLEAN] /\ cancelled \in [Agents -> BOOLEAN]
  /\ pc \in [Agents -> {"idle", "run", "check", "park", "record", "report", "tell"}]
  /\ copy \in [Agents -> AgentState]
  /\ intent \in [Agents -> Dependency \cup {NoDep}]
  /\ taskPc \in [Tasks -> {"running", "mail", "done"}]
  /\ victim \in Agents \cup {NoAgent}
  /\ announce \in [Processes -> Announcement]
  /\ timers \subseteq [agent : Agents, dep : Dependency]
  /\ expired \subseteq 1..MaxWaits
  /\ waits \in 0..MaxWaits /\ interrupts \in 0..MaxInterrupts /\ crashes \in 0..MaxCrashes
  /\ \A a \in Agents :
       /\ state[a].status = "WaitingDependency" <=> state[a].waiting_on # NoDep
       /\ intent[a] # NoDep <=> pc[a] \in {"check", "park"}

WaitsOn(a, on) == state[a].waiting_on.on = on

\* The owner of a background task that parks on it is not forgotten, although
\* the task may exit between the look and the park: its mail asks for another
\* quantum, and that looks again.
OwnTaskWaitEnds ==
  \A t \in Tasks :
    WaitsOn(Owner[t], <<"task", t>>) /\ task[t] # "Running"
      ~> ~WaitsOn(Owner[t], <<"task", t>>)

\* So it is with a parent that parks on the work of its child: ChildFinished
\* is mailed between the record and the announcement.
ChildFinishReachesParent ==
  \A a \in Agents :
    Parent[a] # NoAgent =>
      (WaitsOn(Parent[a], <<"work", a>>) /\ work[a] = "Finished"
         ~> ~WaitsOn(Parent[a], <<"work", a>>))

\* A wait with a timeout ends, whatever happens to its dependency, to the
\* process and to other waits.
TimedWaitEnds ==
  \A a \in Agents : \A n \in 1..MaxWaits :
    state[a].waiting_on.timer = n ~> state[a].waiting_on.timer # n

\* Somebody will still look at the parked agent a.
Attended(a) ==
  \/ wake[a]
  \/ \E p \in Processes :
       \/ \E w \in announce[p].left : w.agent = a
       \/ \E i \in DOMAIN announce[p].todo :
            announce[p].todo[i] = state[a].waiting_on.on /\ ~(i = 1 /\ announce[p].listed)
  \/ victim # NoAgent
  \/ \E b \in Agents : pc[b] \in {"record", "report", "tell"}
  \/ \E t \in Tasks : taskPc[t] = "mail"

\* docs/development/2026-04-14-durable-agent-runtime.md:148: the end of a
\* background task or of a work wakes its waiters.  One that looked before the
\* record and parked after the list was read is never woken.
EndWakesWaiters ==
  \A a \in Agents :
    LET d == state[a].waiting_on IN
    d # NoDep /\ d.timer = 0 /\ d.on[1] \in {"work", "task"} /\ Reached(d.on) => Attended(a)

\* An announcement that listed an earlier wait of agent a.
Misled(a) ==
  \E p \in Processes : \E w \in announce[p].left :
    w.agent = a /\ w.state.waiting_on # state[a].waiting_on

\* A process that saw agent x idle is waking those parked on it; x may be at
\* work again by now.
IdleAnnounced(on) ==
  on[1] = "agent" /\ \E p \in Processes : announce[p].listed /\ Head(announce[p].todo) = on

\* docs/...-durable-agent-runtime.md:187-188: only what really satisfies the
\* dependency ends a wait, or its timeout, an interrupt or a restart.  The
\* exceptions are an announcement whose list was read before the agent went on
\* and parked again, which saves the state it read, and one of an agent that was
\* idle and is so no more.  The end of a work or a task is always a real one.
OnlySatisfactionEndsWait ==
  [][\A a \in Agents :
       LET d == state[a].waiting_on IN
       d # NoDep /\ state'[a].waiting_on # d
         => \/ Reached(d.on) \/ d.timer \in expired
            \/ ~state'[a].active \/ crashes' # crashes
            \/ Misled(a) \/ IdleAnnounced(d.on)]_vars
=============================================================================
