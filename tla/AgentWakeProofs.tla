--------------------------- MODULE AgentWakeProofs ---------------------------
(***************************************************************************)
(* Proofs about AgentWake for every set of agents, callers and tasks and   *)
(* every bound.  First type correctness, the exactness of                  *)
(* running_or_queued, that an agent has at most one wake-up in flight, and *)
(* that the wake-ups implement SerialExecutor; then that no mail is        *)
(* skipped, no wake-up for it is lost and nobody stays parked at a         *)
(* question that is gone.                                                  *)
(***************************************************************************)
EXTENDS AgentWake, TLAPS

\* The records the specification names are well typed.
LEMMA Records ==
  /\ Fresh \in AgentState
  /\ IdleCaller \in CallerState
  /\ FreeTask \in TaskState
BY NoAgentAssumption, BoundsAssumption
   DEF Fresh, AgentState, IdleCaller, CallerState, CallerPcs, FreeTask,
       TaskState, TaskPcs, Results, Status, Parked

\* Changing the status, the work or the offset of a state gives a state.
LEMMA StateUpdates ==
  ASSUME NEW s \in AgentState
  PROVE  /\ s.work \in BOOLEAN
         /\ [s EXCEPT !.status = "Idle"] \in AgentState
         /\ [s EXCEPT !.status = "Idle", !.work = FALSE] \in AgentState
         /\ [s EXCEPT !.status = "Running", !.work = TRUE] \in AgentState
         /\ [s EXCEPT !.status = "WaitingUser"] \in AgentState
         /\ [s EXCEPT !.status = "WaitingDependency"] \in AgentState
         /\ \A n \in 0..MaxMail : [s EXCEPT !.offset = n] \in AgentState
BY DEF AgentState, Status, Parked
-----------------------------------------------------------------------------
\* The four ways in which a caller's record changes.
LEMMA CallerTyped ==
  ASSUME CallersOK, NEW c \in Callers, NEW s \in CallerState,
         s.pc # "idle" => s.agent \in Agents,
         caller' = [caller EXCEPT ![c] = s]
  PROVE  CallersOK'
BY DEF CallersOK

\* A caller that begins an operation on an agent keeps the type.
LEMMA CallerBeginsTyped ==
  ASSUME CallersOK, NEW c \in Callers, NEW to \in CallerPcs, NEW a \in Agents,
         NEW s \in AgentState, NEW answers \in BOOLEAN,
         CallerBegins(c, to, a, s, answers)
  PROVE  CallersOK'
<1> DEFINE r == [pc |-> to, agent |-> a, copy |-> s, answers |-> answers]
<1>1. r \in CallerState /\ r.agent = a
  BY DEF CallerState
<1>2. caller' = [caller EXCEPT ![c] = r]
  BY DEF CallerBegins
<1> HIDE DEF r
<1>3. QED
  BY <1>1, <1>2, CallerTyped

\* So does one that goes on with a state it loaded.
LEMMA CallerLoadsTyped ==
  ASSUME CallersOK, NEW c \in Callers, caller[c].pc # "idle",
         NEW to \in CallerPcs, NEW s \in AgentState, CallerLoads(c, to, s)
  PROVE  CallersOK'
<1> DEFINE r == [caller[c] EXCEPT !.pc = to, !.copy = s]
<1>1. caller[c] \in CallerState /\ caller[c].agent \in Agents
  BY DEF CallersOK
<1>2. r \in CallerState /\ r.agent = caller[c].agent
  BY <1>1 DEF CallerState
<1>3. caller' = [caller EXCEPT ![c] = r]
  BY DEF CallerLoads
<1> HIDE DEF r
<1>4. QED
  BY <1>1, <1>2, <1>3, CallerTyped

\* So does one that only goes on.
LEMMA CallerGoesTyped ==
  ASSUME CallersOK, NEW c \in Callers, caller[c].pc # "idle",
         NEW to \in CallerPcs, CallerGoes(c, to)
  PROVE  CallersOK'
BY CallerLoadsTyped, Records DEF CallerGoes, CallerLoads

\* So does one that ends its operation.
LEMMA CallerEndsTyped ==
  ASSUME CallersOK, NEW c \in Callers, CallerEnds(c)
  PROVE  CallersOK'
<1>1. IdleCaller.pc = "idle"
  BY DEF IdleCaller
<1>2. QED
  BY <1>1, Records, CallerTyped DEF CallerEnds
-----------------------------------------------------------------------------
\* The ways in which a task's record changes.
LEMMA TaskTyped ==
  ASSUME TasksOK, NEW t \in Tasks, NEW s \in TaskState,
         s.pc # "free" => s.agent \in Agents,
         task' = [task EXCEPT ![t] = s]
  PROVE  TasksOK'
BY DEF TasksOK

\* A task that loads a state keeps the type.
LEMMA TaskLoadsTyped ==
  ASSUME TasksOK, NEW t \in Tasks, task[t].pc # "free",
         NEW to \in TaskPcs, NEW s \in AgentState, TaskLoads(t, to, s)
  PROVE  TasksOK'
<1> DEFINE r == [task[t] EXCEPT !.pc = to, !.copy = s]
<1>1. task[t] \in TaskState /\ task[t].agent \in Agents
  BY DEF TasksOK
<1>2. r \in TaskState /\ r.agent = task[t].agent
  BY <1>1 DEF TaskState
<1>3. task' = [task EXCEPT ![t] = r]
  BY DEF TaskLoads
<1> HIDE DEF r
<1>4. QED
  BY <1>1, <1>2, <1>3, TaskTyped

\* So does one that only goes on.
LEMMA TaskGoesTyped ==
  ASSUME TasksOK, NEW t \in Tasks, task[t].pc # "free",
         NEW to \in TaskPcs, TaskGoes(t, to)
  PROVE  TasksOK'
<1> DEFINE r == [task[t] EXCEPT !.pc = to]
<1>1. task[t] \in TaskState /\ task[t].agent \in Agents
  BY DEF TasksOK
<1>2. r \in TaskState /\ r.agent = task[t].agent
  BY <1>1 DEF TaskState
<1>3. task' = [task EXCEPT ![t] = r]
  BY DEF TaskGoes
<1> HIDE DEF r
<1>4. QED
  BY <1>1, <1>2, <1>3, TaskTyped

\* So does one whose quantum returns.
LEMMA TaskReturnsTyped ==
  ASSUME TasksOK, NEW t \in Tasks, task[t].pc # "free",
         NEW to \in TaskPcs, NEW rerun \in BOOLEAN, TaskReturns(t, to, rerun)
  PROVE  TasksOK'
<1> DEFINE r == [FreeTask EXCEPT !.pc = to, !.agent = task[t].agent,
                                 !.sem = task[t].sem, !.rerun = rerun]
<1>1. task[t].agent \in Agents /\ task[t].sem \in 0..MaxReloads
  BY DEF TasksOK, TaskState
<1>2. r \in TaskState /\ r.agent = task[t].agent
  BY <1>1, Records DEF TaskState
<1>3. task' = [task EXCEPT ![t] = r]
  BY DEF TaskReturns
<1> HIDE DEF r
<1>4. QED
  BY <1>1, <1>2, <1>3, TaskTyped

\* So does one that ends.
LEMMA TaskEndsTyped ==
  ASSUME TasksOK, NEW t \in Tasks, task' = [task EXCEPT ![t] = FreeTask]
  PROVE  TasksOK'
<1>1. FreeTask.pc = "free"
  BY DEF FreeTask
<1>2. QED
  BY <1>1, Records, TaskTyped
-----------------------------------------------------------------------------
\* A caller that starts an operation.
LEMMA CallerStartsTyped ==
  ASSUME TypeOK, NEW c \in Callers, CallerStarts(c)
  PROVE  TypeOK'
<1> PICK a \in Agents : Post(c, a) \/ Answer(c, a) \/ WaitOver(c, a) \/ Interrupt(c, a)
  BY DEF CallerStarts
<1>0. CallersOK /\ disk[a] \in AgentState /\ Fresh \in AgentState
  BY Records DEF TypeOK, FilesOK
<1>1. CASE Post(c, a)
  <2>1. CallersOK'
    BY <1>0, <1>1, CallerBeginsTyped DEF Post, CallerPcs
  <2>2. FilesOK'
    BY <1>1, BoundsAssumption DEF Post, AppendEntry, TypeOK, FilesOK, questions
  <2>3. QED
    BY <1>1, <2>1, <2>2
       DEF Post, TypeOK, SupervisorOK, TasksOK, HistoryOK, questions, wakeState, supervisor, history
<1>2. CASE Answer(c, a)
  <2>1. CallersOK'
    BY <1>0, <1>2, CallerBeginsTyped DEF Answer, CallerPcs
  <2>2. FilesOK'
    BY <1>2 DEF Answer, TypeOK, FilesOK
  <2>3. QED
    BY <1>2, <2>1, <2>2
       DEF Answer, TypeOK, SupervisorOK, TasksOK, HistoryOK, wakeState, supervisor, history
<1>3. CASE WaitOver(c, a)
  <2>1. CallersOK'
    BY <1>0, <1>3, CallerBeginsTyped DEF WaitOver, CallerPcs
  <2>2. QED
    BY <1>3, <2>1
       DEF WaitOver, TypeOK, FilesOK, SupervisorOK, TasksOK, HistoryOK, files, wakeState, supervisor, history
<1>4. CASE Interrupt(c, a)
  <2>1. CallersOK'
    BY <1>0, <1>4, CallerBeginsTyped DEF Interrupt, CallerPcs
  <2>2. TasksOK'
    <3>1. ASSUME NEW t \in Tasks
          PROVE /\ task'[t] \in TaskState
                /\ task'[t].pc # "free" => task'[t].agent \in Agents
      <4>1. task[t] \in TaskState /\ (task[t].pc # "free" => task[t].agent \in Agents)
        BY DEF TypeOK, TasksOK
      <4>2. /\ [task[t] EXCEPT !.cancelled = TRUE] \in TaskState
            /\ [task[t] EXCEPT !.cancelled = TRUE].agent = task[t].agent
            /\ [task[t] EXCEPT !.cancelled = TRUE].pc = task[t].pc
        BY <4>1 DEF TaskState
      <4>3. task'[t] = task[t] \/ task'[t] = [task[t] EXCEPT !.cancelled = TRUE]
        BY <1>4, Zenon DEF Interrupt
      <4>4. QED
        BY <4>1, <4>2, <4>3
    <3>2. task' = [t \in Tasks |-> task'[t]]
      BY <1>4, Zenon DEF Interrupt
    <3>3. QED
      BY <3>1, <3>2 DEF TasksOK
  <2>3. QED
    BY <1>4, <2>1, <2>2
       DEF Interrupt, TypeOK, FilesOK, SupervisorOK, HistoryOK, files, wakeState, supervisor, history
<1>5. QED
  BY <1>1, <1>2, <1>3, <1>4

\* A caller inside an operation.
LEMMA CallerStepTyped ==
  ASSUME TypeOK, NEW c \in Callers, CallerStep(c)
  PROVE  TypeOK'
<1>0. ASSUME caller[c].pc # "idle"
      PROVE  /\ CallersOK /\ caller[c].agent \in Agents
             /\ caller[c].copy \in AgentState /\ disk[caller[c].agent] \in AgentState
  BY <1>0 DEF TypeOK, FilesOK, CallersOK, CallerState
<1>1. CASE CheckTarget(c)
  <2>1. CallersOK'
    BY <1>0, <1>1, CallerGoesTyped, CallerEndsTyped DEF CheckTarget, CallerPcs
  <2>2. QED
    BY <1>1, <2>1 DEF CheckTarget, TypeOK, FilesOK, SupervisorOK, TasksOK, HistoryOK,
                      files, wakeState, supervisor, history
<1>2. ASSUME caller[c].pc # "idle", AfterWake(c) PROVE CallersOK'
  BY <1>0, <1>2, CallerGoesTyped, CallerEndsTyped DEF AfterWake, CallerPcs
<1>3. CASE ClaimWake(c)
  <2>1. CallersOK'
    BY <1>0, <1>2, <1>3, CallerGoesTyped DEF ClaimWake, CallerPcs
  <2>2. running_or_queued' \in [Agents -> BOOLEAN] /\ rerun_requested' \in [Agents -> BOOLEAN]
    BY <1>0, <1>3 DEF ClaimWake, TypeOK, SupervisorOK
  <2>3. QED
    BY <1>3, <2>1, <2>2 DEF ClaimWake, TypeOK, FilesOK, SupervisorOK, TasksOK, HistoryOK,
                            files, supervisor, history
<1>4. CASE SendWake(c)
  <2>1. CallersOK'
    BY <1>2, <1>4 DEF SendWake
  <2>2. wakeQueue' \in Seq(Agents)
    BY <1>0, <1>4 DEF SendWake, TypeOK, SupervisorOK
  <2>3. QED
    BY <1>4, <2>1, <2>2 DEF SendWake, TypeOK, FilesOK, SupervisorOK, TasksOK, HistoryOK,
                            files, wakeState, supervisor, history
<1>5. CASE ResumeLoad(c)
  <2>1. CallersOK'
    BY <1>0, <1>5, CallerLoadsTyped DEF ResumeLoad, CallerPcs
  <2>2. QED
    BY <1>5, <2>1, SMTT(30) DEF ResumeLoad, TypeOK, FilesOK, SupervisorOK, TasksOK, HistoryOK,
                      files, wakeState, supervisor, history
<1>6. CASE ResumeSave(c)
  <2>1. CallersOK'
    BY <1>0, <1>6, CallerGoesTyped DEF ResumeSave, CallerPcs
  <2>2. FilesOK'
    BY <1>0, <1>6, StateUpdates DEF ResumeSave, SaveState, TypeOK, FilesOK, questions
  <2>3. QED
    BY <1>6, <2>1, <2>2 DEF ResumeSave, TypeOK, SupervisorOK, TasksOK, HistoryOK,
                            questions, wakeState, supervisor, history
<1>7. CASE ForgetQuestion(c)
  <2>1. CallersOK'
    BY <1>0, <1>7, CallerEndsTyped DEF ForgetQuestion
  <2>2. QED
    BY <1>0, <1>7, <2>1, SMTT(30) DEF ForgetQuestion, TypeOK, FilesOK, SupervisorOK, TasksOK, HistoryOK,
                            files, wakeState, supervisor, history
<1>8. CASE OverSave(c)
  <2>1. CallersOK'
    BY <1>0, <1>8, CallerGoesTyped DEF OverSave, CallerPcs
  <2>2. FilesOK'
    BY <1>0, <1>8, StateUpdates DEF OverSave, SaveState, TypeOK, FilesOK, questions
  <2>3. QED
    BY <1>8, <2>1, <2>2 DEF OverSave, TypeOK, SupervisorOK, TasksOK, HistoryOK,
                            questions, wakeState, supervisor, history
<1>9. CASE Notify(c)
  <2>1. CallersOK'
    BY <1>0, <1>9, CallerGoesTyped DEF Notify, CallerPcs
  <2>2. FilesOK'
    BY <1>0, <1>9, BoundsAssumption DEF Notify, AppendNotice, AppendEntry, TypeOK, FilesOK, questions
  <2>3. QED
    BY <1>9, <2>1, <2>2 DEF Notify, TypeOK, SupervisorOK, TasksOK, HistoryOK,
                            questions, wakeState, supervisor, history
<1>10. CASE CancelLoad(c)
  <2>1. CallersOK'
    BY <1>0, <1>10, CallerLoadsTyped DEF CancelLoad, CallerPcs
  <2>2. QED
    BY <1>10, <2>1 DEF CancelLoad, TypeOK, FilesOK, SupervisorOK, TasksOK, HistoryOK,
                       files, wakeState, supervisor, history
<1>11. CASE CancelSave(c)
  <2>1. CallersOK'
    BY <1>0, <1>11, CallerEndsTyped DEF CancelSave
  <2>2. disk' \in [Agents -> AgentState]
    BY <1>0, <1>11, StateUpdates DEF CancelSave, SaveState, TypeOK, FilesOK
  <2>3. question' \in [Agents -> BOOLEAN] /\ asking' \in [Agents -> BOOLEAN]
    BY <1>0, <1>11, StateUpdates DEF CancelSave, TypeOK, FilesOK, SupervisorOK
  <2>4. abandoned' \in [Agents -> {"no", "failed", "interrupted"}]
    BY <1>11 DEF CancelSave, TypeOK, HistoryOK
  <2>5. QED
    BY <1>11, <2>1, <2>2, <2>3, <2>4, SMTT(30) DEF CancelSave, TypeOK, FilesOK, SupervisorOK,
                            TasksOK, HistoryOK, wakeState, supervisor
<1>12. QED
  BY <1>1, <1>3, <1>4, <1>5, <1>6, <1>7, <1>8, <1>9, <1>10, <1>11 DEF CallerStep
\* The supervisor hands an agent to a task.
LEMMA SpawnTyped ==
  ASSUME TypeOK, NEW t \in Tasks, Spawn(t)
  PROVE  TypeOK'
<1> DEFINE r == [task[t] EXCEPT !.pc = "load", !.agent = held, !.sem = heldSem]
<1>1. task[t] \in TaskState /\ held \in Agents /\ heldSem \in 0..MaxReloads
  BY DEF Spawn, TypeOK, TasksOK, SupervisorOK
<1>2. r \in TaskState /\ r.agent = held
  BY <1>1 DEF TaskState, TaskPcs
<1>3. task' = [task EXCEPT ![t] = r]
  BY DEF Spawn
<1> HIDE DEF r
<1>4. TasksOK'
  BY <1>1, <1>2, <1>3, TaskTyped DEF TypeOK
<1>5. QED
  BY <1>4 DEF Spawn, TypeOK, FilesOK, SupervisorOK, CallersOK, HistoryOK,
              files, wakeState, history

\* What a quantum saves when it ends, and where it goes.
LEMMA CommitShape ==
  ASSUME TypeOK, NEW t \in Tasks, QuantumCommit(t)
  PROVE  \E s \in AgentState, to \in {"settle", "finish"}, rerun \in BOOLEAN :
            Commit(t, s, to, rerun)
<1>0. task[t].copy \in AgentState /\ task[t].upto \in 0..MaxMail
  BY DEF QuantumCommit, TypeOK, TasksOK, TaskState
<1>1. Consumed(t) \in AgentState
  BY <1>0, StateUpdates DEF Consumed
<1>2. CASE CommitContinue(t)
  BY <1>1, <1>2, StateUpdates DEF CommitContinue
<1>3. CASE CommitAsk(t)
  BY <1>1, <1>3, StateUpdates DEF CommitAsk
<1>4. CASE CommitWait(t)
  BY <1>1, <1>4, StateUpdates DEF CommitWait
<1>5. CASE CommitFinish(t)
  BY <1>1, <1>5, StateUpdates DEF CommitFinish
<1>6. CASE CommitCancelled(t)
  BY <1>1, <1>6, StateUpdates DEF CommitCancelled
<1>7. CASE CommitError(t)
  BY <1>0, <1>7, StateUpdates DEF CommitError
<1>8. QED
  BY <1>2, <1>3, <1>4, <1>5, <1>6, <1>7 DEF QuantumCommit

\* A step of a spawned task.
LEMMA TaskStepTyped ==
  ASSUME TypeOK, NEW t \in Tasks, TaskStep(t)
  PROVE  TypeOK'
<1>0. ASSUME task[t].pc # "free"
      PROVE  /\ TasksOK /\ task[t].agent \in Agents /\ task[t] \in TaskState
             /\ task[t].copy \in AgentState /\ disk[task[t].agent] \in AgentState
             /\ task[t].upto \in 0..MaxMail /\ task[t].rerun \in BOOLEAN
  BY <1>0 DEF TypeOK, FilesOK, TasksOK, TaskState
<1>1. CASE QuantumLoad(t)
  <2>1. TasksOK'
    BY <1>0, <1>1, TaskLoadsTyped DEF QuantumLoad, TaskPcs
  <2>2. QED
    BY <1>1, <2>1 DEF QuantumLoad, TypeOK, FilesOK, SupervisorOK, CallersOK, HistoryOK,
                      files, wakeState, supervisor, history
<1>2. CASE QuantumSave(t)
  <2>1. TasksOK'
    BY <1>0, <1>2, TaskGoesTyped DEF QuantumSave, TaskPcs
  <2>2. FilesOK'
    BY <1>0, <1>2 DEF QuantumSave, SaveState, TypeOK, FilesOK, questions
  <2>3. QED
    BY <1>2, <2>1, <2>2 DEF QuantumSave, TypeOK, SupervisorOK, CallersOK, HistoryOK,
                            questions, wakeState, supervisor, history
<1>3. CASE QuantumExamine(t)
  <2>1. task[t].pc # "free"
    BY <1>3 DEF QuantumExamine
  <2>2. GiveUp(t) => TasksOK'
    BY <1>0, <2>1, TaskReturnsTyped DEF GiveUp, TaskPcs
  <2>3. ASSUME NEW to \in TaskPcs, Unpark(t, to)
        PROVE  TasksOK' /\ disk' \in [Agents -> AgentState]
    BY <1>0, <2>1, <2>3, StateUpdates, TaskLoadsTyped
       DEF Unpark, SaveState, TypeOK, FilesOK
  <2>4. TaskGoes(t, "read") => TasksOK'
    BY <1>0, <2>1, TaskGoesTyped DEF TaskPcs
  <2>5. TasksOK' /\ disk' \in [Agents -> AgentState]
    BY <1>3, <2>2, <2>3, <2>4 DEF QuantumExamine, TaskPcs, TypeOK, FilesOK
  <2>6. mailbox' \in [Agents -> 0..MaxMail]
    BY <1>0, <1>3, <2>1, BoundsAssumption
       DEF QuantumExamine, AppendNotice, AppendEntry, TypeOK, FilesOK
  <2>7. QED
    BY <1>3, <2>5, <2>6 DEF QuantumExamine, TypeOK, FilesOK, SupervisorOK, CallersOK,
                            HistoryOK, questions, wakeState, supervisor, history
<1>4. ASSUME NEW from \in TaskPcs \ {"free"}, NEW to \in TaskPcs, SelfWake(t, from, to)
      PROVE  TypeOK'
  <2>1. TasksOK'
    BY <1>0, <1>4, TaskGoesTyped DEF SelfWake
  <2>2. rerun_requested' \in [Agents -> BOOLEAN]
    BY <1>0, <1>4 DEF SelfWake, TypeOK, SupervisorOK
  <2>3. QED
    BY <1>4, <2>1, <2>2 DEF SelfWake, TypeOK, FilesOK, SupervisorOK, CallersOK, HistoryOK,
                            files, supervisor, history
<1>5. CASE QuantumRead(t)
  <2>1. task[t].pc # "free"
    BY <1>5 DEF QuantumRead
  <2>2. mailbox[task[t].agent] \in 0..MaxMail
    BY <1>0, <2>1 DEF TypeOK, FilesOK
  <2>3. TasksOK'
    <3>1. CASE GiveUp(t)
      BY <1>0, <2>1, <3>1, TaskReturnsTyped DEF GiveUp, TaskPcs
    <3>2. CASE ~GiveUp(t)
      <4> DEFINE r == [task[t] EXCEPT !.pc = "running", !.copy = Fresh,
                                      !.upto = mailbox[task[t].agent]]
      <4>1. r \in TaskState /\ r.agent = task[t].agent
        BY <1>0, <2>1, <2>2, Records DEF TaskState, TaskPcs
      <4>2. task' = [task EXCEPT ![t] = r]
        BY <1>5, <3>2 DEF QuantumRead
      <4> HIDE DEF r
      <4>3. QED
        BY <1>0, <2>1, <4>1, <4>2, TaskTyped
    <3>3. QED
      BY <3>1, <3>2
  <2>4. disk' \in [Agents -> AgentState]
    BY <1>0, <1>5, <2>1, StateUpdates DEF QuantumRead, SaveState, TypeOK, FilesOK
  <2>5. abandoned' \in [Agents -> {"no", "failed", "interrupted"}]
    BY <1>5 DEF QuantumRead, TypeOK, HistoryOK
  <2>6. QED
    BY <1>5, <2>3, <2>4, <2>5 DEF QuantumRead, TypeOK, FilesOK, SupervisorOK, CallersOK,
                            HistoryOK, questions, wakeState, supervisor
<1>6. CASE QuantumReturns(t)
  <2>1. task[t].pc # "free"
    BY <1>6 DEF QuantumReturns
  <2>2. TasksOK'
    <3>1. PICK r \in Results :
            task' = [task EXCEPT ![t] = [@ EXCEPT !.pc = "commit", !.result = r,
                                                  !.copy = disk[task[t].agent]]]
      BY <1>6 DEF QuantumReturns
    <3> DEFINE s == [task[t] EXCEPT !.pc = "commit", !.result = r,
                                    !.copy = disk[task[t].agent]]
    <3>2. s \in TaskState /\ s.agent = task[t].agent
      BY <1>0, <2>1 DEF TaskState, TaskPcs
    <3>3. task' = [task EXCEPT ![t] = s]
      BY <3>1
    <3> HIDE DEF s
    <3>4. QED
      BY <1>0, <2>1, <3>2, <3>3, TaskTyped
  <2>3. QED
    BY <1>6, <2>2 DEF QuantumReturns, TypeOK, FilesOK, SupervisorOK, CallersOK, HistoryOK,
                      files, wakeState, supervisor, history
<1>7. CASE QuantumCommit(t)
  <2>1. task[t].pc # "free"
    BY <1>7 DEF QuantumCommit
  <2>2. PICK s \in AgentState, to \in {"settle", "finish"}, rerun \in BOOLEAN :
          Commit(t, s, to, rerun)
    BY <1>7, CommitShape
  <2>3. TasksOK'
    BY <1>0, <2>1, <2>2, TaskReturnsTyped DEF Commit, TaskPcs
  <2>4. disk' \in [Agents -> AgentState]
    BY <2>2 DEF Commit, SaveState, TypeOK, FilesOK
  <2>5. mailbox' \in [Agents -> 0..MaxMail]
    <3>1. mailbox' = mailbox \/ AppendEntry(task[t].agent)
      BY <1>7 DEF QuantumCommit, CommitContinue, CommitAsk, CommitWait, CommitFinish,
                  CommitCancelled, CommitError, AppendNotice, questions
    <3>2. QED
      BY <1>0, <2>1, <3>1, BoundsAssumption DEF AppendEntry, TypeOK, FilesOK
  <2>6. question' \in [Agents -> BOOLEAN] /\ asking' \in [Agents -> BOOLEAN]
    <3>1. CASE UNCHANGED questions
      BY <3>1 DEF questions, TypeOK, FilesOK, SupervisorOK
    <3>2. CASE CommitAsk(t) /\ ~UNCHANGED questions
      BY <3>2 DEF CommitAsk, TypeOK, FilesOK, SupervisorOK
    <3>3. CASE CommitFinish(t)
      BY <3>3 DEF CommitFinish, TypeOK, FilesOK, SupervisorOK
    <3>4. QED
      BY <1>7, <3>1, <3>2, <3>3 DEF QuantumCommit, CommitContinue, CommitWait,
                                    CommitCancelled, CommitError, questions
  <2>7. HistoryOK'
    BY <1>0, <1>7, <2>1 DEF QuantumCommit, TypeOK, HistoryOK
  <2>8. QED
    BY <1>7, <2>3, <2>4, <2>5, <2>6, <2>7
       DEF QuantumCommit, TypeOK, FilesOK, SupervisorOK, CallersOK, wakeState, supervisor
<1>8. CASE FinishCycle(t)
  <2>1. TasksOK'
    BY <1>0, <1>8, TaskGoesTyped, TaskEndsTyped DEF FinishCycle, TaskPcs
  <2>2. running_or_queued' \in [Agents -> BOOLEAN] /\ rerun_requested' \in [Agents -> BOOLEAN]
    BY <1>0, <1>8 DEF FinishCycle, TypeOK, SupervisorOK
  <2>3. QED
    BY <1>8, <2>1, <2>2 DEF FinishCycle, TypeOK, FilesOK, SupervisorOK, CallersOK, HistoryOK,
                            files, supervisor, history
<1>9. CASE Resend(t)
  <2>1. TasksOK'
    BY <1>0, <1>9, TaskEndsTyped DEF Resend
  <2>2. wakeQueue' \in Seq(Agents)
    BY <1>0, <1>9 DEF Resend, TypeOK, SupervisorOK
  <2>3. QED
    BY <1>9, <2>1, <2>2 DEF Resend, TypeOK, FilesOK, SupervisorOK, CallersOK, HistoryOK,
                            files, wakeState, supervisor, history
<1>10. QED
  BY <1>1, <1>2, <1>3, <1>4, <1>5, <1>6, <1>7, <1>8, <1>9 DEF TaskStep, TaskPcs
-----------------------------------------------------------------------------
\* The initial state is well typed.
LEMMA InitTyped == Init => TypeOK
BY Records, BoundsAssumption
   DEF Init, TypeOK, FilesOK, SupervisorOK, CallersOK, TasksOK, HistoryOK, IdleCaller, FreeTask

\* Every step keeps the type.
LEMMA NextTyped == TypeOK /\ [Next]_vars => TypeOK'
<1> SUFFICES ASSUME TypeOK, [Next]_vars PROVE TypeOK'
  OBVIOUS
<1>1. CASE Receive
  <2>1. Head(wakeQueue) \in Agents /\ Tail(wakeQueue) \in Seq(Agents)
    BY <1>1 DEF Receive, TypeOK, SupervisorOK
  <2>2. QED
    BY <1>1, <2>1 DEF Receive, TypeOK, FilesOK, SupervisorOK, CallersOK, TasksOK, HistoryOK,
                      files, wakeState, history
<1>2. CASE Reload
  BY <1>2, BoundsAssumption DEF Reload, TypeOK, FilesOK, SupervisorOK, CallersOK, TasksOK,
                                HistoryOK, files, wakeState, history
<1>3. CASE UNCHANGED vars
  BY <1>3 DEF vars, TypeOK, FilesOK, SupervisorOK, CallersOK, TasksOK, HistoryOK,
              files, wakeState, supervisor, history
<1>4. QED
  BY <1>1, <1>2, <1>3, CallerStartsTyped, CallerStepTyped, SpawnTyped, TaskStepTyped DEF Next

\* Every reachable state has the declared types; in particular whoever is
\* inside an operation on an agent (main.rs: wake_agent, answer_question,
\* request_interrupt, execute_agent_quantum) knows a real agent.
THEOREM TypeCorrect == Spec => []TypeOK
BY InitTyped, NextTyped, PTL DEF Spec
-----------------------------------------------------------------------------
(***************************************************************************)
(* One wake-up per agent.  Neither half is inductive alone: a second wake- *)
(* up is refused because the flag is set (FlagIsExact), and clearing the   *)
(* flag is right because the task that does was the only place of the      *)
(* wake-up (SingleFlight).                                                 *)
(***************************************************************************)
Flight == SingleFlight /\ FlagIsExact

SendsKept == \A c \in Callers, a \in Agents : InSend(c, a)' <=> InSend(c, a)
TasksKept == \A t \in Tasks, a \in Agents : InTask(t, a)' <=> InTask(t, a)

\* No task starts or ends the part of its life in which it runs the agent.
ExecKept ==
  \A t \in Tasks, a \in Agents :
    (InTask(t, a) /\ task[t].pc = "resend")' <=> InTask(t, a) /\ task[t].pc = "resend"

\* A step that moves no wake-up.
Quiet == SendsKept /\ TasksKept /\ UNCHANGED <<wakeQueue, held, running_or_queued>>

\* A step that moves no wake-up keeps both halves of Flight.
LEMMA QuietFlight ==
  ASSUME Flight, Quiet
  PROVE  Flight'
<1>1. \A a \in Agents : (Sending(a)' <=> Sending(a)) /\ (OneSender(a)' <=> OneSender(a))
  BY DEF Quiet, SendsKept, Sending, OneSender
<1>2. \A a \in Agents : (Spawned(a)' <=> Spawned(a)) /\ (OneTask(a)' <=> OneTask(a))
  BY DEF Quiet, TasksKept, Spawned, OneTask
<1>3. \A a \in Agents : (Queued(a)' <=> Queued(a)) /\ (QueuedOnce(a)' <=> QueuedOnce(a))
  BY DEF Quiet, InQueue, Queued, QueuedOnce
<1>4. SingleFlight'
  BY <1>1, <1>2, <1>3 DEF Flight, SingleFlight, Quiet
<1>5. FlagIsExact'
  BY <1>1, <1>2, <1>3 DEF Flight, FlagIsExact, InFlight, Quiet
<1>6. QED
  BY <1>4, <1>5 DEF Flight

\* Where a caller's new record puts its wake-up.
LEMMA SendMoves ==
  ASSUME CallersOK, NEW c \in Callers, NEW s, caller' = [caller EXCEPT ![c] = s]
  PROVE  /\ \A a \in Agents : InSend(c, a)' <=> s.pc = "send" /\ s.agent = a
         /\ \A d \in Callers \ {c}, a \in Agents : InSend(d, a)' <=> InSend(d, a)
BY DEF CallersOK, InSend

\* No caller has a wake-up to send more or less when callers do not change.
LEMMA SendsKeptUnchanged == ASSUME UNCHANGED caller PROVE SendsKept
BY DEF SendsKept, InSend

\* An operation does not begin with a wake-up to send.
LEMMA BeginsSends ==
  ASSUME CallersOK, NEW c \in Callers, caller[c].pc = "idle", NEW to, to # "send",
         NEW a, NEW s, NEW answers, CallerBegins(c, to, a, s, answers)
  PROVE  SendsKept
<1> DEFINE r == [pc |-> to, agent |-> a, copy |-> s, answers |-> answers]
<1>1. r.pc # "send"
  OBVIOUS
<1>2. caller' = [caller EXCEPT ![c] = r]
  BY DEF CallerBegins
<1> HIDE DEF r
<1>3. \A b \in Agents : ~InSend(c, b)
  BY DEF InSend
<1>4. QED
  BY <1>1, <1>2, <1>3, SendMoves DEF SendsKept

\* Loading a state moves a wake-up only to or from the point before the send.
LEMMA LoadsSends ==
  ASSUME CallersOK, NEW c \in Callers, NEW to, NEW s, CallerLoads(c, to, s)
  PROVE  /\ \A a \in Agents : InSend(c, a)' <=> to = "send" /\ caller[c].agent = a
         /\ \A d \in Callers \ {c}, a \in Agents : InSend(d, a)' <=> InSend(d, a)
<1> DEFINE r == [caller[c] EXCEPT !.pc = to, !.copy = s]
<1>1. r.pc = to /\ r.agent = caller[c].agent
  BY DEF CallersOK, CallerState
<1>2. caller' = [caller EXCEPT ![c] = r]
  BY DEF CallerLoads
<1> HIDE DEF r
<1>3. QED
  BY <1>1, <1>2, SendMoves

\* So does going on.
LEMMA GoesSends ==
  ASSUME CallersOK, NEW c \in Callers, NEW to, CallerGoes(c, to)
  PROVE  /\ \A a \in Agents : InSend(c, a)' <=> to = "send" /\ caller[c].agent = a
         /\ \A d \in Callers \ {c}, a \in Agents : InSend(d, a)' <=> InSend(d, a)
BY LoadsSends DEF CallerGoes, CallerLoads

\* A caller that ends has no wake-up to send.
LEMMA EndsSends ==
  ASSUME CallersOK, NEW c \in Callers, CallerEnds(c)
  PROVE  /\ \A a \in Agents : ~InSend(c, a)'
         /\ \A d \in Callers \ {c}, a \in Agents : InSend(d, a)' <=> InSend(d, a)
<1>1. IdleCaller.pc # "send"
  BY DEF IdleCaller
<1>2. QED
  BY <1>1, SendMoves DEF CallerEnds

\* wake_agent returns: the caller's wake-up, if any, is somewhere else now.
LEMMA AfterWakeSends ==
  ASSUME CallersOK, NEW c \in Callers, AfterWake(c)
  PROVE  /\ \A a \in Agents : ~InSend(c, a)'
         /\ \A d \in Callers \ {c}, a \in Agents : InSend(d, a)' <=> InSend(d, a)
BY GoesSends, EndsSends DEF AfterWake

\* Where a task's new record puts its wake-up.
LEMMA TaskMoves ==
  ASSUME TasksOK, NEW t \in Tasks, NEW s, task' = [task EXCEPT ![t] = s]
  PROVE  /\ \A a \in Agents : InTask(t, a)' <=> s.pc # "free" /\ s.agent = a
         /\ \A u \in Tasks \ {t}, a \in Agents : InTask(u, a)' <=> InTask(u, a)
BY DEF TasksOK, InTask

\* Tasks that do not change keep their agents.
LEMMA TasksKeptUnchanged == ASSUME UNCHANGED task PROVE TasksKept /\ ExecKept
BY DEF TasksKept, ExecKept, InTask

\* A task that goes on keeps its agent.
LEMMA SameAgentKept ==
  ASSUME TasksOK, NEW t \in Tasks, task[t].pc # "free",
         NEW s, s.pc # "free", s.agent = task[t].agent, task' = [task EXCEPT ![t] = s]
  PROVE  TasksKept /\ (task[t].pc # "resend" /\ s.pc # "resend" => ExecKept)
<1>1. \A a \in Agents : InTask(t, a) <=> task[t].agent = a
  BY DEF InTask
<1>2. TasksKept
  BY <1>1, TaskMoves DEF TasksKept
<1>3. task'[t] = s /\ \A u \in Tasks \ {t} : task'[u] = task[u]
  BY DEF TasksOK
<1>4. QED
  BY <1>2, <1>3 DEF ExecKept, TasksKept

\* TaskGoes keeps the agent of the task.
LEMMA GoesKept ==
  ASSUME TasksOK, NEW t \in Tasks, task[t].pc # "free", NEW to, to # "free", TaskGoes(t, to)
  PROVE  TasksKept /\ (task[t].pc # "resend" /\ to # "resend" => ExecKept)
<1> DEFINE r == [task[t] EXCEPT !.pc = to]
<1>1. r.pc = to /\ r.agent = task[t].agent
  BY DEF TasksOK, TaskState
<1>2. task' = [task EXCEPT ![t] = r]
  BY DEF TaskGoes
<1> HIDE DEF r
<1>3. QED
  BY <1>1, <1>2, SameAgentKept

\* TaskLoads keeps the agent of the task.
LEMMA TaskLoadsKept ==
  ASSUME TasksOK, NEW t \in Tasks, task[t].pc # "free", NEW to, to # "free",
         NEW s, TaskLoads(t, to, s)
  PROVE  TasksKept /\ (task[t].pc # "resend" /\ to # "resend" => ExecKept)
<1> DEFINE r == [task[t] EXCEPT !.pc = to, !.copy = s]
<1>1. r.pc = to /\ r.agent = task[t].agent
  BY DEF TasksOK, TaskState
<1>2. task' = [task EXCEPT ![t] = r]
  BY DEF TaskLoads
<1> HIDE DEF r
<1>3. QED
  BY <1>1, <1>2, SameAgentKept

\* TaskReturns keeps the agent of the task.
LEMMA ReturnsKept ==
  ASSUME TasksOK, NEW t \in Tasks, task[t].pc # "free", NEW to, to # "free",
         NEW rerun, TaskReturns(t, to, rerun)
  PROVE  TasksKept /\ (task[t].pc # "resend" /\ to # "resend" => ExecKept)
<1> DEFINE r == [FreeTask EXCEPT !.pc = to, !.agent = task[t].agent,
                                 !.sem = task[t].sem, !.rerun = rerun]
<1>1. r.pc = to /\ r.agent = task[t].agent
  BY DEF FreeTask
<1>2. task' = [task EXCEPT ![t] = r]
  BY DEF TaskReturns
<1> HIDE DEF r
<1>3. QED
  BY <1>1, <1>2, SameAgentKept
-----------------------------------------------------------------------------
\* The steps that move no wake-up.
LEMMA QuietCallerStarts ==
  ASSUME TypeOK, NEW c \in Callers, CallerStarts(c)
  PROVE  Quiet /\ ExecKept
<1> PICK a \in Agents : Post(c, a) \/ Answer(c, a) \/ WaitOver(c, a) \/ Interrupt(c, a)
  BY DEF CallerStarts
<1>0. CallersOK /\ TasksOK
  BY DEF TypeOK
<1>1. SendsKept
  BY <1>0, BeginsSends DEF Post, Answer, WaitOver, Interrupt
<1>2. TasksKept /\ ExecKept
  <2>1. CASE Interrupt(c, a)
    <3>1. ASSUME NEW t \in Tasks
          PROVE task'[t].pc = task[t].pc /\ task'[t].agent = task[t].agent
      <4>1. task'[t] = task[t] \/ task'[t] = [task[t] EXCEPT !.cancelled = TRUE]
        BY <2>1, Zenon DEF Interrupt
      <4>2. QED
        BY <1>0, <4>1 DEF TasksOK, TaskState
    <3>2. QED
      BY <3>1 DEF TasksKept, ExecKept, InTask
  <2>2. CASE ~Interrupt(c, a)
    BY <2>2, TasksKeptUnchanged DEF Post, Answer, WaitOver
  <2>3. QED
    BY <2>1, <2>2
<1>3. UNCHANGED <<wakeQueue, held, running_or_queued>>
  BY DEF Post, Answer, WaitOver, Interrupt, wakeState, supervisor
<1>4. QED
  BY <1>1, <1>2, <1>3 DEF Quiet

\* The steps of a caller that neither claim nor send a wake-up.
LEMMA QuietCallerStep ==
  ASSUME TypeOK, NEW c \in Callers,
         \/ CheckTarget(c) \/ ResumeLoad(c) \/ ResumeSave(c) \/ ForgetQuestion(c)
         \/ OverSave(c) \/ Notify(c) \/ CancelLoad(c) \/ CancelSave(c)
  PROVE  Quiet /\ ExecKept
<1>0. CallersOK
  BY DEF TypeOK
<1>1. \A a \in Agents : ~InSend(c, a)
  BY DEF InSend, CheckTarget, ResumeLoad, ResumeSave, ForgetQuestion, OverSave,
         Notify, CancelLoad, CancelSave
<1>2. SendsKept
  BY <1>0, <1>1, LoadsSends, GoesSends, EndsSends
     DEF SendsKept, CheckTarget, ResumeLoad, ResumeSave, ForgetQuestion, OverSave,
         Notify, CancelLoad, CancelSave
<1>3. UNCHANGED <<task, wakeQueue, held, running_or_queued>>
  BY DEF CheckTarget, ResumeLoad, ResumeSave, ForgetQuestion, OverSave,
         Notify, CancelLoad, CancelSave, wakeState, supervisor
<1>4. QED
  BY <1>2, <1>3, TasksKeptUnchanged DEF Quiet

\* GiveUp keeps the agent of the task.
LEMMA GiveUpKept ==
  ASSUME TasksOK, NEW t \in Tasks, task[t].pc # "free", task[t].pc # "resend", GiveUp(t)
  PROVE  TasksKept /\ ExecKept
<1>1. "finish" # "free" /\ "finish" # "resend"
  OBVIOUS
<1>2. TaskReturns(t, "finish", FALSE)
  BY DEF GiveUp
<1>3. QED
  BY <1>1, <1>2, ReturnsKept

\* The steps of a quantum, up to the end of its cycle.
LEMMA QuietTaskStep ==
  ASSUME TypeOK, NEW t \in Tasks,
         \/ QuantumLoad(t) \/ QuantumSave(t) \/ QuantumExamine(t) \/ QuantumRead(t)
         \/ SelfWake(t, "selfWake", "read") \/ SelfWake(t, "settle", "finish")
         \/ QuantumReturns(t) \/ QuantumCommit(t)
  PROVE  Quiet /\ ExecKept
<1>0. TasksOK
  BY DEF TypeOK
<1>1. task[t].pc # "free" /\ task[t].pc # "resend"
  BY DEF QuantumLoad, QuantumSave, QuantumExamine, QuantumRead, SelfWake,
         QuantumReturns, QuantumCommit
<1>2. UNCHANGED <<caller, wakeQueue, held, running_or_queued>>
  BY DEF QuantumLoad, QuantumSave, QuantumExamine, QuantumRead, SelfWake,
         QuantumReturns, QuantumCommit, wakeState, supervisor
<1>3. TasksKept /\ ExecKept
  <2>1. CASE QuantumLoad(t)
    BY <1>0, <1>1, <2>1, TaskLoadsKept DEF QuantumLoad
  <2>2. CASE QuantumSave(t)
    BY <1>0, <1>1, <2>2, GoesKept DEF QuantumSave
  <2>3. CASE QuantumExamine(t)
    <3>1. ASSUME NEW to, to # "free", to # "resend", Unpark(t, to)
          PROVE  TasksKept /\ ExecKept
      BY <1>0, <1>1, <3>1, TaskLoadsKept DEF Unpark
    <3>2. TaskGoes(t, "read") => TasksKept /\ ExecKept
      BY <1>0, <1>1, GoesKept
    <3>3. QED
      BY <1>0, <1>1, <2>3, <3>1, <3>2, GiveUpKept DEF QuantumExamine
  <2>4. CASE SelfWake(t, "selfWake", "read") \/ SelfWake(t, "settle", "finish")
    BY <1>0, <1>1, <2>4, GoesKept DEF SelfWake
  <2>5. CASE QuantumRead(t)
    <3>1. CASE GiveUp(t)
      BY <1>0, <1>1, <3>1, GiveUpKept
    <3>2. CASE ~GiveUp(t)
      <4> DEFINE r == [task[t] EXCEPT !.pc = "running", !.copy = Fresh,
                                      !.upto = mailbox[task[t].agent]]
      <4>1. r.pc # "free" /\ r.pc # "resend" /\ r.agent = task[t].agent
        BY <1>0 DEF TasksOK, TaskState
      <4>2. task' = [task EXCEPT ![t] = r]
        BY <2>5, <3>2 DEF QuantumRead
      <4> HIDE DEF r
      <4>3. QED
        BY <1>0, <1>1, <4>1, <4>2, SameAgentKept
    <3>3. QED
      BY <3>1, <3>2
  <2>6. CASE QuantumReturns(t)
    <3>1. PICK r \in Results :
            task' = [task EXCEPT ![t] = [@ EXCEPT !.pc = "commit", !.result = r,
                                                  !.copy = disk[task[t].agent]]]
      BY <2>6 DEF QuantumReturns
    <3> DEFINE s == [task[t] EXCEPT !.pc = "commit", !.result = r,
                                    !.copy = disk[task[t].agent]]
    <3>2. s.pc # "free" /\ s.pc # "resend" /\ s.agent = task[t].agent
      BY <1>0 DEF TasksOK, TaskState
    <3>3. task' = [task EXCEPT ![t] = s]
      BY <3>1
    <3> HIDE DEF s
    <3>4. QED
      BY <1>0, <1>1, <3>2, <3>3, SameAgentKept
  <2>7. CASE QuantumCommit(t)
    <3>1. PICK s \in AgentState, to \in {"settle", "finish"}, rerun \in BOOLEAN :
            Commit(t, s, to, rerun)
      BY <2>7, CommitShape
    <3>2. QED
      BY <1>0, <1>1, <3>1, ReturnsKept DEF Commit
  <2>8. QED
    BY <2>1, <2>2, <2>3, <2>4, <2>5, <2>6, <2>7
<1>4. QED
  BY <1>2, <1>3, SendsKeptUnchanged DEF Quiet
-----------------------------------------------------------------------------
\* How each place gains and loses a wake-up.
LEMMA SendsSame ==
  ASSUME SendsKept
  PROVE  \A a \in Agents : (Sending(a)' <=> Sending(a)) /\ (OneSender(a)' <=> OneSender(a))
BY DEF SendsKept, Sending, OneSender

\* Tasks that keep their agents run the same agents.
LEMMA TasksSame ==
  ASSUME TasksKept
  PROVE  \A a \in Agents : (Spawned(a)' <=> Spawned(a)) /\ (OneTask(a)' <=> OneTask(a))
BY DEF TasksKept, Spawned, OneTask

\* An unchanged channel holds the same agents.
LEMMA QueueSame ==
  ASSUME UNCHANGED wakeQueue
  PROVE  \A a \in Agents : (Queued(a)' <=> Queued(a)) /\ (QueuedOnce(a)' <=> QueuedOnce(a))
BY DEF Queued, QueuedOnce, InQueue

\* A caller without a wake-up gets that of an agent nobody was sending.
LEMMA SendsGain ==
  ASSUME NEW c \in Callers, NEW a \in Agents, ~Sending(a),
         \A b \in Agents : OneSender(b) /\ ~InSend(c, b),
         \A b \in Agents : InSend(c, b)' <=> b = a,
         \A d \in Callers \ {c}, b \in Agents : InSend(d, b)' <=> InSend(d, b)
  PROVE  \A b \in Agents : OneSender(b)' /\ (Sending(b)' <=> Sending(b) \/ b = a)
BY DEF Sending, OneSender

\* The only sender of an agent loses its wake-up.
LEMMA SendsLose ==
  ASSUME NEW c \in Callers, NEW a \in Agents, InSend(c, a),
         \A b \in Agents : OneSender(b) /\ (InSend(c, b) => b = a),
         \A b \in Agents : ~InSend(c, b)',
         \A d \in Callers \ {c}, b \in Agents : InSend(d, b)' <=> InSend(d, b)
  PROVE  \A b \in Agents : OneSender(b)' /\ (Sending(b)' <=> Sending(b) /\ b # a)
BY DEF Sending, OneSender

\* A free task gets the wake-up of an agent no task had.
LEMMA TasksGain ==
  ASSUME NEW t \in Tasks, NEW a \in Agents, ~Spawned(a),
         \A b \in Agents : OneTask(b) /\ ~InTask(t, b),
         \A b \in Agents : InTask(t, b)' <=> b = a,
         \A u \in Tasks \ {t}, b \in Agents : InTask(u, b)' <=> InTask(u, b)
  PROVE  \A b \in Agents : OneTask(b)' /\ (Spawned(b)' <=> Spawned(b) \/ b = a)
BY DEF Spawned, OneTask

\* The only task of an agent loses its wake-up.
LEMMA TasksLose ==
  ASSUME NEW t \in Tasks, NEW a \in Agents, InTask(t, a),
         \A b \in Agents : OneTask(b) /\ (InTask(t, b) => b = a),
         \A b \in Agents : ~InTask(t, b)',
         \A u \in Tasks \ {t}, b \in Agents : InTask(u, b)' <=> InTask(u, b)
  PROVE  \A b \in Agents : OneTask(b)' /\ (Spawned(b)' <=> Spawned(b) /\ b # a)
BY DEF Spawned, OneTask

\* An agent that was not in the channel is appended to it.
LEMMA QueueGains ==
  ASSUME wakeQueue \in Seq(Agents), NEW a \in Agents, wakeQueue' = Append(wakeQueue, a),
         ~Queued(a), \A b \in Agents : QueuedOnce(b)
  PROVE  \A b \in Agents : QueuedOnce(b)' /\ (Queued(b)' <=> Queued(b) \/ b = a)
<1> DEFINE n == Len(wakeQueue) + 1
<1>1. n \in DOMAIN wakeQueue' /\ wakeQueue'[n] = a
  OBVIOUS
<1>2. \A i \in DOMAIN wakeQueue : i \in DOMAIN wakeQueue' /\ wakeQueue'[i] = wakeQueue[i]
  OBVIOUS
<1>3. \A i \in DOMAIN wakeQueue' : i # n => i \in DOMAIN wakeQueue
  OBVIOUS
<1> HIDE DEF n
<1>4. QED
  BY <1>1, <1>2, <1>3 DEF Queued, QueuedOnce, InQueue

\* The first agent of the channel leaves it, and was in it once.
LEMMA QueueLoses ==
  ASSUME wakeQueue \in Seq(Agents), wakeQueue # <<>>, wakeQueue' = Tail(wakeQueue),
         \A b \in Agents : QueuedOnce(b)
  PROVE  \A b \in Agents : QueuedOnce(b)' /\ (Queued(b)' <=> Queued(b) /\ b # Head(wakeQueue))
<1>1. 1 \in DOMAIN wakeQueue /\ wakeQueue[1] = Head(wakeQueue)
  OBVIOUS
<1>2. \A i \in DOMAIN wakeQueue' : /\ i + 1 \in DOMAIN wakeQueue /\ i + 1 # 1 /\ i \in Int
                                   /\ wakeQueue'[i] = wakeQueue[i + 1]
  OBVIOUS
<1>3. \A i \in DOMAIN wakeQueue : i # 1 => /\ i - 1 \in DOMAIN wakeQueue'
                                           /\ wakeQueue'[i - 1] = wakeQueue[i]
  OBVIOUS
<1> SUFFICES ASSUME NEW b \in Agents
             PROVE  QueuedOnce(b)' /\ (Queued(b)' <=> Queued(b) /\ b # Head(wakeQueue))
  OBVIOUS
<1>4. QueuedOnce(b)'
  <2> SUFFICES ASSUME NEW i \in DOMAIN wakeQueue', NEW j \in DOMAIN wakeQueue',
                      wakeQueue'[i] = b, wakeQueue'[j] = b
               PROVE  i = j
    BY DEF QueuedOnce, InQueue
  <2>1. i + 1 = j + 1
    BY <1>2 DEF QueuedOnce, InQueue
  <2>2. QED
    BY <1>2, <2>1
<1>5. Queued(b)' => Queued(b) /\ b # Head(wakeQueue)
  BY <1>1, <1>2 DEF Queued, QueuedOnce, InQueue
<1>6. Queued(b) /\ b # Head(wakeQueue) => Queued(b)'
  BY <1>1, <1>3 DEF Queued, InQueue
<1>7. QED
  BY <1>4, <1>5, <1>6
-----------------------------------------------------------------------------
\* The steps that move a wake-up, in the order of its life.
LEMMA ClaimWakeMoves ==
  ASSUME TypeOK, Flight, NEW c \in Callers, ClaimWake(c),
         NEW a \in Agents, caller[c].agent = a, ~running_or_queued[a]
  PROVE  /\ ~InFlight(a)
         /\ \A b \in Agents : OneSender(b)' /\ (Sending(b)' <=> Sending(b) \/ b = a)
<1>0. CallersOK /\ a \in Agents /\ CallerGoes(c, "send")
  BY DEF ClaimWake, TypeOK, CallersOK
<1>1. ~InFlight(a)
  BY <1>0 DEF Flight, FlagIsExact
<1>2. \A b \in Agents : OneSender(b) /\ ~InSend(c, b)
  BY DEF ClaimWake, InSend, Flight, SingleFlight
<1>3. /\ \A b \in Agents : InSend(c, b)' <=> b = a
      /\ \A d \in Callers \ {c}, b \in Agents : InSend(d, b)' <=> InSend(d, b)
  BY <1>0, GoesSends
<1>4. \A b \in Agents : OneSender(b)' /\ (Sending(b)' <=> Sending(b) \/ b = a)
  BY <1>0, <1>1, <1>2, <1>3, SendsGain DEF InFlight
<1>5. QED
  BY <1>1, <1>4

\* wake_agent claims a wake-up: it is refused exactly if one is in flight.
LEMMA ClaimWakeFlight ==
  ASSUME TypeOK, Flight, NEW c \in Callers, ClaimWake(c)
  PROVE  Flight'
<1> DEFINE a == caller[c].agent
<1>0. CallersOK /\ a \in Agents /\ running_or_queued \in [Agents -> BOOLEAN]
  BY DEF ClaimWake, TypeOK, CallersOK, SupervisorOK
<1>1. \A b \in Agents : ~InSend(c, b)
  BY DEF ClaimWake, InSend
<1>2. TasksKept /\ UNCHANGED <<wakeQueue, held>>
  BY TasksKeptUnchanged DEF ClaimWake, supervisor
<1>3. CASE AfterWake(c) /\ UNCHANGED running_or_queued
  BY <1>0, <1>1, <1>2, <1>3, AfterWakeSends, QuietFlight DEF Quiet, SendsKept
<1>4. CASE /\ ~running_or_queued[a]
           /\ running_or_queued' = [running_or_queued EXCEPT ![a] = TRUE]
           /\ CallerGoes(c, "send")
  <2>0. caller[c].agent = a /\ ~running_or_queued[a]
    BY <1>4
  <2> HIDE DEF a
  <2>1. ~InFlight(a)
    BY <1>0, <2>0, ClaimWakeMoves
  <2>2. \A b \in Agents : OneSender(b)' /\ (Sending(b)' <=> Sending(b) \/ b = a)
    BY <1>0, <2>0, ClaimWakeMoves
  <2>3. SingleFlight'
    BY <1>0, <1>2, <2>1, <2>2, TasksSame, QueueSame DEF Flight, SingleFlight, InFlight
  <2>4. FlagIsExact'
    BY <1>0, <1>2, <1>4, <2>2, TasksSame, QueueSame DEF Flight, FlagIsExact, InFlight
  <2>5. QED
    BY <2>3, <2>4 DEF Flight
<1>5. QED
  BY <1>3, <1>4 DEF ClaimWake

\* The send moves the wake-up from the caller to the channel.
LEMMA SendWakeMoves ==
  ASSUME TypeOK, Flight, NEW c \in Callers, SendWake(c)
  PROVE  LET a == caller[c].agent IN
         /\ a \in Agents /\ Sending(a) /\ ~Queued(a) /\ held # a /\ ~Spawned(a)
         /\ \A b \in Agents : OneSender(b)' /\ (Sending(b)' <=> Sending(b) /\ b # a)
         /\ \A b \in Agents : QueuedOnce(b)' /\ (Queued(b)' <=> Queued(b) \/ b = a)
<1> DEFINE a == caller[c].agent
<1>0. CallersOK /\ a \in Agents /\ wakeQueue \in Seq(Agents) /\ wakeQueue' = Append(wakeQueue, a)
  BY DEF SendWake, TypeOK, CallersOK, SupervisorOK
<1>1. InSend(c, a) /\ \A b \in Agents : OneSender(b) /\ (InSend(c, b) => b = a)
  BY DEF SendWake, InSend, Flight, SingleFlight
<1>2. /\ \A b \in Agents : ~InSend(c, b)'
      /\ \A d \in Callers \ {c}, b \in Agents : InSend(d, b)' <=> InSend(d, b)
  BY <1>0, AfterWakeSends DEF SendWake
<1> HIDE DEF a
<1>3. \A b \in Agents : OneSender(b)' /\ (Sending(b)' <=> Sending(b) /\ b # a)
  BY <1>0, <1>1, <1>2, SendsLose
<1>4. Sending(a) /\ ~Queued(a) /\ held # a /\ ~Spawned(a)
  BY <1>0, <1>1 DEF Sending, Flight, SingleFlight
<1>5. \A b \in Agents : QueuedOnce(b)' /\ (Queued(b)' <=> Queued(b) \/ b = a)
  BY <1>0, <1>4, QueueGains DEF Flight, SingleFlight
<1>6. QED
  BY <1>0, <1>3, <1>4, <1>5 DEF a

\* The send keeps Flight.
LEMMA SendWakeFlight ==
  ASSUME TypeOK, Flight, NEW c \in Callers, SendWake(c)
  PROVE  Flight'
<1> DEFINE a == caller[c].agent
<1>1. /\ a \in Agents /\ Sending(a) /\ ~Queued(a) /\ held # a /\ ~Spawned(a)
      /\ \A b \in Agents : OneSender(b)' /\ (Sending(b)' <=> Sending(b) /\ b # a)
      /\ \A b \in Agents : QueuedOnce(b)' /\ (Queued(b)' <=> Queued(b) \/ b = a)
  BY SendWakeMoves
<1>2. TasksKept /\ UNCHANGED <<held, running_or_queued>>
  BY TasksKeptUnchanged DEF SendWake, supervisor, wakeState
<1> HIDE DEF a
<1>3. SingleFlight'
  BY <1>1, <1>2, TasksSame DEF Flight, SingleFlight
<1>4. FlagIsExact'
  BY <1>1, <1>2, TasksSame DEF Flight, FlagIsExact, InFlight
<1>5. QED
  BY <1>3, <1>4 DEF Flight

\* The receive moves the wake-up from the channel to the supervisor.
LEMMA ReceiveMoves ==
  ASSUME TypeOK, Flight, Receive
  PROVE  LET a == Head(wakeQueue) IN
         /\ a \in Agents /\ Queued(a) /\ held' = a
         /\ \A b \in Agents : held # b
         /\ \A b \in Agents : QueuedOnce(b)' /\ (Queued(b)' <=> Queued(b) /\ b # a)
<1> DEFINE a == Head(wakeQueue)
<1>0. /\ wakeQueue \in Seq(Agents) /\ wakeQueue # <<>>
      /\ held = NoAgent /\ held' = a /\ wakeQueue' = Tail(wakeQueue)
  BY DEF Receive, TypeOK, SupervisorOK
<1>1. 1 \in DOMAIN wakeQueue /\ wakeQueue[1] = a /\ a \in Agents
  BY <1>0
<1>2. Queued(a)
  BY <1>1 DEF Queued, InQueue
<1>3. \A b \in Agents : QueuedOnce(b)' /\ (Queued(b)' <=> Queued(b) /\ b # a)
  BY <1>0, QueueLoses DEF Flight, SingleFlight
<1>4. \A b \in Agents : held # b
  BY <1>0, NoAgentAssumption
<1>5. QED
  BY <1>0, <1>1, <1>2, <1>3, <1>4

\* The receive keeps Flight.
LEMMA ReceiveFlight ==
  ASSUME TypeOK, Flight, Receive
  PROVE  Flight'
<1> DEFINE a == Head(wakeQueue)
<1>1. /\ a \in Agents /\ Queued(a) /\ held' = a
      /\ \A b \in Agents : held # b
      /\ \A b \in Agents : QueuedOnce(b)' /\ (Queued(b)' <=> Queued(b) /\ b # a)
  BY ReceiveMoves
<1>2. SendsKept /\ TasksKept /\ UNCHANGED running_or_queued
  BY SendsKeptUnchanged, TasksKeptUnchanged DEF Receive, wakeState
<1> HIDE DEF a
<1>3. SingleFlight'
  BY <1>1, <1>2, SendsSame, TasksSame DEF Flight, SingleFlight
<1>4. FlagIsExact'
  BY <1>1, <1>2, SendsSame, TasksSame DEF Flight, FlagIsExact, InFlight
<1>5. QED
  BY <1>3, <1>4 DEF Flight

\* The spawn moves the wake-up from the supervisor to a free task.
LEMMA SpawnFlight ==
  ASSUME TypeOK, Flight, NEW t \in Tasks, Spawn(t)
  PROVE  Flight'
<1> DEFINE r == [task[t] EXCEPT !.pc = "load", !.agent = held, !.sem = heldSem]
<1>0. TasksOK /\ held \in Agents /\ held' = NoAgent /\ \A b \in Agents : NoAgent # b
  BY NoAgentAssumption DEF Spawn, TypeOK, SupervisorOK
<1>1. r.pc # "free" /\ r.agent = held
  BY <1>0 DEF TasksOK, TaskState
<1>2. task' = [task EXCEPT ![t] = r]
  BY DEF Spawn
<1> HIDE DEF r
<1>3. /\ \A b \in Agents : InTask(t, b)' <=> b = held
      /\ \A u \in Tasks \ {t}, b \in Agents : InTask(u, b)' <=> InTask(u, b)
  BY <1>0, <1>1, <1>2, TaskMoves
<1>4. \A b \in Agents : OneTask(b) /\ ~InTask(t, b)
  BY DEF Spawn, InTask, Flight, SingleFlight
<1>5. ~Spawned(held) /\ ~Sending(held) /\ ~Queued(held)
  BY <1>0 DEF Flight, SingleFlight
<1>6. \A b \in Agents : OneTask(b)' /\ (Spawned(b)' <=> Spawned(b) \/ b = held)
  BY <1>0, <1>3, <1>4, <1>5, TasksGain
<1>7. SendsKept /\ UNCHANGED <<wakeQueue, running_or_queued>>
  BY SendsKeptUnchanged DEF Spawn, wakeState
<1>8. SingleFlight'
  BY <1>0, <1>5, <1>6, <1>7, SendsSame, QueueSame DEF Flight, SingleFlight
<1>9. FlagIsExact'
  BY <1>0, <1>5, <1>6, <1>7, SendsSame, QueueSame DEF Flight, FlagIsExact, InFlight
<1>10. QED
  BY <1>8, <1>9 DEF Flight

\* A task's end takes its wake-up away.
LEMMA TaskEndLoses ==
  ASSUME TypeOK, Flight, NEW t \in Tasks, task[t].pc # "free",
         task' = [task EXCEPT ![t] = FreeTask]
  PROVE  /\ task[t].agent \in Agents /\ Spawned(task[t].agent)
         /\ \A b \in Agents : OneTask(b)' /\ (Spawned(b)' <=> Spawned(b) /\ b # task[t].agent)
<1> DEFINE a == task[t].agent
<1>0. TasksOK /\ a \in Agents
  BY DEF TypeOK, TasksOK
<1>1. InTask(t, a) /\ \A b \in Agents : OneTask(b) /\ (InTask(t, b) => b = a)
  BY DEF InTask, Flight, SingleFlight
<1>2. FreeTask.pc = "free"
  BY DEF FreeTask
<1>3. /\ \A b \in Agents : ~InTask(t, b)'
      /\ \A u \in Tasks \ {t}, b \in Agents : InTask(u, b)' <=> InTask(u, b)
  BY <1>0, <1>2, TaskMoves
<1>4. \A b \in Agents : OneTask(b)' /\ (Spawned(b)' <=> Spawned(b) /\ b # a)
  BY <1>0, <1>1, <1>3, TasksLose
<1>5. QED
  BY <1>0, <1>1, <1>4 DEF Spawned

\* The end of the cycle keeps the wake-up with the task or clears the flag.
LEMMA FinishCycleFlight ==
  ASSUME TypeOK, Flight, NEW t \in Tasks, FinishCycle(t)
  PROVE  Flight'
<1> DEFINE a == task[t].agent
<1>0. TasksOK /\ task[t].pc # "free" /\ running_or_queued \in [Agents -> BOOLEAN]
  BY DEF FinishCycle, TypeOK, SupervisorOK
<1>1. SendsKept /\ UNCHANGED <<wakeQueue, held>>
  BY SendsKeptUnchanged DEF FinishCycle, supervisor
<1>2. CASE TaskGoes(t, "resend") /\ UNCHANGED running_or_queued
  BY <1>0, <1>1, <1>2, GoesKept, QuietFlight DEF Quiet
<1>3. CASE /\ running_or_queued' = [running_or_queued EXCEPT ![a] = FALSE]
           /\ task' = [task EXCEPT ![t] = FreeTask]
  <2>1. /\ a \in Agents /\ Spawned(a)
        /\ \A b \in Agents : OneTask(b)' /\ (Spawned(b)' <=> Spawned(b) /\ b # a)
    BY <1>0, <1>3, TaskEndLoses
  <2> HIDE DEF a
  <2>2. ~Sending(a) /\ ~Queued(a) /\ held # a
    BY <2>1 DEF Flight, SingleFlight
  <2>3. SingleFlight'
    BY <1>1, <2>1, SendsSame, QueueSame DEF Flight, SingleFlight
  <2>4. FlagIsExact'
    BY <1>0, <1>1, <1>3, <2>1, <2>2, SendsSame, QueueSame DEF Flight, FlagIsExact, InFlight
  <2>5. QED
    BY <2>3, <2>4 DEF Flight
<1>4. QED
  BY <1>2, <1>3 DEF FinishCycle

\* A rerun moves the wake-up from the task to the channel.
LEMMA ResendFlight ==
  ASSUME TypeOK, Flight, NEW t \in Tasks, Resend(t)
  PROVE  Flight'
<1> DEFINE a == task[t].agent
<1>0. wakeQueue \in Seq(Agents) /\ wakeQueue' = Append(wakeQueue, a)
  BY DEF Resend, TypeOK, SupervisorOK
<1>1. /\ a \in Agents /\ Spawned(a)
      /\ \A b \in Agents : OneTask(b)' /\ (Spawned(b)' <=> Spawned(b) /\ b # a)
  BY TaskEndLoses DEF Resend
<1>2. SendsKept /\ UNCHANGED <<held, running_or_queued>>
  BY SendsKeptUnchanged DEF Resend, supervisor, wakeState
<1> HIDE DEF a
<1>3. ~Sending(a) /\ ~Queued(a) /\ held # a
  BY <1>1 DEF Flight, SingleFlight
<1>4. \A b \in Agents : QueuedOnce(b)' /\ (Queued(b)' <=> Queued(b) \/ b = a)
  BY <1>0, <1>1, <1>3, QueueGains DEF Flight, SingleFlight
<1>5. SingleFlight'
  BY <1>1, <1>2, <1>3, <1>4, SendsSame DEF Flight, SingleFlight
<1>6. FlagIsExact'
  BY <1>1, <1>2, <1>3, <1>4, SendsSame DEF Flight, FlagIsExact, InFlight
<1>7. QED
  BY <1>5, <1>6 DEF Flight
-----------------------------------------------------------------------------
\* At the start no wake-up is in flight and no flag is set.
LEMMA InitFlight == Init => Flight
<1> SUFFICES ASSUME Init PROVE Flight
  OBVIOUS
<1>1. \A a \in Agents : OneSender(a) /\ ~Sending(a)
  BY DEF Init, OneSender, Sending, InSend, IdleCaller
<1>2. \A a \in Agents : OneTask(a) /\ ~Spawned(a)
  BY DEF Init, OneTask, Spawned, InTask, FreeTask
<1>3. \A a \in Agents : QueuedOnce(a) /\ ~Queued(a)
  BY DEF Init, QueuedOnce, Queued, InQueue
<1>4. \A a \in Agents : held # a /\ ~running_or_queued[a]
  BY NoAgentAssumption DEF Init
<1>5. QED
  BY <1>1, <1>2, <1>3, <1>4 DEF Flight, SingleFlight, FlagIsExact, InFlight

\* Every step keeps Flight.
LEMMA NextFlight == TypeOK /\ Flight /\ [Next]_vars => Flight'
<1> SUFFICES ASSUME TypeOK, Flight, [Next]_vars PROVE Flight'
  OBVIOUS
<1>1. ASSUME NEW c \in Callers, CallerStep(c) PROVE Flight'
  BY <1>1, QuietCallerStep, QuietFlight, ClaimWakeFlight, SendWakeFlight DEF CallerStep
<1>2. ASSUME NEW t \in Tasks, TaskStep(t) PROVE Flight'
  BY <1>2, QuietTaskStep, QuietFlight, FinishCycleFlight, ResendFlight DEF TaskStep
<1>3. CASE Reload \/ UNCHANGED vars
  BY <1>3, QuietFlight, SendsKeptUnchanged, TasksKeptUnchanged
     DEF Quiet, Reload, vars, wakeState, supervisor
<1>4. QED
  BY <1>1, <1>2, <1>3, QuietCallerStarts, QuietFlight, ReceiveFlight, SpawnFlight DEF Next

\* Whoever calls wake_agent and whenever, an agent has at most one wake-up in
\* flight, so no two tasks ever run execute_agent_quantum for it.
THEOREM OneWakePerAgent == Spec => []SingleFlight
<1>1. Init => TypeOK /\ Flight
  BY InitTyped, InitFlight
<1>2. TypeOK /\ Flight /\ [Next]_vars => (TypeOK /\ Flight)'
  BY NextTyped, NextFlight
<1>3. Flight => SingleFlight
  BY DEF Flight
<1>4. QED
  BY <1>1, <1>2, <1>3, PTL DEF Spec

\* WakeState.running_or_queued is true exactly while a wake-up is in flight,
\* so wake_agent never queues a second one and never leaves an agent asleep.
THEOREM FlagCorrect == Spec => []FlagIsExact
<1>1. Init => TypeOK /\ Flight
  BY InitTyped, InitFlight
<1>2. TypeOK /\ Flight /\ [Next]_vars => (TypeOK /\ Flight)'
  BY NextTyped, NextFlight
<1>3. Flight => FlagIsExact
  BY DEF Flight
<1>4. QED
  BY <1>1, <1>2, <1>3, PTL DEF Spec

-----------------------------------------------------------------------------
(***************************************************************************)
(* Refinement.  The supervisor implements the safety part of               *)
(* SerialExecutor: claiming a wake-up or asking for a rerun is a Request,  *)
(* spawning the quantum a Start, the end of the cycle a Stop, and          *)
(* everything else a stutter.                                              *)
(***************************************************************************)

\* What it means to be requested and to run.
LEMMA Membership ==
  /\ \A a \in Agents : a \in requestedAgents <=>
       rerun_requested[a] \/ Sending(a) \/ Queued(a) \/ held = a \/ Resending(a)
  /\ \A a \in Agents : a \in runningAgents <=> Executing(a)
  /\ requestedAgents \subseteq Agents /\ runningAgents \subseteq Agents
BY DEF requestedAgents, runningAgents

\* The same after the step.
LEMMA MembershipNext ==
  /\ \A a \in Agents : a \in requestedAgents' <=>
       rerun_requested'[a] \/ Sending(a)' \/ Queued(a)' \/ held' = a \/ Resending(a)'
  /\ \A a \in Agents : a \in runningAgents' <=> Executing(a)'
  /\ requestedAgents' \subseteq Agents /\ runningAgents' \subseteq Agents
BY DEF requestedAgents, runningAgents

\* A task that exists either runs the agent or is about to queue it again.
LEMMA SpawnedCases ==
  \A a \in Agents : Spawned(a) <=> Executing(a) \/ Resending(a)
BY DEF Spawned, Executing, Resending

\* Tasks that keep agent and phase execute and resend the same agents.
LEMMA ExecSame ==
  ASSUME TasksKept, ExecKept
  PROVE  \A a \in Agents : (Executing(a)' <=> Executing(a)) /\ (Resending(a)' <=> Resending(a))
<1>1. \A t \in Tasks, a \in Agents :
        (InTask(t, a) /\ task[t].pc # "resend")' <=> InTask(t, a) /\ task[t].pc # "resend"
  BY DEF TasksKept, ExecKept
<1>2. QED
  BY <1>1 DEF ExecKept, Executing, Resending

Abstract == Executor!Next \/ UNCHANGED <<requestedAgents, runningAgents>>

\* A step that moves no wake-up: a stutter, or a request for a rerun.
LEMMA QuietSimulates ==
  ASSUME TypeOK, Quiet, ExecKept,
         \/ UNCHANGED rerun_requested
         \/ \E a \in Agents : rerun_requested' = [rerun_requested EXCEPT ![a] = TRUE]
  PROVE  Abstract
<1>1. \A a \in Agents : /\ Sending(a)' <=> Sending(a)
                        /\ Queued(a)' <=> Queued(a)
                        /\ Executing(a)' <=> Executing(a)
                        /\ Resending(a)' <=> Resending(a)
  BY SendsSame, QueueSame, ExecSame DEF Quiet
<1>2. held' = held
  BY DEF Quiet
<1>3. runningAgents' = runningAgents
  BY <1>1, Membership, MembershipNext
<1>4. CASE UNCHANGED rerun_requested
  <2>1. requestedAgents' = requestedAgents
    BY <1>1, <1>2, <1>4, Membership, MembershipNext
  <2>2. QED
    BY <1>3, <2>1 DEF Abstract
<1>5. ASSUME NEW a \in Agents, rerun_requested' = [rerun_requested EXCEPT ![a] = TRUE]
      PROVE  Abstract
  <2>1. \A b \in Agents : rerun_requested'[b] <=> rerun_requested[b] \/ b = a
    BY <1>5 DEF TypeOK, SupervisorOK
  <2>2. requestedAgents' = requestedAgents \cup {a}
    BY <1>1, <1>2, <2>1, Membership, MembershipNext
  <2>3. QED
    BY <1>3, <2>2 DEF Abstract, Executor!Next, Executor!Request
<1>6. QED
  BY <1>4, <1>5

\* A claim, or a rerun asked for, is a request.
LEMMA ClaimWakeSimulates ==
  ASSUME TypeOK, Flight, NEW c \in Callers, ClaimWake(c)
  PROVE  Abstract
<1> DEFINE a == caller[c].agent
<1>0. a = caller[c].agent /\ CallersOK /\ a \in Agents
  BY DEF ClaimWake, TypeOK, CallersOK
<1>1. TasksKept /\ ExecKept /\ UNCHANGED <<wakeQueue, held>>
  BY TasksKeptUnchanged DEF ClaimWake, supervisor
<1>2. \A b \in Agents : ~InSend(c, b)
  BY DEF ClaimWake, InSend
<1>3. CASE /\ AfterWake(c) /\ UNCHANGED running_or_queued
           /\ rerun_requested' = [rerun_requested EXCEPT ![a] = TRUE]
  BY <1>0, <1>1, <1>2, <1>3, AfterWakeSends, QuietSimulates DEF Quiet, SendsKept
<1>4. CASE /\ ~running_or_queued[a]
           /\ rerun_requested' = [rerun_requested EXCEPT ![a] = FALSE]
  <2>0. ~running_or_queued[a] /\ rerun_requested' = [rerun_requested EXCEPT ![a] = FALSE]
    BY <1>4
  <2> HIDE DEF a
  <2>1. \A b \in Agents : Sending(b)' <=> Sending(b) \/ b = a
    BY <1>0, <2>0, ClaimWakeMoves
  <2>2. \A b \in Agents \ {a} : rerun_requested'[b] = rerun_requested[b]
    BY <2>0 DEF TypeOK, SupervisorOK
  <2>3. requestedAgents' = requestedAgents \cup {a}
    BY <1>0, <1>1, <2>1, <2>2, QueueSame, ExecSame, Membership, MembershipNext
  <2>4. runningAgents' = runningAgents
    BY <1>1, ExecSame, Membership, MembershipNext
  <2>5. QED
    BY <1>0, <2>3, <2>4 DEF Abstract, Executor!Next, Executor!Request
<1>5. QED
  BY <1>3, <1>4 DEF ClaimWake

\* A send is a stutter: the agent stays requested.
LEMMA SendWakeSimulates ==
  ASSUME TypeOK, Flight, NEW c \in Callers, SendWake(c)
  PROVE  Abstract
<1> DEFINE a == caller[c].agent
<1>1. /\ a \in Agents /\ Sending(a)
      /\ \A b \in Agents : Sending(b)' <=> Sending(b) /\ b # a
      /\ \A b \in Agents : Queued(b)' <=> Queued(b) \/ b = a
  BY SendWakeMoves
<1>2. TasksKept /\ ExecKept /\ UNCHANGED <<held, rerun_requested>>
  BY TasksKeptUnchanged DEF SendWake, supervisor, wakeState
<1> HIDE DEF a
<1>3. requestedAgents' = requestedAgents
  BY <1>1, <1>2, ExecSame, Membership, MembershipNext
<1>4. runningAgents' = runningAgents
  BY <1>2, ExecSame, Membership, MembershipNext
<1>5. QED
  BY <1>3, <1>4 DEF Abstract

\* A receive is a stutter: the agent stays requested.
LEMMA ReceiveSimulates ==
  ASSUME TypeOK, Flight, Receive
  PROVE  Abstract
<1> DEFINE a == Head(wakeQueue)
<1>1. /\ a \in Agents /\ Queued(a) /\ held' = a
      /\ \A b \in Agents : held # b
      /\ \A b \in Agents : Queued(b)' <=> Queued(b) /\ b # a
  BY ReceiveMoves
<1>2. SendsKept /\ TasksKept /\ ExecKept /\ UNCHANGED rerun_requested
  BY SendsKeptUnchanged, TasksKeptUnchanged DEF Receive, wakeState
<1> HIDE DEF a
<1>3. requestedAgents' = requestedAgents
  BY <1>1, <1>2, SendsSame, ExecSame, Membership, MembershipNext
<1>4. runningAgents' = runningAgents
  BY <1>2, ExecSame, Membership, MembershipNext
<1>5. QED
  BY <1>3, <1>4 DEF Abstract

\* The start of a quantum serves every request made so far, unless a rerun
\* was remembered.
LEMMA SpawnSimulates ==
  ASSUME TypeOK, Flight, NEW t \in Tasks, Spawn(t)
  PROVE  Abstract
<1> DEFINE r == [task[t] EXCEPT !.pc = "load", !.agent = held, !.sem = heldSem]
<1>0. /\ TasksOK /\ held \in Agents /\ task[t].pc = "free"
      /\ \A b \in Agents : held' # b
  BY NoAgentAssumption DEF Spawn, TypeOK, SupervisorOK
<1>1. r.pc = "load" /\ r.agent = held
  BY <1>0 DEF TasksOK, TaskState
<1>2. task'[t] = r /\ \A u \in Tasks \ {t} : task'[u] = task[u]
  BY <1>0 DEF Spawn, TasksOK
<1> HIDE DEF r
<1>3. \A b \in Agents : /\ Executing(b)' <=> Executing(b) \/ b = held
                        /\ Resending(b)' <=> Resending(b)
  BY <1>0, <1>1, <1>2 DEF Executing, Resending, InTask
<1>4. ~Executing(held) /\ ~Sending(held) /\ ~Queued(held) /\ ~Resending(held)
  BY <1>0, SpawnedCases DEF Flight, SingleFlight
<1>5. SendsKept /\ UNCHANGED <<wakeQueue, rerun_requested>>
  BY SendsKeptUnchanged DEF Spawn, wakeState
<1>6. held \in requestedAgents \ runningAgents
  BY <1>0, <1>4, Membership
<1>7. runningAgents' = runningAgents \cup {held}
  BY <1>0, <1>3, Membership, MembershipNext
<1>8. requestedAgents' \in {requestedAgents, requestedAgents \ {held}}
  <2>1. \A b \in Agents \ {held} : b \in requestedAgents' <=> b \in requestedAgents
    BY <1>0, <1>3, <1>5, SendsSame, QueueSame, Membership, MembershipNext
  <2>2. requestedAgents' \subseteq Agents /\ requestedAgents \subseteq Agents
    BY Membership, MembershipNext
  <2>3. QED
    BY <1>6, <2>1, <2>2
<1>9. QED
  BY <1>0, <1>6, <1>7, <1>8 DEF Abstract, Executor!Next, Executor!Start

\* The end of the cycle: the agent stops, and is requested again if the
\* quantum or a wake-up in the meantime asked for it.
LEMMA FinishCycleSimulates ==
  ASSUME TypeOK, Flight, NEW t \in Tasks, FinishCycle(t)
  PROVE  Abstract
<1> DEFINE a == task[t].agent
<1>0. /\ a = task[t].agent /\ TasksOK /\ task[t].pc = "finish" /\ a \in Agents
      /\ \A u \in Tasks : InTask(u, a) => u = t
      /\ rerun_requested \in [Agents -> BOOLEAN]
  BY DEF FinishCycle, TypeOK, TasksOK, SupervisorOK, Flight, SingleFlight, OneTask, InTask
<1>1. SendsKept /\ UNCHANGED <<wakeQueue, held>>
  BY SendsKeptUnchanged DEF FinishCycle, supervisor
<1>2. a \in runningAgents /\ ~Resending(a) /\ ~Sending(a) /\ ~Queued(a) /\ held # a
  <2>1. Executing(a) /\ ~Resending(a)
    BY <1>0 DEF Executing, Resending, InTask
  <2>2. QED
    BY <1>0, <2>1, SpawnedCases, Membership DEF Flight, SingleFlight
<1>3. \A u \in Tasks \ {t} : task'[u] = task[u]
  BY <1>0 DEF FinishCycle, TaskGoes, TasksOK
<1>4. CASE TaskGoes(t, "resend") /\ rerun_requested' = [rerun_requested EXCEPT ![a] = FALSE]
  <2>1. task'[t].pc = "resend" /\ task'[t].agent = a
    BY <1>0, <1>4 DEF TaskGoes, TasksOK, TaskState
  <2>2. \A b \in Agents \ {a} : rerun_requested'[b] = rerun_requested[b]
    BY <1>0, <1>4
  <2> HIDE DEF a
  <2>3. \A b \in Agents : /\ Executing(b)' <=> Executing(b) /\ b # a
                          /\ Resending(b)' <=> Resending(b) \/ b = a
    BY <1>0, <1>3, <2>1 DEF Executing, Resending, InTask
  <2>4. requestedAgents' = requestedAgents \cup {a}
    BY <1>0, <1>1, <2>2, <2>3, SendsSame, QueueSame, Membership, MembershipNext
  <2>5. runningAgents' = runningAgents \ {a}
    BY <2>3, Membership, MembershipNext
  <2>6. QED
    BY <1>0, <1>2, <2>4, <2>5 DEF Abstract, Executor!Next, Executor!Stop
<1>5. CASE task' = [task EXCEPT ![t] = FreeTask] /\ UNCHANGED rerun_requested
  <2>1. task'[t].pc = "free"
    BY <1>0, <1>5 DEF TasksOK, FreeTask
  <2> HIDE DEF a
  <2>2. \A b \in Agents : /\ Executing(b)' <=> Executing(b) /\ b # a
                          /\ Resending(b)' <=> Resending(b)
    BY <1>0, <1>3, <2>1 DEF Executing, Resending, InTask
  <2>3. requestedAgents' = requestedAgents
    BY <1>1, <1>5, <2>2, SendsSame, QueueSame, Membership, MembershipNext
  <2>4. runningAgents' = runningAgents \ {a}
    BY <2>2, Membership, MembershipNext
  <2>5. QED
    BY <1>0, <1>2, <2>3, <2>4 DEF Abstract, Executor!Next, Executor!Stop
<1>6. QED
  BY <1>4, <1>5 DEF FinishCycle

\* A resend is a stutter: the agent stays requested.
LEMMA ResendSimulates ==
  ASSUME TypeOK, Flight, NEW t \in Tasks, Resend(t)
  PROVE  Abstract
<1> DEFINE a == task[t].agent
<1>0. /\ a = task[t].agent /\ TasksOK /\ task[t].pc = "resend" /\ a \in Agents
      /\ \A u \in Tasks : InTask(u, a) => u = t
      /\ wakeQueue \in Seq(Agents) /\ wakeQueue' = Append(wakeQueue, a)
  BY DEF Resend, TypeOK, TasksOK, SupervisorOK, Flight, SingleFlight, OneTask, InTask
<1>1. SendsKept /\ UNCHANGED <<held, rerun_requested>>
  BY SendsKeptUnchanged DEF Resend, supervisor, wakeState
<1>2. task'[t].pc = "free" /\ \A u \in Tasks \ {t} : task'[u] = task[u]
  BY <1>0 DEF Resend, TasksOK, FreeTask
<1> HIDE DEF a
<1>3. \A b \in Agents : /\ Executing(b)' <=> Executing(b)
                        /\ Resending(b)' <=> Resending(b) /\ b # a
  BY <1>0, <1>2 DEF Executing, Resending, InTask
<1>4. Resending(a) /\ ~Queued(a)
  <2>1. Resending(a)
    BY <1>0 DEF Resending, InTask
  <2>2. QED
    BY <1>0, <2>1, SpawnedCases DEF Flight, SingleFlight
<1>5. \A b \in Agents : Queued(b)' <=> Queued(b) \/ b = a
  BY <1>0, <1>4, QueueGains DEF Flight, SingleFlight
<1>6. requestedAgents' = requestedAgents
  BY <1>1, <1>3, <1>4, <1>5, SendsSame, Membership, MembershipNext
<1>7. runningAgents' = runningAgents
  BY <1>3, Membership, MembershipNext
<1>8. QED
  BY <1>6, <1>7 DEF Abstract
-----------------------------------------------------------------------------
\* The initial states map to the initial state of the executor.
LEMMA InitSimulates == Init => Executor!Init
<1> SUFFICES ASSUME Init PROVE requestedAgents = {} /\ runningAgents = {}
  BY DEF Executor!Init
<1>1. \A a \in Agents : ~Sending(a) /\ ~Spawned(a) /\ ~Queued(a)
  BY DEF Init, Sending, InSend, IdleCaller, Spawned, InTask, FreeTask, Queued, InQueue
<1>2. \A a \in Agents : ~rerun_requested[a] /\ held # a
  BY NoAgentAssumption DEF Init
<1>3. QED
  BY <1>1, <1>2, SpawnedCases, Membership

\* Every step maps to a step of the executor or a stutter.
LEMMA StepSimulates ==
  ASSUME TypeOK, Flight, [Next]_vars
  PROVE  [Executor!Next]_(Executor!vars)
<1>1. ASSUME NEW c \in Callers, CallerStarts(c) PROVE Abstract
  <2>1. UNCHANGED rerun_requested
    BY <1>1 DEF CallerStarts, Post, Answer, WaitOver, Interrupt, wakeState
  <2>2. QED
    BY <1>1, <2>1, QuietCallerStarts, QuietSimulates
<1>2. ASSUME NEW c \in Callers, CallerStep(c) PROVE Abstract
  <2>1. CASE ClaimWake(c) \/ SendWake(c)
    BY <2>1, ClaimWakeSimulates, SendWakeSimulates
  <2>2. CASE \/ CheckTarget(c) \/ ResumeLoad(c) \/ ResumeSave(c) \/ ForgetQuestion(c)
             \/ OverSave(c) \/ Notify(c) \/ CancelLoad(c) \/ CancelSave(c)
    <3>1. UNCHANGED rerun_requested
      BY <2>2 DEF CheckTarget, ResumeLoad, ResumeSave, ForgetQuestion, OverSave, Notify,
                  CancelLoad, CancelSave, wakeState
    <3>2. QED
      BY <2>2, <3>1, QuietCallerStep, QuietSimulates
  <2>3. QED
    BY <1>2, <2>1, <2>2 DEF CallerStep
<1>3. ASSUME NEW t \in Tasks, TaskStep(t) PROVE Abstract
  <2>1. CASE FinishCycle(t) \/ Resend(t)
    BY <2>1, FinishCycleSimulates, ResendSimulates
  <2>2. CASE SelfWake(t, "selfWake", "read") \/ SelfWake(t, "settle", "finish")
    <3>1. task[t].agent \in Agents
      BY <2>2 DEF SelfWake, TypeOK, TasksOK
    <3>2. \/ UNCHANGED rerun_requested
          \/ rerun_requested' = [rerun_requested EXCEPT ![task[t].agent] = TRUE]
      BY <2>2 DEF SelfWake
    <3>3. QED
      BY <2>2, <3>1, <3>2, QuietTaskStep, QuietSimulates
  <2>3. CASE \/ QuantumLoad(t) \/ QuantumSave(t) \/ QuantumExamine(t) \/ QuantumRead(t)
             \/ QuantumReturns(t) \/ QuantumCommit(t)
    <3>1. UNCHANGED rerun_requested
      BY <2>3 DEF QuantumLoad, QuantumSave, QuantumExamine, QuantumRead, QuantumReturns,
                  QuantumCommit, wakeState
    <3>2. QED
      BY <2>3, <3>1, QuietTaskStep, QuietSimulates
  <2>4. QED
    BY <1>3, <2>1, <2>2, <2>3 DEF TaskStep
<1>4. ASSUME Reload \/ UNCHANGED vars PROVE Abstract
  <2>1. Quiet /\ ExecKept /\ UNCHANGED rerun_requested
    BY <1>4, SendsKeptUnchanged, TasksKeptUnchanged
       DEF Quiet, Reload, vars, wakeState, supervisor
  <2>2. QED
    BY <2>1, QuietSimulates
<1>5. Abstract
  BY <1>1, <1>2, <1>3, <1>4, ReceiveSimulates, SpawnSimulates DEF Next
<1>6. QED
  BY <1>5 DEF Abstract, Executor!vars

\* The wake-up protocol (main.rs: wake_agent, supervisor_loop,
\* finish_agent_wake_cycle) implements a serial executor: an agent runs only
\* after it was requested, never twice at once, and a request made while it
\* runs is not forgotten.
THEOREM ImplementsExecutor == Spec => ExecutorSpec
<1>1. Init => TypeOK /\ Flight /\ Executor!Init
  BY InitTyped, InitFlight, InitSimulates
<1>2. TypeOK /\ Flight /\ [Next]_vars => (TypeOK /\ Flight)'
  BY NextTyped, NextFlight
<1>3. TypeOK /\ Flight /\ [Next]_vars => [Executor!Next]_(Executor!vars)
  BY StepSimulates
<1>4. QED
  BY <1>1, <1>2, <1>3, PTL DEF Spec, ExecutorSpec, Executor!Spec

-----------------------------------------------------------------------------
(* Mail.  state.json is loaded, kept for a while and saved as a whole by    *)
(* quanta, answers, timers and interrupts, so the offset on disk is one     *)
(* that any of them kept: the first invariant is about every copy.  The     *)
(* second says who serves mail that is not consumed, and that the task of   *)
(* an agent is the only one that parks it.                                  *)

DiskBehind == NoMailSkipped

CallersBehind ==
  \A c \in Callers :
    caller[c].pc # "idle" => caller[c].copy.offset <= consumed[caller[c].agent]

TasksBehind ==
  \A t \in Tasks :
    task[t].pc \notin {"free", "load"} => task[t].copy.offset <= consumed[task[t].agent]

\* No offset anybody holds, on disk or in memory, is beyond what was consumed.
OffsetsBehind == DiskBehind /\ CallersBehind /\ TasksBehind

\* Saving a state does not change its offset unless that is what is changed.
LEMMA SameOffset ==
  ASSUME NEW s \in AgentState
  PROVE  /\ [s EXCEPT !.status = "Idle"].offset = s.offset
         /\ [s EXCEPT !.status = "Idle", !.work = FALSE].offset = s.offset
         /\ [s EXCEPT !.status = "Running", !.work = TRUE].offset = s.offset
         /\ [s EXCEPT !.status = "WaitingUser"].offset = s.offset
         /\ [s EXCEPT !.status = "WaitingDependency"].offset = s.offset
         /\ \A n \in 0..MaxMail : [s EXCEPT !.offset = n].offset = n
BY DEF AgentState

\* A fresh state is behind everything.
LEMMA FreshBehind ==
  ASSUME TypeOK, NEW a \in Agents
  PROVE  Fresh.offset <= consumed[a]
BY BoundsAssumption DEF Fresh, TypeOK, HistoryOK

\* The ways in which the three parts stay true while nothing is consumed.
LEMMA SaveBehind ==
  ASSUME TypeOK, OffsetsBehind, UNCHANGED consumed,
         NEW a \in Agents, NEW s, s.offset <= consumed[a], SaveState(a, s)
  PROVE  DiskBehind'
BY DEF SaveState, OffsetsBehind, DiskBehind, NoMailSkipped, TypeOK, FilesOK

\* A caller's record is replaced by one whose copy is behind.
LEMMA CallerBehind ==
  ASSUME TypeOK, OffsetsBehind, UNCHANGED consumed,
         NEW c \in Callers, NEW r, caller' = [caller EXCEPT ![c] = r],
         r.pc # "idle" => r.copy.offset <= consumed[r.agent]
  PROVE  CallersBehind'
BY DEF OffsetsBehind, CallersBehind, TypeOK, CallersOK

\* A task's record is replaced by one whose copy is behind.
LEMMA TaskBehind ==
  ASSUME TypeOK, OffsetsBehind, UNCHANGED consumed,
         NEW t \in Tasks, NEW r, task' = [task EXCEPT ![t] = r],
         r.pc \notin {"free", "load"} => r.copy.offset <= consumed[r.agent]
  PROVE  TasksBehind'
BY DEF OffsetsBehind, TasksBehind, TypeOK, TasksOK
-----------------------------------------------------------------------------
\* A caller that begins an operation knows nothing yet or what is on disk.
LEMMA BeginsBehind ==
  ASSUME TypeOK, OffsetsBehind, UNCHANGED consumed,
         NEW c \in Callers, NEW to, NEW a \in Agents, NEW s, NEW answers,
         s.offset <= consumed[a], CallerBegins(c, to, a, s, answers)
  PROVE  CallersBehind'
<1> DEFINE r == [pc |-> to, agent |-> a, copy |-> s, answers |-> answers]
<1>1. caller' = [caller EXCEPT ![c] = r]
  BY DEF CallerBegins
<1>2. r.copy = s /\ r.agent = a
  OBVIOUS
<1> HIDE DEF r
<1>3. QED
  BY <1>1, <1>2, CallerBehind

\* A caller that loads a state which is behind.
LEMMA LoadsBehind ==
  ASSUME TypeOK, OffsetsBehind, UNCHANGED consumed,
         NEW c \in Callers, NEW to, NEW s,
         s.offset <= consumed[caller[c].agent], CallerLoads(c, to, s)
  PROVE  CallersBehind'
<1> DEFINE r == [caller[c] EXCEPT !.pc = to, !.copy = s]
<1>1. caller[c] \in CallerState
  BY DEF TypeOK, CallersOK
<1>2. r.copy = s /\ r.agent = caller[c].agent
  BY <1>1 DEF CallerState
<1>3. caller' = [caller EXCEPT ![c] = r]
  BY DEF CallerLoads
<1> HIDE DEF r
<1>4. QED
  BY <1>2, <1>3, CallerBehind

\* A caller that goes on drops what it loaded.
LEMMA GoesBehind ==
  ASSUME TypeOK, OffsetsBehind, UNCHANGED consumed,
         NEW c \in Callers, caller[c].pc # "idle", NEW to, CallerGoes(c, to)
  PROVE  CallersBehind'
<1>1. caller[c].agent \in Agents
  BY DEF TypeOK, CallersOK
<1>2. Fresh.offset <= consumed[caller[c].agent] /\ CallerLoads(c, to, Fresh)
  BY <1>1, FreshBehind DEF CallerGoes, CallerLoads
<1>3. QED
  BY <1>2, LoadsBehind

\* A caller that ends holds no copy.
LEMMA EndsBehind ==
  ASSUME TypeOK, OffsetsBehind, UNCHANGED consumed, NEW c \in Callers, CallerEnds(c)
  PROVE  CallersBehind'
<1>1. IdleCaller.pc = "idle"
  BY DEF IdleCaller
<1>2. QED
  BY <1>1, CallerBehind DEF CallerEnds
-----------------------------------------------------------------------------
\* A task that loads a state which is behind.
LEMMA TaskLoadsBehind ==
  ASSUME TypeOK, OffsetsBehind, UNCHANGED consumed,
         NEW t \in Tasks, NEW to, NEW s,
         s.offset <= consumed[task[t].agent], TaskLoads(t, to, s)
  PROVE  TasksBehind'
<1> DEFINE r == [task[t] EXCEPT !.pc = to, !.copy = s]
<1>1. task[t] \in TaskState
  BY DEF TypeOK, TasksOK
<1>2. r.copy = s /\ r.agent = task[t].agent
  BY <1>1 DEF TaskState
<1>3. task' = [task EXCEPT ![t] = r]
  BY DEF TaskLoads
<1> HIDE DEF r
<1>4. QED
  BY <1>2, <1>3, TaskBehind

\* A task that only goes on keeps its copy.
LEMMA TaskGoesBehind ==
  ASSUME TypeOK, OffsetsBehind, UNCHANGED consumed,
         NEW t \in Tasks, task[t].pc \notin {"free", "load"}, NEW to, TaskGoes(t, to)
  PROVE  TasksBehind'
<1> DEFINE r == [task[t] EXCEPT !.pc = to]
<1>1. task[t] \in TaskState
  BY DEF TypeOK, TasksOK
<1>2. r.copy = task[t].copy /\ r.agent = task[t].agent
  BY <1>1 DEF TaskState
<1>3. task[t].copy.offset <= consumed[task[t].agent]
  BY DEF OffsetsBehind, TasksBehind
<1>4. task' = [task EXCEPT ![t] = r]
  BY DEF TaskGoes
<1> HIDE DEF r
<1>5. QED
  BY <1>2, <1>3, <1>4, TaskBehind

\* A quantum that gives up drops its copy.
LEMMA GiveUpBehind ==
  ASSUME TypeOK, OffsetsBehind, UNCHANGED consumed,
         NEW t \in Tasks, task[t].pc # "free", GiveUp(t)
  PROVE  TasksBehind'
<1> DEFINE r == [FreeTask EXCEPT !.pc = "finish", !.agent = task[t].agent,
                                 !.sem = task[t].sem, !.rerun = FALSE]
<1>1. r.copy = Fresh /\ r.agent = task[t].agent
  BY DEF FreeTask
<1>2. task[t].agent \in Agents
  BY DEF TypeOK, TasksOK
<1>3. task' = [task EXCEPT ![t] = r]
  BY DEF GiveUp, TaskReturns
<1> HIDE DEF r
<1>4. QED
  BY <1>1, <1>2, <1>3, FreshBehind, TaskBehind

\* So does a task that ends.
LEMMA TaskEndsBehind ==
  ASSUME TypeOK, OffsetsBehind, UNCHANGED consumed,
         NEW t \in Tasks, task' = [task EXCEPT ![t] = FreeTask]
  PROVE  TasksBehind'
<1>1. FreeTask.pc = "free"
  BY DEF FreeTask
<1>2. QED
  BY <1>1, TaskBehind
-----------------------------------------------------------------------------
\* A part whose variables do not change stays true.
LEMMA PartsKept ==
  ASSUME OffsetsBehind, UNCHANGED consumed
  PROVE  /\ UNCHANGED disk => DiskBehind'
         /\ UNCHANGED caller => CallersBehind'
         /\ UNCHANGED task => TasksBehind'
BY DEF OffsetsBehind, DiskBehind, NoMailSkipped, CallersBehind, TasksBehind

\* A caller that starts an operation.
LEMMA CallerStartsBehind ==
  ASSUME TypeOK, OffsetsBehind, NEW c \in Callers, CallerStarts(c)
  PROVE  OffsetsBehind'
<1> PICK a \in Agents : Post(c, a) \/ Answer(c, a) \/ WaitOver(c, a) \/ Interrupt(c, a)
  BY DEF CallerStarts
<1>0. UNCHANGED <<disk, consumed>>
  BY DEF Post, Answer, WaitOver, Interrupt, files, history
<1>1. Fresh.offset <= consumed[a] /\ disk[a].offset <= consumed[a]
  BY FreshBehind DEF OffsetsBehind, DiskBehind, NoMailSkipped
<1>2. CallersBehind'
  BY <1>0, <1>1, BeginsBehind DEF Post, Answer, WaitOver, Interrupt
<1>3. TasksBehind'
  <2>1. CASE Interrupt(c, a)
    <3>1. ASSUME NEW t \in Tasks
          PROVE  /\ task'[t].pc = task[t].pc /\ task'[t].agent = task[t].agent
                 /\ task'[t].copy = task[t].copy
      <4>1. task'[t] = task[t] \/ task'[t] = [task[t] EXCEPT !.cancelled = TRUE]
        BY <2>1, Zenon DEF Interrupt
      <4>2. task[t] \in TaskState
        BY DEF TypeOK, TasksOK
      <4>3. QED
        BY <4>1, <4>2 DEF TaskState
    <3>2. QED
      BY <1>0, <3>1 DEF OffsetsBehind, TasksBehind
  <2>2. CASE ~Interrupt(c, a)
    BY <1>0, <2>2, PartsKept DEF Post, Answer, WaitOver
  <2>3. QED
    BY <2>1, <2>2
<1>4. QED
  BY <1>0, <1>2, <1>3, PartsKept DEF OffsetsBehind

\* A caller inside an operation: what it saves it loaded.
LEMMA CallerStepBehind ==
  ASSUME TypeOK, OffsetsBehind, NEW c \in Callers, CallerStep(c)
  PROVE  OffsetsBehind'
<1>1. UNCHANGED <<task, consumed>>
  BY DEF CallerStep, CheckTarget, ClaimWake, SendWake, ResumeLoad, ResumeSave, ForgetQuestion,
         OverSave, Notify, CancelLoad, CancelSave, history
<1>2. /\ caller[c].pc # "idle" /\ caller[c].agent \in Agents
      /\ caller[c].copy \in AgentState
      /\ caller[c].copy.offset <= consumed[caller[c].agent]
      /\ disk[caller[c].agent].offset <= consumed[caller[c].agent]
  <2>1. caller[c].pc # "idle"
    BY DEF CallerStep, CheckTarget, ClaimWake, SendWake, ResumeLoad, ResumeSave, ForgetQuestion,
           OverSave, Notify, CancelLoad, CancelSave
  <2>2. QED
    BY <2>1 DEF TypeOK, CallersOK, CallerState, OffsetsBehind, CallersBehind, DiskBehind,
                NoMailSkipped
<1>3. ASSUME AfterWake(c) PROVE CallersBehind'
  BY <1>1, <1>2, <1>3, GoesBehind, EndsBehind DEF AfterWake
<1>4. CASE CheckTarget(c) \/ ClaimWake(c) \/ SendWake(c) \/ ForgetQuestion(c) \/ Notify(c)
  <2>1. UNCHANGED disk
    BY <1>4 DEF CheckTarget, ClaimWake, SendWake, ForgetQuestion, Notify, files
  <2>2. CallersBehind'
    BY <1>1, <1>2, <1>3, <1>4, GoesBehind, EndsBehind
       DEF CheckTarget, ClaimWake, SendWake, ForgetQuestion, Notify
  <2>3. QED
    BY <1>1, <2>1, <2>2, PartsKept DEF OffsetsBehind
<1>5. CASE ResumeLoad(c) \/ CancelLoad(c)
  <2>1. UNCHANGED disk
    BY <1>5 DEF ResumeLoad, CancelLoad, files
  <2>2. CallersBehind'
    BY <1>1, <1>2, <1>5, LoadsBehind DEF ResumeLoad, CancelLoad
  <2>3. QED
    BY <1>1, <2>1, <2>2, PartsKept DEF OffsetsBehind
<1>6. CASE ResumeSave(c) \/ OverSave(c)
  <2>1. DiskBehind'
    BY <1>1, <1>2, <1>6, SameOffset, SaveBehind DEF ResumeSave, OverSave
  <2>2. CallersBehind'
    BY <1>1, <1>2, <1>6, GoesBehind DEF ResumeSave, OverSave
  <2>3. QED
    BY <1>1, <2>1, <2>2, PartsKept DEF OffsetsBehind
<1>7. CASE CancelSave(c)
  <2>1. DiskBehind'
    BY <1>1, <1>2, <1>7, SameOffset, SaveBehind DEF CancelSave
  <2>2. CallersBehind'
    BY <1>1, <1>2, <1>7, EndsBehind DEF CancelSave
  <2>3. QED
    BY <1>1, <2>1, <2>2, PartsKept DEF OffsetsBehind
<1>8. QED
  BY <1>4, <1>5, <1>6, <1>7 DEF CallerStep
-----------------------------------------------------------------------------
\* The supervisor hands an agent to a task: nothing counts before its load.
LEMMA SpawnBehind ==
  ASSUME TypeOK, OffsetsBehind, NEW t \in Tasks, Spawn(t)
  PROVE  OffsetsBehind'
<1> DEFINE r == [task[t] EXCEPT !.pc = "load", !.agent = held, !.sem = heldSem]
<1>1. r.pc = "load"
  BY DEF TypeOK, TasksOK, TaskState
<1>2. task' = [task EXCEPT ![t] = r] /\ UNCHANGED <<disk, caller, consumed>>
  BY DEF Spawn, files, history
<1> HIDE DEF r
<1>3. TasksBehind'
  BY <1>1, <1>2, TaskBehind
<1>4. QED
  BY <1>2, <1>3, PartsKept DEF OffsetsBehind

\* What a quantum commits: its copy with the mail it read consumed, or, when it
\* failed, its copy.
LEMMA CommitOffset ==
  ASSUME TypeOK, NEW t \in Tasks, QuantumCommit(t)
  PROVE  \E s \in AgentState, to \in {"settle", "finish"}, rerun \in BOOLEAN :
            /\ Commit(t, s, to, rerun)
            /\ s.offset = IF task[t].result = "Error" THEN task[t].copy.offset
                          ELSE task[t].upto
<1> DEFINE e == Consumed(t)
           idle == [e EXCEPT !.status = "Idle"]
           ended == [e EXCEPT !.status = "Idle", !.work = FALSE]
           asked == [e EXCEPT !.status = "WaitingUser"]
           parked == [e EXCEPT !.status = "WaitingDependency"]
           failed == [task[t].copy EXCEPT !.status = "Idle"]
<1>0. task[t].copy \in AgentState /\ task[t].upto \in 0..MaxMail
  BY DEF QuantumCommit, TypeOK, TasksOK, TaskState
<1>1. e \in AgentState /\ e.offset = task[t].upto
  BY <1>0, StateUpdates, SameOffset DEF Consumed
<1> HIDE DEF e
<1>2. /\ idle \in AgentState /\ idle.offset = task[t].upto
      /\ ended \in AgentState /\ ended.offset = task[t].upto
      /\ asked \in AgentState /\ asked.offset = task[t].upto
      /\ parked \in AgentState /\ parked.offset = task[t].upto
      /\ failed \in AgentState /\ failed.offset = task[t].copy.offset
  BY <1>0, <1>1, StateUpdates, SameOffset
<1> HIDE DEF idle, ended, asked, parked, failed
<1>3. ASSUME task[t].result # "Error",
             NEW s \in AgentState, s.offset = task[t].upto,
             NEW to \in {"settle", "finish"}, NEW rerun \in BOOLEAN, Commit(t, s, to, rerun)
      PROVE  \E st \in AgentState, go \in {"settle", "finish"}, again \in BOOLEAN :
                /\ Commit(t, st, go, again)
                /\ st.offset = IF task[t].result = "Error" THEN task[t].copy.offset
                               ELSE task[t].upto
  BY <1>3
<1>4. CASE CommitContinue(t)
  <2>1. /\ task[t].result # "Error"
        /\ \E rerun \in BOOLEAN : Commit(t, idle, "finish", rerun)
    BY <1>4 DEF CommitContinue, idle, e
  <2>2. QED
    BY <1>2, <1>3, <2>1
<1>5. CASE CommitAsk(t)
  <2>1. /\ task[t].result # "Error"
        /\ Commit(t, asked, "finish", FALSE) \/ Commit(t, e, "finish", FALSE)
    BY <1>5 DEF CommitAsk, asked, e
  <2>2. QED
    BY <1>1, <1>2, <1>3, <2>1
<1>6. CASE CommitWait(t)
  <2>1. /\ task[t].result # "Error"
        /\ Commit(t, parked, "finish", FALSE) \/ Commit(t, idle, "settle", TRUE)
    BY <1>6 DEF CommitWait, parked, idle, e
  <2>2. QED
    BY <1>2, <1>3, <2>1
<1>7. CASE CommitFinish(t)
  <2>1. /\ task[t].result # "Error"
        /\ \/ Commit(t, e, "finish", FALSE)
           \/ \E rerun \in BOOLEAN : Commit(t, idle, "finish", rerun)
           \/ Commit(t, ended, "finish", FALSE)
    BY <1>7 DEF CommitFinish, ended, idle, e
  <2>2. QED
    BY <1>1, <1>2, <1>3, <2>1
<1>8. CASE CommitCancelled(t)
  <2>1. task[t].result # "Error" /\ Commit(t, idle, "finish", FALSE)
    BY <1>8 DEF CommitCancelled, idle, e
  <2>2. QED
    BY <1>2, <1>3, <2>1
<1>9. CASE CommitError(t)
  <2>1. task[t].result = "Error" /\ Commit(t, failed, "finish", FALSE)
    BY <1>9 DEF CommitError, failed
  <2>2. QED
    BY <1>2, <2>1
<1>10. QED
  BY <1>4, <1>5, <1>6, <1>7, <1>8, <1>9, SMTT(30) DEF QuantumCommit

\* The end of a quantum: what it commits is consumed with that very step, and
\* nobody else's copy gets ahead, because what was consumed only grows.
LEMMA CommitBehind ==
  ASSUME TypeOK, TypeOK', OffsetsBehind, NEW t \in Tasks, QuantumCommit(t)
  PROVE  OffsetsBehind'
<1> DEFINE a == task[t].agent
<1>1. /\ a \in Agents /\ task[t].upto \in 0..MaxMail
      /\ task[t].copy.offset <= consumed[a] /\ UNCHANGED caller
      /\ task[t].pc = "commit"
  BY DEF QuantumCommit, TypeOK, TasksOK, TaskState, OffsetsBehind, TasksBehind
<1>2. PICK s \in AgentState, to \in {"settle", "finish"}, rerun \in BOOLEAN :
         /\ Commit(t, s, to, rerun)
         /\ s.offset = IF task[t].result = "Error" THEN task[t].copy.offset ELSE task[t].upto
  BY CommitOffset
<1>3. consumed' = [consumed EXCEPT ![a] =
         IF task[t].result # "Error" /\ @ < task[t].upto THEN task[t].upto ELSE @]
  BY DEF QuantumCommit
<1>4. consumed \in [Agents -> 0..MaxMail]
  BY DEF TypeOK, HistoryOK
<1>5. \A b \in Agents : consumed[b] <= consumed'[b]
  BY <1>1, <1>3, <1>4
<1>6. s.offset <= consumed'[a]
  BY <1>1, <1>2, <1>3, <1>4
<1>7. DiskBehind'
  <2>1. SUFFICES ASSUME NEW b \in Agents PROVE disk'[b].offset <= consumed'[b]
    BY DEF DiskBehind, NoMailSkipped
  <2>2. disk[b].offset <= consumed[b] /\ disk[b].offset \in 0..MaxMail
    BY DEF OffsetsBehind, DiskBehind, NoMailSkipped, TypeOK, FilesOK, AgentState
  <2>3. disk' = [disk EXCEPT ![a] = s] /\ disk \in [Agents -> AgentState]
    BY <1>2 DEF Commit, SaveState, TypeOK, FilesOK
  <2>4. consumed'[b] \in 0..MaxMail
    BY DEF TypeOK, HistoryOK
  <2>5. QED
    BY <1>4, <1>5, <1>6, <2>2, <2>3, <2>4
<1>8. CallersBehind'
  <2>1. SUFFICES ASSUME NEW c \in Callers, caller[c].pc # "idle"
                 PROVE  caller[c].copy.offset <= consumed'[caller[c].agent]
    BY <1>1 DEF CallersBehind
  <2>2. /\ caller[c].agent \in Agents /\ caller[c].copy.offset \in 0..MaxMail
        /\ caller[c].copy.offset <= consumed[caller[c].agent]
    BY <2>1 DEF TypeOK, CallersOK, CallerState, AgentState, OffsetsBehind, CallersBehind
  <2>3. consumed'[caller[c].agent] \in 0..MaxMail
    BY <2>2 DEF TypeOK, HistoryOK
  <2>4. QED
    BY <1>4, <1>5, <2>2, <2>3
<1>9. TasksBehind'
  <2>1. SUFFICES ASSUME NEW u \in Tasks, task'[u].pc \notin {"free", "load"}
                 PROVE  task'[u].copy.offset <= consumed'[task'[u].agent]
    BY DEF TasksBehind
  <2>2. task'[u].agent \in Agents
    BY <2>1 DEF TypeOK, TasksOK
  <2>3. consumed'[task'[u].agent] \in 0..MaxMail
    BY <2>2 DEF TypeOK, HistoryOK
  <2>4. CASE u = t
    <3>1. task'[u].copy = Fresh
      BY <1>2, <2>4 DEF Commit, TaskReturns, FreeTask, TypeOK, TasksOK
    <3>2. QED
      BY <2>3, <3>1, BoundsAssumption DEF Fresh
  <2>5. CASE u # t
    <3>1. task'[u] = task[u]
      BY <1>2, <2>5 DEF Commit, TaskReturns, TypeOK, TasksOK
    <3>2. task[u].copy.offset <= consumed[task[u].agent] /\ task[u].copy.offset \in 0..MaxMail
      BY <2>1, <3>1 DEF OffsetsBehind, TasksBehind, TypeOK, TasksOK, TaskState, AgentState
    <3>3. QED
      BY <1>4, <1>5, <2>2, <2>3, <3>1, <3>2
  <2>6. QED
    BY <2>4, <2>5
<1>10. QED
  BY <1>7, <1>8, <1>9 DEF OffsetsBehind

\* A task of the supervisor: what it saves before its commit it loaded.
LEMMA TaskStepBehind ==
  ASSUME TypeOK, TypeOK', OffsetsBehind, NEW t \in Tasks, TaskStep(t)
  PROVE  OffsetsBehind'
<1>1. ASSUME task[t].pc # "free"
      PROVE  /\ task[t].agent \in Agents /\ task[t].copy \in AgentState
             /\ disk[task[t].agent].offset <= consumed[task[t].agent]
  BY <1>1 DEF TypeOK, TasksOK, TaskState, OffsetsBehind, DiskBehind, NoMailSkipped
<1>2. ASSUME task[t].pc \notin {"free", "load"}
      PROVE  task[t].copy.offset <= consumed[task[t].agent]
  BY <1>2 DEF OffsetsBehind, TasksBehind
<1>3. CASE QuantumLoad(t)
  <2>1. UNCHANGED <<disk, caller, consumed>>
    BY <1>3 DEF QuantumLoad, files, history
  <2>2. TasksBehind'
    BY <1>1, <1>3, <2>1, TaskLoadsBehind DEF QuantumLoad
  <2>3. QED
    BY <2>1, <2>2, PartsKept DEF OffsetsBehind
<1>4. CASE QuantumSave(t)
  <2>1. UNCHANGED <<caller, consumed>> /\ task[t].pc = "save"
    BY <1>4 DEF QuantumSave, history
  <2>2. DiskBehind'
    BY <1>1, <1>2, <1>4, <2>1, SaveBehind DEF QuantumSave
  <2>3. TasksBehind'
    BY <1>4, <2>1, TaskGoesBehind DEF QuantumSave
  <2>4. QED
    BY <2>1, <2>2, <2>3, PartsKept DEF OffsetsBehind
<1>5. CASE QuantumExamine(t)
  <2>1. UNCHANGED <<caller, consumed>> /\ task[t].pc = "examine"
    BY <1>5 DEF QuantumExamine, history
  <2>2. ASSUME NEW to, Unpark(t, to) PROVE DiskBehind' /\ TasksBehind'
    <3>1. [task[t].copy EXCEPT !.status = "Idle"].offset <= consumed[task[t].agent]
      BY <1>1, <1>2, <2>1, SameOffset
    <3>2. QED
      BY <1>1, <2>1, <2>2, <3>1, SaveBehind, TaskLoadsBehind DEF Unpark
  <2>3. ASSUME GiveUp(t) PROVE TasksBehind'
    BY <2>1, <2>3, GiveUpBehind
  <2>4. ASSUME TaskGoes(t, "read") PROVE TasksBehind'
    BY <2>1, <2>4, TaskGoesBehind
  <2>5. UNCHANGED disk => DiskBehind'
    BY <2>1, PartsKept
  <2>6. DiskBehind' /\ TasksBehind'
    BY <1>5, <2>2, <2>3, <2>4, <2>5 DEF QuantumExamine
  <2>7. QED
    BY <2>1, <2>6, PartsKept DEF OffsetsBehind
<1>6. CASE SelfWake(t, "selfWake", "read") \/ SelfWake(t, "settle", "finish")
  <2>1. UNCHANGED <<disk, caller, consumed>> /\ task[t].pc \notin {"free", "load"}
    BY <1>6 DEF SelfWake, files, history
  <2>2. TasksBehind'
    BY <1>6, <2>1, TaskGoesBehind DEF SelfWake
  <2>3. QED
    BY <2>1, <2>2, PartsKept DEF OffsetsBehind
<1>7. CASE QuantumRead(t)
  <2> DEFINE s == [task[t].copy EXCEPT !.status = "Running", !.work = TRUE]
             r == [task[t] EXCEPT !.pc = "running", !.copy = Fresh,
                                  !.upto = mailbox[task[t].agent]]
  <2>1. UNCHANGED <<caller, consumed>> /\ task[t].pc = "read"
    BY <1>7 DEF QuantumRead
  <2>2. CASE GiveUp(t) /\ UNCHANGED disk
    <3>1. TasksBehind'
      BY <2>1, <2>2, GiveUpBehind
    <3>2. QED
      BY <2>1, <2>2, <3>1, PartsKept DEF OffsetsBehind
  <2>3. CASE SaveState(task[t].agent, s) /\ task' = [task EXCEPT ![t] = r]
    <3>1. s.offset <= consumed[task[t].agent]
      BY <1>1, <1>2, <2>1, SameOffset
    <3>2. r.copy = Fresh /\ r.agent = task[t].agent
      BY DEF TypeOK, TasksOK, TaskState
    <3> HIDE DEF s, r
    <3>3. DiskBehind'
      BY <1>1, <2>1, <2>3, <3>1, SaveBehind
    <3>4. TasksBehind'
      BY <1>1, <2>1, <2>3, <3>2, FreshBehind, TaskBehind
    <3>5. QED
      BY <2>1, <3>3, <3>4, PartsKept DEF OffsetsBehind
  <2>4. QED
    BY <1>7, <2>2, <2>3 DEF QuantumRead
<1>8. CASE QuantumReturns(t)
  <2>1. UNCHANGED <<disk, caller, consumed>> /\ task[t].pc = "running"
    BY <1>8 DEF QuantumReturns, files, history
  <2>2. PICK result \in Results :
           task' = [task EXCEPT ![t].pc = "commit", ![t].result = result,
                                ![t].copy = disk[task[t].agent]]
    BY <1>8 DEF QuantumReturns
  <2> DEFINE r == [task[t] EXCEPT !.pc = "commit", !.result = result,
                                  !.copy = disk[task[t].agent]]
  <2>3. r.copy = disk[task[t].agent] /\ r.agent = task[t].agent
    BY DEF TypeOK, TasksOK, TaskState
  <2>4. task' = [task EXCEPT ![t] = r]
    BY <2>2
  <2> HIDE DEF r
  <2>5. TasksBehind'
    BY <1>1, <2>1, <2>3, <2>4, TaskBehind
  <2>6. QED
    BY <2>1, <2>5, PartsKept DEF OffsetsBehind
<1>9. CASE QuantumCommit(t)
  BY <1>9, CommitBehind
<1>10. CASE FinishCycle(t)
  <2>1. UNCHANGED <<disk, caller, consumed>> /\ task[t].pc = "finish"
    BY <1>10 DEF FinishCycle, files, history
  <2>2. TasksBehind'
    BY <1>10, <2>1, TaskGoesBehind, TaskEndsBehind DEF FinishCycle
  <2>3. QED
    BY <2>1, <2>2, PartsKept DEF OffsetsBehind
<1>11. CASE Resend(t)
  <2>1. UNCHANGED <<disk, caller, consumed>>
    BY <1>11 DEF Resend, files, history
  <2>2. TasksBehind'
    BY <1>11, <2>1, TaskEndsBehind DEF Resend
  <2>3. QED
    BY <2>1, <2>2, PartsKept DEF OffsetsBehind
<1>12. QED
  BY <1>3, <1>4, <1>5, <1>6, <1>7, <1>8, <1>9, <1>10, <1>11 DEF TaskStep
-----------------------------------------------------------------------------
\* At the start nobody holds anything.
LEMMA InitBehind == Init => OffsetsBehind
BY NoAgentAssumption, BoundsAssumption
   DEF Init, OffsetsBehind, DiskBehind, NoMailSkipped, CallersBehind, TasksBehind,
       Fresh, IdleCaller, FreeTask

\* Every step keeps all copies behind.
LEMMA NextBehind == TypeOK /\ TypeOK' /\ OffsetsBehind /\ [Next]_vars => OffsetsBehind'
<1> SUFFICES ASSUME TypeOK, TypeOK', OffsetsBehind, [Next]_vars PROVE OffsetsBehind'
  OBVIOUS
<1>1. CASE \E c \in Callers : CallerStarts(c) \/ CallerStep(c)
  BY <1>1, CallerStartsBehind, CallerStepBehind
<1>2. CASE Receive \/ Reload \/ UNCHANGED vars
  BY <1>2, PartsKept DEF Receive, Reload, vars, files, history, OffsetsBehind
<1>3. CASE \E t \in Tasks : Spawn(t) \/ TaskStep(t)
  BY <1>3, SpawnBehind, TaskStepBehind
<1>4. QED
  BY <1>1, <1>2, <1>3 DEF Next

\* However the savers of state.json overwrite one another, the offset on file is
\* never beyond what a quantum has consumed: no mail is skipped (main.rs
\* 2483-2700, 835).
THEOREM OffsetsStayBehind == Spec => []NoMailSkipped
<1>1. TypeOK /\ [Next]_vars => TypeOK'
  BY NextTyped
<1>2. OffsetsBehind => NoMailSkipped
  BY DEF OffsetsBehind, DiskBehind
<1>3. QED
  BY <1>1, <1>2, TypeCorrect, InitBehind, NextBehind, PTL DEF Spec
-----------------------------------------------------------------------------
(***************************************************************************)
(* Mail and wake-ups.  NoLostWake and NoLimbo are not inductive: a caller  *)
(* at `check' that finds the agent parked goes away, and a quantum that    *)
(* gives up relies on who unparked the agent meanwhile.                    *)
(***************************************************************************)
\* A caller that will still look at the status of the agent and then wake it
\* unless it is parked; one that has appended its mail and not yet decided.
Heading(a) ==
  \E c \in Callers : caller[c].agent = a /\ caller[c].pc \in {"check", "wake", "notify"}

\* A caller that will save the agent Idle and wake it, or is about to wake it.
Resuming(a) ==
  \E c \in Callers : caller[c].agent = a /\ caller[c].pc \in {"wake", "resumeLoad", "resumeSave"}

\* The task will still read the mailbox of its agent, or goes round again.
TaskReads(t, a) ==
  /\ InTask(t, a)
  /\ \/ task[t].pc \in {"load", "save", "examine", "selfWake", "read", "resend"}
     \/ task[t].pc \in {"settle", "finish"} /\ task[t].rerun
     \/ rerun_requested[a]

\* The quantum under way has read all the mail there is.
InBatch(a) ==
  \E t \in Tasks : /\ InTask(t, a) /\ task[t].pc \in {"running", "commit"}
                   /\ task[t].upto = mailbox[a]

\* Why mail that is not consumed is not forgotten; of the callers only those
\* count that will look at the status after the step.
Served(a) ==
  Unread(a) => \/ WillRead(a) \/ Heading(a) \/ InBatch(a)
               \/ disk[a].status \in Parked
               \/ abandoned[a] # "no"

\* Why an agent whose question is gone does not stay parked.
Resumed(a) ==
  disk[a].status = "WaitingUser" /\ disk[a].work /\ ~question[a] =>
    WillRead(a) \/ Resuming(a)

\* Only the task of an agent parks it, so what the task knows of the status
\* stays true or became Idle; and a quantum that will give up because it
\* loaded a parked state leaves no mail behind that nobody else serves.
Owned(t) ==
  LET a == task[t].agent IN
  /\ task[t].pc \in {"selfWake", "read", "running", "commit"} => disk[a].status \notin Parked
  /\ task[t].pc = "commit" => task[t].copy.status \notin Parked
  /\ task[t].pc = "examine" => disk[a].status \in {task[t].copy.status, "Idle"}
  /\ task[t].pc = "examine" /\ task[t].copy.status \in Parked /\ Unread(a) =>
       \/ Heading(a) \/ rerun_requested[a]
       \/ disk[a].status \in Parked
       \/ abandoned[a] # "no"

AllServed == \A a \in Agents : Served(a) /\ Resumed(a)
AllOwned == \A t \in Tasks : Owned(t)
-----------------------------------------------------------------------------
\* WillRead by its parts.
LEMMA Reads ==
  \A a \in Agents :
    WillRead(a) <=> \/ Sending(a) \/ Queued(a) \/ held = a
                    \/ \E t \in Tasks : TaskReads(t, a)
BY DEF WillRead, TaskReads

\* The same after the step.
LEMMA ReadsNext ==
  \A a \in Agents :
    WillRead(a)' <=> \/ Sending(a)' \/ Queued(a)' \/ held' = a
                     \/ \E t \in Tasks : TaskReads(t, a)'
BY DEF WillRead, TaskReads

\* What the helpers leave in the record of a caller.
LEMMA CallerFields ==
  ASSUME CallersOK, NEW c \in Callers, NEW to
  PROVE  /\ \A a, s, answers : CallerBegins(c, to, a, s, answers) =>
              /\ caller'[c].pc = to /\ caller'[c].agent = a
              /\ \A d \in Callers \ {c} : caller'[d] = caller[d]
         /\ \A s : CallerLoads(c, to, s) =>
              /\ caller'[c].pc = to /\ caller'[c].agent = caller[c].agent
              /\ \A d \in Callers \ {c} : caller'[d] = caller[d]
         /\ CallerGoes(c, to) =>
              /\ caller'[c].pc = to /\ caller'[c].agent = caller[c].agent
              /\ \A d \in Callers \ {c} : caller'[d] = caller[d]
         /\ CallerEnds(c) =>
              /\ caller'[c].pc = "idle" /\ caller'[c].agent = NoAgent
              /\ \A d \in Callers \ {c} : caller'[d] = caller[d]
<1>1. caller[c] \in CallerState /\ caller \in [Callers -> CallerState]
  BY DEF CallersOK
<1>2. ASSUME NEW a, NEW s, NEW answers, CallerBegins(c, to, a, s, answers)
      PROVE  /\ caller'[c].pc = to /\ caller'[c].agent = a
             /\ \A d \in Callers \ {c} : caller'[d] = caller[d]
  BY <1>1, <1>2 DEF CallerBegins
<1>3. ASSUME NEW s, CallerLoads(c, to, s)
      PROVE  /\ caller'[c].pc = to /\ caller'[c].agent = caller[c].agent
             /\ \A d \in Callers \ {c} : caller'[d] = caller[d]
  BY <1>1, <1>3 DEF CallerLoads, CallerState
<1>4. CallerGoes(c, to) => CallerLoads(c, to, Fresh)
  BY DEF CallerGoes, CallerLoads
<1>5. CallerEnds(c) =>
        /\ caller'[c].pc = "idle" /\ caller'[c].agent = NoAgent
        /\ \A d \in Callers \ {c} : caller'[d] = caller[d]
  BY <1>1 DEF CallerEnds, IdleCaller
<1>6. QED
  BY <1>2, <1>3, <1>4, <1>5

\* What the helpers leave in the record of a task.
LEMMA TaskFields ==
  ASSUME TasksOK, NEW t \in Tasks, NEW to
  PROVE  /\ TaskGoes(t, to) =>
              /\ task'[t].pc = to /\ task'[t].agent = task[t].agent
              /\ task'[t].copy = task[t].copy /\ task'[t].rerun = task[t].rerun
              /\ \A u \in Tasks \ {t} : task'[u] = task[u]
         /\ \A s : TaskLoads(t, to, s) =>
              /\ task'[t].pc = to /\ task'[t].agent = task[t].agent
              /\ task'[t].copy = s
              /\ \A u \in Tasks \ {t} : task'[u] = task[u]
         /\ \A rerun : TaskReturns(t, to, rerun) =>
              /\ task'[t].pc = to /\ task'[t].agent = task[t].agent
              /\ task'[t].rerun = rerun
              /\ \A u \in Tasks \ {t} : task'[u] = task[u]
         /\ task' = [task EXCEPT ![t] = FreeTask] =>
              /\ task'[t].pc = "free"
              /\ \A u \in Tasks \ {t} : task'[u] = task[u]
<1>1. task[t] \in TaskState /\ task \in [Tasks -> TaskState]
  BY DEF TasksOK
<1>2. TaskGoes(t, to) =>
        /\ task'[t].pc = to /\ task'[t].agent = task[t].agent
        /\ task'[t].copy = task[t].copy /\ task'[t].rerun = task[t].rerun
        /\ \A u \in Tasks \ {t} : task'[u] = task[u]
  BY <1>1 DEF TaskGoes, TaskState
<1>3. ASSUME NEW s, TaskLoads(t, to, s)
      PROVE  /\ task'[t].pc = to /\ task'[t].agent = task[t].agent
             /\ task'[t].copy = s
             /\ \A u \in Tasks \ {t} : task'[u] = task[u]
  BY <1>1, <1>3 DEF TaskLoads, TaskState
<1>4. ASSUME NEW rerun, TaskReturns(t, to, rerun)
      PROVE  /\ task'[t].pc = to /\ task'[t].agent = task[t].agent
             /\ task'[t].rerun = rerun
             /\ \A u \in Tasks \ {t} : task'[u] = task[u]
  BY <1>1, <1>4 DEF TaskReturns, FreeTask
<1>5. task' = [task EXCEPT ![t] = FreeTask] =>
              /\ task'[t].pc = "free"
              /\ \A u \in Tasks \ {t} : task'[u] = task[u]
  BY <1>1 DEF FreeTask
<1>6. QED
  BY <1>2, <1>3, <1>4, <1>5

\* What a saved state looks like.
LEMMA SavedFields ==
  ASSUME TypeOK, NEW a \in Agents, NEW s \in AgentState, SaveState(a, s)
  PROVE  disk'[a] = s /\ \A b \in Agents \ {a} : disk'[b] = disk[b]
BY DEF SaveState, TypeOK, FilesOK

\* The statuses the protocol sets.
LEMMA SetStatus ==
  ASSUME NEW s \in AgentState
  PROVE  /\ [s EXCEPT !.status = "Idle"].status = "Idle"
         /\ [s EXCEPT !.status = "Idle", !.work = FALSE].status = "Idle"
         /\ [s EXCEPT !.status = "Running", !.work = TRUE].status = "Running"
         /\ "Idle" \notin Parked /\ "Running" \notin Parked /\ "WaitingUser" \in Parked
BY DEF AgentState, Parked
-----------------------------------------------------------------------------
(***************************************************************************)
(* What the step of a caller does to what the invariant speaks of.         *)
(***************************************************************************)
\* Tasks go on as they were: an interrupt only sets the token.
LEMMA CallerTasks ==
  ASSUME TypeOK, NEW c \in Callers, CallerStarts(c) \/ CallerStep(c)
  PROVE  \A t \in Tasks :
           /\ task'[t].pc = task[t].pc /\ task'[t].agent = task[t].agent
           /\ task'[t].copy = task[t].copy /\ task'[t].upto = task[t].upto
           /\ task'[t].rerun = task[t].rerun
<1>1. CASE \E a \in Agents : Interrupt(c, a)
  <2> SUFFICES ASSUME NEW t \in Tasks
               PROVE  /\ task'[t].pc = task[t].pc /\ task'[t].agent = task[t].agent
                      /\ task'[t].copy = task[t].copy /\ task'[t].upto = task[t].upto
                      /\ task'[t].rerun = task[t].rerun
    OBVIOUS
  <2>1. task'[t] = task[t] \/ task'[t] = [task[t] EXCEPT !.cancelled = TRUE]
    BY <1>1, Zenon DEF Interrupt
  <2>2. task[t] \in TaskState
    BY DEF TypeOK, TasksOK
  <2>3. QED
    BY <2>1, <2>2 DEF TaskState
<1>2. CASE UNCHANGED task
  BY <1>2
<1>3. QED
  BY <1>1, <1>2 DEF CallerStarts, Post, Answer, WaitOver, CallerStep, CheckTarget, ClaimWake,
     SendWake, ResumeLoad, ResumeSave, ForgetQuestion, OverSave, Notify, CancelLoad, CancelSave

\* A wake-up that will read the mailbox stays one: the flag of a rerun is
\* cleared only with a new wake-up, and the send moves it to the channel.
LEMMA CallerKeepsReads ==
  ASSUME TypeOK, Flight, NEW c \in Callers, CallerStarts(c) \/ CallerStep(c),
         NEW a \in Agents, WillRead(a)
  PROVE  WillRead(a)'
<1>1. \A t \in Tasks : TaskReads(t, a) /\ (rerun_requested[a] => rerun_requested'[a])
                         => TaskReads(t, a)'
  BY CallerTasks DEF TaskReads, InTask
<1>2. UNCHANGED held
  BY DEF CallerStarts, Post, Answer, WaitOver, Interrupt, CallerStep, CheckTarget, ClaimWake,
     SendWake, ResumeLoad, ResumeSave, ForgetQuestion, OverSave, Notify, CancelLoad,
     CancelSave, supervisor
<1>3. CASE ClaimWake(c)
  <2> DEFINE b == caller[c].agent
  <2>0. b \in Agents /\ CallersOK /\ rerun_requested \in [Agents -> BOOLEAN]
    BY <1>3 DEF ClaimWake, TypeOK, CallersOK, SupervisorOK
  <2>1. CASE running_or_queued[b]
    <3>1. rerun_requested[a] => rerun_requested'[a]
      BY <1>3, <2>0, <2>1 DEF ClaimWake
    <3>2. SendsKept
      <4>1. \A e \in Agents : ~InSend(c, e)
        BY <1>3 DEF ClaimWake, InSend
      <4>2. QED
        BY <1>3, <2>0, <2>1, <4>1, AfterWakeSends DEF ClaimWake, SendsKept
    <3>3. QED
      BY <1>1, <1>2, <1>3, <3>1, <3>2, SendsSame, QueueSame, Reads, ReadsNext DEF ClaimWake
  <2>2. CASE ~running_or_queued[b]
    <3>1. /\ ~InFlight(b)
          /\ \A e \in Agents : Sending(e)' <=> Sending(e) \/ e = b
      BY <1>3, <2>0, <2>2, ClaimWakeMoves
    <3>2. CASE a = b
      BY <3>1, <3>2, ReadsNext
    <3>3. CASE a # b
      <4>1. rerun_requested'[a] = rerun_requested[a]
        BY <1>3, <2>0, <2>2, <3>3 DEF ClaimWake
      <4>2. QED
        BY <1>1, <1>2, <1>3, <3>1, <4>1, QueueSame, Reads, ReadsNext DEF ClaimWake
    <3>4. QED
      BY <3>2, <3>3
  <2>3. QED
    BY <2>1, <2>2
<1>4. CASE SendWake(c)
  <2>1. /\ \A e \in Agents : Sending(e)' <=> Sending(e) /\ e # caller[c].agent
        /\ \A e \in Agents : Queued(e)' <=> Queued(e) \/ e = caller[c].agent
    BY <1>4, SendWakeMoves
  <2>2. UNCHANGED rerun_requested
    BY <1>4 DEF SendWake, wakeState
  <2>3. QED
    BY <1>1, <1>2, <2>1, <2>2, Reads, ReadsNext
<1>5. CASE ~ClaimWake(c) /\ ~SendWake(c)
  <2>1. Quiet
    BY <1>5, QuietCallerStarts, QuietCallerStep DEF CallerStep
  <2>2. UNCHANGED rerun_requested
    BY <1>5 DEF CallerStarts, Post, Answer, WaitOver, Interrupt, CallerStep, CheckTarget,
       ResumeLoad, ResumeSave, ForgetQuestion, OverSave, Notify, CancelLoad, CancelSave, wakeState
  <2>3. QED
    BY <1>1, <1>2, <2>1, <2>2, SendsSame, QueueSame, Reads, ReadsNext DEF Quiet
<1>6. QED
  BY <1>3, <1>4, <1>5

\* The step of a caller leaves the other callers alone.
LEMMA CallersAlone ==
  ASSUME TypeOK, NEW c \in Callers, CallerStarts(c) \/ CallerStep(c), NEW d \in Callers \ {c}
  PROVE  caller'[d] = caller[d]
<1>0. CallersOK
  BY DEF TypeOK
<1>1. CASE CallerStarts(c)
  BY <1>0, <1>1, CallerFields DEF CallerStarts, Post, Answer, WaitOver, Interrupt
<1>2. ASSUME AfterWake(c) PROVE caller'[d] = caller[d]
  BY <1>0, <1>2, CallerFields DEF AfterWake
<1>3. CASE CheckTarget(c) \/ ClaimWake(c) \/ SendWake(c) \/ Notify(c) \/ ForgetQuestion(c)
  BY <1>0, <1>2, <1>3, CallerFields
     DEF CheckTarget, ClaimWake, SendWake, Notify, ForgetQuestion
<1>4. CASE ResumeLoad(c) \/ ResumeSave(c) \/ OverSave(c) \/ CancelLoad(c) \/ CancelSave(c)
  BY <1>0, <1>4, CallerFields DEF ResumeLoad, ResumeSave, OverSave, CancelLoad, CancelSave
<1>5. QED
  BY <1>1, <1>3, <1>4 DEF CallerStep

\* What happens to one that has yet to wake the agent: it finds the agent
\* parked, or claims the wake-up, or asks the one in flight to go round again.
LEMMA HeadingMoves ==
  ASSUME TypeOK, NEW c \in Callers, CallerStarts(c) \/ CallerStep(c),
         NEW a \in Agents, Heading(a)
  PROVE  \/ Heading(a)'
         \/ disk'[a].status \in Parked
         \/ Sending(a)'
         \/ running_or_queued[a] /\ rerun_requested'[a]
<1>0. CallersOK
  BY DEF TypeOK
<1> PICK d \in Callers : caller[d].agent = a /\ caller[d].pc \in {"check", "wake", "notify"}
  BY DEF Heading
<1>1. CASE d # c
  <2>1. caller'[d] = caller[d]
    BY <1>1, CallersAlone
  <2>2. QED
    BY <2>1 DEF Heading
<1>2. CASE d = c
  <2>0. CheckTarget(c) \/ ClaimWake(c) \/ Notify(c)
    BY <1>2 DEF CallerStarts, Post, Answer, WaitOver, Interrupt, CallerStep, SendWake,
       ResumeLoad, ResumeSave, ForgetQuestion, OverSave, CancelLoad, CancelSave
  <2>1. CASE CheckTarget(c)
    <3>1. CASE disk[a].status \in Parked
      BY <1>2, <2>1, <3>1 DEF CheckTarget, files
    <3>2. CASE CallerGoes(c, "wake")
      BY <1>0, <1>2, <3>2, CallerFields DEF Heading
    <3>3. QED
      BY <1>2, <2>1, <3>1, <3>2 DEF CheckTarget
  <2>2. CASE ClaimWake(c)
    <3>1. CASE running_or_queued[a]
      BY <1>2, <2>2, <3>1 DEF ClaimWake, TypeOK, SupervisorOK
    <3>2. CASE ~running_or_queued[a]
      <4>1. CallerGoes(c, "send")
        BY <1>2, <2>2, <3>2 DEF ClaimWake
      <4>2. InSend(c, a)'
        BY <1>0, <1>2, <4>1, CallerFields DEF InSend
      <4>3. QED
        BY <4>2 DEF Sending
    <3>3. QED
      BY <3>1, <3>2
  <2>3. CASE Notify(c)
    BY <1>0, <1>2, <2>3, CallerFields DEF Notify, Heading
  <2>4. QED
    BY <2>0, <2>1, <2>2, <2>3
<1>3. QED
  BY <1>1, <1>2

\* What happens to one that resumes the agent.
LEMMA ResumingMoves ==
  ASSUME TypeOK, NEW c \in Callers, CallerStarts(c) \/ CallerStep(c),
         NEW a \in Agents, Resuming(a)
  PROVE  \/ Resuming(a)'
         \/ disk'[a].status = "Idle" \/ ~disk'[a].work
         \/ Sending(a)'
         \/ running_or_queued[a] /\ rerun_requested'[a]
<1>0. CallersOK
  BY DEF TypeOK
<1> PICK d \in Callers : /\ caller[d].agent = a
                         /\ caller[d].pc \in {"wake", "resumeLoad", "resumeSave"}
  BY DEF Resuming
<1>1. CASE d # c
  <2>1. caller'[d] = caller[d]
    BY <1>1, CallersAlone
  <2>2. QED
    BY <2>1 DEF Resuming
<1>2. CASE d = c
  <2>0. ClaimWake(c) \/ ResumeLoad(c) \/ ResumeSave(c)
    BY <1>2 DEF CallerStarts, Post, Answer, WaitOver, Interrupt, CallerStep, SendWake,
       CheckTarget, Notify, ForgetQuestion, OverSave, CancelLoad, CancelSave
  <2>1. CASE ResumeLoad(c)
    <3>1. CASE ~disk[a].work
      BY <1>2, <2>1, <3>1 DEF ResumeLoad, files
    <3>2. CASE disk[a].work
      <4>1. CallerLoads(c, "resumeSave", disk[a])
        BY <1>2, <2>1, <3>2 DEF ResumeLoad
      <4>2. QED
        BY <1>0, <1>2, <4>1, CallerFields DEF Resuming
    <3>3. QED
      BY <3>1, <3>2
  <2>2. CASE ClaimWake(c)
    <3>1. CASE running_or_queued[a]
      BY <1>2, <2>2, <3>1 DEF ClaimWake, TypeOK, SupervisorOK
    <3>2. CASE ~running_or_queued[a]
      <4>1. CallerGoes(c, "send")
        BY <1>2, <2>2, <3>2 DEF ClaimWake
      <4>2. InSend(c, a)'
        BY <1>0, <1>2, <4>1, CallerFields DEF InSend
      <4>3. QED
        BY <4>2 DEF Sending
    <3>3. QED
      BY <3>1, <3>2
  <2>3. CASE ResumeSave(c)
    BY <1>0, <1>2, <2>3, CallerFields DEF ResumeSave, Resuming
  <2>4. QED
    BY <2>0, <2>1, <2>2, <2>3
<1>3. QED
  BY <1>1, <1>2

\* What a caller saves: the state Idle, of an agent it goes on to wake or whose
\* unread mail it abandons.
LEMMA CallerSaves ==
  ASSUME TypeOK, NEW c \in Callers, CallerStarts(c) \/ CallerStep(c), NEW a \in Agents
  PROVE  \/ disk'[a] = disk[a]
         \/ /\ disk'[a].status = "Idle"
            /\ \/ Heading(a)'
               \/ disk[a].status \in Parked /\ Unread(a) => abandoned'[a] # "no"
<1>0. CallersOK /\ disk \in [Agents -> AgentState]
  BY DEF TypeOK, FilesOK
<1>1. ASSUME caller[c].pc # "idle"
      PROVE  caller[c].agent \in Agents /\ caller[c].copy \in AgentState
  BY <1>0, <1>1 DEF CallersOK, CallerState
<1>2. CASE ResumeSave(c) \/ OverSave(c)
  <2> DEFINE s == [caller[c].copy EXCEPT !.status = "Idle"]
  <2> PICK b \in Agents : b = caller[c].agent
    BY <1>1, <1>2 DEF ResumeSave, OverSave
  <2>1. /\ s \in AgentState /\ s.status = "Idle" /\ SaveState(b, s)
        /\ CallerGoes(c, "wake") \/ CallerGoes(c, "notify")
    BY <1>1, <1>2, StateUpdates, SetStatus DEF ResumeSave, OverSave
  <2> HIDE DEF s
  <2>2. disk'[b] = s /\ \A e \in Agents \ {b} : disk'[e] = disk[e]
    BY <2>1, SavedFields
  <2>3. Heading(b)'
    BY <1>0, <2>1, CallerFields DEF Heading
  <2>4. QED
    BY <2>1, <2>2, <2>3
<1>3. CASE CancelSave(c)
  <2> DEFINE s == [caller[c].copy EXCEPT !.status = "Idle", !.work = FALSE]
  <2> PICK b \in Agents : b = caller[c].agent
    BY <1>1, <1>3, SMTT(30) DEF CancelSave
  <2>1. s \in AgentState /\ s.status = "Idle" /\ SaveState(b, s)
    BY <1>1, <1>3, StateUpdates, SetStatus DEF CancelSave
  <2> HIDE DEF s
  <2>2. disk'[b] = s /\ \A e \in Agents \ {b} : disk'[e] = disk[e]
    BY <2>1, SavedFields
  <2>3. disk[b].status \in Parked /\ Unread(b) => abandoned'[b] # "no"
    BY <1>3, <2>1 DEF CancelSave, TypeOK, HistoryOK
  <2>4. QED
    BY <2>1, <2>2, <2>3
<1>4. CASE UNCHANGED disk
  BY <1>4
<1>5. QED
  BY <1>2, <1>3, <1>4 DEF CallerStarts, Post, Answer, WaitOver, Interrupt, CallerStep, CheckTarget,
     ClaimWake, SendWake, ResumeLoad, ForgetQuestion, Notify, CancelLoad, files

\* A caller appends only before it looks whether to wake the agent, consumes
\* nothing and forgets no abandonment.
LEMMA CallerMail ==
  ASSUME TypeOK, NEW c \in Callers, CallerStarts(c) \/ CallerStep(c), NEW a \in Agents
  PROVE  /\ UNCHANGED consumed
         /\ mailbox'[a] = mailbox[a] \/ Heading(a)'
         /\ abandoned[a] # "no" => abandoned'[a] # "no"
<1>0. CallersOK /\ mailbox \in [Agents -> 0..MaxMail]
  BY DEF TypeOK, FilesOK
<1>1. UNCHANGED consumed
  BY DEF CallerStarts, Post, Answer, WaitOver, Interrupt, CallerStep, CheckTarget, ClaimWake,
     SendWake, ResumeLoad, ResumeSave, ForgetQuestion, OverSave, Notify, CancelLoad, CancelSave,
     history
<1>2. abandoned[a] # "no" => abandoned'[a] # "no"
  <2>1. CASE CancelSave(c)
    BY <2>1 DEF CancelSave, TypeOK, HistoryOK
  <2>2. CASE UNCHANGED abandoned
    BY <2>2
  <2>3. QED
    BY <2>1, <2>2 DEF CallerStarts, Post, Answer, WaitOver, Interrupt, CallerStep, CheckTarget,
       ClaimWake, SendWake, ResumeLoad, ResumeSave, ForgetQuestion, OverSave, Notify, CancelLoad,
       history
<1>3. mailbox'[a] = mailbox[a] \/ Heading(a)'
  <2>1. ASSUME NEW b \in Agents, Post(c, b) PROVE mailbox'[a] = mailbox[a] \/ Heading(a)'
    <3>1. caller'[c].pc = "check" /\ caller'[c].agent = b
      BY <1>0, <2>1, CallerFields DEF Post
    <3>2. QED
      BY <1>0, <2>1, <3>1 DEF Post, AppendEntry, Heading
  <2>2. CASE Notify(c)
    <3>1. caller'[c].pc = "check" /\ caller'[c].agent = caller[c].agent
      BY <1>0, <2>2, CallerFields DEF Notify
    <3>2. QED
      BY <1>0, <2>2, <3>1 DEF Notify, AppendNotice, AppendEntry, Heading
  <2>3. CASE UNCHANGED mailbox
    BY <2>3
  <2>4. QED
    BY <2>1, <2>2, <2>3 DEF CallerStarts, Answer, WaitOver, Interrupt, CallerStep, CheckTarget,
       ClaimWake, SendWake, ResumeLoad, ResumeSave, ForgetQuestion, OverSave, CancelLoad,
       CancelSave, files
<1>4. QED
  BY <1>1, <1>2, <1>3

\* A caller takes a question away only to resume or to interrupt the agent.
LEMMA CallerQuestions ==
  ASSUME TypeOK, NEW c \in Callers, CallerStarts(c) \/ CallerStep(c), NEW a \in Agents
  PROVE  question'[a] = question[a] \/ Resuming(a)' \/ disk'[a].status = "Idle"
<1>0. CallersOK /\ question \in [Agents -> BOOLEAN]
  BY DEF TypeOK, FilesOK
<1>1. ASSUME NEW b \in Agents, Answer(c, b)
      PROVE  question'[a] = question[a] \/ Resuming(a)'
  <2>1. caller'[c].pc = "resumeLoad" /\ caller'[c].agent = b
    BY <1>0, <1>1, CallerFields DEF Answer
  <2>2. QED
    BY <1>0, <1>1, <2>1 DEF Answer, Resuming
<1>2. CASE CancelSave(c)
  <2> DEFINE b == caller[c].agent
             s == [caller[c].copy EXCEPT !.status = "Idle", !.work = FALSE]
  <2>1. b \in Agents /\ s \in AgentState /\ s.status = "Idle" /\ SaveState(b, s)
    BY <1>0, <1>2, StateUpdates, SetStatus DEF CancelSave, CallersOK, CallerState
  <2>2. \A e \in Agents \ {b} : question'[e] = question[e]
    BY <1>2 DEF CancelSave, TypeOK, FilesOK
  <2> HIDE DEF s
  <2>3. disk'[b] = s
    BY <2>1, SavedFields
  <2>4. QED
    BY <2>1, <2>2, <2>3
<1>3. CASE UNCHANGED question
  BY <1>3
<1>4. QED
  BY <1>1, <1>2, <1>3 DEF CallerStarts, Post, WaitOver, Interrupt, CallerStep, CheckTarget,
     ClaimWake, SendWake, ResumeLoad, ResumeSave, ForgetQuestion, OverSave, Notify, CancelLoad,
     files, questions
-----------------------------------------------------------------------------
\* A caller leaves no mail unserved.
LEMMA CallerServes ==
  ASSUME TypeOK, TypeOK', Flight, AllServed, AllOwned,
         NEW c \in Callers, CallerStarts(c) \/ CallerStep(c), NEW a \in Agents
  PROVE  Served(a)'
<1> SUFFICES ASSUME Unread(a)', ~Heading(a)', abandoned'[a] = "no", disk'[a].status \notin Parked
             PROVE  WillRead(a)' \/ InBatch(a)'
  BY DEF Served
<1>1. mailbox'[a] = mailbox[a] /\ UNCHANGED consumed /\ abandoned[a] = "no"
  BY CallerMail
<1>2. Unread(a)
  BY <1>1 DEF Unread
<1>3. disk[a].status \notin Parked
  BY <1>2, CallerSaves
<1>4. CASE WillRead(a)
  BY <1>4, CallerKeepsReads
<1>5. CASE Heading(a)
  <2>1. CASE Sending(a)'
    BY <2>1, ReadsNext
  <2>2. CASE running_or_queued[a] /\ rerun_requested'[a]
    <3>1. CASE Sending(a) \/ Queued(a) \/ held = a
      BY <3>1, Reads, CallerKeepsReads
    <3>2. CASE Spawned(a)
      <4>1. PICK t \in Tasks : InTask(t, a)
        BY <3>2 DEF Spawned
      <4>2. TaskReads(t, a)'
        BY <2>2, <4>1, CallerTasks DEF TaskReads, InTask
      <4>3. QED
        BY <4>2, ReadsNext
    <3>3. QED
      BY <2>2, <3>1, <3>2 DEF Flight, FlagIsExact, InFlight
  <2>3. QED
    BY <1>5, <2>1, <2>2, HeadingMoves
<1>6. CASE InBatch(a)
  BY <1>1, <1>6, CallerTasks DEF InBatch, InTask
<1>7. QED
  BY <1>1, <1>2, <1>3, <1>4, <1>5, <1>6 DEF AllServed, Served

\* A caller leaves no agent at a question that is gone.
LEMMA CallerResumes ==
  ASSUME TypeOK, TypeOK', Flight, AllServed,
         NEW c \in Callers, CallerStarts(c) \/ CallerStep(c), NEW a \in Agents
  PROVE  Resumed(a)'
<1> SUFFICES ASSUME disk'[a].status = "WaitingUser", disk'[a].work, ~question'[a], ~Resuming(a)'
             PROVE  WillRead(a)'
  BY DEF Resumed
<1>1. disk'[a] = disk[a] /\ question'[a] = question[a]
  BY CallerSaves, CallerQuestions
<1>2. WillRead(a) \/ Resuming(a)
  BY <1>1 DEF AllServed, Resumed
<1>3. CASE Resuming(a)
  <2>1. CASE Sending(a)'
    BY <2>1, ReadsNext
  <2>2. CASE running_or_queued[a] /\ rerun_requested'[a]
    <3>1. CASE Sending(a) \/ Queued(a) \/ held = a
      BY <3>1, Reads, CallerKeepsReads
    <3>2. CASE Spawned(a)
      <4>1. PICK t \in Tasks : InTask(t, a)
        BY <3>2 DEF Spawned
      <4>2. TaskReads(t, a)'
        BY <2>2, <4>1, CallerTasks DEF TaskReads, InTask
      <4>3. QED
        BY <4>2, ReadsNext
    <3>3. QED
      BY <2>2, <3>1, <3>2 DEF Flight, FlagIsExact, InFlight
  <2>3. QED
    BY <1>3, <2>1, <2>2, ResumingMoves
<1>4. QED
  BY <1>2, <1>3, CallerKeepsReads

\* A caller does not park an agent under its task, and leaves no mail to a
\* quantum that will give up.
LEMMA CallerOwned ==
  ASSUME TypeOK, TypeOK', Flight, Flight', AllOwned,
         NEW c \in Callers, CallerStarts(c) \/ CallerStep(c), NEW t \in Tasks
  PROVE  Owned(t)'
<1>0. /\ task'[t].pc = task[t].pc /\ task'[t].agent = task[t].agent
      /\ task'[t].copy = task[t].copy
  BY CallerTasks
<1> SUFFICES ASSUME task[t].pc # "free" PROVE Owned(t)'
  BY <1>0 DEF Owned
<1> PICK a \in Agents : a = task[t].agent
  BY DEF TypeOK, TasksOK
<1>1. /\ task[t].agent = a /\ task'[t].agent = a
      /\ task'[t].pc = task[t].pc /\ task'[t].copy = task[t].copy
  BY <1>0
<1>3. InTask(t, a) /\ InTask(t, a)'
  BY <1>1 DEF InTask
<1>4. disk'[a].status \in {disk[a].status, "Idle"} /\ "Idle" \notin Parked
  BY <1>3, CallerSaves DEF Parked
<1>5. ASSUME task[t].pc = "examine", task[t].copy.status \in Parked, Unread(a)',
             ~Heading(a)', disk'[a].status \notin Parked, abandoned'[a] = "no"
      PROVE  rerun_requested'[a]
  <2>1. mailbox'[a] = mailbox[a] /\ UNCHANGED consumed /\ abandoned[a] = "no"
    BY <1>3, <1>5, CallerMail
  <2>2. Unread(a)
    BY <1>5, <2>1 DEF Unread
  <2>3. disk[a].status \notin Parked
    BY <1>3, <1>5, <2>2, CallerSaves
  <2>4. Heading(a) \/ rerun_requested[a]
    BY <1>1, <1>5, <2>1, <2>2, <2>3 DEF AllOwned, Owned
  <2>5. ~Sending(a)' /\ running_or_queued[a]
    BY <1>3 DEF Flight, SingleFlight, FlagIsExact, InFlight, Spawned
  <2>6. Heading(a) => rerun_requested'[a]
    BY <1>3, <1>5, <2>5, HeadingMoves
  <2>7. rerun_requested[a] => rerun_requested'[a]
    <3>1. CASE ClaimWake(c)
      BY <1>3, <2>5, <3>1 DEF ClaimWake, TypeOK, CallersOK, SupervisorOK
    <3>2. CASE UNCHANGED rerun_requested
      BY <3>2
    <3>3. QED
      BY <3>1, <3>2 DEF CallerStarts, Post, Answer, WaitOver, Interrupt, CallerStep, CheckTarget,
         SendWake, ResumeLoad, ResumeSave, ForgetQuestion, OverSave, Notify, CancelLoad,
         CancelSave, wakeState
  <2>8. QED
    BY <2>4, <2>6, <2>7
<1>6. Owned(t)
  BY DEF AllOwned
<1>7. QED
  BY <1>1, <1>4, <1>5, <1>6 DEF Owned
-----------------------------------------------------------------------------
(***************************************************************************)
(* What the step of a task does.  It concerns its own agent only.          *)
(***************************************************************************)
\* No step of a task touches a caller, another task or another agent.
LEMMA TaskFrame ==
  ASSUME TypeOK, Flight, NEW t \in Tasks, TaskStep(t), NEW a \in Agents, a = task[t].agent
  PROVE  /\ task[t].pc # "free" /\ UNCHANGED <<caller, held>>
         /\ \A u \in Tasks \ {t} : task'[u] = task[u]
         /\ task'[t].pc # "free" => task'[t].agent = a
         /\ \A b \in Agents \ {a} :
              /\ disk'[b] = disk[b] /\ mailbox'[b] = mailbox[b] /\ question'[b] = question[b]
              /\ consumed'[b] = consumed[b] /\ abandoned'[b] = abandoned[b]
              /\ rerun_requested'[b] = rerun_requested[b]
              /\ Queued(b)' <=> Queued(b)
<1>0. /\ task \in [Tasks -> TaskState] /\ TasksOK
      /\ disk \in [Agents -> AgentState] /\ mailbox \in [Agents -> 0..MaxMail]
      /\ question \in [Agents -> BOOLEAN] /\ rerun_requested \in [Agents -> BOOLEAN]
      /\ consumed \in [Agents -> 0..MaxMail]
      /\ abandoned \in [Agents -> {"no", "failed", "interrupted"}]
  BY DEF TypeOK, FilesOK, SupervisorOK, TasksOK, HistoryOK
<1>1. task[t].pc # "free" /\ UNCHANGED <<caller, held>>
  BY DEF TaskStep, QuantumLoad, QuantumSave, QuantumExamine, SelfWake, QuantumRead,
     QuantumReturns, QuantumCommit, FinishCycle, Resend, supervisor
<1>2. /\ \A u \in Tasks \ {t} : task'[u] = task[u]
      /\ task'[t].pc # "free" => task'[t].agent = a
  <2>1. CASE QuantumRead(t) /\ ~GiveUp(t)
    BY <1>0, <2>1 DEF QuantumRead, TaskState
  <2>2. CASE QuantumReturns(t)
    BY <1>0, <2>2 DEF QuantumReturns, TaskState
  <2>3. CASE QuantumCommit(t)
    <3>1. PICK s \in AgentState, to \in {"settle", "finish"}, rerun \in BOOLEAN :
            Commit(t, s, to, rerun)
      BY <2>3, CommitShape
    <3>2. QED
      BY <1>0, <3>1, TaskFields DEF Commit
  <2>4. QED
    BY <1>0, <2>1, <2>2, <2>3, TaskFields DEF TaskStep, QuantumLoad, QuantumSave, QuantumExamine,
       SelfWake, QuantumRead, FinishCycle, Resend, GiveUp, Unpark
<1>3. \A b \in Agents \ {a} : disk'[b] = disk[b]
  <2>1. CASE QuantumCommit(t)
    BY <1>0, <2>1, CommitShape DEF Commit, SaveState
  <2>2. QED
    BY <1>0, <2>1 DEF TaskStep, QuantumLoad, QuantumSave, QuantumExamine, SelfWake, QuantumRead,
       QuantumReturns, FinishCycle, Resend, Unpark, SaveState, files
<1>4. \A b \in Agents \ {a} : mailbox'[b] = mailbox[b]
  BY <1>0 DEF TaskStep, QuantumLoad, QuantumSave, QuantumExamine, SelfWake, QuantumRead,
     QuantumReturns, QuantumCommit, CommitContinue, CommitAsk, CommitWait, CommitFinish,
     CommitCancelled, CommitError, FinishCycle, Resend, AppendNotice, AppendEntry, files
<1>5. \A b \in Agents \ {a} : question'[b] = question[b]
  BY <1>0 DEF TaskStep, QuantumLoad, QuantumSave, QuantumExamine, SelfWake, QuantumRead,
     QuantumReturns, QuantumCommit, CommitContinue, CommitAsk, CommitWait, CommitFinish,
     CommitCancelled, CommitError, FinishCycle, Resend, files, questions
<1>6. \A b \in Agents \ {a} : consumed'[b] = consumed[b] /\ abandoned'[b] = abandoned[b]
  BY <1>0 DEF TaskStep, QuantumLoad, QuantumSave, QuantumExamine, SelfWake, QuantumRead,
     QuantumReturns, QuantumCommit, FinishCycle, Resend, history
<1>7. \A b \in Agents \ {a} : rerun_requested'[b] = rerun_requested[b]
  BY <1>0 DEF TaskStep, QuantumLoad, QuantumSave, QuantumExamine, SelfWake, QuantumRead,
     QuantumReturns, QuantumCommit, FinishCycle, Resend, wakeState
<1>8. \A b \in Agents \ {a} : Queued(b)' <=> Queued(b)
  <2>1. CASE Resend(t)
    <3>1. ~Queued(a)
      BY <1>1 DEF Flight, SingleFlight, Spawned, InTask
    <3>2. QED
      BY <2>1, <3>1, QueueGains DEF Resend, TypeOK, SupervisorOK, Flight, SingleFlight
  <2>2. CASE UNCHANGED wakeQueue
    BY <2>2, QueueSame
  <2>3. QED
    BY <2>1, <2>2 DEF TaskStep, QuantumLoad, QuantumSave, QuantumExamine, SelfWake, QuantumRead,
       QuantumReturns, QuantumCommit, FinishCycle
<1>9. QED
  BY <1>1, <1>2, <1>3, <1>4, <1>5, <1>6, <1>7, <1>8

\* So the other agents stay served and the other tasks right.
LEMMA OthersServed ==
  ASSUME TypeOK, Flight, AllServed, AllOwned,
         NEW t \in Tasks, TaskStep(t), NEW a \in Agents, a = task[t].agent
  PROVE  /\ \A b \in Agents \ {a} : Served(b)' /\ Resumed(b)'
         /\ \A u \in Tasks \ {t} : Owned(u)'
<1>0. /\ task[t].pc # "free" /\ UNCHANGED <<caller, held>>
      /\ \A u \in Tasks \ {t} : task'[u] = task[u]
      /\ task'[t].pc # "free" => task'[t].agent = a
      /\ \A b \in Agents \ {a} :
           /\ disk'[b] = disk[b] /\ mailbox'[b] = mailbox[b] /\ question'[b] = question[b]
           /\ consumed'[b] = consumed[b] /\ abandoned'[b] = abandoned[b]
           /\ rerun_requested'[b] = rerun_requested[b]
           /\ Queued(b)' <=> Queued(b)
  BY TaskFrame
<1>1. \A b \in Agents : /\ Heading(b)' <=> Heading(b)
                        /\ Resuming(b)' <=> Resuming(b)
                        /\ Sending(b)' <=> Sending(b)
  BY <1>0 DEF Heading, Resuming, Sending, InSend
<1>2. ASSUME NEW b \in Agents \ {a} PROVE Served(b)' /\ Resumed(b)'
  <2>1. \A u \in Tasks : InTask(u, b) <=> InTask(u, b)'
    BY <1>0 DEF InTask
  <2>2. \A u \in Tasks : InTask(u, b) => u # t
    BY DEF InTask
  <2>3. \A u \in Tasks : TaskReads(u, b) => TaskReads(u, b)'
    BY <1>0, <2>1, <2>2 DEF TaskReads
  <2>4. WillRead(b) => WillRead(b)'
    BY <1>0, <1>1, <2>3, Reads, ReadsNext
  <2>5. InBatch(b) => InBatch(b)'
    BY <1>0, <2>1, <2>2 DEF InBatch
  <2>6. Served(b)'
    BY <1>0, <1>1, <2>4, <2>5 DEF AllServed, Served, Unread
  <2>7. Resumed(b)'
    BY <1>0, <1>1, <2>4 DEF AllServed, Resumed
  <2>8. QED
    BY <2>6, <2>7
<1>3. ASSUME NEW u \in Tasks \ {t} PROVE Owned(u)'
  <2>1. CASE task[u].pc = "free"
    BY <1>0, <2>1 DEF Owned
  <2>2. CASE task[u].pc # "free"
    <3>1. PICK b \in Agents : b = task[u].agent
      BY <2>2 DEF TypeOK, TasksOK
    <3>2. b # a
      BY <1>0, <2>2, <3>1 DEF Flight, SingleFlight, OneTask, InTask
    <3>3. task'[u].agent = b
      BY <1>0, <3>1
    <3>4. QED
      BY <1>0, <1>1, <3>1, <3>2, <3>3 DEF AllOwned, Owned, Unread
  <2>3. QED
    BY <2>1, <2>2
<1>4. QED
  BY <1>2, <1>3

\* The wake-up of the agent that a task runs is with the task.
LEMMA TaskHasIt ==
  ASSUME TypeOK, Flight, NEW t \in Tasks, task[t].pc # "free",
         NEW a \in Agents, a = task[t].agent
  PROVE  /\ WillRead(a) <=> TaskReads(t, a)
         /\ InBatch(a) <=> task[t].pc \in {"running", "commit"} /\ task[t].upto = mailbox[a]
<1>1. InTask(t, a) /\ \A u \in Tasks : InTask(u, a) => u = t
  BY DEF InTask, Flight, SingleFlight, OneTask
<1>2. ~Sending(a) /\ ~Queued(a) /\ held # a
  BY <1>1 DEF Flight, SingleFlight, Spawned
<1>3. QED
  BY <1>1, <1>2, Reads DEF TaskReads, InBatch

\* A task that will read the mailbox after the step serves its agent.
LEMMA ReaderServes ==
  ASSUME NEW t \in Tasks, NEW a \in Agents, task'[t].agent = a,
         task'[t].pc \in {"load", "save", "examine", "selfWake", "read", "resend"}
  PROVE  Served(a)' /\ Resumed(a)'
<1>1. TaskReads(t, a)'
  BY DEF TaskReads, InTask
<1>2. QED
  BY <1>1, ReadsNext DEF Served, Resumed

\* What is served stays so in a step that saves no state, appends no mail and
\* keeps the wish for a rerun.
LEMMA ServedKept ==
  ASSUME TypeOK, Flight, AllServed, NEW t \in Tasks, TaskStep(t), NEW a \in Agents,
         a = task[t].agent, disk'[a] = disk[a], mailbox'[a] = mailbox[a],
         question'[a] = question[a], consumed'[a] = consumed[a], abandoned'[a] = abandoned[a],
         TaskReads(t, a) => TaskReads(t, a)' \/ Queued(a)', InBatch(a) => InBatch(a)'
  PROVE  Served(a)' /\ Resumed(a)'
<1>1. task[t].pc # "free" /\ UNCHANGED <<caller, held>>
  BY TaskFrame
<1>2. (Heading(a)' <=> Heading(a)) /\ (Resuming(a)' <=> Resuming(a))
  BY <1>1 DEF Heading, Resuming
<1>3. WillRead(a) => WillRead(a)'
  BY <1>1, TaskHasIt, ReadsNext
<1>4. QED
  BY <1>2, <1>3 DEF AllServed, Served, Resumed, Unread
-----------------------------------------------------------------------------
\* A quantum that loads, saves or goes on to read.
LEMMA PreparingServes ==
  ASSUME TypeOK, Flight, AllServed, AllOwned, NEW t \in Tasks,
         QuantumLoad(t) \/ QuantumSave(t) \/ SelfWake(t, "selfWake", "read"),
         NEW a \in Agents, a = task[t].agent
  PROVE  Served(a)' /\ Resumed(a)' /\ Owned(t)'
<1>0. TasksOK /\ task[t].copy \in AgentState
  BY DEF TypeOK, TasksOK, TaskState
<1>1. CASE QuantumLoad(t)
  <2>1. task'[t].pc = "save" /\ task'[t].agent = a
    BY <1>0, <1>1, TaskFields DEF QuantumLoad
  <2>2. QED
    BY <2>1, ReaderServes DEF Owned
<1>2. CASE QuantumSave(t)
  <2>1. task'[t].pc = "examine" /\ task'[t].agent = a /\ task'[t].copy = task[t].copy
    BY <1>0, <1>2, TaskFields DEF QuantumSave
  <2>2. disk'[a] = task[t].copy
    BY <1>0, <1>2, SavedFields DEF QuantumSave
  <2>3. QED
    BY <2>1, <2>2, ReaderServes DEF Owned
<1>3. CASE SelfWake(t, "selfWake", "read")
  <2>1. task'[t].pc = "read" /\ task'[t].agent = a
    BY <1>0, <1>3, TaskFields DEF SelfWake
  <2>2. disk'[a] = disk[a]
    BY <1>3 DEF SelfWake, files
  <2>3. disk[a].status \notin Parked
    BY <1>3 DEF SelfWake, AllOwned, Owned
  <2>4. QED
    BY <2>1, <2>2, <2>3, ReaderServes DEF Owned
<1>4. QED
  BY <1>1, <1>2, <1>3

\* A quantum that gives up because its agent is parked leaves the mail to
\* whoever unparks it, and does not give up when the question is gone.
LEMMA ExamineServes ==
  ASSUME TypeOK, Flight, AllServed, AllOwned, NEW t \in Tasks, QuantumExamine(t),
         NEW a \in Agents, a = task[t].agent
  PROVE  Served(a)' /\ Resumed(a)' /\ Owned(t)'
<1>0. TasksOK /\ task[t].copy \in AgentState
  BY DEF TypeOK, TasksOK, TaskState
<1>1. task[t].pc = "examine" /\ UNCHANGED <<question, rerun_requested, caller, abandoned, consumed>>
  BY DEF QuantumExamine, questions, wakeState, history
<1>2. disk[a].status \in {task[t].copy.status, "Idle"}
  BY <1>1 DEF AllOwned, Owned
<1>3. ASSUME NEW to \in {"selfWake", "read"}, Unpark(t, to)
      PROVE  Served(a)' /\ Resumed(a)' /\ Owned(t)'
  <2> DEFINE s == [task[t].copy EXCEPT !.status = "Idle"]
  <2>1. s \in AgentState /\ s.status \notin Parked
    BY <1>0, StateUpdates, SetStatus
  <2>2. SaveState(a, s) /\ TaskLoads(t, to, s)
    BY <1>3 DEF Unpark
  <2> HIDE DEF s
  <2>3. task'[t].pc = to /\ task'[t].agent = a
    BY <1>0, <2>2, TaskFields
  <2>4. disk'[a] = s
    BY <2>1, <2>2, SavedFields
  <2>5. QED
    BY <2>1, <2>3, <2>4, ReaderServes, SMTT(30) DEF Owned
<1>4. CASE TaskGoes(t, "read") /\ UNCHANGED disk /\ task[t].copy.status \notin Parked
  <2>1. task'[t].pc = "read" /\ task'[t].agent = a
    BY <1>0, <1>4, TaskFields
  <2>2. disk'[a].status \notin Parked
    BY <1>2, <1>4 DEF Parked
  <2>3. QED
    BY <2>1, <2>2, ReaderServes DEF Owned
<1>5. CASE /\ GiveUp(t) /\ UNCHANGED <<disk, mailbox>> /\ task[t].copy.status \in Parked
           /\ task[t].copy.status = "WaitingUser" => question[a]
  <2>1. task'[t].pc = "finish" /\ task'[t].agent = a
    BY <1>0, <1>5, TaskFields DEF GiveUp
  <2>2. Heading(a)' <=> Heading(a)
    BY <1>1 DEF Heading
  <2>3. rerun_requested[a] => WillRead(a)'
    BY <1>1, <2>1, ReadsNext DEF TaskReads, InTask
  <2>4. Served(a)'
    <3>1. Unread(a) => \/ Heading(a) \/ rerun_requested[a]
                       \/ disk[a].status \in Parked \/ abandoned[a] # "no"
      BY <1>1, <1>5 DEF AllOwned, Owned
    <3>2. QED
      BY <1>1, <1>5, <2>2, <2>3, <3>1 DEF Served, Unread
  <2>5. Resumed(a)'
    BY <1>1, <1>2, <1>5 DEF Resumed
  <2>6. QED
    BY <2>1, <2>4, <2>5 DEF Owned
<1>6. QED
  BY <1>3, <1>4, <1>5 DEF QuantumExamine, Parked

\* A quantum that reads has all the mail, or there is none that is not consumed:
\* the offset it goes by is not ahead.
LEMMA ReadServes ==
  ASSUME TypeOK, Flight, AllServed, AllOwned, OffsetsBehind, NEW t \in Tasks, QuantumRead(t),
         NEW a \in Agents, a = task[t].agent
  PROVE  Served(a)' /\ Resumed(a)' /\ Owned(t)'
<1>0. TasksOK /\ task[t].copy \in AgentState /\ task[t].pc = "read"
      /\ consumed[a] \in 0..MaxMail /\ mailbox[a] \in 0..MaxMail
  BY DEF QuantumRead, TypeOK, FilesOK, TasksOK, TaskState, HistoryOK
<1>1. disk[a].status \notin Parked
  BY <1>0 DEF AllOwned, Owned
<1>2. UNCHANGED <<mailbox, consumed>>
  BY DEF QuantumRead
<1>3. CASE GiveUp(t) /\ UNCHANGED disk /\ mailbox[a] = task[t].copy.offset
  <2>1. task[t].copy.offset <= consumed[a]
    BY <1>0 DEF OffsetsBehind, TasksBehind
  <2>2. ~Unread(a)'
    BY <1>0, <1>2, <1>3, <2>1 DEF Unread
  <2>3. task'[t].pc = "finish"
    BY <1>0, <1>3, TaskFields DEF GiveUp
  <2>4. QED
    BY <1>1, <1>3, <2>2, <2>3 DEF Served, Resumed, Owned, Parked
<1>4. CASE /\ SaveState(a, [task[t].copy EXCEPT !.status = "Running", !.work = TRUE])
           /\ task' = [task EXCEPT ![t].pc = "running", ![t].copy = Fresh,
                                   ![t].upto = mailbox[a]]
  <2> DEFINE s == [task[t].copy EXCEPT !.status = "Running", !.work = TRUE]
  <2>1. s \in AgentState /\ s.status = "Running"
    BY <1>0, StateUpdates, SetStatus
  <2>2. SaveState(a, s)
    BY <1>4
  <2> HIDE DEF s
  <2>3. disk'[a].status \notin Parked
    BY <2>1, <2>2, SavedFields, SetStatus
  <2>4. task'[t].pc = "running" /\ task'[t].agent = a /\ task'[t].upto = mailbox[a]
    BY <1>0, <1>4 DEF TasksOK, TaskState
  <2>5. InBatch(a)'
    BY <1>2, <2>4 DEF InBatch, InTask
  <2>6. QED
    BY <2>3, <2>4, <2>5 DEF Served, Resumed, Owned, Parked
<1>5. QED
  BY <1>3, <1>4 DEF QuantumRead

\* run_quantum returns: nothing is saved and the agent was not parked.
LEMMA ReturnServes ==
  ASSUME TypeOK, Flight, AllServed, AllOwned, NEW t \in Tasks, QuantumReturns(t),
         NEW a \in Agents, a = task[t].agent
  PROVE  Served(a)' /\ Resumed(a)' /\ Owned(t)'
<1>0. task[t].pc = "running" /\ task \in [Tasks -> TaskState]
      /\ UNCHANGED <<disk, mailbox, question, consumed, abandoned, rerun_requested>>
  BY DEF QuantumReturns, TypeOK, TasksOK, files, wakeState, history
<1>1. /\ task'[t].pc = "commit" /\ task'[t].agent = a
      /\ task'[t].upto = task[t].upto /\ task'[t].copy = disk[a]
  BY <1>0 DEF QuantumReturns, TaskState
<1>2. TaskReads(t, a) => TaskReads(t, a)'
  BY <1>0, <1>1 DEF TaskReads, InTask
<1>3. InBatch(a) => InBatch(a)'
  BY <1>0, <1>1, TaskHasIt DEF InBatch, InTask
<1>4. Served(a)' /\ Resumed(a)'
  BY <1>0, <1>2, <1>3, ServedKept DEF TaskStep
<1>5. Owned(t)'
  BY <1>0, <1>1 DEF AllOwned, Owned
<1>6. QED
  BY <1>4, <1>5

\* A commit parks an agent at a question only with the question, and the mail
\* it appends itself it will read.
LEMMA CommitParks ==
  ASSUME TypeOK, NEW t \in Tasks, QuantumCommit(t), task[t].copy.status \notin Parked,
         NEW a \in Agents, a = task[t].agent
  PROVE  \E s \in AgentState, to \in {"settle", "finish"}, rerun \in BOOLEAN :
            /\ Commit(t, s, to, rerun)
            /\ s.status = "WaitingUser" => question'[a]
            /\ mailbox' = mailbox \/ (to = "settle" /\ rerun)
<1>0. task[t].copy \in AgentState /\ task[t].upto \in 0..MaxMail
      /\ question \in [Agents -> BOOLEAN]
  BY DEF QuantumCommit, TypeOK, FilesOK, TasksOK, TaskState
<1> DEFINE e == Consumed(t)
           ask == [e EXCEPT !.status = "WaitingUser"]
           wait == [e EXCEPT !.status = "WaitingDependency"]
           idle == [e EXCEPT !.status = "Idle"]
           end == [e EXCEPT !.status = "Idle", !.work = FALSE]
           fail == [task[t].copy EXCEPT !.status = "Idle"]
<1>1. /\ e \in AgentState /\ e.status # "WaitingUser"
      /\ ask \in AgentState
      /\ wait \in AgentState /\ wait.status # "WaitingUser"
      /\ idle \in AgentState /\ idle.status # "WaitingUser"
      /\ end \in AgentState /\ end.status # "WaitingUser"
      /\ fail \in AgentState /\ fail.status # "WaitingUser"
  BY <1>0 DEF Consumed, AgentState, Status, Parked
<1>2. CASE CommitContinue(t)
  <2>1. mailbox' = mailbox /\ \E rerun \in BOOLEAN : Commit(t, idle, "finish", rerun)
    BY <1>2 DEF CommitContinue
  <2>2. QED
    BY <1>1, <2>1
<1>3. CASE CommitAsk(t)
  <2>1. CASE Commit(t, ask, "finish", FALSE) /\ question' = [question EXCEPT ![a] = TRUE]
    <3>1. question'[a] /\ mailbox' = mailbox
      BY <1>0, <1>3, <2>1 DEF CommitAsk
    <3>2. QED
      BY <1>1, <2>1, <3>1
  <2>2. CASE Commit(t, e, "finish", FALSE)
    BY <1>1, <1>3, <2>2 DEF CommitAsk
  <2>3. QED
    BY <1>3, <2>1, <2>2 DEF CommitAsk
<1>4. CASE CommitWait(t)
  <2>1. CASE Commit(t, wait, "finish", FALSE) /\ UNCHANGED mailbox
    BY <1>1, <2>1
  <2>2. CASE Commit(t, idle, "settle", TRUE)
    BY <1>1, <2>2
  <2>3. QED
    BY <1>4, <2>1, <2>2 DEF CommitWait
<1>5. CASE CommitFinish(t)
  <2>1. mailbox' = mailbox
    BY <1>5 DEF CommitFinish
  <2>2. \/ Commit(t, e, "finish", FALSE) \/ Commit(t, end, "finish", FALSE)
        \/ \E rerun \in BOOLEAN : Commit(t, idle, "finish", rerun)
    BY <1>5 DEF CommitFinish
  <2>3. QED
    BY <1>1, <2>1, <2>2
<1>6. CASE CommitCancelled(t)
  <2>1. mailbox' = mailbox /\ Commit(t, idle, "finish", FALSE)
    BY <1>6 DEF CommitCancelled
  <2>2. QED
    BY <1>1, <2>1
<1>7. CASE CommitError(t)
  <2>1. mailbox' = mailbox /\ Commit(t, fail, "finish", FALSE)
    BY <1>7 DEF CommitError
  <2>2. QED
    BY <1>1, <2>1
<1>8. QED
  BY <1>2, <1>3, <1>4, <1>5, <1>6, <1>7 DEF QuantumCommit

\* The end of a quantum: what it read is consumed, and mail that came later
\* has a caller under way or has asked for a rerun, because the agent was not
\* parked when its sender looked.
LEMMA CommitServes ==
  ASSUME TypeOK, Flight, AllServed, AllOwned, NEW t \in Tasks, QuantumCommit(t),
         NEW a \in Agents, a = task[t].agent
  PROVE  Served(a)' /\ Resumed(a)' /\ Owned(t)'
<1>0. /\ TasksOK /\ task[t].pc = "commit" /\ task[t].upto \in 0..MaxMail
      /\ UNCHANGED <<caller, rerun_requested>>
      /\ consumed \in [Agents -> 0..MaxMail] /\ mailbox \in [Agents -> 0..MaxMail]
      /\ abandoned \in [Agents -> {"no", "failed", "interrupted"}]
  BY DEF QuantumCommit, TypeOK, FilesOK, TasksOK, TaskState, HistoryOK, wakeState
<1>1. disk[a].status \notin Parked /\ task[t].copy.status \notin Parked
  BY <1>0 DEF AllOwned, Owned
<1>2. PICK s \in AgentState, to \in {"settle", "finish"}, rerun \in BOOLEAN :
        /\ Commit(t, s, to, rerun)
        /\ s.status = "WaitingUser" => question'[a]
        /\ mailbox' = mailbox \/ (to = "settle" /\ rerun)
  BY <1>1, CommitParks
<1>3. /\ disk'[a] = s /\ task'[t].pc = to /\ task'[t].agent = a /\ task'[t].rerun = rerun
  <2>1. disk'[a] = s
    BY <1>2, SavedFields DEF Commit
  <2>2. task'[t].pc = to /\ task'[t].agent = a /\ task'[t].rerun = rerun
    <3>1. TaskReturns(t, to, rerun) /\ a = task[t].agent
      BY <1>2 DEF Commit
    <3>2. QED
      BY <1>0, <3>1 DEF TaskReturns, FreeTask, TasksOK
  <2>3. QED
    BY <2>1, <2>2
<1>4. Owned(t)'
  BY <1>3 DEF Owned
<1>5. Resumed(a)'
  BY <1>2, <1>3 DEF Resumed
<1>6. Served(a)'
  <2> SUFFICES ASSUME Unread(a)', abandoned'[a] = "no", ~Heading(a)' PROVE WillRead(a)'
    BY DEF Served
  <2>1. CASE mailbox' # mailbox \/ rerun_requested[a]
    <3>1. TaskReads(t, a)'
      BY <1>0, <1>2, <1>3, <2>1 DEF TaskReads, InTask
    <3>2. QED
      BY <3>1, ReadsNext
  <2>2. CASE mailbox' = mailbox /\ ~rerun_requested[a]
    <3>1. task[t].result # "Error" /\ abandoned[a] = "no"
      BY <1>0 DEF QuantumCommit
    <3>2. consumed'[a] = IF consumed[a] < task[t].upto THEN task[t].upto ELSE consumed[a]
      BY <1>0, <3>1 DEF QuantumCommit
    <3>3. Unread(a) /\ task[t].upto # mailbox[a]
      BY <1>0, <2>2, <3>2 DEF Unread
    <3>4. ~Heading(a)
      BY <1>0 DEF Heading
    <3>5. ~InBatch(a) /\ ~WillRead(a)
      BY <1>0, <2>2, <3>3, TaskHasIt DEF TaskReads
    <3>6. QED
      BY <1>1, <3>1, <3>3, <3>4, <3>5 DEF AllServed, Served
  <2>3. QED
    BY <2>1, <2>2
<1>7. QED
  BY <1>4, <1>5, <1>6

\* The end of the cycle forgets nothing: a rerun that was asked for is made.
LEMMA FinishServes ==
  ASSUME TypeOK, Flight, AllServed, AllOwned, NEW t \in Tasks,
         SelfWake(t, "settle", "finish") \/ FinishCycle(t) \/ Resend(t),
         NEW a \in Agents, a = task[t].agent
  PROVE  Served(a)' /\ Resumed(a)' /\ Owned(t)'
<1>0. /\ TasksOK /\ task[t].pc \in {"settle", "finish", "resend"}
      /\ UNCHANGED <<disk, mailbox, question, consumed, abandoned, caller>>
  BY DEF SelfWake, FinishCycle, Resend, TypeOK, files, history
<1>1. ~InBatch(a)
  BY <1>0, TaskHasIt
<1>2. TaskStep(t)
  BY DEF TaskStep
<1>3. CASE SelfWake(t, "settle", "finish")
  <2>1. task'[t].pc = "finish" /\ task'[t].agent = a /\ task'[t].rerun = task[t].rerun
    BY <1>0, <1>3, TaskFields DEF SelfWake
  <2>2. rerun_requested[a] => rerun_requested'[a]
    BY <1>3 DEF SelfWake, TypeOK, SupervisorOK
  <2>3. TaskReads(t, a) => TaskReads(t, a)'
    BY <1>3, <2>1, <2>2 DEF TaskReads, InTask, SelfWake
  <2>4. QED
    BY <1>0, <1>1, <1>2, <2>1, <2>3, ServedKept DEF Owned
<1>4. CASE FinishCycle(t) /\ (task[t].rerun \/ rerun_requested[a])
  <2>1. task'[t].pc = "resend" /\ task'[t].agent = a
    BY <1>0, <1>4, TaskFields DEF FinishCycle
  <2>2. QED
    BY <2>1, ReaderServes DEF Owned
<1>5. CASE FinishCycle(t) /\ ~(task[t].rerun \/ rerun_requested[a])
  <2>1. task'[t].pc = "free"
    BY <1>0, <1>5, TaskFields DEF FinishCycle
  <2>2. ~TaskReads(t, a)
    BY <1>5 DEF TaskReads, FinishCycle
  <2>3. QED
    BY <1>0, <1>1, <1>2, <2>1, <2>2, ServedKept DEF Owned
<1>6. CASE Resend(t)
  <2>1. task'[t].pc = "free"
    BY <1>0, <1>6, TaskFields DEF Resend
  <2>2. ~Queued(a)
    BY <1>0 DEF Flight, SingleFlight, Spawned, InTask
  <2>3. Queued(a)'
    BY <1>6, <2>2, QueueGains DEF Resend, TypeOK, SupervisorOK, Flight, SingleFlight
  <2>4. QED
    BY <2>1, <2>3, ReadsNext DEF Owned, Served, Resumed
<1>7. QED
  BY <1>3, <1>4, <1>5, <1>6

\* Every step of a task.
LEMMA TaskServes ==
  ASSUME TypeOK, Flight, AllServed, AllOwned, OffsetsBehind, NEW t \in Tasks, TaskStep(t)
  PROVE  AllServed' /\ AllOwned'
<1>1. task[t].pc # "free"
  BY DEF TaskStep, QuantumLoad, QuantumSave, QuantumExamine, SelfWake, QuantumRead,
     QuantumReturns, QuantumCommit, FinishCycle, Resend
<1> PICK a \in Agents : a = task[t].agent
  BY <1>1 DEF TypeOK, TasksOK
<1>2. Served(a)' /\ Resumed(a)' /\ Owned(t)'
  BY PreparingServes, ExamineServes, ReadServes, ReturnServes, CommitServes, FinishServes
     DEF TaskStep
<1>3. /\ \A b \in Agents \ {a} : Served(b)' /\ Resumed(b)'
      /\ \A u \in Tasks \ {t} : Owned(u)'
  BY OthersServed
<1>4. QED
  BY <1>2, <1>3 DEF AllServed, AllOwned
-----------------------------------------------------------------------------
\* The supervisor passes wake-ups on, and a reload takes none away.
LEMMA SupervisorServes ==
  ASSUME TypeOK, Flight, AllServed, AllOwned,
         Receive \/ Reload \/ (\E t \in Tasks : Spawn(t)) \/ UNCHANGED vars
  PROVE  AllServed' /\ AllOwned'
<1>1. UNCHANGED <<disk, mailbox, question, consumed, abandoned, caller, rerun_requested>>
  BY DEF Receive, Reload, Spawn, vars, files, wakeState, history
<1>2. \A a \in Agents : /\ Heading(a)' <=> Heading(a)
                        /\ Resuming(a)' <=> Resuming(a)
                        /\ Sending(a)' <=> Sending(a)
  BY <1>1 DEF Heading, Resuming, Sending, InSend
<1>3. ASSUME \A a \in Agents : (WillRead(a) => WillRead(a)') /\ (InBatch(a) => InBatch(a)')
      PROVE  AllServed'
  BY <1>1, <1>2, <1>3 DEF AllServed, Served, Resumed, Unread
<1>4. CASE UNCHANGED task /\ (Receive \/ Reload \/ UNCHANGED vars)
  <2>1. \A a \in Agents, t \in Tasks : TaskReads(t, a) => TaskReads(t, a)'
    BY <1>1, <1>4 DEF TaskReads, InTask
  <2>2. \A a \in Agents : Queued(a) => Queued(a)' \/ held' = a
    <3>1. CASE Receive
      BY <3>1, ReceiveMoves
    <3>2. CASE UNCHANGED wakeQueue
      BY <3>2, QueueSame
    <3>3. QED
      BY <1>4, <3>1, <3>2 DEF Reload, vars
  <2>3. \A a \in Agents : held = a => held' = a
    BY <1>4, NoAgentAssumption DEF Receive, Reload, vars, supervisor
  <2>4. \A a \in Agents : WillRead(a) => WillRead(a)'
    BY <1>2, <2>1, <2>2, <2>3, Reads, ReadsNext
  <2>5. \A a \in Agents : InBatch(a) => InBatch(a)'
    BY <1>1, <1>4 DEF InBatch, InTask
  <2>6. AllOwned'
    BY <1>1, <1>2, <1>4 DEF AllOwned, Owned, Unread, TypeOK, TasksOK
  <2>7. QED
    BY <1>3, <2>4, <2>5, <2>6
<1>5. ASSUME NEW t \in Tasks, Spawn(t) PROVE AllServed' /\ AllOwned'
  <2>1. /\ task[t].pc = "free" /\ held \in Agents /\ UNCHANGED wakeQueue
        /\ task \in [Tasks -> TaskState]
    BY <1>5 DEF Spawn, TypeOK, SupervisorOK, TasksOK
  <2>2. /\ task'[t].pc = "load" /\ task'[t].agent = held
        /\ \A u \in Tasks \ {t} : task'[u] = task[u]
    BY <1>5, <2>1 DEF Spawn, TaskState
  <2>3. \A a \in Agents, u \in Tasks : TaskReads(u, a) => TaskReads(u, a)'
    BY <1>1, <2>1, <2>2 DEF TaskReads, InTask
  <2>4. \A a \in Agents : held = a => TaskReads(t, a)'
    BY <2>2 DEF TaskReads, InTask
  <2>5. \A a \in Agents : WillRead(a) => WillRead(a)'
    BY <1>2, <2>1, <2>3, <2>4, QueueSame, Reads, ReadsNext
  <2>6. \A a \in Agents : InBatch(a) => InBatch(a)'
    BY <1>1, <2>1, <2>2 DEF InBatch, InTask
  <2>7. AllOwned'
    BY <1>1, <1>2, <2>1, <2>2 DEF AllOwned, Owned, Unread, TypeOK, TasksOK
  <2>8. QED
    BY <1>3, <2>5, <2>6, <2>7
<1>6. QED
  BY <1>4, <1>5 DEF Receive, Reload, vars

\* At the start there is no mail and nobody is parked.
LEMMA InitServed == Init => AllServed /\ AllOwned
BY BoundsAssumption DEF Init, AllServed, AllOwned, Served, Resumed, Owned, Unread, Fresh, FreeTask

\* Every step keeps everybody served.
LEMMA NextServed ==
  /\ TypeOK /\ TypeOK' /\ Flight /\ Flight' /\ OffsetsBehind /\ AllServed /\ AllOwned
  /\ [Next]_vars
  => AllServed' /\ AllOwned'
<1> SUFFICES ASSUME TypeOK, TypeOK', Flight, Flight', OffsetsBehind, AllServed, AllOwned,
                    [Next]_vars
             PROVE  AllServed' /\ AllOwned'
  OBVIOUS
<1>1. ASSUME NEW c \in Callers, CallerStarts(c) \/ CallerStep(c)
      PROVE  AllServed' /\ AllOwned'
  BY <1>1, CallerServes, CallerResumes, CallerOwned DEF AllServed, AllOwned
<1>2. QED
  BY <1>1, TaskServes, SupervisorServes DEF Next

\* What serves the mail of an agent serves it in the sense of the property.
LEMMA ServedIsEnough == AllServed => NoLostWake /\ NoLimbo
<1>1. \A a \in Agents : (Heading(a) => OnItsWay(a)) /\ (Resuming(a) => OnItsWay(a))
  BY DEF Heading, Resuming, OnItsWay
<1>2. QED
  BY <1>1 DEF AllServed, Served, Resumed, InBatch, NoLostWake, NoLimbo, Attended

\* The invariant of both theorems.
LEMMA EverybodyServed == Spec => [](AllServed /\ AllOwned)
<1>1. Init => TypeOK /\ Flight /\ OffsetsBehind /\ AllServed /\ AllOwned
  BY InitTyped, InitFlight, InitBehind, InitServed
<1>2. /\ TypeOK /\ Flight /\ OffsetsBehind /\ AllServed /\ AllOwned /\ [Next]_vars
      => (TypeOK /\ Flight /\ OffsetsBehind /\ AllServed /\ AllOwned)'
  BY NextTyped, NextFlight, NextBehind, NextServed
<1>3. QED
  BY <1>1, <1>2, PTL DEF Spec

\* No wake-up is lost, whoever posts, answers, interrupts, times out or reloads
\* between any two steps of a quantum (main.rs: append_mailbox_message,
\* wake_agent, execute_agent_quantum, finish_agent_wake_cycle).
THEOREM NoWakeIsLost == Spec => []NoLostWake
BY EverybodyServed, ServedIsEnough, PTL

\* An agent with work does not stay WaitingUser once its question is gone
\* (main.rs: answer_question, request_interrupt, and execute_agent_quantum,
\* which goes on with a WaitingUser agent that has no question).
THEOREM NobodyInLimbo == Spec => []NoLimbo
BY EverybodyServed, ServedIsEnough, PTL
=============================================================================
