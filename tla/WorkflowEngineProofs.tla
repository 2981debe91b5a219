----------------------- MODULE WorkflowEngineProofs -----------------------
(***************************************************************************)
(* For any nodes, definitions and bounds, the workflow engine keeps its    *)
(* types, starts a node only when its trigger rule allows it, ends each    *)
(* node once, and has the sender of an approval registered when an answer  *)
(* to its request comes.                                                   *)
(***************************************************************************)
EXTENDS WorkflowEngine, TLAPS

\* The step of a task changes nothing of the run but the task itself, and a
\* task stays in execution: it is neither joined nor forgotten.
StepsOn(n) ==
  /\ task' \in [Nodes -> NodeTask]
  /\ task[n].pc \notin {"none", "joined"}
  /\ \A m \in Nodes : m # n => task'[m] = task[m]
  /\ UNCHANGED <<def, run>>

\* What a channel delivers is a message of its type, and so is what it keeps.
LEMMA Received ==
  ASSUME NEW S, NEW s \in Seq(S), s # <<>>
  PROVE  Head(s) \in S /\ Tail(s) \in Seq(S)
OBVIOUS

\* Begun returns a task that executes.
LEMMA BegunType ==
  ASSUME NEW n \in Nodes, NEW k \in Nat
  PROVE  Begun(n, k) \in NodeTask /\ Begun(n, k).pc \notin {"none", "joined"}
BY DEF Begun, NodeTask, NotSpawned, TaskPcs

\* Returned keeps the type of the tasks.
LEMMA ReturnedType ==
  ASSUME TypeOK, NEW n \in Nodes, NEW r \in {"Completed", "Failed"}, NEW out \in BOOLEAN,
         Returned(n, r, out)
  PROVE  task' \in [Nodes -> NodeTask] /\ \A m \in Nodes : m # n => task'[m] = task[m]
<1> DEFINE backoff == [task[n] EXCEPT !.pc = "backoff"]
           done == [task[n] EXCEPT !.pc = "done", !.result = r, !.out = out]
<1>1. task \in [Nodes -> NodeTask]
  BY DEF TypeOK
<1>2. backoff \in NodeTask /\ done \in NodeTask
  BY <1>1 DEF NodeTask, TaskPcs
<1>3. task' = [task EXCEPT ![n] = IF r = "Failed" /\ task[n].attempt < def.max_attempts[n]
                                  THEN backoff ELSE done]
  BY <1>1 DEF Returned
<1> HIDE DEF backoff, done
<1> QED BY <1>1, <1>2, <1>3

\* A fresh run is well typed.
LEMMA InitTypeOK == Init => TypeOK
<1> SUFFICES ASSUME Init PROVE TypeOK
  OBVIOUS
<1>1. RunOK
  BY DEF Init, RunOK, Statuses
<1>2. ApprovalsOK
  BY DEF Init, ApprovalsOK
<1>3. task \in [Nodes -> NodeTask] /\ \A n \in Nodes : task[n].pc = "none"
  BY DEF Init, NotSpawned, NodeTask, TaskPcs
<1> QED BY <1>1, <1>2, <1>3 DEF TypeOK

\* A step of a task that keeps the approval protocol well typed keeps TypeOK.
LEMMA TaskTypeOK ==
  ASSUME TypeOK, NEW n \in Nodes, StepsOn(n), ApprovalsOK'
  PROVE  TypeOK'
<1>1. RunOK'
  BY DEF TypeOK, RunOK, StepsOn, run
<1>2. status[n] = "Running" /\ engine = "join"
  BY DEF TypeOK, StepsOn
<1>3. ASSUME NEW m \in Nodes, task'[m].pc \notin {"none", "joined"}
      PROVE  status'[m] = "Running" /\ engine' = "join"
  <2>1. CASE m = n
    BY <1>2, <2>1 DEF StepsOn, run
  <2>2. CASE m # n
    BY <1>3, <2>2 DEF TypeOK, StepsOn, run
  <2> QED BY <2>1, <2>2
<1> QED BY <1>1, <1>3 DEF TypeOK, StepsOn

\* Every action keeps the types.
LEMMA NextTypeOK ==
  ASSUME WorkflowAssumption, TypeOK, Next PROVE TypeOK'
<1>1. CASE Launch
  <2>1. \A n \in Nodes : task[n].pc \in {"none", "joined"}
    BY <1>1 DEF TypeOK, Launch
  <2>2. \A n \in Nodes : Begun(n, 1) \in NodeTask /\ Begun(n, 1).pc \notin {"none", "joined"}
    BY BegunType
  <2>3. task' \in [Nodes -> NodeTask]
    BY <1>1, <2>2 DEF TypeOK, Launch
  <2>4. RunOK'
    BY <1>1 DEF TypeOK, Launch, RunOK, Statuses
  <2>5. ApprovalsOK'
    BY <1>1 DEF TypeOK, Launch, ApprovalsOK, approvals, client
  <2>6. ASSUME NEW n \in Nodes, task'[n].pc \notin {"none", "joined"}
        PROVE  status'[n] = "Running" /\ engine' = "join"
    <3>1. n \in Ready
      BY <1>1, <2>1, <2>6 DEF Launch
    <3> QED BY <1>1, <3>1 DEF Launch
  <2> QED BY <2>3, <2>4, <2>5, <2>6 DEF TypeOK
<1>2. CASE Finish \/ Relock
  <2>1. RunOK' /\ task' = task /\ status' = status
    BY <1>2 DEF TypeOK, Finish, Relock, RunOK
  <2>2. ApprovalsOK'
    <3>1. CASE Finish
      <4>1. [type |-> "end"] \in [type : {"ask"}, node : Nodes, attempt : Nat]
                                   \cup [type : {"end"}]
        OBVIOUS
      <4> QED BY <3>1, <4>1 DEF TypeOK, Finish, ApprovalsOK, approvals, client
    <3>2. CASE Relock
      BY <3>2 DEF TypeOK, Relock, ApprovalsOK, approvals, client
    <3> QED BY <1>2, <3>1, <3>2
  <2>3. \A n \in Nodes : task[n].pc \in {"none", "joined"}
    BY <1>2 DEF TypeOK, Finish, Relock
  <2> QED BY <2>1, <2>2, <2>3 DEF TypeOK
<1>3. CASE BatchEnds
  BY <1>3 DEF BatchEnds, TypeOK, RunOK, ApprovalsOK, approvals, client
<1>4. ASSUME NEW n \in Nodes, Join(n) \/ JoinPanicked(n) PROVE TypeOK'
  <2>1. task' = [task EXCEPT ![n].pc = "joined"] /\ engine' = engine /\ engine = "join"
    BY <1>4 DEF Join, JoinPanicked, run
  <2>2. task' \in [Nodes -> NodeTask] /\ task'[n].pc = "joined"
        /\ \A m \in Nodes : m # n => task'[m] = task[m]
    <3> DEFINE r == [task[n] EXCEPT !.pc = "joined"]
    <3>1. task \in [Nodes -> NodeTask]
      BY DEF TypeOK
    <3>2. r \in NodeTask /\ r.pc = "joined"
      BY <3>1 DEF NodeTask, TaskPcs
    <3>3. task' = [task EXCEPT ![n] = r]
      BY <2>1
    <3> HIDE DEF r
    <3> QED BY <3>1, <3>2, <3>3
  <2>3. RunOK' /\ \A m \in Nodes : m # n => status'[m] = status[m]
    BY <1>4 DEF TypeOK, NodeTask, Join, JoinPanicked, run, RunOK, Statuses
  <2>4. ApprovalsOK'
    BY <1>4 DEF TypeOK, Join, JoinPanicked, ApprovalsOK, approvals, client
  <2> QED BY <2>1, <2>2, <2>3, <2>4 DEF TypeOK
<1>5. ASSUME NEW n \in Nodes, Node(n) PROVE TypeOK'
  <2>1. CASE Work(n)
    <3>1. task' \in [Nodes -> NodeTask] /\ \A m \in Nodes : m # n => task'[m] = task[m]
      <4>1. ASSUME NEW r \in {"Completed", "Failed"}, NEW out \in BOOLEAN, Returned(n, r, out)
            PROVE  <3>1!1 /\ <3>1!2
        BY <4>1, ReturnedType
      <4>2. CASE \/ task' = [task EXCEPT ![n].pc = "done", ![n].result = "Failed",
                                         ![n].out = FALSE]
                 \/ task' = [task EXCEPT ![n].pc = "panicked"]
        BY <4>2 DEF TypeOK, NodeTask, TaskPcs
      <4> QED BY <2>1, <4>1, <4>2 DEF Work
    <3>2. StepsOn(n)
      BY <2>1, <3>1 DEF StepsOn, Work, TaskOnly
    <3>3. ApprovalsOK'
      BY <2>1 DEF TypeOK, Work, TaskOnly, ApprovalsOK, approvals, client
    <3> QED BY <3>2, <3>3, TaskTypeOK
  <2>2. CASE Retry(n)
    <3>1. Begun(n, task[n].attempt + 1) \in NodeTask
      BY BegunType DEF TypeOK, NodeTask
    <3>2. StepsOn(n)
      BY <2>2, <3>1 DEF TypeOK, StepsOn, Retry, TaskOnly
    <3>3. ApprovalsOK'
      BY <2>2 DEF TypeOK, Retry, TaskOnly, ApprovalsOK, approvals, client
    <3> QED BY <3>2, <3>3, TaskTypeOK
  <2>3. CASE Register(n)
    <3>1. StepsOn(n)
      BY <2>3 DEF TypeOK, StepsOn, Register, TaskOnly, NodeTask, TaskPcs
    <3>2. ApprovalsOK'
      BY <2>3 DEF TypeOK, Register, TaskOnly, ApprovalsOK, client
    <3> QED BY <3>1, <3>2, TaskTypeOK
  <2>4. CASE Request(n)
    <3>1. StepsOn(n)
      BY <2>4 DEF TypeOK, StepsOn, Request, TaskOnly, NodeTask, TaskPcs
    <3>2. [type |-> "ask", node |-> n, attempt |-> task[n].attempt]
            \in [type : {"ask"}, node : Nodes, attempt : Nat]
      BY DEF TypeOK, NodeTask
    <3>3. ApprovalsOK'
      BY <2>4, <3>2 DEF TypeOK, Request, TaskOnly, ApprovalsOK, approvals, client
    <3> QED BY <3>1, <3>3, TaskTypeOK
  <2>5. CASE Decide(n) \/ Expire(n)
    <3>1. \E r \in {"Completed", "Failed"}, out \in BOOLEAN : Returned(n, r, out)
      BY <2>5 DEF Decide, Expire
    <3>2. StepsOn(n)
      BY <2>5, <3>1, ReturnedType DEF StepsOn, Decide, Expire, TaskOnly
    <3>3. ApprovalsOK'
      BY <2>5 DEF TypeOK, Decide, Expire, TaskOnly, ApprovalsOK, client
    <3> QED BY <3>2, <3>3, TaskTypeOK
  <2> QED BY <1>5, <2>1, <2>2, <2>3, <2>4, <2>5 DEF Node
<1>6. ASSUME UNCHANGED <<def, run, task>>, ApprovalsOK' PROVE TypeOK'
  BY <1>6 DEF TypeOK, RunOK, run
<1>7. ASSUME NEW n \in Nodes, Answer(n) PROVE TypeOK'
  <2>1. ApprovalsOK'
    BY <1>7 DEF TypeOK, Answer, ApprovalsOK, approvals
  <2> QED BY <1>6, <1>7, <2>1 DEF Answer
<1>8. CASE ForwardProgress
  <2>1. Head(progress) \in [type : {"ask"}, node : Nodes, attempt : Nat] \cup [type : {"end"}]
        /\ Tail(progress) \in Seq([type : {"ask"}, node : Nodes, attempt : Nat]
                                    \cup [type : {"end"}])
    BY <1>8, Received DEF ForwardProgress, TypeOK, ApprovalsOK
  <2>2. answerable' \in [Nodes -> Nat]
    BY <1>8, <2>1 DEF ForwardProgress, TypeOK, ApprovalsOK
  <2>3. ApprovalsOK'
    BY <1>8, <2>1, <2>2 DEF TypeOK, ForwardProgress, ApprovalsOK, approvals
  <2> QED BY <1>6, <1>8, <2>3 DEF ForwardProgress
<1>9. CASE ForwardApproval
  <2>1. Head(responses) \in [node : Nodes, decision : {"yes", "no"}, attempt : Nat]
        /\ Tail(responses) \in Seq([node : Nodes, decision : {"yes", "no"}, attempt : Nat])
    BY <1>9, Received DEF ForwardApproval, TypeOK, ApprovalsOK
  <2> DEFINE answer == Head(responses)
  <2>2. answer.node \in Nodes /\ answer.decision \in {"open", "yes", "no"}
    BY <2>1
  <2>3. \/ UNCHANGED approvals
        \/ /\ pending' = pending \ {answer.node}
           /\ oneshot' = [oneshot EXCEPT ![answer.node] = answer.decision]
    BY <1>9 DEF ForwardApproval
  <2>4. responses' = Tail(responses) /\ UNCHANGED <<progress, answerable>>
    BY <1>9 DEF ForwardApproval
  <2> HIDE DEF answer
  <2>5. pending' \subseteq Nodes /\ oneshot' \in [Nodes -> {"open", "yes", "no"}]
    BY <2>2, <2>3 DEF TypeOK, ApprovalsOK, approvals
  <2>6. ApprovalsOK'
    BY <2>1, <2>4, <2>5 DEF TypeOK, ApprovalsOK
  <2> QED BY <1>6, <1>9, <2>6 DEF ForwardApproval
<1>10. CASE Engine
  BY <1>1, <1>2, <1>3, <1>4, <1>10 DEF Engine
<1>11. CASE \E n \in Nodes : Node(n) \/ Answer(n)
  BY <1>5, <1>7, <1>11
<1> QED BY <1>8, <1>9, <1>10, <1>11 DEF Next

\* Every variable of the workflow engine keeps its type, for any definitions.
THEOREM TypeCorrect == Spec => []TypeOK
<1>1. TypeOK /\ UNCHANGED vars => TypeOK'
  BY DEF TypeOK, RunOK, ApprovalsOK, vars, run, approvals, client
<1>2. TypeOK /\ [Next]_vars => TypeOK'
  BY <1>1, NextTypeOK, WorkflowAssumption
<1> QED BY InitTypeOK, <1>2, PTL DEF Spec
-----------------------------------------------------------------------------
\* A step leaves the definition and every status that is terminal alone, and
\* starts only nodes that are ready.
LEMMA StatusSteps ==
  ASSUME TypeOK, Next
  PROVE  /\ def' = def
         /\ \A n \in Nodes : status[n] \in Terminal => status'[n] = status[n]
         /\ \A n \in Nodes : status'[n] \in {"Running", "Completed", "Failed"} =>
              status[n] \in {"Running", "Completed", "Failed"} \/ n \in Ready
<1>1. CASE Launch
  BY <1>1 DEF TypeOK, RunOK, Launch, Ready, Terminal
<1>2. ASSUME NEW n \in Nodes, Join(n)
      PROVE  /\ def' = def /\ status[n] = "Running"
             /\ \A m \in Nodes : m # n => status'[m] = status[m]
  BY <1>2 DEF TypeOK, RunOK, Join
<1>3. CASE \E n \in Nodes : Join(n)
  BY <1>2, <1>3 DEF Terminal
<1>4. CASE UNCHANGED <<def, status>>
  BY <1>4
<1>5. Launch \/ (\E n \in Nodes : Join(n)) \/ UNCHANGED <<def, status>>
  BY DEF Next, Engine, Finish, Relock, BatchEnds, JoinPanicked, Node, Work, Retry, Register,
         Request, Decide, Expire, TaskOnly, Answer, ForwardProgress, ForwardApproval, run
<1> QED BY <1>1, <1>3, <1>4, <1>5

\* A trigger rule that was satisfied stays satisfied.
LEMMA TriggeredStays ==
  ASSUME TypeOK, Next, NEW n \in Nodes, Triggered(n)
  PROVE  Triggered(n)'
<1>1. def' = def /\ \A d \in Nodes : status[d] \in Terminal => status'[d] = status[d]
  BY StatusSteps
<1>2. CASE def.depends_on[n] = {}
  BY <1>1, <1>2 DEF Triggered
<1>3. CASE (\A d \in Deps(n) : status[d] \in Terminal) /\ RuleHolds(n)
  <2>1. Deps(n)' = Deps(n) /\ \A d \in Deps(n) : status'[d] = status[d]
    BY <1>1, <1>3 DEF Deps
  <2>2. RuleHolds(n)'
    BY <1>1, <1>3, <2>1 DEF RuleHolds
  <2> QED BY <1>3, <2>1, <2>2 DEF Triggered
<1> QED BY <1>2, <1>3 DEF Triggered

\* A node is started only after its dependencies ended in a way its trigger
\* rule accepts, and they stay that way.
THEOREM TriggersAreRespected == Spec => []TriggerRespected
<1>1. Init => TriggerRespected
  BY DEF Init, TriggerRespected
<1>2. TypeOK /\ TriggerRespected /\ [Next]_vars => TriggerRespected'
  <2> SUFFICES ASSUME TypeOK, TriggerRespected, [Next]_vars,
                      NEW n \in Nodes, status'[n] \in {"Running", "Completed", "Failed"}
               PROVE  Triggered(n)'
    BY DEF TriggerRespected
  <2>1. CASE Next
    <3>1. Triggered(n)
      BY <2>1, StatusSteps DEF TriggerRespected, Ready
    <3> QED BY <2>1, <3>1, TriggeredStays
  <2>2. CASE UNCHANGED vars
    BY <2>2 DEF TriggerRespected, vars, run, Triggered, Deps, RuleHolds
  <2> QED BY <2>1, <2>2
<1> QED BY <1>1, <1>2, TypeCorrect, PTL DEF Spec

\* What has ended is not run or changed again.
THEOREM NodesEndOnce == Spec => NodeEndsOnce
<1>1. TypeOK /\ [Next]_vars =>
        [\A n \in Nodes : status[n] \in Terminal => status'[n] = status[n]]_vars
  BY StatusSteps
<1> QED BY <1>1, TypeCorrect, PTL DEF Spec, NodeEndsOnce
-----------------------------------------------------------------------------
(***************************************************************************)
(* Approvals.                                                              *)
(***************************************************************************)
\* The sender stays from its registration until the node decides, but for an
\* answer that took it.
SenderKept(n) ==
  task[n].pc \in {"request", "asking"} => n \in pending \/ oneshot[n] # "open"

\* Only attempts that were made are asked for, and the one that is being
\* prepared was not yet.
AskedBefore(n) ==
  \A k \in Nat \ {0} : Asked(n, k) =>
    /\ task[n].pc # "none" /\ k <= task[n].attempt
    /\ task[n].pc \in {"register", "request"} => k < task[n].attempt

\* A node that was spawned is not launched again.
Started(n) ==
  task[n].pc # "none" => task[n].attempt >= 1 /\ status[n] \notin {"Pending", "Waiting"}

Requested == \A n \in Nodes : SenderKept(n) /\ AskedBefore(n) /\ Started(n)

Events == [type : {"ask"}, node : Nodes, attempt : Nat] \cup [type : {"end"}]
Answers == [node : Nodes, decision : {"yes", "no"}, attempt : Nat]

\* An attempt of node n is in the progress channel, or among the answers.
InProgress(n, k) ==
  \E i \in 1..Len(progress) : progress[i] = [type |-> "ask", node |-> n, attempt |-> k]
InResponses(n, k) ==
  \E i \in 1..Len(responses) : responses[i].node = n /\ responses[i].attempt = k

LEMMA AskedIs ==
  ASSUME ApprovalsOK, NEW n \in Nodes, NEW k \in Nat
  PROVE  Asked(n, k) <=> InProgress(n, k) \/ answerable[n] = k \/ InResponses(n, k)
<1>1. DOMAIN progress = 1..Len(progress) /\ DOMAIN responses = 1..Len(responses)
  BY DEF ApprovalsOK
<1> QED BY <1>1 DEF Asked, InProgress, InResponses

LEMMA AskedIsNext ==
  ASSUME ApprovalsOK', NEW n \in Nodes, NEW k \in Nat
  PROVE  Asked(n, k)' <=> InProgress(n, k)' \/ answerable'[n] = k \/ InResponses(n, k)'
<1>1. DOMAIN progress' = 1..Len(progress') /\ DOMAIN responses' = 1..Len(responses')
  BY DEF ApprovalsOK
<1> QED BY <1>1 DEF Asked, InProgress, InResponses

\* What a channel holds once something is sent on it, or taken from it.
LEMMA SentOn ==
  ASSUME NEW S, NEW s \in Seq(S), NEW e \in S
  PROVE  \A i \in 1..Len(Append(s, e)) :
           \/ i \in 1..Len(s) /\ Append(s, e)[i] = s[i]
           \/ Append(s, e)[i] = e
OBVIOUS

LEMMA TakenFrom ==
  ASSUME NEW S, NEW s \in Seq(S), s # <<>>
  PROVE  /\ 1 \in 1..Len(s) /\ Head(s) = s[1]
         /\ \A i \in 1..Len(Tail(s)) : i + 1 \in 1..Len(s) /\ Tail(s)[i] = s[i + 1]
OBVIOUS

\* A request that ends, one whose attempt is over, and one that waits on: what is
\* asked does not grow, and the sender goes only with an answer.
LEMMA NodeRequested ==
  ASSUME TypeOK, TypeOK', NEW n \in Nodes, SenderKept(n), AskedBefore(n), Started(n),
         \A k \in Nat \ {0} : Asked(n, k)' => Asked(n, k),
         \/ /\ task'[n] = task[n]
            /\ n \in pending => n \in pending' \/ oneshot'[n] # "open"
            /\ oneshot[n] # "open" => oneshot'[n] # "open"
         \/ /\ task'[n].pc \notin {"none", "request", "asking"}
            /\ IF task[n].pc = "none" THEN task'[n].attempt >= 1
               ELSE task'[n].attempt >= task[n].attempt
            /\ task'[n].pc = "register" => task'[n].attempt > task[n].attempt,
         task'[n].pc # "none" => status'[n] \notin {"Pending", "Waiting"}
  PROVE  SenderKept(n)' /\ AskedBefore(n)' /\ Started(n)'
<1>1. task[n] \in NodeTask /\ task'[n] \in NodeTask
  BY DEF TypeOK
<1>2. SenderKept(n)'
  BY DEF SenderKept
<1>3. AskedBefore(n)'
  <2> SUFFICES ASSUME NEW k \in Nat \ {0}, Asked(n, k)'
               PROVE  /\ task'[n].pc # "none" /\ k <= task'[n].attempt
                      /\ task'[n].pc \in {"register", "request"} => k < task'[n].attempt
    BY DEF AskedBefore
  <2>1. /\ task[n].pc # "none" /\ k <= task[n].attempt
        /\ task[n].pc \in {"register", "request"} => k < task[n].attempt
    BY DEF AskedBefore
  <2>2. task[n].attempt \in Nat /\ task'[n].attempt \in Nat
    BY <1>1 DEF NodeTask
  <2> QED BY <2>1, <2>2
<1>4. Started(n)'
  BY <1>1 DEF Started, NodeTask
<1> QED BY <1>2, <1>3, <1>4

\* A step that is none of the node's, and sends and takes nothing.
LEMMA OtherNode ==
  ASSUME TypeOK, TypeOK', Requested, NEW n \in Nodes,
         task'[n] = task[n], status'[n] = status[n],
         n \in pending => n \in pending' \/ oneshot'[n] # "open",
         oneshot[n] # "open" => oneshot'[n] # "open",
         \A k \in Nat \ {0} : Asked(n, k)' => Asked(n, k)
  PROVE  SenderKept(n)' /\ AskedBefore(n)' /\ Started(n)'
<1>1. task'[n].pc # "none" => status'[n] \notin {"Pending", "Waiting"}
  BY DEF Requested, Started
<1> QED BY <1>1, NodeRequested DEF Requested

\* Where an attempt begins.
LEMMA BegunIs ==
  ASSUME NEW n \in Nodes, NEW k \in Nat
  PROVE  Begun(n, k).attempt = k /\ Begun(n, k).pc \in {"done", "register", "body"}
BY DEF Begun, NotSpawned

\* What an attempt that is over leads to.
LEMMA ReturnedIs ==
  ASSUME TypeOK, NEW n \in Nodes, NEW r \in {"Completed", "Failed"}, NEW out \in BOOLEAN,
         Returned(n, r, out)
  PROVE  /\ task'[n].attempt = task[n].attempt /\ task'[n].pc \in {"backoff", "done"}
         /\ \A m \in Nodes : m # n => task'[m] = task[m]
<1> DEFINE backoff == [task[n] EXCEPT !.pc = "backoff"]
           done == [task[n] EXCEPT !.pc = "done", !.result = r, !.out = out]
<1>1. task \in [Nodes -> NodeTask]
  BY DEF TypeOK
<1>2. /\ backoff.attempt = task[n].attempt /\ backoff.pc = "backoff"
      /\ done.attempt = task[n].attempt /\ done.pc = "done"
  BY <1>1 DEF NodeTask
<1>3. task' = [task EXCEPT ![n] = IF r = "Failed" /\ task[n].attempt < def.max_attempts[n]
                                  THEN backoff ELSE done]
  BY <1>1 DEF Returned
<1> HIDE DEF backoff, done
<1> QED BY <1>1, <1>2, <1>3

\* Nothing is asked or answered.
LEMMA NothingAsked ==
  ASSUME UNCHANGED <<progress, client>>
  PROVE  \A n \in Nodes, k \in Nat \ {0} : Asked(n, k)' => Asked(n, k)
BY DEF Asked, client

\* The engine spawns nodes that were never spawned, and joins those that are over.
LEMMA EngineRequested ==
  ASSUME TypeOK, TypeOK', Requested, Engine
  PROVE  Requested'
<1>1. UNCHANGED <<approvals, client>>
  BY DEF Engine, Launch, Finish, Relock, BatchEnds, Join, JoinPanicked
<1>2. \A n \in Nodes, k \in Nat \ {0} : Asked(n, k)' => Asked(n, k)
  <2>1. CASE Finish
    <3>1. [type |-> "end"] \in Events /\ progress \in Seq(Events)
          /\ progress' = Append(progress, [type |-> "end"])
      BY <2>1 DEF Finish, TypeOK, ApprovalsOK, Events
    <3>2. \A i \in 1..Len(progress') :
            \/ i \in 1..Len(progress) /\ progress'[i] = progress[i]
            \/ progress'[i] = [type |-> "end"]
      BY <3>1, SentOn
    <3>3. \A n \in Nodes, k \in Nat : [type |-> "end"] # [type |-> "ask", node |-> n, attempt |-> k]
      <4>1. [type |-> "end"].type = "end"
            /\ \A n \in Nodes, k \in Nat : [type |-> "ask", node |-> n, attempt |-> k].type = "ask"
        OBVIOUS
      <4>2. "end" # "ask"
        OBVIOUS
      <4> QED BY <4>1, <4>2
    <3>4. \A n \in Nodes, k \in Nat : InProgress(n, k)' => InProgress(n, k)
      BY <3>2, <3>3 DEF InProgress
    <3>5. \A n \in Nodes, k \in Nat : InResponses(n, k)' => InResponses(n, k)
      BY <1>1 DEF InResponses, client
    <3> QED BY <1>1, <3>4, <3>5, AskedIs, AskedIsNext DEF TypeOK, client
  <2>2. CASE UNCHANGED progress
    BY <1>1, <2>2, NothingAsked
  <2> QED BY <2>1, <2>2 DEF Engine, Launch, Relock, BatchEnds, Join, JoinPanicked
<1>3. SUFFICES ASSUME NEW n \in Nodes PROVE SenderKept(n)' /\ AskedBefore(n)' /\ Started(n)'
  BY DEF Requested
<1>4. CASE Launch /\ n \in Ready
  <2>1. task[n].pc = "none" /\ status'[n] = "Running" /\ task'[n] = Begun(n, 1)
    BY <1>4 DEF Launch, Ready, Requested, Started, TypeOK, RunOK
  <2>2. task'[n].attempt = 1 /\ task'[n].pc \in {"done", "register", "body"}
    BY <2>1, BegunIs
  <2>3. \A k \in Nat \ {0} : ~Asked(n, k)'
    BY <1>2, <2>1 DEF Requested, AskedBefore
  <2> QED BY <2>1, <2>2, <2>3 DEF SenderKept, AskedBefore, Started
<1>5. CASE task'[n] = task[n] /\ status'[n] = status[n]
  BY <1>1, <1>2, <1>5, OtherNode DEF approvals
<1>6. CASE Join(n) \/ JoinPanicked(n)
  <2>1. /\ task'[n].pc = "joined" /\ task'[n].attempt = task[n].attempt
        /\ task[n].pc \in {"done", "panicked"}
        /\ status'[n] \in {"Running", "Completed", "Failed"}
    BY <1>6 DEF Join, JoinPanicked, TypeOK, RunOK, NodeTask, run
  <2>2. task[n].attempt \in Nat
    BY DEF TypeOK, NodeTask
  <2> QED BY <1>2, <2>1, <2>2, NodeRequested DEF Requested
<1>7. CASE \E m \in Nodes : m # n /\ (Join(m) \/ JoinPanicked(m))
  BY <1>5, <1>7 DEF Join, JoinPanicked, TypeOK, RunOK, run
<1>8. CASE (Launch /\ n \notin Ready) \/ Finish \/ Relock \/ BatchEnds
  BY <1>5, <1>8 DEF Launch, Finish, Relock, BatchEnds, TypeOK, RunOK
<1> QED BY <1>4, <1>6, <1>7, <1>8 DEF Engine

\* The node that steps changes its own task and its own sender only.
LEMMA NodeAlone ==
  ASSUME TypeOK, TypeOK', Requested, NEW n \in Nodes,
         UNCHANGED <<def, run, client>>,
         \A m \in Nodes : m # n => /\ task'[m] = task[m] /\ oneshot'[m] = oneshot[m]
                                   /\ m \in pending' <=> m \in pending
                                   /\ \A k \in Nat \ {0} : Asked(m, k)' => Asked(m, k),
         SenderKept(n)', AskedBefore(n)', Started(n)'
  PROVE  Requested'
<1> SUFFICES ASSUME NEW m \in Nodes, m # n
             PROVE  SenderKept(m)' /\ AskedBefore(m)' /\ Started(m)'
  BY DEF Requested
<1>1. status'[m] = status[m]
  BY DEF run
<1> QED BY <1>1, OtherNode

\* An attempt that is over, and one that begins.
LEMMA EndsOrBegins ==
  ASSUME TypeOK, TypeOK', Requested, NEW n \in Nodes, task[n].pc # "none",
         UNCHANGED <<def, run, client, progress, oneshot>>, pending' \in {pending, pending \ {n}},
         \A m \in Nodes : m # n => task'[m] = task[m],
         task'[n].pc \notin {"none", "request", "asking"},
         task'[n].attempt >= task[n].attempt,
         task'[n].pc = "register" => task'[n].attempt > task[n].attempt
  PROVE  Requested'
<1>1. \A m \in Nodes, k \in Nat \ {0} : Asked(m, k)' => Asked(m, k)
  BY NothingAsked
<1>2. status'[n] \notin {"Pending", "Waiting"}
  BY DEF Requested, Started, run
<1>3. SenderKept(n)' /\ AskedBefore(n)' /\ Started(n)'
  BY <1>1, <1>2, NodeRequested DEF Requested
<1> QED BY <1>1, <1>3, NodeAlone

\* The sender is registered before the request goes, and the request is of the
\* attempt under way.
LEMMA NodeStepRequested ==
  ASSUME TypeOK, TypeOK', Requested, NEW n \in Nodes, Node(n)
  PROVE  Requested'
<1>1. task[n] \in NodeTask /\ task[n].attempt \in Nat /\ task \in [Nodes -> NodeTask]
  BY DEF TypeOK, NodeTask
<1>2. CASE Work(n)
  <2>1. /\ UNCHANGED <<def, run, client, progress, oneshot>> /\ pending' = pending
        /\ task[n].pc = "body"
    BY <1>2 DEF Work, TaskOnly, approvals
  <2>2. /\ \A m \in Nodes : m # n => task'[m] = task[m]
        /\ task'[n].pc \in {"backoff", "done", "panicked"} /\ task'[n].attempt = task[n].attempt
    <3>1. ASSUME NEW r \in {"Completed", "Failed"}, NEW out \in BOOLEAN, Returned(n, r, out)
          PROVE  <2>2!1 /\ <2>2!2
      BY <3>1, ReturnedIs
    <3>2. CASE \/ task' = [task EXCEPT ![n].pc = "done", ![n].result = "Failed",
                                       ![n].out = FALSE]
               \/ task' = [task EXCEPT ![n].pc = "panicked"]
      BY <1>1, <3>2 DEF NodeTask
    <3> QED BY <1>2, <3>1, <3>2 DEF Work
  <2> QED BY <1>1, <2>1, <2>2, EndsOrBegins
<1>3. CASE Retry(n)
  <2>1. /\ UNCHANGED <<def, run, client, progress, oneshot>> /\ pending' = pending
        /\ task[n].pc = "backoff" /\ task'[n] = Begun(n, task[n].attempt + 1)
        /\ \A m \in Nodes : m # n => task'[m] = task[m]
    BY <1>1, <1>3 DEF Retry, TaskOnly, approvals
  <2>2. task'[n].attempt = task[n].attempt + 1 /\ task'[n].pc \in {"done", "register", "body"}
    BY <1>1, <2>1, BegunIs
  <2> QED BY <1>1, <2>1, <2>2, EndsOrBegins
<1>4. CASE Decide(n) \/ Expire(n)
  <2>1. PICK r \in {"Completed", "Failed"}, out \in BOOLEAN : Returned(n, r, out)
    BY <1>4 DEF Decide, Expire
  <2>2. /\ UNCHANGED <<def, run, client, progress, oneshot>> /\ pending' = pending \ {n}
        /\ task[n].pc = "asking"
    BY <1>4 DEF Decide, Expire, TaskOnly
  <2> QED BY <1>1, <2>1, <2>2, ReturnedIs, EndsOrBegins
<1>5. CASE Register(n)
  <2>1. /\ UNCHANGED <<def, run, client, progress>> /\ pending' = pending \cup {n}
        /\ \A m \in Nodes : m # n => task'[m] = task[m] /\ oneshot'[m] = oneshot[m]
        /\ task[n].pc = "register" /\ task'[n].pc = "request" /\ task'[n].attempt = task[n].attempt
    BY <1>1, <1>5 DEF Register, TaskOnly, NodeTask, TypeOK, ApprovalsOK
  <2>2. \A m \in Nodes, k \in Nat \ {0} : Asked(m, k)' => Asked(m, k)
    BY <2>1, NothingAsked
  <2>3. SenderKept(n)' /\ AskedBefore(n)' /\ Started(n)'
    BY <2>1, <2>2 DEF Requested, SenderKept, AskedBefore, Started, run
  <2> QED BY <2>1, <2>2, <2>3, NodeAlone
<1>6. CASE Request(n)
  <2>1. PICK k : k = task[n].attempt
    OBVIOUS
  <2>2. /\ UNCHANGED <<def, run, client, pending, oneshot>>
        /\ progress' = Append(progress, [type |-> "ask", node |-> n, attempt |-> k])
        /\ \A m \in Nodes : m # n => task'[m] = task[m]
        /\ task[n].pc = "request" /\ task'[n].pc = "asking" /\ task'[n].attempt = k
    BY <1>1, <1>6, <2>1 DEF Request, TaskOnly, NodeTask, approvals
  <2>3. /\ progress \in Seq(Events) /\ k \in Nat
        /\ [type |-> "ask", node |-> n, attempt |-> k] \in Events
    BY <1>1, <2>1 DEF TypeOK, ApprovalsOK, Events
  <2>4. \A i \in 1..Len(progress') :
          \/ i \in 1..Len(progress) /\ progress'[i] = progress[i]
          \/ progress'[i] = [type |-> "ask", node |-> n, attempt |-> k]
    BY <2>2, <2>3, SentOn
  <2>5. \A m \in Nodes, j \in Nat :
          [type |-> "ask", node |-> n, attempt |-> k] = [type |-> "ask", node |-> m, attempt |-> j]
            => m = n /\ j = k
    <3> SUFFICES ASSUME NEW m \in Nodes, NEW j \in Nat,
                        [type |-> "ask", node |-> n, attempt |-> k]
                          = [type |-> "ask", node |-> m, attempt |-> j]
                 PROVE  m = n /\ j = k
      OBVIOUS
    <3>1. [type |-> "ask", node |-> n, attempt |-> k].node = n
          /\ [type |-> "ask", node |-> m, attempt |-> j].node = m
          /\ [type |-> "ask", node |-> n, attempt |-> k].attempt = k
          /\ [type |-> "ask", node |-> m, attempt |-> j].attempt = j
      OBVIOUS
    <3> QED BY <3>1
  <2>6. \A m \in Nodes, j \in Nat : InProgress(m, j)' => InProgress(m, j) \/ (m = n /\ j = k)
    BY <2>4, <2>5 DEF InProgress
  <2>7. \A m \in Nodes, j \in Nat : InResponses(m, j)' => InResponses(m, j)
    BY <2>2 DEF InResponses, client
  <2>8. \A m \in Nodes, j \in Nat \ {0} : Asked(m, j)' => Asked(m, j) \/ (m = n /\ j = k)
    BY <2>2, <2>6, <2>7, AskedIs, AskedIsNext DEF TypeOK, client
  <2>9. SenderKept(n)' /\ Started(n)'
    BY <2>1, <2>2 DEF Requested, SenderKept, Started, run
  <2>10. AskedBefore(n)'
    <3> SUFFICES ASSUME NEW j \in Nat \ {0}, Asked(n, j)'
                 PROVE  j <= k
      BY <2>2 DEF AskedBefore
    <3> QED BY <2>1, <2>3, <2>8 DEF Requested, AskedBefore
  <2> QED BY <2>2, <2>8, <2>9, <2>10, NodeAlone
<1> QED BY <1>2, <1>3, <1>4, <1>5, <1>6 DEF Node

\* What the client and the forwarders pass on was asked before; a sender goes when
\* its answer has arrived.
LEMMA PassedOnRequested ==
  ASSUME TypeOK, TypeOK', Requested, UNCHANGED <<def, run, task>>,
         \A n \in Nodes : /\ n \in pending => n \in pending' \/ oneshot'[n] # "open"
                          /\ oneshot[n] # "open" => oneshot'[n] # "open",
         \A n \in Nodes, k \in Nat \ {0} : Asked(n, k)' => Asked(n, k)
  PROVE  Requested'
<1> SUFFICES ASSUME NEW n \in Nodes PROVE SenderKept(n)' /\ AskedBefore(n)' /\ Started(n)'
  BY DEF Requested
<1>1. task'[n] = task[n] /\ status'[n] = status[n]
  BY DEF run
<1> QED BY <1>1, OtherNode

LEMMA AnswerRequested ==
  ASSUME TypeOK, TypeOK', Requested, NEW m \in Nodes, Answer(m)
  PROVE  Requested'
<1>1. PICK decision \in {"yes", "no"} :
        responses' = Append(responses, [node |-> m, decision |-> decision, attempt |-> answerable[m]])
  BY DEF Answer
<1>2. /\ answerable[m] # 0 /\ answerable \in [Nodes -> Nat] /\ responses \in Seq(Answers)
      /\ answerable' = [answerable EXCEPT ![m] = 0]
      /\ UNCHANGED <<def, run, task, pending, oneshot, progress>>
  BY DEF Answer, TypeOK, ApprovalsOK, approvals, Answers
<1> DEFINE e == [node |-> m, decision |-> decision, attempt |-> answerable[m]]
<1>3. e \in Answers /\ e.node = m /\ e.attempt = answerable[m]
  BY <1>2 DEF Answers
<1>4. \A i \in 1..Len(responses') :
        \/ i \in 1..Len(responses) /\ responses'[i] = responses[i]
        \/ responses'[i] = e
  BY <1>1, <1>2, <1>3, SentOn
<1> HIDE DEF e
<1>5. \A n \in Nodes, k \in Nat : InResponses(n, k)' => InResponses(n, k) \/ answerable[n] = k
  BY <1>3, <1>4 DEF InResponses
<1>6. \A n \in Nodes, k \in Nat : InProgress(n, k)' => InProgress(n, k)
  BY <1>2 DEF InProgress
<1>7. \A n \in Nodes, k \in Nat \ {0} : answerable'[n] = k => answerable[n] = k
  BY <1>2
<1>8. \A n \in Nodes, k \in Nat \ {0} : Asked(n, k)' => Asked(n, k)
  BY <1>5, <1>6, <1>7, AskedIs, AskedIsNext DEF TypeOK
<1> QED BY <1>2, <1>8, PassedOnRequested

LEMMA ForwardProgressRequested ==
  ASSUME TypeOK, TypeOK', Requested, ForwardProgress
  PROVE  Requested'
<1>1. /\ progress \in Seq(Events) /\ progress # <<>> /\ progress' = Tail(progress)
      /\ UNCHANGED <<def, run, task, pending, oneshot, responses>>
      /\ answerable \in [Nodes -> Nat]
  BY DEF ForwardProgress, TypeOK, ApprovalsOK, Events, approvals
<1>2. /\ 1 \in 1..Len(progress) /\ Head(progress) = progress[1] /\ progress[1] \in Events
      /\ \A i \in 1..Len(progress') : i + 1 \in 1..Len(progress) /\ progress'[i] = progress[i + 1]
  BY <1>1, TakenFrom
<1>3. \A n \in Nodes, k \in Nat : InProgress(n, k)' => InProgress(n, k)
  BY <1>2 DEF InProgress
<1>4. \A n \in Nodes, k \in Nat : InResponses(n, k)' => InResponses(n, k)
  BY <1>1 DEF InResponses
<1>5. ASSUME NEW n \in Nodes, NEW k \in Nat \ {0}, answerable'[n] = k
      PROVE  answerable[n] = k \/ InProgress(n, k)
  <2> DEFINE event == progress[1]
  <2>1. answerable' = IF event.type = "ask" THEN [answerable EXCEPT ![event.node] = event.attempt]
                      ELSE [m \in Nodes |-> 0]
    BY <1>2 DEF ForwardProgress
  <2>2. CASE event.type = "ask"
    <3>1. event \in [type : {"ask"}, node : Nodes, attempt : Nat]
      <4>1. ASSUME event \in [type : {"end"}] PROVE FALSE
        <5>1. event.type = "end"
          BY <4>1
        <5> QED BY <2>2, <5>1
      <4> QED BY <1>2, <4>1 DEF Events
    <3>2. event = [type |-> "ask", node |-> event.node, attempt |-> event.attempt]
      BY <3>1
    <3>3. CASE event.node = n
      <4>1. event.attempt = k
        BY <1>1, <1>5, <2>1, <2>2, <3>1, <3>3
      <4>2. event = [type |-> "ask", node |-> n, attempt |-> k]
        BY <3>2, <3>3, <4>1
      <4> QED BY <1>2, <4>2 DEF InProgress
    <3>4. CASE event.node # n
      BY <1>1, <1>5, <2>1, <2>2, <3>4
    <3> QED BY <3>3, <3>4
  <2>3. CASE event.type # "ask"
    BY <1>5, <2>1, <2>3
  <2> QED BY <2>2, <2>3
<1>6. \A n \in Nodes, k \in Nat \ {0} : Asked(n, k)' => Asked(n, k)
  BY <1>3, <1>4, <1>5, AskedIs, AskedIsNext DEF TypeOK
<1> QED BY <1>1, <1>6, PassedOnRequested

LEMMA ForwardApprovalRequested ==
  ASSUME TypeOK, TypeOK', Requested, ForwardApproval
  PROVE  Requested'
<1>1. /\ responses \in Seq(Answers) /\ responses # <<>> /\ responses' = Tail(responses)
      /\ UNCHANGED <<def, run, task, progress, answerable>>
  BY DEF ForwardApproval, TypeOK, ApprovalsOK, Answers
<1> DEFINE answer == Head(responses)
<1>2. /\ answer \in Answers
      /\ \A i \in 1..Len(responses') : i + 1 \in 1..Len(responses) /\ responses'[i] = responses[i + 1]
  BY <1>1, TakenFrom
<1>3. answer.node \in Nodes /\ answer.decision # "open"
  BY <1>2 DEF Answers
<1>4. \/ UNCHANGED approvals
      \/ /\ pending' = pending \ {answer.node}
         /\ oneshot' = [oneshot EXCEPT ![answer.node] = answer.decision]
  BY DEF ForwardApproval
<1> HIDE DEF answer
<1>5. \A n \in Nodes : /\ n \in pending => n \in pending' \/ oneshot'[n] # "open"
                       /\ oneshot[n] # "open" => oneshot'[n] # "open"
  BY <1>3, <1>4 DEF TypeOK, ApprovalsOK, approvals
<1>6. \A n \in Nodes, k \in Nat : InProgress(n, k)' => InProgress(n, k)
  BY <1>1 DEF InProgress
<1>7. \A n \in Nodes, k \in Nat : InResponses(n, k)' => InResponses(n, k)
  BY <1>2 DEF InResponses
<1>8. \A n \in Nodes, k \in Nat \ {0} : Asked(n, k)' => Asked(n, k)
  BY <1>1, <1>6, <1>7, AskedIs, AskedIsNext DEF TypeOK
<1> QED BY <1>1, <1>5, <1>8, PassedOnRequested

LEMMA NextRequested ==
  ASSUME TypeOK, Requested, [Next]_vars PROVE Requested'
<1>1. TypeOK'
  BY NextTypeOK, WorkflowAssumption
     DEF TypeOK, RunOK, ApprovalsOK, vars, run, approvals, client
<1>2. CASE Engine
  BY <1>1, <1>2, EngineRequested
<1>3. CASE \E n \in Nodes : Node(n) \/ Answer(n)
  BY <1>1, <1>3, NodeStepRequested, AnswerRequested
<1>4. CASE ForwardProgress \/ ForwardApproval
  BY <1>1, <1>4, ForwardProgressRequested, ForwardApprovalRequested
<1>5. CASE UNCHANGED vars
  BY <1>1, <1>5, NothingAsked, PassedOnRequested DEF vars, run, approvals
<1> QED BY <1>2, <1>3, <1>4, <1>5 DEF Next

\* In whatever order the engine, the nodes, the two forwarders and the client
\* step: an answer to the request of a node that waits finds the sender of that
\* node, or another answer has found it before (execute_node_body,
\* run_workflow's approval forwarder).
THEOREM RequestsAreRegistered == Spec => []RequestIsRegistered
<1>1. Init => Requested
  <2> SUFFICES ASSUME Init, NEW n \in Nodes
               PROVE  SenderKept(n) /\ AskedBefore(n) /\ Started(n)
    BY DEF Requested
  <2>1. task[n].pc = "none"
    BY DEF Init, NotSpawned
  <2>2. \A k \in Nat \ {0} : ~Asked(n, k)
    BY DEF Init, Asked
  <2> QED BY <2>1, <2>2 DEF SenderKept, AskedBefore, Started
<1>2. TypeOK /\ Requested => RequestIsRegistered
  <2> SUFFICES ASSUME TypeOK, Requested, NEW n \in Nodes,
                      task[n].pc \in {"register", "request", "asking"}, Asked(n, task[n].attempt)
               PROVE  n \in pending \/ (oneshot[n] # "open" /\ task[n].pc = "asking")
    BY DEF RequestIsRegistered
  <2>1. task[n].attempt \in Nat \ {0}
    BY DEF TypeOK, NodeTask, Requested, Started
  <2>2. task[n].pc = "asking"
    BY <2>1 DEF Requested, AskedBefore
  <2> QED BY <2>2 DEF Requested, SenderKept
<1> QED BY <1>1, <1>2, NextRequested, TypeCorrect, PTL DEF Spec
=============================================================================
