-------------------------- MODULE WorkflowEngine --------------------------
(***************************************************************************)
(* The workflow engine of sa-core/src/workflow_engine.rs and its client in *)
(* sa/src/main.rs.  run_workflow executes the nodes of a definition in     *)
(* batches: every node that is ready is spawned into a JoinSet, and the    *)
(* next batch is looked for when all of them were joined.  A node is tried *)
(* again when its body fails, up to its retry policy.  An approval node    *)
(* registers a one-shot sender, asks the client through the progress       *)
(* channel and waits, at most ten minutes, for an answer that comes        *)
(* through the approval channel.                                           *)
(*                                                                         *)
(* A definition is data: dependencies, trigger rules, approval nodes,      *)
(* attempts, and, for a `when` expression, the sets of nodes with output   *)
(* of which it is true.  What prompts, commands and loops compute is left  *)
(* out; their bodies end in one of the ways the code has.  Node updates to *)
(* the client are left out, requests and the end of the run are not.       *)
(***************************************************************************)
EXTENDS Naturals, Sequences

CONSTANTS
  Nodes,        \* ids of the nodes of the run
  Ids,          \* ids a depends_on list may name
  MaxAttempts,  \* bound on the retry policies
  Definitions   \* the workflow definitions considered

Rules == {"AllSuccess", "OneSuccess", "NoneFailed"}

\* WorkflowDef.
WorkflowDef ==
  [depends_on : [Nodes -> SUBSET Ids], trigger_rule : [Nodes -> Rules],
   when : [Nodes -> SUBSET SUBSET Nodes], approval : SUBSET Nodes,
   max_attempts : [Nodes -> 0..MaxAttempts]]

ASSUME WorkflowAssumption ==
  /\ Nodes \subseteq Ids
  /\ MaxAttempts \in Nat
  /\ Definitions \subseteq WorkflowDef

Statuses == {"Pending", "Waiting", "Running", "Completed", "Failed", "Skipped"}
Terminal == {"Completed", "Failed", "Skipped"}

\* A spawned execute_node: where it is, the attempt, and what it returns.
TaskPcs == {"none", "body", "register", "request", "asking", "backoff", "done",
            "panicked", "joined"}
NodeTask == [pc : TaskPcs, attempt : Nat, result : {"Completed", "Failed"}, out : BOOLEAN]
NotSpawned == [pc |-> "none", attempt |-> 0, result |-> "Failed", out |-> FALSE]

NoFile == [n \in {} |-> "Pending"]

VARIABLES
  def,       \* the definition this run executes
  status,    \* run_state: status of each node
  outputs,   \* nodes with a non-empty output
  engine,    \* where run_workflow is
  task,      \* the spawned nodes
  file,      \* runtime/workflows/<run_id>.json: the statuses in it
  pending,   \* approval_pending: nodes with a registered sender
  oneshot,   \* what arrived in the receiver of a node
  progress,  \* progress channel: requests and the end of the run
  answerable,\* approval_txs of the connection: the attempt asked for, or 0
  responses  \* approval channel

run == <<status, outputs, engine, file>>
approvals == <<pending, oneshot>>
client == <<answerable, responses>>
vars == <<def, run, task, approvals, progress, client>>

Init ==
  /\ def \in Definitions
  /\ status = [n \in Nodes |-> IF def.depends_on[n] = {} THEN "Waiting" ELSE "Pending"]
  /\ outputs = {}
  /\ engine = "find"
  /\ task = [n \in Nodes |-> NotSpawned]
  /\ file = NoFile
  /\ pending = {} /\ oneshot = [n \in Nodes |-> "open"]
  /\ progress = <<>>
  /\ answerable = [n \in Nodes |-> 0] /\ responses = <<>>
-----------------------------------------------------------------------------
\* check_trigger_rule.  Ids that name no node are dropped.
Deps(n) == def.depends_on[n] \cap Nodes

RuleHolds(n) ==
  CASE def.trigger_rule[n] = "AllSuccess" -> \A d \in Deps(n) : status[d] = "Completed"
    [] def.trigger_rule[n] = "OneSuccess" -> \E d \in Deps(n) : status[d] = "Completed"
    [] def.trigger_rule[n] = "NoneFailed" -> \A d \in Deps(n) : status[d] # "Failed"

\* Mutant of Triggered: one dependency that ended is enough.
TriggeredByOne(n) ==
  \/ def.depends_on[n] = {}
  \/ (\E d \in Deps(n) : status[d] \in Terminal) /\ RuleHolds(n)

Triggered(n) ==
  \/ def.depends_on[n] = {}
  \/ (\A d \in Deps(n) : status[d] \in Terminal) /\ RuleHolds(n)

\* evaluate_when.
When(n) == outputs \in def.when[n]

\* find_ready_nodes.
Ready ==
  {n \in Nodes : status[n] \in {"Pending", "Waiting"} /\ Triggered(n) /\ When(n)}
-----------------------------------------------------------------------------
(***************************************************************************)
(* run_workflow.                                                           *)
(***************************************************************************)
\* Where the attempt of a node begins; without attempts it fails at once.
Begun(n, attempt) ==
  [NotSpawned EXCEPT
     !.pc = IF attempt > def.max_attempts[n] THEN "done"
            ELSE IF n \in def.approval THEN "register" ELSE "body",
     !.attempt = attempt]

\* The nodes that are ready are marked and spawned.
Launch ==
  /\ engine = "find" /\ Ready # {}
  /\ status' = [n \in Nodes |-> IF n \in Ready THEN "Running" ELSE status[n]]
  /\ task' = [n \in Nodes |-> IF n \in Ready THEN Begun(n, 1) ELSE task[n]]
  /\ engine' = "join"
  /\ UNCHANGED <<def, outputs, file, approvals, progress, client>>

AllDone == \A n \in Nodes : status[n] \in Terminal

\* The final status is Failed or Completed, the client is told, and the
\* approval forwarder is aborted.
Finish ==
  /\ engine = "find" /\ Ready = {} /\ AllDone
  /\ engine' = "over"
  /\ progress' = Append(progress, [type |-> "end"])
  /\ UNCHANGED <<def, status, outputs, file, task, approvals, client>>

\* No node is ready and some have not ended.  The guard of run_state taken for
\* the look at them is still held when it is locked again to mark them as
\* skipped: run_workflow waits for itself.
Relock ==
  /\ engine = "find" /\ Ready = {} /\ ~AllDone
  /\ engine' = "relock"
  /\ UNCHANGED <<def, status, outputs, file, task, approvals, progress, client>>

Join(n) ==
  /\ engine = "join" /\ task[n].pc = "done"
  /\ status' = [status EXCEPT ![n] = task[n].result]
  /\ outputs' = IF task[n].out THEN outputs \cup {n} ELSE outputs
  /\ task' = [task EXCEPT ![n].pc = "joined"]
  /\ UNCHANGED <<def, engine, file, approvals, progress, client>>

\* A JoinError carries no node id: the node stays Running.
JoinPanicked(n) ==
  /\ engine = "join" /\ task[n].pc = "panicked"
  /\ task' = [task EXCEPT ![n].pc = "joined"]
  /\ UNCHANGED <<def, run, approvals, progress, client>>

\* join_next returned None; the run is saved, and an error of that is ignored.
BatchEnds ==
  /\ engine = "join" /\ \A n \in Nodes : task[n].pc \in {"none", "joined"}
  /\ file' \in {status, file}
  /\ engine' = "find"
  /\ UNCHANGED <<def, status, outputs, task, approvals, progress, client>>

Engine ==
  \/ Launch \/ Finish \/ Relock \/ BatchEnds
  \/ \E n \in Nodes : Join(n) \/ JoinPanicked(n)
-----------------------------------------------------------------------------
(***************************************************************************)
(* execute_node and execute_node_body.                                     *)
(***************************************************************************)
TaskOnly == UNCHANGED <<def, run, client>>

\* A body that returned r, with a non-empty output or not.
Returned(n, r, out) ==
  task' = [task EXCEPT ![n] =
    IF r = "Failed" /\ @.attempt < def.max_attempts[n]
    THEN [@ EXCEPT !.pc = "backoff"]
    ELSE [@ EXCEPT !.pc = "done", !.result = r, !.out = out]]

\* A prompt, command or loop comes to an end: it completes or fails, or the
\* attempt is an error (a timeout, a program that is not found), which is not
\* tried again, or it panics.
Work(n) ==
  /\ task[n].pc = "body"
  /\ \/ \E r \in {"Completed", "Failed"}, out \in BOOLEAN : Returned(n, r, out)
     \/ task' = [task EXCEPT ![n].pc = "done", ![n].result = "Failed", ![n].out = FALSE]
     \/ task' = [task EXCEPT ![n].pc = "panicked"]
  /\ UNCHANGED <<approvals, progress>> /\ TaskOnly

Retry(n) ==
  /\ task[n].pc = "backoff"
  /\ task' = [task EXCEPT ![n] = Begun(n, @.attempt + 1)]
  /\ UNCHANGED <<approvals, progress>> /\ TaskOnly

\* Mutant of Register: the sender is registered after the request was sent.
RegisterLate(n) ==
  \/ /\ task[n].pc = "register"
     /\ progress' = Append(progress, [type |-> "ask", node |-> n,
                                      attempt |-> task[n].attempt])
     /\ task' = [task EXCEPT ![n].pc = "request"]
     /\ UNCHANGED approvals /\ TaskOnly
  \/ /\ task[n].pc = "request"
     /\ pending' = pending \cup {n}
     /\ oneshot' = [oneshot EXCEPT ![n] = "open"]
     /\ task' = [task EXCEPT ![n].pc = "asking"]
     /\ UNCHANGED progress /\ TaskOnly

Register(n) ==
  /\ task[n].pc = "register"
  /\ pending' = pending \cup {n}
  /\ oneshot' = [oneshot EXCEPT ![n] = "open"]
  /\ task' = [task EXCEPT ![n].pc = "request"]
  /\ UNCHANGED progress /\ TaskOnly

Request(n) ==
  /\ task[n].pc = "request"
  /\ progress' = Append(progress, [type |-> "ask", node |-> n,
                                   attempt |-> task[n].attempt])
  /\ task' = [task EXCEPT ![n].pc = "asking"]
  /\ UNCHANGED approvals /\ TaskOnly

Decide(n) ==
  /\ task[n].pc = "asking" /\ oneshot[n] # "open"
  /\ pending' = pending \ {n}
  /\ Returned(n, IF oneshot[n] = "yes" THEN "Completed" ELSE "Failed", TRUE)
  /\ UNCHANGED <<oneshot, progress>> /\ TaskOnly

\* Mutant of Expire: the request never expires.
ExpireNever(n) == FALSE /\ UNCHANGED vars

\* Ten minutes without an answer.
Expire(n) ==
  /\ task[n].pc = "asking" /\ oneshot[n] = "open"
  /\ pending' = pending \ {n}
  /\ Returned(n, "Failed", FALSE)
  /\ UNCHANGED <<oneshot, progress>> /\ TaskOnly

Node(n) ==
  Work(n) \/ Retry(n) \/ Register(n) \/ Request(n) \/ Decide(n) \/ Expire(n)
-----------------------------------------------------------------------------
(***************************************************************************)
(* The tasks between the engine and the client, and the client.            *)
(***************************************************************************)
\* The progress forwarder of main.rs: a request makes the node answerable, the
\* end of the run makes nothing answerable.
ForwardProgress ==
  /\ progress # <<>>
  /\ progress' = Tail(progress)
  /\ LET event == Head(progress) IN
       answerable' =
         IF event.type = "ask" THEN [answerable EXCEPT ![event.node] = event.attempt]
         ELSE [n \in Nodes |-> 0]
  /\ UNCHANGED <<def, run, task, approvals, responses>>

\* RespondApproval; InjectWorkflowContext answers with a yes.
Answer(n) ==
  /\ answerable[n] # 0
  /\ answerable' = [answerable EXCEPT ![n] = 0]
  /\ \E decision \in {"yes", "no"} :
       responses' = Append(responses, [node |-> n, decision |-> decision,
                                       attempt |-> answerable[n]])
  /\ UNCHANGED <<def, run, task, approvals, progress>>

\* The approval forwarder of run_workflow, aborted at the end of the run: an
\* answer for which no sender is registered is dropped.
ForwardApproval ==
  /\ engine # "over" /\ responses # <<>>
  /\ responses' = Tail(responses)
  /\ LET answer == Head(responses) IN
       IF answer.node \in pending
       THEN /\ pending' = pending \ {answer.node}
            /\ oneshot' = [oneshot EXCEPT ![answer.node] = answer.decision]
       ELSE UNCHANGED approvals
  /\ UNCHANGED <<def, run, task, progress, answerable>>

Next ==
  \/ Engine
  \/ \E n \in Nodes : Node(n) \/ Answer(n)
  \/ ForwardProgress \/ ForwardApproval

\* Threads that can run do, node bodies come to an end (each has a timeout),
\* and time passes; the client need not answer.
Fairness ==
  /\ WF_vars(Engine) /\ \A n \in Nodes : WF_vars(Node(n))
  /\ WF_vars(ForwardProgress) /\ WF_vars(ForwardApproval)

Spec == Init /\ [][Next]_vars
FairSpec == Spec /\ Fairness
-----------------------------------------------------------------------------
RunOK ==
  /\ def \in Definitions
  /\ status \in [Nodes -> Statuses]
  /\ outputs \subseteq Nodes
  /\ engine \in {"find", "join", "relock", "over"}
  /\ file \in [Nodes -> Statuses] \cup {NoFile}

ApprovalsOK ==
  /\ pending \subseteq Nodes
  /\ oneshot \in [Nodes -> {"open", "yes", "no"}]
  /\ progress \in Seq([type : {"ask"}, node : Nodes, attempt : Nat] \cup [type : {"end"}])
  /\ answerable \in [Nodes -> Nat]
  /\ responses \in Seq([node : Nodes, decision : {"yes", "no"}, attempt : Nat])

\* Every variable has its type; a node that executes is marked Running, and
\* only nodes of the batch that is being joined execute.
TypeOK ==
  /\ RunOK /\ ApprovalsOK
  /\ task \in [Nodes -> NodeTask]
  /\ \A n \in Nodes : task[n].pc \notin {"none", "joined"} =>
       status[n] = "Running" /\ engine = "join"

\* A node is started only after its dependencies have ended, in a way its
\* trigger rule accepts, and that stays true: nothing that ended is changed
\* afterwards.
TriggerRespected ==
  \A n \in Nodes : status[n] \in {"Running", "Completed", "Failed"} => Triggered(n)

\* A node ends once.
NodeEndsOnce == [][\A n \in Nodes : status[n] \in Terminal => status'[n] = status[n]]_vars

\* The attempt of node n the client may know of: it is in the progress
\* channel, or can be answered, or was answered.
Asked(n, k) ==
  \/ \E i \in DOMAIN progress :
       progress[i] = [type |-> "ask", node |-> n, attempt |-> k]
  \/ answerable[n] = k
  \/ \E i \in DOMAIN responses : responses[i].node = n /\ responses[i].attempt = k

\* Whatever the order of the four tasks an approval passes through: while a
\* node waits, an answer to its request finds the sender, or an answer has
\* found it before.  So no answer given in time makes the node wait in vain.
RequestIsRegistered ==
  \A n \in Nodes :
    task[n].pc \in {"register", "request", "asking"} /\ Asked(n, task[n].attempt)
      => n \in pending \/ (oneshot[n] # "open" /\ task[n].pc = "asking")

\* The engine comes to an end, or to the point where it waits for itself: it
\* waits for no client and no node for ever.
EngineStops == <>(engine \in {"over", "relock"})

\* workflow_engine.rs:191-193: nodes that cannot run, because their
\* dependencies failed, are marked as skipped, and the run ends; workflow.rs:40
\* says the same of a condition that is not met.
WorkflowEnds == <>(engine = "over")
=============================================================================
