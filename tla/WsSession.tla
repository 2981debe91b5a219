------------------------------ MODULE WsSession ------------------------------
(***************************************************************************)
(* Client sessions (crates/sa/src/main.rs): the handshake, the requests a  *)
(* connection handles one after the other, the jobs it spawns, and the     *)
(* configuration: the file, the runtime that is live, its first            *)
(* initialisation and its hot reload.                                      *)
(*                                                                         *)
(* Handlers of different connections interleave at each await and between  *)
(* each two accesses to the file.  A configuration is a version number; a  *)
(* file half written is Torn.  Whether a file parses, merges, builds a     *)
(* runtime and keeps the listen address is the client's data: each may     *)
(* fail.  Of a reply it matters which request it answers.                  *)
(***************************************************************************)
EXTENDS Integers, FiniteSets

CONSTANTS
  Clients,      \* clients, one connection each at a time
  Plans,        \* ids of plans that may be generated
  Runs,         \* ids of workflow runs that may start
  Steps,        \* steps of a plan: 1..Steps
  MaxRequests,  \* bound: requests sent
  MaxConnects, MaxCrashes  \* bounds

ASSUME SessionBoundsAssumption ==
  {Steps, MaxRequests, MaxConnects, MaxCrashes} \subseteq Nat

NoFile == 0
Bootstrap == 0
Torn == -1

Kinds == {"unparsed", "hello", "history", "config", "skill", "skills", "memory", "report",
          "models", "test_key", "cancel", "pause", "resume", "interrupt", "answer", "modify",
          "init", "submit", "image", "update", "workflow", "approval", "inject", "mode",
          "approve_all", "approve_step"}
Modes == {"chat", "plan", "workflow"}

VARIABLES
  up,         \* the process runs
  file,       \* sa.toml: NoFile, Torn or a version
  everFile,   \* history: versions sa.toml has held
  live,       \* ServerState::runtime: Bootstrap or the version applied
  temps,      \* temporary configuration files
  version,    \* counter: versions made
  conn,       \* per client, its connection
  request,    \* per client, the request its connection has to handle
  step,       \* per client, how far the handler of that request is
  own,        \* per client, the version that handler is about
  awaiting,   \* per client, requests sent on its connection and not answered
  jobs,       \* per client, jobs its connection spawned
  plans,      \* runtime/plans: plans on disk
  shown,      \* per client and plan, the status last sent of each step
  requests, connects, crashes   \* counters

configVars == <<file, everFile, live, temps, version>>
boundVars == <<requests, connects, crashes>>
sessionVars == <<up, configVars, conn, request, step, own, awaiting, jobs, plans, shown,
                 boundVars>>

NoRequest == "none"
NoConn == [pc |-> "off", mode |-> "chat", forwarder |-> FALSE, approvals |-> {}]
Unshown == [p \in Plans |-> [s \in 1..Steps |-> "pending"]]
Ready == live # Bootstrap
Versions == 1..(2 * MaxRequests + 1)

SessionInit ==
  /\ up = TRUE
  /\ \/ file = NoFile /\ live = Bootstrap /\ version = 0 /\ everFile = {} /\ plans = {}
     \/ file = 1 /\ live = 1 /\ version = 1 /\ everFile = {1} /\ plans \in SUBSET Plans
  /\ temps = {}
  /\ conn = [c \in Clients |-> NoConn]
  /\ request = [c \in Clients |-> NoRequest]
  /\ step = [c \in Clients |-> "idle"]
  /\ own = [c \in Clients |-> 0]
  /\ awaiting = [c \in Clients |-> {}]
  /\ jobs = [c \in Clients |-> {}]
  /\ shown = [c \in Clients |-> Unshown]
  /\ requests = 0 /\ connects = 0 /\ crashes = 0

-----------------------------------------------------------------------------
(* The connection                                                           *)

\* A client connects again when the jobs of its last connection are over: those
\* that outlive it are another client's old connection.
Connect(c) ==
  /\ up /\ conn[c].pc = "off" /\ jobs[c] = {} /\ connects < MaxConnects
  /\ connects' = connects + 1
  /\ conn' = [conn EXCEPT ![c].pc = "hello"]
  /\ UNCHANGED <<up, configVars, request, step, own, awaiting, jobs, plans, shown,
                 requests, crashes>>

\* The connection ends: nothing more is sent, its jobs go on.
Closed(c) ==
  /\ conn' = [conn EXCEPT ![c] = NoConn]
  /\ request' = [request EXCEPT ![c] = NoRequest]
  /\ step' = [step EXCEPT ![c] = "idle"]
  /\ own' = [own EXCEPT ![c] = 0]
  /\ awaiting' = [awaiting EXCEPT ![c] = {}]
  /\ shown' = [shown EXCEPT ![c] = Unshown]

\* No client_hello in time, a frame that is none, or one that fails verification.
Reject(c) ==
  /\ conn[c].pc = "hello"
  /\ Closed(c)
  /\ UNCHANGED <<up, configVars, jobs, plans, boundVars>>

Accept(c) ==
  /\ conn[c].pc = "hello"
  /\ conn' = [conn EXCEPT ![c].pc = "open", ![c].forwarder = Ready]
  /\ UNCHANGED <<up, configVars, request, step, own, awaiting, jobs, plans, shown, boundVars>>

Disconnect(c) ==
  /\ conn[c].pc = "open" /\ request[c] = NoRequest
  /\ Closed(c)
  /\ UNCHANGED <<up, configVars, jobs, plans, boundVars>>

Job(kind) == [kind |-> kind, id |-> 0, at |-> 0]

\* A client has at most one request of a kind under way.
Send(c, k) ==
  /\ conn[c].pc = "open" /\ request[c] = NoRequest
  /\ k \notin awaiting[c] /\ Job(k) \notin jobs[c]
  /\ request' = [request EXCEPT ![c] = k]
  /\ awaiting' = [awaiting EXCEPT ![c] = @ \cup {k}]
  /\ requests < MaxRequests /\ requests' = requests + 1
  /\ UNCHANGED <<up, configVars, conn, step, own, jobs, plans, shown, connects, crashes>>

-----------------------------------------------------------------------------
(* How a handler ends                                                       *)

Handles(c, k) == conn[c].pc = "open" /\ request[c] = k /\ step[c] = "idle"

\* Mutant of Over: the version is not forgotten.
OverStale(c) ==
  /\ request' = [request EXCEPT ![c] = NoRequest]
  /\ step' = [step EXCEPT ![c] = "idle"]
  /\ own' = own

Over(c) ==
  /\ request' = [request EXCEPT ![c] = NoRequest]
  /\ step' = [step EXCEPT ![c] = "idle"]
  /\ own' = [own EXCEPT ![c] = 0]

Answered(c, k) == awaiting' = [awaiting EXCEPT ![c] = @ \ {k}]

\* send_direct_server_message: a reply, of whatever sort.
Reply(c) == Over(c) /\ Answered(c, request[c])

\* Nothing is sent.  What is asked of a runtime not yet initialised is no longer
\* counted as awaiting an answer.
Silence(c) == Over(c) /\ IF Ready THEN UNCHANGED awaiting ELSE Answered(c, request[c])

\* tokio::spawn: a job that will answer.
Hand(c, job) ==
  /\ Over(c)
  /\ jobs' = [jobs EXCEPT ![c] = @ \cup {job}]
  /\ UNCHANGED awaiting

Elsewhere == <<up, configVars, plans, shown, boundVars>>

-----------------------------------------------------------------------------
(* Requests answered at once, whatever the runtime                          *)

AtOnce(c, k) == Handles(c, k) /\ Reply(c) /\ UNCHANGED <<Elsewhere, conn, jobs>>

Unparsed(c) == AtOnce(c, "unparsed")
HelloAgain(c) == AtOnce(c, "hello")
GetHistory(c) == AtOnce(c, "history")
GetConfig(c) == AtOnce(c, "config")
GetSkillDoc(c) == AtOnce(c, "skill")
GetSupportedModels(c) == AtOnce(c, "models")
CancelWorkflow(c) == AtOnce(c, "cancel")
PauseWorkflow(c) == AtOnce(c, "pause")
ResumeWorkflow(c) == AtOnce(c, "resume")
ModifyPlan(c) == AtOnce(c, "modify")

\* Only a failure is reported: an interrupt that succeeds is answered by what it
\* does, and a question answered is announced to all.
Interrupt(c) == AtOnce(c, "interrupt")
AnswerQuestion(c) == AtOnce(c, "answer")

GetSkillsList(c) ==
  /\ Handles(c, "skills")
  /\ IF Ready THEN Reply(c) ELSE Silence(c)
  /\ UNCHANGED <<Elsewhere, conn, jobs>>

SetChatMode(c) ==
  /\ Handles(c, "mode")
  /\ \E m \in Modes : conn' = [conn EXCEPT ![c].mode = m]
  /\ Reply(c)
  /\ UNCHANGED <<Elsewhere, jobs>>

\* Without a workspace the error is sent and the session ends.
ImageUpload(c) ==
  /\ Handles(c, "image")
  /\ \/ Reply(c) /\ UNCHANGED <<Elsewhere, conn, jobs>>
     \/ ~Ready /\ Closed(c) /\ UNCHANGED <<up, configVars, jobs, plans, boundVars>>

-----------------------------------------------------------------------------
(* Requests a job answers                                                   *)

InJob(c, k) ==
  /\ Handles(c, k)
  /\ IF Ready THEN Hand(c, Job(k)) ELSE Silence(c) /\ UNCHANGED jobs
  /\ UNCHANGED <<Elsewhere, conn>>

GetMemory(c) == InJob(c, "memory")
GetMemoryReport(c) == InJob(c, "report")

TestApiKey(c) ==
  /\ Handles(c, "test_key")
  /\ Hand(c, Job("test_key"))
  /\ UNCHANGED <<Elsewhere, conn>>

\* A job that asks a store, a file or a provider once and sends what it got.
Ask(c) ==
  \E j \in {k \in jobs[c] : k.kind \in {"memory", "report", "test_key"}} :
    /\ up
    /\ jobs' = [jobs EXCEPT ![c] = @ \ {j}]
    /\ Answered(c, j.kind)
    /\ UNCHANGED <<Elsewhere, conn, request, step, own>>

-----------------------------------------------------------------------------
(* Submitting                                                               *)

\* Chat mode: hub.submit_task, or the notice that SA is not initialised.
SubmitChat(c) ==
  /\ Handles(c, "submit") /\ conn[c].mode = "chat"
  /\ Reply(c)
  /\ UNCHANGED <<Elsewhere, conn, jobs>>

\* Plan and workflow mode: an error, or Accepted and a job.
SubmitJob(c, mode) ==
  /\ Handles(c, "submit") /\ conn[c].mode = mode
  /\ Reply(c)
  /\ \/ UNCHANGED jobs
     \/ Ready /\ file # Torn /\ jobs' = [jobs EXCEPT ![c] = @ \cup {Job(mode)}]
  /\ UNCHANGED <<Elsewhere, conn>>

SubmitPlan(c) == SubmitJob(c, "plan")
SubmitWorkflow(c) == SubmitJob(c, "workflow")

\* generate_plan, then save_plan, whose failure is ignored, then PlanCreated.
GeneratePlan(c) ==
  \E j \in {k \in jobs[c] : k.kind = "plan"} :
    /\ up
    /\ jobs' = [jobs EXCEPT ![c] = @ \ {j}]
    /\ \/ UNCHANGED plans
       \/ \E p \in Plans \ plans : plans' = plans \cup {p}
    /\ UNCHANGED <<up, configVars, conn, request, step, own, awaiting, shown, boundVars>>

-----------------------------------------------------------------------------
(* Workflows: the session's side of a run                                   *)

StartWorkflow(c) ==
  /\ Handles(c, "workflow")
  /\ IF Ready THEN Hand(c, Job("workflow")) ELSE Reply(c) /\ UNCHANGED jobs
  /\ UNCHANGED <<Elsewhere, conn>>

\* The definition is generated or loaded; an error ends the job.
RunStarts(c) ==
  \E j \in {k \in jobs[c] : k.kind = "workflow" /\ k.at = 0} :
    /\ up
    /\ \/ jobs' = [jobs EXCEPT ![c] = @ \ {j}]
       \/ \E r \in Runs : /\ \A d \in Clients : \A k \in jobs[d] : k.id # r
                          /\ jobs' = [jobs EXCEPT ![c] = (@ \ {j})
                                                         \cup {[j EXCEPT !.id = r, !.at = 1]}]
    /\ Answered(c, "workflow")
    /\ UNCHANGED <<Elsewhere, conn, request, step, own>>

\* A node asks for approval: its sender is kept for the connection.  The run
\* waits at 2; an answer takes it back to 1.
ApprovalRequested(c) ==
  \E j \in {k \in jobs[c] : k.kind = "workflow" /\ k.at = 1} :
    /\ up
    /\ jobs' = [jobs EXCEPT ![c] = (@ \ {j}) \cup {[j EXCEPT !.at = 2]}]
    /\ conn' = [conn EXCEPT ![c].approvals = IF conn[c].pc = "open" THEN @ \cup {j.id} ELSE @]
    /\ UNCHANGED <<Elsewhere, request, step, own, awaiting>>

RunEnds(c) ==
  \E j \in {k \in jobs[c] : k.kind = "workflow" /\ k.at = 1} :
    /\ up
    /\ jobs' = [jobs EXCEPT ![c] = @ \ {j}]
    /\ conn' = [conn EXCEPT ![c].approvals = @ \ {j.id}]
    /\ UNCHANGED <<Elsewhere, request, step, own, awaiting>>

\* The sender of the node is taken from the map and used, and the run goes on:
\* that is the answer.  Without a sender the answer is an error.
Answers(c, k) ==
  /\ Handles(c, k)
  /\ \/ \E r \in conn[c].approvals :
          /\ conn' = [conn EXCEPT ![c].approvals = @ \ {r}]
          /\ jobs' = [jobs EXCEPT ![c] = {IF j.id = r /\ j.kind = "workflow"
                                          THEN [j EXCEPT !.at = 1] ELSE j : j \in @}]
          /\ Reply(c)
     \/ Reply(c) /\ UNCHANGED <<conn, jobs>>
  /\ UNCHANGED Elsewhere

RespondApproval(c) == Answers(c, "approval")
InjectWorkflowContext(c) == Answers(c, "inject")

-----------------------------------------------------------------------------
(* Approving a plan                                                         *)

\* ApproveAll and ApproveStep: load_plan, then the steps, each announced as
\* running before step mode stops at the second.
ApprovePlan(c) ==
  \E k \in {"approve_all", "approve_step"} :
    /\ Handles(c, k)
    /\ \/ Ready /\ file # Torn /\ Hand(c, Job(k))
       \/ Reply(c) /\ UNCHANGED jobs
    /\ UNCHANGED <<Elsewhere, conn>>

LoadPlan(c) ==
  \E j \in {k \in jobs[c] : k.kind \in {"approve_all", "approve_step"} /\ k.id = 0} :
    /\ up
    /\ \/ \E p \in plans : jobs' = [jobs EXCEPT ![c] = (@ \ {j}) \cup {[j EXCEPT !.id = p, !.at = 1]}]
       \/ jobs' = [jobs EXCEPT ![c] = @ \ {j}]
    /\ Answered(c, j.kind)
    /\ UNCHANGED <<Elsewhere, conn, request, step, own>>

PlanJobs(c, phase) ==
  {j \in jobs[c] : j.kind \in {"approve_all", "approve_step"} /\ j.id # 0 /\ j.at % 2 = phase}

\* A job at 2s-1 announces step s, at 2s it executes it.
StepOf(j) == (j.at + 1) \div 2

Shows(c, j, status) ==
  shown' = IF conn[c].pc = "open" THEN [shown EXCEPT ![c][j.id][StepOf(j)] = status] ELSE shown

AnnounceStep(c) ==
  \E j \in PlanJobs(c, 1) :
    /\ up
    /\ IF StepOf(j) > Steps THEN jobs' = [jobs EXCEPT ![c] = @ \ {j}] /\ UNCHANGED shown
       ELSE /\ Shows(c, j, "running")
            /\ jobs' = [jobs EXCEPT ![c] = (@ \ {j}) \cup
                          (IF j.kind = "approve_step" /\ StepOf(j) > 1 THEN {}
                           ELSE {[j EXCEPT !.at = @ + 1]})]
    /\ UNCHANGED <<up, configVars, conn, request, step, own, awaiting, plans, boundVars>>

ExecuteStep(c) ==
  \E j \in PlanJobs(c, 0) :
    /\ up
    /\ \/ /\ Shows(c, j, "completed")
          /\ jobs' = [jobs EXCEPT ![c] = (@ \ {j}) \cup {[j EXCEPT !.at = @ + 1]}]
       \/ /\ Shows(c, j, "failed")
          /\ jobs' = [jobs EXCEPT ![c] = @ \ {j}]
    /\ UNCHANGED <<up, configVars, conn, request, step, own, awaiting, plans, boundVars>>

-----------------------------------------------------------------------------
(* The first configuration: initialize_from_request                         *)

At(c, k, s) == up /\ request[c] = k /\ step[c] = s

FailConfig(c) == Reply(c) /\ UNCHANGED <<Elsewhere, conn, jobs>>

HandlerUnchanged == UNCHANGED <<up, request, awaiting, jobs, plans, shown, boundVars>>

InitRender(c) ==
  /\ Handles(c, "init") /\ ~Ready /\ file = NoFile
  /\ version' = version + 1
  /\ temps' = temps \cup {version + 1}
  /\ own' = [own EXCEPT ![c] = version + 1]
  /\ step' = [step EXCEPT ![c] = "rendered"]
  /\ HandlerUnchanged /\ UNCHANGED <<file, everFile, live, conn>>

\* Initialised already, a file is there, or it cannot be rendered.
InitRefuse(c) == Handles(c, "init") /\ FailConfig(c)

\* build_runtime_from_config on the temporary file, and the listen address.
InitBuild(c) ==
  /\ At(c, "init", "rendered")
  /\ \/ /\ step' = [step EXCEPT ![c] = "built"]
        /\ HandlerUnchanged /\ UNCHANGED <<configVars, conn, own>>
     \/ /\ temps' = temps \ {own[c]}
        /\ Reply(c)
        /\ UNCHANGED <<up, file, everFile, live, version, conn, jobs, plans, shown, boundVars>>

\* Mutant of InitMove: the runtime is switched before the file is in place.
InitMoveLate(c) ==
  /\ At(c, "init", "built")
  /\ live' = IF Ready THEN live ELSE own[c]
  /\ step' = [step EXCEPT ![c] = "moved"]
  /\ HandlerUnchanged /\ UNCHANGED <<file, everFile, temps, version, conn, own>>

InitMove(c) ==
  /\ At(c, "init", "built")
  /\ \/ /\ file' = own[c] /\ everFile' = everFile \cup {own[c]}
        /\ temps' = temps \ {own[c]}
        /\ step' = [step EXCEPT ![c] = "moved"]
        /\ HandlerUnchanged /\ UNCHANGED <<live, version, conn, own>>
     \/ FailConfig(c)

\* A runtime made ready meanwhile stays; the connection starts to hear events.
InitSwitch(c) ==
  /\ At(c, "init", "moved")
  /\ live' = IF Ready THEN live ELSE own[c]
  /\ conn' = [conn EXCEPT ![c].forwarder = TRUE]
  /\ Reply(c)
  /\ UNCHANGED <<up, file, everFile, temps, version, jobs, plans, shown, boundVars>>

-----------------------------------------------------------------------------
(* Changing the configuration: UpdateConfig and reload_runtime_from_disk    *)

\* Mutant of UpdateRefuse: a file that does not load is met in silence.
UpdateRefuseSilent(c) ==
  /\ Handles(c, "update") \/ At(c, "update", "written")
  /\ Silence(c)
  /\ UNCHANGED <<Elsewhere, conn, jobs>>

\* Not ready, a file that does not load, edits that do not merge; then a file
\* that does not load again, or a runtime that cannot be prepared from it.
UpdateRefuse(c) ==
  /\ Handles(c, "update") \/ At(c, "update", "written") \/ At(c, "update", "loaded")
  /\ FailConfig(c)

UpdateMerge(c) ==
  /\ Handles(c, "update") /\ Ready /\ file > 0
  /\ version' = version + 1
  /\ own' = [own EXCEPT ![c] = version + 1]
  /\ step' = [step EXCEPT ![c] = "merged"]
  /\ HandlerUnchanged /\ UNCHANGED <<file, everFile, live, temps, conn>>

\* std::fs::write: first the file is emptied.
UpdateTruncate(c) ==
  /\ At(c, "update", "merged")
  /\ file' = Torn
  /\ step' = [step EXCEPT ![c] = "writing"]
  /\ HandlerUnchanged /\ UNCHANGED <<everFile, live, temps, version, conn, own>>

UpdateWrite(c) ==
  /\ At(c, "update", "writing")
  /\ \/ /\ file' = own[c] /\ everFile' = everFile \cup {own[c]}
        /\ step' = [step EXCEPT ![c] = "written"]
        /\ HandlerUnchanged /\ UNCHANGED <<live, temps, version, conn, own>>
     \/ FailConfig(c)

\* The file is read again: it may be another client's by now.
ReloadLoad(c) ==
  /\ At(c, "update", "written") /\ file # Torn
  /\ own' = [own EXCEPT ![c] = file]
  /\ step' = [step EXCEPT ![c] = "loaded"]
  /\ HandlerUnchanged /\ UNCHANGED <<configVars, conn>>

ReloadApply(c) ==
  /\ At(c, "update", "loaded")
  /\ live' = own[c]
  /\ Reply(c)
  /\ UNCHANGED <<up, file, everFile, temps, version, conn, jobs, plans, shown, boundVars>>

-----------------------------------------------------------------------------
(* The process                                                              *)

Crash ==
  /\ up /\ crashes < MaxCrashes
  /\ crashes' = crashes + 1
  /\ up' = FALSE
  /\ live' = Bootstrap
  /\ conn' = [c \in Clients |-> NoConn]
  /\ request' = [c \in Clients |-> NoRequest]
  /\ step' = [c \in Clients |-> "idle"]
  /\ own' = [c \in Clients |-> 0]
  /\ awaiting' = [c \in Clients |-> {}]
  /\ jobs' = [c \in Clients |-> {}]
  /\ shown' = [c \in Clients |-> Unshown]
  /\ UNCHANGED <<file, everFile, temps, version, plans, requests, connects>>

\* main: without a file it waits to be initialised; a file that does not load
\* ends it.
Start ==
  /\ ~up /\ file # Torn
  /\ up' = TRUE
  /\ live' = file
  /\ UNCHANGED <<file, everFile, temps, version, conn, request, step, own, awaiting, jobs,
                 plans, shown, boundVars>>

Handler(c) ==
  \/ Unparsed(c) \/ HelloAgain(c) \/ GetHistory(c) \/ GetConfig(c) \/ GetSkillDoc(c)
  \/ GetSupportedModels(c) \/ CancelWorkflow(c) \/ PauseWorkflow(c) \/ ResumeWorkflow(c)
  \/ ModifyPlan(c) \/ Interrupt(c) \/ AnswerQuestion(c) \/ GetSkillsList(c) \/ SetChatMode(c)
  \/ ImageUpload(c) \/ GetMemory(c) \/ GetMemoryReport(c) \/ TestApiKey(c)
  \/ SubmitChat(c) \/ SubmitPlan(c) \/ SubmitWorkflow(c) \/ StartWorkflow(c)
  \/ RespondApproval(c) \/ InjectWorkflowContext(c) \/ ApprovePlan(c)
  \/ InitRefuse(c) \/ InitRender(c) \/ InitBuild(c) \/ InitMove(c) \/ InitSwitch(c)
  \/ UpdateRefuse(c) \/ UpdateMerge(c) \/ UpdateTruncate(c) \/ UpdateWrite(c)
  \/ ReloadLoad(c) \/ ReloadApply(c)

JobStep(c) ==
  \/ Ask(c) \/ GeneratePlan(c) \/ RunStarts(c) \/ ApprovalRequested(c) \/ RunEnds(c)
  \/ LoadPlan(c) \/ AnnounceStep(c) \/ ExecuteStep(c)

Client(c) ==
  Connect(c) \/ Reject(c) \/ Accept(c) \/ Disconnect(c) \/ \E k \in Kinds : Send(c, k)

SessionNext ==
  (\E c \in Clients : Client(c) \/ Handler(c) \/ JobStep(c)) \/ Crash \/ Start

SessionSpec == SessionInit /\ [][SessionNext]_sessionVars

AnsweringJob(c) == Ask(c) \/ RunStarts(c) \/ LoadPlan(c)

\* Handlers and jobs are tasks of the runtime: one that can go on does.
SessionFairness ==
  \A c \in Clients : WF_sessionVars(Handler(c)) /\ WF_sessionVars(AnsweringJob(c))

FairSessionSpec == SessionSpec /\ SessionFairness

-----------------------------------------------------------------------------
(* Every variable keeps its type.                                           *)
SessionTypeOK ==
  /\ up \in BOOLEAN /\ version \in {0} \cup Versions
  /\ file \in {NoFile, Torn} \cup Versions /\ live \in {Bootstrap} \cup Versions
  /\ everFile \subseteq Versions /\ temps \subseteq Versions
  /\ conn \in [Clients -> [pc : {"off", "hello", "open"}, mode : Modes, forwarder : BOOLEAN,
                            approvals : SUBSET Runs]]
  /\ request \in [Clients -> Kinds \cup {NoRequest}]
  /\ \A c \in Clients :
       /\ awaiting[c] \subseteq Kinds
       /\ step[c] = "idle" => own[c] = 0
       /\ request[c] # NoRequest => conn[c].pc = "open"
  /\ plans \subseteq Plans

\* The runtime that is live runs a configuration that was whole in sa.toml, and
\* once one is live the file stays there: initialising switches only after the
\* rename, and an update is applied only as read back (main.rs 4436-4524,
\* 585-675, 6667-6760).
LiveConfigIsOnDisk == live # Bootstrap => live \in everFile /\ file # NoFile

\* A client of a ready runtime gets an answer to whatever it asks, from the
\* handler or from the job it spawned, or its connection ends
\* (main.rs 6100-7640).
RequestIsAnswered == \A c \in Clients : []<>(awaiting[c] = {})

\* Approved one step at a time, a plan shows the client no later step as running:
\* "Mark the rest as still pending" (main.rs 7326-7328).
StepModeLeavesRestPending ==
  [][\A c \in Clients, p \in Plans, s \in 2..Steps :
       shown'[c][p][s] = "running" /\ shown[c][p][s] # "running"
         => \E j \in jobs[c] : j.kind = "approve_all" /\ j.id = p]_sessionVars
=============================================================================
