------------------------------ MODULE MCServices ------------------------------
(* Small instances of the parts around the scheduling of the agents: the       *)
(* sessions of the clients (WsSession), their event stream (EventStream), the  *)
(* contents of the configuration file (ConfigFile), the dream (Dream), and     *)
(* what a quantum works with: the files of its log (SessionLog) and their lock *)
(* (SessionLock), the protocols of the providers (Provider), the tools that    *)
(* change files (Tools) and the skills (Skills).  In the model they share no   *)
(* state, so a behaviour is one of a part: part says of which, and the         *)
(* variables of the others stay as they are.                                   *)
EXTENDS WsSession, EventStream, ConfigFile, Dream, SessionLog, SessionLock, Provider, Tools, Skills, TLC

CONSTANTS c1, c2, p1, r1, publisher1, publisher2, viewer1, q1, w1, w2, cp

VARIABLE part

Stdio == [transport |-> NotThere, command |-> TRUE, url |-> FALSE, cwd |-> "relative",
          timeout |-> NotThere]
Http == [Stdio EXCEPT !.command = FALSE, !.url = TRUE, !.cwd = Blank, !.timeout = "allowed"]
ByHand == [broken |-> FALSE, llmKey |-> "k1", wsKey |-> "k1", bind |-> "s1", shown |-> "s1",
           fallback |-> "s2", unshown |-> "s1", skills |-> "relative", server |-> Stdio]

\* Files that load, in every form of a server's table, and files that do not.
MCHandFiles ==
  {ByHand,
   [ByHand EXCEPT !.wsKey = NotThere, !.server = Http],
   [ByHand EXCEPT !.skills = NotThere, !.unshown = "s2", !.server = [Http EXCEPT !.transport = "sse"]],
   [ByHand EXCEPT !.llmKey = Blank, !.server = [Http EXCEPT !.cwd = "relative"]],
   [ByHand EXCEPT !.server = [Stdio EXCEPT !.url = TRUE]],
   [ByHand EXCEPT !.server = [Stdio EXCEPT !.timeout = "refused"]],
   [ByHand EXCEPT !.bind = "s2", !.server = [Stdio EXCEPT !.transport = "stdio"]],
   [ByHand EXCEPT !.broken = TRUE]}

\* What a provider generates: texts, calls and reasoning of n pieces each.
I(k, n) == [kind |-> k, pieces |-> n]
MCGenerations ==
  {<<I("text", 2)>>, <<I("call", 1)>>, <<I("reasoning", 1), I("call", 2)>>,
   <<I("text", 1), I("call", 0), I("call", 2)>>, <<I("call", 1), I("text", 1)>>, <<>>}

\* A skill with a scope and a model, a conditional one without a scope, one that
\* the model may not invoke, two that have its name, and a broken file.
Git == [tools |-> {"Bash"}, scoped |-> TRUE, commands |-> {"git"}]
Reading == [tools |-> {"Read", "Skill"}, scoped |-> FALSE, commands |-> {}]
ReadScoped == [Git EXCEPT !.tools = {"Read"}]
Plain == [allowed |-> {}, paths |-> {}, hidden |-> FALSE, model |-> NoModel]
SkillFile(under, raw, spec) == [under |-> under, raw |-> raw, spec |-> spec, parses |-> TRUE]
Scoped == SkillFile(<<>>, <<"a">>, [Plain EXCEPT !.allowed = {Git, Reading}, !.model = "m1"])
Conditional == SkillFile(<<>>, <<"b">>, [Plain EXCEPT !.paths = {"f"}, !.model = "m2"])
Hidden == SkillFile(<<"x">>, <<"a">>, [Plain EXCEPT !.allowed = {ReadScoped}, !.hidden = TRUE])
SameName == SkillFile(<<>>, <<"x", "a">>, Plain)
Shadowed == SkillFile(<<>>, <<"x", "a">>, [Plain EXCEPT !.model = "m3"])
MCShelves ==
  {<<{Hidden, SameName}, {Scoped, Conditional, Shadowed}>>,
   <<{Scoped, [Conditional EXCEPT !.parses = FALSE]}>>}
MCPermissions ==
  {[tools |-> {}, commands |-> {}], [tools |-> {Git}, commands |-> {<<"a">>}]}
MCPrompts == {<<"p">>}
MCToolCalls ==
  {[tool |-> "Read", command |-> "none"], [tool |-> "Bash", command |-> "git"],
   [tool |-> "Bash", command |-> "rm"]}

\* A part that stands still needs one initial state only.
ServicesInit ==
  /\ part \in {"session", "stream", "config", "dream", "log", "lock", "provider", "tools", "skills"}
  /\ SessionInit /\ StreamInit /\ ConfigInit /\ DreamInit
  /\ LogInit /\ LockInit /\ ProviderInit /\ ToolsInit /\ SkillsInit
  /\ part # "session" => file = NoFile
  /\ part # "dream" => material
  /\ part # "lock" => lockFile = NoLockFile
  /\ part # "config" => toml = ByHand
  /\ part # "skills" => /\ registry = CHOOSE r \in Scannings : TRUE
                        /\ permissions.tools = {}

Still(p) ==
  /\ UNCHANGED part
  /\ p # "session" => UNCHANGED sessionVars
  /\ p # "stream" => UNCHANGED streamVars
  /\ p # "dream" => UNCHANGED dreamVars
  /\ p # "config" => UNCHANGED configFileVars
  /\ p # "log" => UNCHANGED logVars
  /\ p # "lock" => UNCHANGED lockVars
  /\ p # "provider" => UNCHANGED providerVars
  /\ p # "tools" => UNCHANGED toolsVars
  /\ p # "skills" => UNCHANGED skillsVars

ServicesNext ==
  \/ part = "session" /\ SessionNext /\ Still("session")
  \/ part = "stream" /\ StreamNext /\ Still("stream")
  \/ part = "dream" /\ DreamNext /\ Still("dream")
  \/ part = "config" /\ ConfigNext /\ Still("config")
  \/ part = "log" /\ LogNext /\ Still("log")
  \/ part = "lock" /\ LockNext /\ Still("lock")
  \/ part = "provider" /\ ProviderNext /\ Still("provider")
  \/ part = "tools" /\ ToolsNext /\ Still("tools")
  \/ part = "skills" /\ SkillsNext /\ Still("skills")

servicesVars ==
  <<part, sessionVars, streamVars, configFileVars, dreamVars, logVars, lockVars, providerVars,
    toolsVars, skillsVars>>

ServicesSpec ==
  /\ ServicesInit /\ [][ServicesNext]_servicesVars
  /\ SessionFairness

\* Every variable keeps its type.
ServicesTypeOK ==
  /\ SessionTypeOK /\ StreamTypeOK /\ ConfigTypeOK /\ DreamTypeOK
  /\ LogTypeOK /\ LockTypeOK /\ ProviderTypeOK /\ ToolsTypeOK /\ SkillsTypeOK
=============================================================================
