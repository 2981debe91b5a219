------------------------------ MODULE Skills ------------------------------
(***************************************************************************)
(* Skills (crates/sa-core/src/commands.rs) and the scope they give to the  *)
(* agent that invokes them: the registry scanned from the skill            *)
(* directories, the Skill tool (tools.rs), the invocations saved with the  *)
(* agent's state and the runtime built from them for every quantum         *)
(* (crates/sa/src/main.rs, build_agent_tool_runtime).                      *)
(*                                                                         *)
(* A scope is fixed when a quantum starts.  What a Skill call tells the    *)
(* model therefore binds it from the next quantum, if this one is saved;   *)
(* the instructions are in the log in either case.                         *)
(* A skill's body, its arguments and the reading of its other files change *)
(* no state and are left out.                                              *)
(***************************************************************************)
EXTENDS Integers, Sequences, FiniteSets, SequencesExt

CONSTANTS
  Shelves,       \* what the skill directories may hold: a sequence of sets of SKILL.md
  Prompts,       \* names of the prompts of the MCP servers
  Permissions,   \* what the configuration may deny: records [tools, commands]
  ToolCalls,     \* calls the model may make: records [tool, command]
  SkillTool,     \* the tool Skill
  Controls,      \* Ask, Wait and Finish
  Touchable,     \* workspace files a call may touch
  NoModel,       \* no model override
  MaxSkillQuanta,  \* bound: quanta
  MaxTold        \* bound: times the instructions of a skill are told

ASSUME SkillsAssumption == {MaxSkillQuanta, MaxTold} \subseteq Nat

VARIABLES
  registry,      \* CommandRegistry::by_name of the process
  permissions,   \* permissions of the loaded configuration
  saved,         \* the agent's saved invocations and activated conditional commands
  run,           \* ToolRuntime and ToolSession of the quantum
  skillQuanta,   \* counter: quanta begun
  told,          \* history: the skills whose instructions the agent was told
  undone,        \* history: quanta that were not saved
  ran            \* history: the last call of the quantum that was executed

skillsVars == <<registry, permissions, saved, run, skillQuanta, told, undone, ran>>

-----------------------------------------------------------------------------
(* The registry.                                                           *)

\* derive_command_name: a name is a sequence of segments; one that is not
\* qualified takes the directories above it.
NameOf(file) == IF Len(file.raw) > 1 THEN file.raw ELSE file.under \o file.raw

\* extend_mcp_prompts: a prompt restricts nothing.
PromptSpec == [allowed |-> {}, paths |-> {}, hidden |-> FALSE, model |-> NoModel]

Named(n, files) == {f \in files : NameOf(f) = n}
NamesOf(files) == {NameOf(f) : f \in files}

\* CommandRegistry::scan: one file that does not parse fails the scan.
Scans(onShelf) == \A f \in UNION Range(onShelf) : f.parses

\* The first directory that has a name gives its skill; within a directory
\* it is the first file the walk meets, in no order.
FirstOf(onShelf) ==
  UNION {{f \in onShelf[i] : \A j \in 1..(i - 1) : Named(NameOf(f), onShelf[j]) = {}} :
           i \in DOMAIN onShelf}
Met(onShelf) ==
  {files \in SUBSET FirstOf(onShelf) :
     \A n \in NamesOf(FirstOf(onShelf)) : Cardinality(Named(n, files)) = 1}

\* Prompts come last.
Registry(files) ==
  [n \in NamesOf(files) \cup Prompts |->
     IF n \in NamesOf(files) THEN (CHOOSE f \in files : NameOf(f) = n).spec ELSE PromptSpec]
Scannings == UNION {{Registry(files) : files \in Met(s)} : s \in {t \in Shelves : Scans(t)}}

\* CommandSpec::reminder.
Reminder(n) == [name |-> n, allowed |-> registry[n].allowed, model |-> registry[n].model]

\* conditional_matches_for_paths.
Matching(touched) == {n \in DOMAIN registry : registry[n].paths \cap touched # {}}

-----------------------------------------------------------------------------
(* Scopes.                                                                 *)

\* matches_tool_patterns: a pattern with a scope, as Bash(git:*), matches
\* commands of Bash only, whatever tool it names.
Covers(pattern, c) ==
  /\ c.tool \in pattern.tools
  /\ pattern.scoped => c.tool = "Bash" /\ c.command \in pattern.commands
Covered(c, patterns) == \E p \in patterns : Covers(p, c)

\* build_agent_tool_runtime: every invocation adds what it allows, and the
\* last one with an override names the model.
ScopeOf(invocations) == UNION {i.allowed : i \in Range(invocations)}
ModelOf(invocations) ==
  LET with == {j \in DOMAIN invocations : invocations[j].model # NoModel}
  IN IF with = {} THEN NoModel
     ELSE invocations[CHOOSE j \in with : \A k \in with : k <= j].model

\* ensure_tool_allowed: denials first; nothing allowed means everything is.
Permitted(c) ==
  /\ ~Covered(c, run.denied.tools)
  /\ run.allowed = {} \/ Covered(c, run.allowed)

\* note_command_invocation: an earlier invocation of the skill, of which there
\* is at most one, gives way.
NotedAlone(invocations, i) == <<i>>
Noted(invocations, i) ==
  LET same == {j \in DOMAIN invocations : invocations[j].name = i.name}
  IN Append(IF same = {} THEN invocations ELSE RemoveAt(invocations, CHOOSE j \in same : TRUE), i)

-----------------------------------------------------------------------------
NoRun == [on |-> FALSE, registry |-> <<>>, denied |-> [tools |-> {}, commands |-> {}],
          allowed |-> {}, model |-> NoModel, invocations |-> <<>>, touched |-> {}]
NoToolCall == [tool |-> "none", command |-> "none"]

SkillsInit ==
  /\ registry \in Scannings
  /\ permissions \in Permissions
  /\ saved = [invocations |-> <<>>, activated |-> {}]
  /\ run = NoRun
  /\ skillQuanta = 0 /\ told = <<>> /\ undone = {} /\ ran = NoToolCall

\* The directories and the configuration are read as the user has them now; a
\* shelf that does not scan fails the reload, which takes nothing, or the start.
ReadShelf ==
  /\ registry' \in Scannings
  /\ permissions' \in Permissions

\* A hot reload; a quantum under way keeps what it has.
ReloadSkills ==
  /\ ReadShelf
  /\ UNCHANGED <<saved, run, skillQuanta, told, undone, ran>>

\* A quantum starts: its runtime and its session are built from the state.
BeginQuantum ==
  /\ ~run.on
  /\ skillQuanta < MaxSkillQuanta
  /\ skillQuanta' = skillQuanta + 1
  /\ run' = [on |-> TRUE, registry |-> registry, denied |-> permissions,
             allowed |-> ScopeOf(saved.invocations), model |-> ModelOf(saved.invocations),
             invocations |-> saved.invocations, touched |-> {}]
  /\ UNCHANGED <<registry, permissions, saved, told, undone, ran>>

\* A call that is permitted runs; one that reads, writes or shows a file
\* notes it.
CallTool(c) ==
  /\ run.on
  /\ c.tool \notin Controls \cup {SkillTool}
  /\ Permitted(c)
  /\ \E f \in SUBSET Touchable : Cardinality(f) <= 1 /\ run' = [run EXCEPT !.touched = @ \cup f]
  /\ ran' = c
  /\ UNCHANGED <<registry, permissions, saved, skillQuanta, told, undone>>

\* Skill(action = "invoke"): denied, unknown and hidden skills are refused.
InvokeSkill(n) ==
  /\ run.on
  /\ Len(told) < MaxTold
  /\ Permitted([tool |-> SkillTool, command |-> "none"])
  /\ n \in DOMAIN run.registry /\ n \notin run.denied.commands /\ ~run.registry[n].hidden
  /\ LET i == [name |-> n, allowed |-> run.registry[n].allowed, model |-> run.registry[n].model]
     IN /\ run' = [run EXCEPT !.invocations = Noted(@, i)]
        /\ told' = Append(told, [by |-> skillQuanta, what |-> i])
  /\ ran' = [tool |-> SkillTool, command |-> "none"]
  /\ UNCHANGED <<registry, permissions, saved, skillQuanta, undone>>

\* The quantum ends with a text or with a permitted control call.  The paths
\* it touched are matched against the registry of now.
EndQuantum ==
  /\ run.on
  /\ saved' = [invocations |-> run.invocations,
               activated |-> saved.activated \cup Matching(run.touched)]
  /\ run' = NoRun
  /\ ran' = NoToolCall
  /\ UNCHANGED <<registry, permissions, skillQuanta, told, undone>>

\* The quantum fails or is cancelled: a control call that is not permitted,
\* a model error, an interrupt.  The session is dropped.
FailQuantum ==
  /\ run.on
  /\ run' = NoRun
  /\ undone' = undone \cup {skillQuanta}
  /\ ran' = NoToolCall
  /\ UNCHANGED <<registry, permissions, saved, skillQuanta, told>>

\* The process dies and starts again.
CrashRun ==
  /\ ReadShelf
  /\ run' = NoRun
  /\ undone' = IF run.on THEN undone \cup {skillQuanta} ELSE undone
  /\ ran' = NoToolCall
  /\ UNCHANGED <<saved, skillQuanta, told>>

\* A parent gives this agent a work with prompt_skill: the skill is looked up
\* in the registry of now, whatever is denied or hidden.
OrderWithSkill(n) ==
  /\ ~run.on
  /\ Len(told) < MaxTold
  /\ n \in DOMAIN registry
  /\ saved' = [saved EXCEPT !.invocations = Noted(@, Reminder(n))]
  /\ told' = Append(told, [by |-> 0, what |-> Reminder(n)])
  /\ UNCHANGED <<registry, permissions, run, skillQuanta, undone, ran>>

SkillsNext ==
  \/ ReloadSkills \/ BeginQuantum \/ EndQuantum \/ FailQuantum \/ CrashRun
  \/ \E c \in ToolCalls : CallTool(c)
  \/ \E n \in DOMAIN run.registry : InvokeSkill(n)
  \/ \E n \in DOMAIN registry : OrderWithSkill(n)

SkillsSpec == SkillsInit /\ [][SkillsNext]_skillsVars

-----------------------------------------------------------------------------
\* Of every skill the last of these tellings.
LatestOf(tellings, places) ==
  {i \in places : \A j \in places : tellings[j].what.name = tellings[i].what.name => j <= i}

\* What binds the quantum: of every skill the last instructions told by an
\* order or by an earlier quantum that was saved.
Binding ==
  LatestOf(told, {i \in DOMAIN told : told[i].by # skillQuanta /\ told[i].by \notin undone})
BindingScope == UNION {told[i].what.allowed : i \in Binding}

\* Through reloads, failed quanta and restarts, a quantum works with the
\* scopes of exactly the skills that bind it: no call outside them runs, and
\* the model is that of the last of them, in the order told, that names one
\* (build_agent_tool_runtime, note_command_invocation, ensure_tool_allowed).
QuantumHonoursItsSkills ==
  run.on =>
    /\ ran # NoToolCall /\ BindingScope # {} => Covered(ran, BindingScope)
    /\ \/ run.model = NoModel /\ \A i \in Binding : told[i].what.model = NoModel
       \/ run.model # NoModel /\ \E i \in Binding :
            /\ told[i].what.model = run.model
            /\ \A j \in Binding : j > i => told[j].what.model = NoModel

SkillsTypeOK ==
  /\ permissions \in Permissions
  /\ run.on \in BOOLEAN
  /\ skillQuanta \in 0..MaxSkillQuanta
  /\ undone \subseteq 1..MaxSkillQuanta
  /\ Len(told) <= MaxTold
=============================================================================
