------------------------------ MODULE ConfigFile ------------------------------
(***************************************************************************)
(* What becomes of the contents of sa.toml: how a file is loaded           *)
(* (load_config_from_file of crates/sa-core/src/config.rs), what a         *)
(* frontend is shown of it (to_toml_value), what is made of the frontend's *)
(* edited copy (merge_from_frontend_value) and how that is written back    *)
(* and loaded again.  When the file is written, by whom, and which of its  *)
(* versions is live is in WsSession.                                       *)
(*                                                                         *)
(* A configuration is reduced to: the key of the provider and the key of   *)
(* the WebSocket; one setting that is shown and kept (base_url), one that  *)
(* is shown and set back to its default by a merge (fallback_model, like   *)
(* max_retries and max_consecutive_failures); one of the sections that are *)
(* not shown (compaction, permissions, team, ...); a skill directory; and  *)
(* an MCP server.  A blank string, a string that begins with the mask and  *)
(* any other string are told apart.                                        *)
(***************************************************************************)
EXTENDS Integers, FiniteSets

CONSTANTS
  Frontends,
  HandFiles,   \* files a person writes
  Keys,        \* the keys a person or a frontend types
  Settings,    \* values of the other settings
  MaxWrites    \* bound: times the file is written by hand or by an update

Blank == "blank"
Masked == "***"
NotThere == "absent"
ASSUME ConfigAssumption ==
  /\ MaxWrites \in Nat
  /\ {Blank, Masked, NotThere} \cap (Keys \cup Settings) = {}

Failure == [ok |-> FALSE]
Loaded(c) == [ok |-> TRUE, cfg |-> c]

-----------------------------------------------------------------------------
(* Loading                                                                  *)

\* The transport of an [mcp.<name>] table: the one it names, or the one its
\* command or url stands for; both at once, or neither, are refused, and so is
\* a transport that lacks its command or url (McpServerConfig::deserialize).
TransportOf(raw) ==
  IF raw.transport # NotThere THEN raw.transport
  ELSE IF raw.command THEN "stdio" ELSE "http"

ServerParses(raw) ==
  /\ raw.command # raw.url
  /\ raw.command <=> TransportOf(raw) = "stdio"

\* A relative path is taken from the directory of the file, `~` is the home
\* directory; a blank cwd is none (expand_tilde, resolve_config_relative_path).
Resolved(path) == IF path = NotThere THEN NotThere ELSE "absolute"

\* validate_mcp_config, and the checks of normalize_mcp_config_paths: a cwd
\* exists and belongs to a child process, a time limit is 1..600 seconds.
ServerIsValid(raw, dirThere) ==
  /\ raw.cwd # NotThere => dirThere /\ TransportOf(raw) = "stdio"
  /\ raw.timeout \in {NotThere, "allowed"}

\* The name of a server is that of its table (McpConfig::deserialize).
Server(raw) ==
  [transport |-> TransportOf(raw), command |-> raw.command, url |-> raw.url,
   cwd |-> IF raw.cwd = Blank THEN NotThere ELSE Resolved(raw.cwd), timeout |-> raw.timeout]

Cwd(raw) == [raw EXCEPT !.cwd = IF @ = Blank THEN NotThere ELSE @]

\* load_config_from_file.
Load(f, dirThere) ==
  IF f.broken \/ ~ServerParses(f.server) \/ ~ServerIsValid(Cwd(f.server), dirThere) THEN Failure
  ELSE Loaded([llmKey |-> f.llmKey, wsKey |-> f.wsKey, bind |-> f.bind, shown |-> f.shown,
               fallback |-> f.fallback, unshown |-> f.unshown, skills |-> Resolved(f.skills),
               server |-> Server(f.server)])

-----------------------------------------------------------------------------
(* The copy of a frontend                                                   *)

\* to_toml_value.
View(c) ==
  [llmKey |-> Masked, wsKey |-> IF c.wsKey = NotThere THEN NotThere ELSE Masked,
   bind |-> c.bind, shown |-> c.shown, fallback |-> c.fallback]

\* What a frontend may send back for a copy: any field edited, typed over,
\* emptied or left out.
EditsOf(v) ==
  LET Key(old) == {old, Blank, NotThere} \cup Keys
  IN {v} \cup {[v EXCEPT !.llmKey = k] : k \in Key(v.llmKey)}
         \cup {[v EXCEPT !.wsKey = k] : k \in Key(v.wsKey)}
         \cup {[v EXCEPT !.shown = s] : s \in Settings \cup {NotThere}}
         \cup {[v EXCEPT !.fallback = s] : s \in Settings \cup {NotThere}}
         \cup {[v EXCEPT !.bind = s] : s \in Settings}

\* A masked key stands for the current one; for the WebSocket so does a blank
\* or missing one.
MergedWsKey(sent, current) == IF sent \in {Masked, Blank, NotThere} THEN current ELSE sent
MergedLlmKey(sent, current) ==
  CASE sent = Masked -> current
    [] sent = NotThere -> Blank
    [] OTHER -> sent

\* merge_from_frontend_value: base_url, bind and the like are required; the
\* fallback model is not taken from what was sent; the sections that are not
\* shown are those of the current configuration.
Merged(sent, c) ==
  [c EXCEPT !.llmKey = MergedLlmKey(sent.llmKey, @), !.wsKey = MergedWsKey(sent.wsKey, @),
            !.bind = sent.bind, !.shown = sent.shown, !.fallback = NotThere]
MergeFails(sent) == sent.shown = NotThere

\* Mutant: the transport is not written, as its table need not name it.
ServerTableBare(s) ==
  [transport |-> NotThere, command |-> s.command, url |-> s.url, cwd |-> s.cwd, timeout |-> s.timeout]

\* McpConfig::serialize: the named table of a server.
ServerTable(s) ==
  [transport |-> s.transport, command |-> s.command, url |-> s.url, cwd |-> s.cwd, timeout |-> s.timeout]

\* toml::to_string_pretty.
Rendered(c) ==
  [broken |-> FALSE, llmKey |-> c.llmKey, wsKey |-> c.wsKey, bind |-> c.bind, shown |-> c.shown,
   fallback |-> c.fallback, unshown |-> c.unshown, skills |-> c.skills, server |-> ServerTable(c.server)]

-----------------------------------------------------------------------------
VARIABLES
  toml,      \* sa.toml
  cwdThere,  \* the directory the server's cwd names is there
  copy,      \* per frontend, its ConfigSnapshot
  hub,       \* the configuration the Hub was built from, and what it runs now
  writes,    \* counter
  update     \* history: what the last update was made of, if it wrote the file
             \* and no person did since

configFileVars == <<toml, cwdThere, copy, hub, writes, update>>

NoCopy == [none |-> TRUE]
NoUpdate == [none |-> TRUE]

\* The daemon was started from a file that loads.
ConfigInit ==
  /\ cwdThere = TRUE
  /\ toml \in {f \in HandFiles : Load(f, TRUE).ok}
  /\ hub = Load(toml, TRUE).cfg
  /\ copy = [f \in Frontends |-> NoCopy]
  /\ writes = 0 /\ update = NoUpdate

FetchConfig(f) ==
  /\ Load(toml, cwdThere).ok
  /\ copy' = [copy EXCEPT ![f] = View(Load(toml, cwdThere).cfg)]
  /\ UNCHANGED <<toml, cwdThere, hub, writes, update>>

\* reload_runtime_from_disk: the address is not changed in place.
Reloads(file, there) ==
  LET r == Load(file, there) IN r.ok /\ r.cfg.bind = hub.bind

\* UpdateConfig: load, merge, write, load again and apply.
UpdateConfig(f, sent) ==
  LET current == Load(toml, cwdThere) IN
  /\ current.ok /\ ~MergeFails(sent)
  /\ writes < MaxWrites /\ writes' = writes + 1
  /\ toml' = Rendered(Merged(sent, current.cfg))
  /\ hub' = IF Reloads(toml', cwdThere) THEN Load(toml', cwdThere).cfg ELSE hub
  /\ update' = [of |-> current.cfg, sent |-> sent]
  /\ UNCHANGED <<cwdThere, copy>>

EditByHand(file) ==
  /\ writes < MaxWrites /\ writes' = writes + 1
  /\ toml' = file /\ file # toml
  /\ update' = NoUpdate
  /\ UNCHANGED <<cwdThere, copy, hub>>

ReloadCommand ==
  /\ Reloads(toml, cwdThere)
  /\ hub' = Load(toml, cwdThere).cfg
  /\ UNCHANGED <<toml, cwdThere, copy, writes, update>>

RestartDaemon ==
  /\ Load(toml, cwdThere).ok
  /\ hub' = Load(toml, cwdThere).cfg
  /\ copy' = [f \in Frontends |-> NoCopy]
  /\ UNCHANGED <<toml, cwdThere, writes, update>>

MoveDirectory ==
  /\ cwdThere' = ~cwdThere
  /\ UNCHANGED <<toml, copy, hub, writes, update>>

ConfigNext ==
  \/ \E f \in Frontends : FetchConfig(f)
  \/ \E f \in Frontends : copy[f] # NoCopy /\ \E sent \in EditsOf(copy[f]) : UpdateConfig(f, sent)
  \/ \E file \in HandFiles : EditByHand(file)
  \/ ReloadCommand
  \/ RestartDaemon
  \/ MoveDirectory

ConfigSpec == ConfigInit /\ [][ConfigNext]_configFileVars

-----------------------------------------------------------------------------
ConfigTypeOK ==
  /\ cwdThere \in BOOLEAN /\ writes \in 0..MaxWrites
  /\ toml.llmKey \in Keys \cup {Blank} /\ toml.wsKey \in Keys \cup {Blank, NotThere}
  /\ hub.server.cwd \in {NotThere, "absolute"} /\ hub.skills \in {NotThere, "absolute"}

\* After an update from a frontend the file loads to what was configured before,
\* but for what the frontend typed: the transport of a server that the file left
\* to be inferred, its paths and the sections a frontend is not shown are those
\* of before, and a key is the one of before or one that was typed, never a
\* mask; whatever copy the frontend had, however old (UpdateConfig).
UpdateKeepsTheRest ==
  update # NoUpdate /\ cwdThere =>
    LET before == update.of
        after == Load(toml, TRUE)
        typed(k) == IF k \in Keys THEN k ELSE NotThere
    IN /\ after.ok
       /\ [after.cfg EXCEPT !.llmKey = before.llmKey, !.wsKey = before.wsKey, !.bind = before.bind,
                            !.shown = before.shown, !.fallback = before.fallback] = before
       /\ after.cfg.llmKey \in
            (IF update.sent.llmKey = Masked THEN {before.llmKey}
             ELSE {Blank, typed(update.sent.llmKey)} \ {NotThere})
       /\ after.cfg.wsKey \in
            (IF update.sent.wsKey \in Keys THEN {update.sent.wsKey} ELSE {before.wsKey})
=============================================================================
