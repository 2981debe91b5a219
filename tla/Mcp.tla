-------------------------------- MODULE Mcp --------------------------------
(***************************************************************************)
(* The client of one MCP server (crates/sa-core/src/mcp_client.rs) over    *)
(* its transport (mcp_transport.rs): the handshake when the registry       *)
(* connects it, and the calls of the agents, one at a time under the       *)
(* server's mutex, which the holder keeps while it waits for the answer.   *)
(*                                                                         *)
(* The server is not ours: it answers what it received in any order, or    *)
(* never, sends notifications and requests of its own, writes lines that   *)
(* are no JSON, ends.  Of a message it matters which request it answers.   *)
(* Time is the outcome "given up", possible wherever a timeout runs.       *)
(***************************************************************************)
EXTENDS Integers, Sequences, FiniteSets

CONSTANTS
  Callers,        \* agents that call the server
  Transports,     \* McpTransport: among "stdio", "http", "sse"
  MaxCalls,       \* bound: calls after the handshake
  MaxExtras,      \* bound: messages of the server that answer nothing
  MaxUnread       \* bound: messages of the server not read yet

ASSUME McpBoundsAssumption == {MaxCalls, MaxExtras, MaxUnread} \subseteq Nat
ASSUME TransportsAssumption == Transports \subseteq {"stdio", "http", "sse"}

\* A message of the server: the id of the request it answers, or one of these.
Note == 0       \* a notification: it has no id
Foreign == -1   \* a request of the server: its id is the server's
Junk == -2      \* no JSON-RPC message
ReaderEnded == -4    \* what the reader sends to the calls pending when it ends

FirstId == 5
Ids == 1..(FirstId + MaxCalls - 1)
Stages == <<"initialize", "initialized", "tools", "resources", "prompts", "ready">>
Handshake == [initialize |-> 1, initialized |-> 0, tools |-> 2, resources |-> 3, prompts |-> 4]

VARIABLES
  transport,  \* which transport the configuration names
  stage,      \* how far connect is: one of Stages, or "failed"
  waiting,    \* callers queued for the mutex, first come first served
  call,       \* the request under way
  nextRequest,     \* McpServerInner::next_id
  owed,       \* requests the server has received and not answered
  alive,      \* the server runs, or its address answers
  torn,       \* a request line was cut off half-written
  out,        \* what the server sent that is not read yet: lines, or events
  reader,     \* the SSE reader task runs
  streamState,\* SseStreamState
  pendingIds, \* SseSharedState::pending
  box,        \* what the channel of the request under way holds, if anything
  mistaken,   \* history: the last answer taken, if it was for another request
  upset,      \* history, of stdio: a request was given up, or the server sent one
  extras      \* counter: messages that answer nothing

wireVars == <<owed, alive, torn, out, extras>>
sseVars == <<reader, streamState, pendingIds, box>>
mcpVars == <<transport, stage, waiting, call, nextRequest, wireVars, sseVars, mistaken, upset>>

NoCall == [by |-> "none", id |-> -1, at |-> "none"]
NotMistaken == [of |-> "none", via |-> "none"]
Nothing == -5

\* Where a request starts: a line to write, a POST, or first the event stream.
FirstStep == [stdio |-> "write", http |-> "post", sse |-> "connect"]

McpInit ==
  /\ transport \in Transports
  /\ stage = "initialize" /\ waiting = <<>> /\ nextRequest = FirstId
  /\ call = [by |-> "connect", id |-> 1, at |-> FirstStep[transport]]
  /\ owed = {} /\ alive = TRUE /\ torn = FALSE /\ out = <<>> /\ extras = 0
  /\ reader = FALSE /\ streamState = "Unknown"
  /\ pendingIds = {} /\ box = Nothing
  /\ mistaken = NotMistaken /\ upset = FALSE

RequestAt(t, a) == transport = t /\ call.at = a
Booted == stage \in {"ready", "failed"}
Notifying == call.id = 0

-----------------------------------------------------------------------------
(* The end of a request                                                     *)

\* What connect makes of it: initialize must not be refused, tools/list must
\* have a result, the other two lists may fail.
Succeeding(s, result) ==
  IF \/ s \in {"initialize", "tools"} /\ result = "failure"
     \/ s = "tools" /\ result = "nothing"
  THEN "failed"
  ELSE Stages[CHOOSE i \in 2..6 : Stages[i - 1] = s]

\* The request ends with a result, an error or nothing (neither).  The handshake
\* goes on with its next request; a caller leaves the mutex to the next.
Ended(result) ==
  /\ box' = Nothing
  /\ IF stage = "ready"
     THEN call' = NoCall /\ UNCHANGED stage
     ELSE LET next == Succeeding(stage, result) IN
          /\ stage' = next
          /\ call' = IF next \in {"ready", "failed"} THEN NoCall
                     ELSE [call EXCEPT !.id = Handshake[next], !.at = FirstStep[transport]]

\* An answer is a result or an error, as the server likes; a notification or a
\* request taken for an answer has neither.
Take(message, via) ==
  /\ mistaken' = IF message \in {call.id, ReaderEnded} THEN NotMistaken
                 ELSE [of |-> IF message = Note THEN "note" ELSE "other", via |-> via]
  /\ \E result \in IF message = ReaderEnded THEN {"failure"}
                   ELSE IF message \in Ids THEN {"result", "failure"} ELSE {"nothing"} :
       Ended(result)
  /\ UNCHANGED upset

\* The request ends without an answer.
Upset == upset' = (upset \/ transport = "stdio")
Fail == Ended("failure") /\ Upset /\ UNCHANGED mistaken

\* A notification of ours has no answer to wait for.
Sent == Ended("nothing") /\ UNCHANGED <<mistaken, upset>>

-----------------------------------------------------------------------------
(* Callers                                                                  *)

\* inner.lock(): a tool call, resources/read or prompts/get.
Queue(c) ==
  /\ stage = "ready" /\ call.by # c /\ c \notin {waiting[i] : i \in DOMAIN waiting}
  /\ nextRequest + Len(waiting) < FirstId + MaxCalls
  /\ waiting' = Append(waiting, c)
  /\ UNCHANGED <<transport, stage, call, nextRequest, wireVars, sseVars, mistaken, upset>>

Begin ==
  /\ call = NoCall /\ waiting # <<>>
  /\ waiting' = Tail(waiting)
  /\ nextRequest' = nextRequest + 1
  /\ call' = [by |-> Head(waiting), id |-> nextRequest, at |-> FirstStep[transport]]
  /\ UNCHANGED <<transport, stage, wireVars, sseVars, mistaken, upset>>

\* Mutant of GiveUp: only the timeouts of the transport, none around it.
GiveUpInside ==
  /\ call # NoCall /\ call.at \in {"read", "post", "body"}
  /\ Fail
  /\ UNCHANGED <<transport, waiting, nextRequest, wireVars, reader, streamState, pendingIds>>

\* The timeout of the caller, of connect, of stdio's reads or of a POST runs out.
\* Nothing is undone: the pending entry stays, the answer may still come, and a
\* line half written stays.  The notification of connect has no timeout but
\* that of its POST.
GiveUp ==
  /\ call # NoCall /\ (Notifying => call.at = "post")
  /\ Fail
  /\ torn' \in IF call.at = "write" THEN {torn, TRUE} ELSE {torn}
  /\ UNCHANGED <<transport, waiting, nextRequest, owed, alive, out, extras,
                 reader, streamState, pendingIds>>

-----------------------------------------------------------------------------
(* stdio                                                                    *)

\* send_raw: a line, which the server cannot read if the last one was cut off.
WriteLine ==
  /\ RequestAt("stdio", "write") /\ alive
  /\ torn' = FALSE
  /\ owed' = IF torn \/ Notifying THEN owed ELSE owed \cup {call.id}
  /\ IF Notifying THEN Sent
     ELSE call' = [call EXCEPT !.at = "read"] /\ UNCHANGED <<stage, box, mistaken, upset>>
  /\ UNCHANGED <<transport, waiting, nextRequest, alive, out, extras,
                 reader, streamState, pendingIds>>

WriteFails ==
  /\ RequestAt("stdio", "write") /\ ~alive
  /\ Fail
  /\ UNCHANGED <<transport, waiting, nextRequest, wireVars, reader, streamState, pendingIds>>

\* Mutant of SkipsLine: notifications are answers too.
SkipsLineNever(message) == FALSE

\* Lines without an id are passed over.
SkipsLine(message) == message = Note

\* The next line: any line with an id is the answer.
ReadLine ==
  /\ RequestAt("stdio", "read") /\ out # <<>>
  /\ out' = Tail(out)
  /\ LET message == Head(out) IN
       IF SkipsLine(message) THEN UNCHANGED <<stage, call, box, mistaken, upset>>
       ELSE IF message = Junk THEN Fail
       ELSE Take(message, "line")
  /\ UNCHANGED <<transport, waiting, nextRequest, owed, alive, torn, extras,
                 reader, streamState, pendingIds>>

ReadEof ==
  /\ RequestAt("stdio", "read") /\ out = <<>> /\ ~alive
  /\ Fail
  /\ UNCHANGED <<transport, waiting, nextRequest, wireVars, reader, streamState, pendingIds>>

-----------------------------------------------------------------------------
(* sse: the event stream                                                    *)

Goes(at) == call' = [call EXCEPT !.at = at] /\ UNCHANGED <<stage, box, mistaken, upset>>

\* ensure_connected: a stream that is there, or that cannot be, needs nothing.
StreamReady ==
  /\ RequestAt("sse", "connect")
  /\ IF streamState # "Unsupported" /\ ~reader
     THEN Goes("get") /\ UNCHANGED streamState
     ELSE /\ Goes("address")
          /\ streamState' = IF reader THEN "Connected" ELSE streamState
  /\ UNCHANGED <<transport, waiting, nextRequest, wireVars, reader, pendingIds>>

\* The answer to GET: an event stream, none to be had, or a failure.
OpenStream ==
  /\ RequestAt("sse", "get")
  /\ \/ alive /\ reader' = TRUE /\ streamState' = "Connected" /\ Goes("address")
     \/ streamState' = "Unsupported" /\ Goes("address") /\ UNCHANGED reader
     \/ Fail /\ UNCHANGED <<reader, streamState>>
  /\ UNCHANGED <<transport, waiting, nextRequest, wireVars, pendingIds>>

\* get_message_url, and the channel for the answer.
Address ==
  /\ RequestAt("sse", "address")
  /\ pendingIds' = IF ~Notifying /\ streamState = "Connected"
                   THEN pendingIds \cup {call.id} ELSE pendingIds
  /\ Goes("post")
  /\ UNCHANGED <<transport, waiting, nextRequest, wireVars, reader, streamState>>

\* handle_sse_event: the pending requests a message is for.
Waits(message) == pendingIds \cap {message}

\* The reader handles the next event.
HandleSseEvent ==
  /\ reader /\ out # <<>>
  /\ out' = Tail(out)
  /\ LET message == Head(out) IN
       /\ pendingIds' = pendingIds \ Waits(message)
       /\ box' = IF call.id \in Waits(message) THEN message ELSE box
  /\ UNCHANGED <<transport, stage, waiting, call, nextRequest, owed, alive, torn, extras,
                 reader, streamState, mistaken, upset>>

\* The stream ends, whatever was on it: the pending requests are told.
StreamEnds ==
  /\ reader
  /\ reader' = FALSE /\ out' = <<>> /\ pendingIds' = {}
  /\ box' = IF call.id \in pendingIds THEN ReaderEnded ELSE box
  /\ UNCHANGED <<transport, stage, waiting, call, nextRequest, owed, alive, torn, extras,
                 streamState, mistaken, upset>>

-----------------------------------------------------------------------------
(* http and sse: the POST                                                   *)

\* The server gets the request; its status is still to come.
Received ==
  /\ transport # "stdio" /\ call.at = "post" /\ alive /\ call.id \in Ids \ owed
  /\ owed' = owed \cup {call.id}
  /\ UNCHANGED <<transport, stage, waiting, call, nextRequest, alive, torn, out, extras,
                 sseVars, mistaken, upset>>

\* A status that is no success takes the pending entry back; no status does not.
PostFails ==
  /\ transport # "stdio" /\ call.at = "post"
  /\ Fail
  /\ pendingIds' \in {pendingIds, pendingIds \ {call.id}}
  /\ UNCHANGED <<transport, waiting, nextRequest, wireVars, reader, streamState>>

PostAccepted ==
  /\ transport # "stdio" /\ call.at = "post" /\ alive
  /\ IF Notifying THEN Sent ELSE Goes("body")
  /\ UNCHANGED <<transport, waiting, nextRequest, wireVars, reader, streamState, pendingIds>>

\* The body: the answer, or an event stream whose first message is taken, be it
\* a notification.
TakeBody ==
  /\ call.at = "body"
  /\ \E message \in {Note} \cup ({call.id} \cap owed) :
       /\ Take(message, "body")
       /\ owed' = owed \ {message}
       /\ message = Note => extras < MaxExtras
       /\ extras' = IF message = Note THEN extras + 1 ELSE extras
  /\ pendingIds' = pendingIds \ {call.id}
  /\ UNCHANGED <<transport, waiting, nextRequest, alive, torn, out, reader, streamState>>

\* A body without a message: the answer comes by the stream, if there is one.
EmptyBody ==
  /\ call.at = "body"
  /\ IF transport = "sse" /\ (call.id \in pendingIds \/ box # Nothing)
     THEN Goes("wait") ELSE Fail
  /\ UNCHANGED <<transport, waiting, nextRequest, wireVars, reader, streamState, pendingIds>>

BadBody ==
  /\ call.at = "body"
  /\ Fail
  /\ pendingIds' = pendingIds \ {call.id}
  /\ UNCHANGED <<transport, waiting, nextRequest, wireVars, reader, streamState>>

TakeFromStream ==
  /\ call.at = "wait" /\ box # Nothing
  /\ Take(box, "stream")
  /\ UNCHANGED <<transport, waiting, nextRequest, wireVars, reader, streamState, pendingIds>>

-----------------------------------------------------------------------------
(* The server                                                               *)

\* It writes where the client reads: stdout, or the stream if one is open.
Listened == alive /\ (transport = "stdio" \/ reader) /\ Len(out) < MaxUnread

ServerAnswers(i) ==
  /\ Listened /\ i \in owed
  /\ owed' = owed \ {i}
  /\ out' = Append(out, i)
  /\ UNCHANGED <<transport, stage, waiting, call, nextRequest, alive, torn, extras,
                 sseVars, mistaken, upset>>

ServerSends(message) ==
  /\ Listened /\ extras < MaxExtras
  /\ extras' = extras + 1
  /\ out' = Append(out, message)
  /\ IF message = Foreign THEN Upset ELSE UNCHANGED upset
  /\ UNCHANGED <<transport, stage, waiting, call, nextRequest, owed, alive, torn, sseVars, mistaken>>

ServerDies ==
  /\ alive
  /\ alive' = FALSE /\ owed' = {}
  /\ UNCHANGED <<transport, stage, waiting, call, nextRequest, torn, out, extras, sseVars,
                 mistaken, upset>>

-----------------------------------------------------------------------------
McpNext ==
  \/ \E c \in Callers : Queue(c)
  \/ Begin \/ GiveUp
  \/ WriteLine \/ WriteFails \/ ReadLine \/ ReadEof
  \/ StreamReady \/ OpenStream \/ Address \/ HandleSseEvent \/ StreamEnds
  \/ Received \/ PostFails \/ PostAccepted
  \/ TakeBody \/ EmptyBody \/ BadBody \/ TakeFromStream
  \/ \E i \in Ids : ServerAnswers(i)
  \/ \E message \in {Note, Foreign, Junk} : ServerSends(message)
  \/ ServerDies

\* Timeouts run out, the mutex is handed on, and what the client does without
\* the server it does.  Nothing is asked of the server.
McpFairness ==
  /\ WF_mcpVars(GiveUp) /\ WF_mcpVars(Begin)
  /\ WF_mcpVars(WriteLine \/ WriteFails) /\ WF_mcpVars(StreamReady) /\ WF_mcpVars(Address)

McpSpec == McpInit /\ [][McpNext]_mcpVars /\ McpFairness

-----------------------------------------------------------------------------
Messages == Ids \cup {Note, Foreign, Junk, ReaderEnded, Nothing}

\* Every variable keeps its type.
McpTypeOK ==
  /\ transport \in Transports
  /\ stage \in {Stages[i] : i \in DOMAIN Stages} \cup {"failed"}
  /\ \A i \in DOMAIN waiting : waiting[i] \in Callers
  /\ call = NoCall \/ (call.by \in Callers \cup {"connect"} /\ call.id \in Ids \cup {0})
  /\ call.at \in {"none", "write", "read", "connect", "get", "address", "post", "body", "wait"}
  /\ nextRequest \in FirstId..(FirstId + MaxCalls)
  /\ owed \subseteq Ids /\ pendingIds \subseteq Ids
  /\ {alive, torn, reader, upset} \subseteq BOOLEAN
  /\ \A i \in DOMAIN out : out[i] \in Messages
  /\ streamState \in {"Unknown", "Connected", "Unsupported"}
  /\ box \in Messages /\ mistaken.of \in {"none", "note", "other"} /\ extras \in 0..MaxExtras

\* "Send one JSON-RPC request and receive the matching response"
\* (mcp_transport.rs, send_and_recv): what a request takes for its answer is its
\* answer, or word that the stream is closed.
AnswerIsForItsCall == mistaken = NotMistaken

\* A request takes another's answer only over stdio, after a request was given up
\* on that connection or the server sent one of its own; from the body of a POST
\* it may take a notification, and from the stream only its answer
\* (StdioTransport::send_and_recv, handle_sse_event).
MixedUpOnlyAfterUpset ==
  ~AnswerIsForItsCall =>
    \/ mistaken.via = "line" /\ mistaken.of = "other" /\ upset
    \/ mistaken.via = "body" /\ mistaken.of = "note"

\* Nothing holds the mutex of a server for ever: the request under way ends and so
\* does the wait of those before it, the handshake's too, unless connect's
\* notification waits for an event stream that was closed after initialize, whose
\* GET has no timeout (McpServer::connect, call_tool).
CallsEnd ==
  []<>(call = NoCall /\ waiting = <<>>) \/ <>[](stage = "initialized" /\ call.at = "get")
=============================================================================
