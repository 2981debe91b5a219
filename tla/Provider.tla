------------------------------ MODULE Provider ------------------------------
(***************************************************************************)
(* The client of a model provider (crates/sa-core/src/openai.rs): one      *)
(* canonical history, sent by any of three wire protocols; an answer that  *)
(* comes whole or as a stream of fragments put together again; one second  *)
(* request without streaming when the stream is refused or unusable.       *)
(*                                                                         *)
(* The provider is not ours.  What it generates is a sequence of items:    *)
(* reasoning, a text, calls; the text and the arguments of a call are      *)
(* pieces, numbered.  It streams them in the ways the tests and the        *)
(* comments of the client name; the stream may end, break or turn to       *)
(* nonsense after any event.  Names, models and usage are left out.        *)
(***************************************************************************)
EXTENDS Integers, Sequences, SequencesExt, FiniteSets, Places

CONSTANTS
  Generations,  \* what a provider may generate: sequences of items
  MaxItems,     \* bound: items of an answer
  MaxTurns,     \* bound: answers in the history
  MaxPosts      \* bound: requests sent

ASSUME ProviderBoundsAssumption == {MaxItems, MaxTurns, MaxPosts} \subseteq Nat
ASSUME GenerationsAssumption ==
  \A items \in Generations :
    /\ items \in Seq([kind : {"text", "call", "reasoning"}, pieces : Nat])
    /\ Len(items) <= MaxItems

WireApis == {"chat_completions", "responses", "anthropic_messages"}

VARIABLES
  history,   \* the canonical messages
  phase,     \* idle, sent (the status is to come), streaming, body or wrong
  wire,      \* the wire protocol of the call under way
  stream,    \* the request asks for a stream
  made,      \* what the provider generates, and how it sends it
  progress,  \* streaming: events sent of each item
  accum,     \* the accumulator of the stream
  answer,    \* history: the answer last returned, and what had been generated
  posts      \* counter: requests

providerVars == <<history, phase, wire, stream, made, progress, accum, answer, posts>>

-----------------------------------------------------------------------------
(* Canonical messages                                                       *)

\* text is "none", "blank", "some" or "image" (one that is not inline); items are
\* the Responses items the turn came as, if it did.
ChatMessage(role, text) == [role |-> role, text |-> text, calls |-> <<>>, result |-> 0, items |-> <<>>]
BlankText == {"none", "blank"}
ResultTurn(id, text) == [ChatMessage("tool", text) EXCEPT !.result = id]

\* ChatCompletionsRequest::sanitized filters the others out.
Sendable(m) ==
  /\ m.role = "assistant" => m.text # "none" \/ m.calls # <<>>
  /\ m.role = "tool" => m.text # "none" /\ m.result # 0

-----------------------------------------------------------------------------
(* Requests: per wire, blocks of text, calls and results, each with its role *)

Block(role, kind, id) == [role |-> role, kind |-> kind, id |-> id]
TextBlock(m, role) == IF m.text \in BlankText THEN <<>> ELSE <<Block(role, "text", 0)>>
CallBlocks(m) == [i \in DOMAIN m.calls |-> Block("assistant", "call", m.calls[i].id)]

\* The request is serialised as it is.
ToChat(m) ==
  CASE m.role = "assistant" -> TextBlock(m, "assistant") \o CallBlocks(m)
    [] m.role = "tool" -> <<Block("tool", "result", m.result)>>
    [] OTHER -> <<Block(m.role, "text", 0)>>

\* A blank text is dropped, and so is an image that is not inline.
AnthropicUser(m) == IF m.text = "image" THEN <<>> ELSE TextBlock(m, "user")

\* A result needs the id of its call.
AnthropicResult(m) == IF m.result # 0 THEN <<Block("user", "result", m.result)>> ELSE <<>>

\* Convert: an empty turn is dropped, system text goes elsewhere, and a result
\* without an id goes as text.
ToAnthropic(m) ==
  CASE m.role = "assistant" -> TextBlock(m, "assistant") \o CallBlocks(m)
    [] m.role = "tool" ->
         IF AnthropicResult(m) # <<>> THEN AnthropicResult(m) ELSE TextBlock(m, "user")
    [] m.role = "system" -> <<>>
    [] OTHER -> AnthropicUser(m)

\* An assistant turn without items of its own, and a result with an id.
ResponsesAssistant(m) == TextBlock(m, "assistant") \o CallBlocks(m)
ResponsesResult(m) == IF m.result # 0 THEN <<Block("tool", "result", m.result)>> ELSE <<>>

\* ResponsesRequest::from_chat_request: a turn that came as items goes as
\* items; system text goes to the instructions.
ToResponses(m) ==
  CASE m.role = "assistant" ->
         IF m.items # <<>>
         THEN [i \in DOMAIN m.items |-> Block("assistant", m.items[i].kind, m.items[i].id)]
         ELSE ResponsesAssistant(m)
    [] m.role = "tool" ->
         IF ResponsesResult(m) # <<>> THEN ResponsesResult(m) ELSE TextBlock(m, "user")
    [] m.role = "system" -> <<>>
    [] OTHER -> IF m.text = "none" THEN <<>> ELSE <<Block("user", "text", 0)>>

\* The blocks of each message, on a wire.
OnWire(w, messages) ==
  [i \in DOMAIN messages |->
     CASE ~Sendable(messages[i]) -> <<>>
       [] Sendable(messages[i]) /\ w = "chat_completions" -> ToChat(messages[i])
       [] Sendable(messages[i]) /\ w = "anthropic_messages" -> ToAnthropic(messages[i])
       [] Sendable(messages[i]) /\ w = "responses" -> ToResponses(messages[i])]

\* Where a block is: its message, and its place in that.
Positions(blocks) == UNION {{<<i, k>> : k \in DOMAIN blocks[i]} : i \in DOMAIN blocks}
BlockAt(blocks, p) == blocks[p[1]][p[2]]
Before(p, q) == p[1] < q[1] \/ (p[1] = q[1] /\ p[2] < q[2])

\* inject_anthropic_cache_breakpoints: the results of the last message with any,
\* and the end of the last message of the user that has none of these.
Breakpoints(blocks) ==
  LET Latest(set) == {i \in set : \A j \in set : j <= i}
      users == {i \in DOMAIN blocks : \E k \in DOMAIN blocks[i] : blocks[i][k].role = "user"}
      result == Latest({i \in users : \E k \in DOMAIN blocks[i] : blocks[i][k].kind = "result"})
  IN {p \in Positions(blocks) :
        \/ p[1] \in result /\ BlockAt(blocks, p).kind = "result"
        \/ /\ p[1] \in Latest(users \ result) /\ p[2] = Len(blocks[p[1]])
           /\ BlockAt(blocks, p).kind = "text"}

-----------------------------------------------------------------------------
(* What a provider generates and how it sends it                            *)

\* How: the slots of a chat stream are numbered from base; the items of a
\* Responses stream have ids or not, are announced and completed one by one or
\* only as deltas, and the last event carries the whole response or not.
Manners ==
  [base : {0, 1}, named : BOOLEAN, announced : BOOLEAN, whole : BOOLEAN]
MannersOf(w) ==
  {how \in Manners :
     /\ w # "chat_completions" => how.base = 0
     /\ w # "responses" => how.named /\ how.announced /\ how.whole
     /\ how.announced \/ how.whole}

Pieces(n) == [k \in 1..n |-> k]
NothingMade == [items |-> <<>>, how |-> [base |-> 0, named |-> TRUE, announced |-> TRUE, whole |-> TRUE]]

\* The id of the i-th item of the answer to the request under way.
IdOf(i) == (MaxItems + 1) * posts + i
Made(kind) == {i \in DOMAIN made.items : made.items[i].kind = kind}
Item(i) == made.items[i]

\* An item of the wire response, complete or as announced.
Output(i, pieces) ==
  [kind |-> Item(i).kind, id |-> IF made.how.named THEN i ELSE 0,
   call |-> IF Item(i).kind = "call" THEN IdOf(i) ELSE 0, pieces |-> pieces]
WholeOutput == [i \in DOMAIN made.items |-> Output(i, Pieces(Item(i).pieces))]

-----------------------------------------------------------------------------
(* Answers                                                                  *)

\* The message an answer becomes: its text, its calls, its Responses items.
AnswerOf(text, calls, items) == [text |-> text, calls |-> calls, items |-> items]
CallOf(id, pieces) == [id |-> id, pieces |-> pieces]

\* What the generation is, in those terms: the first text and the calls.
Generated ==
  LET texts == {i \in DOMAIN WholeOutput :
                  WholeOutput[i].kind = "text" /\ WholeOutput[i].pieces # <<>>}
      calls == Picked(WholeOutput, {i \in DOMAIN WholeOutput : WholeOutput[i].kind = "call"}) IN
  [text |-> IF texts = {} THEN <<>> ELSE WholeOutput[Nth(texts, 1)].pieces,
   calls |-> [k \in DOMAIN calls |-> CallOf(calls[k].call, calls[k].pieces)]]

\* Mutant of CallId: the id of the item goes before the id of the call.
CallIdOfItem(output) == IF output.id # 0 THEN output.id ELSE output.call
CallId(output) == output.call

\* normalize_responses_output_items: the first text and the calls, and what is
\* replayed; without a text, the text of the deltas.
Normalized(output, outputText) ==
  LET kept == {i \in DOMAIN output : output[i].kind = "call" \/ output[i].pieces # <<>>}
      texts == {i \in kept : output[i].kind = "text"}
      calls == Picked(output, {i \in kept : output[i].kind = "call"})
      replayed == Picked(output, kept)
      items == [k \in DOMAIN replayed |->
                  [kind |-> replayed[k].kind,
                   id |-> IF replayed[k].kind = "call" THEN CallId(replayed[k]) ELSE 0]]
  IN AnswerOf(IF texts # {} THEN output[Nth(texts, 1)].pieces ELSE outputText,
            [k \in DOMAIN calls |-> CallOf(calls[k].call, calls[k].pieces)],
            IF texts = {} /\ outputText # <<>>
            THEN Append(items, [kind |-> "text", id |-> 0]) ELSE items)

\* The answer of a response read whole.  Chat and Anthropic keep no items.
WholeAnswer ==
  IF wire = "responses" THEN Normalized(WholeOutput, <<>>)
  ELSE AnswerOf(Generated.text, Generated.calls, <<>>)

-----------------------------------------------------------------------------
(* The chat stream                                                          *)

\* A slot of the accumulator: a call without a name is none.
NoSlot == [named |-> FALSE, id |-> 0, pieces |-> <<>>]
NoAccum == [text |-> <<>>, slots |-> <<>>, items |-> <<>>, reasoned |-> FALSE]

\* apply_tool_call_delta: slots are made up to the index.
WithSlot(slots, n) == slots \o [k \in 1..(n - Len(slots)) |-> NoSlot]

\* apply_chunk, of the next event of item i: the head of a call has its id.
ApplyChunk(i) ==
  LET nth == Cardinality({j \in Made("call") : j <= i}) + made.how.base
      slots == WithSlot(accum.slots, nth) IN
  IF Item(i).kind = "text"
  THEN [accum EXCEPT !.text = Append(@, progress[i] + 1)]
  ELSE IF progress[i] = 0
  THEN [accum EXCEPT !.slots = [slots EXCEPT ![nth] = [@ EXCEPT !.named = TRUE, !.id = IdOf(i)]]]
  ELSE [accum EXCEPT !.slots = [slots EXCEPT ![nth].pieces = Append(@, progress[i])]]

\* Reasoning is not part of a chat stream.
ChatEvents(i) ==
  CASE Item(i).kind = "text" -> Item(i).pieces
    [] Item(i).kind = "call" -> 1 + Item(i).pieces
    [] OTHER -> 0

\* into_response.
ChatAnswer ==
  LET calls == Picked(accum.slots, {k \in DOMAIN accum.slots : accum.slots[k].named}) IN
  AnswerOf(accum.text, [k \in DOMAIN calls |-> CallOf(calls[k].id, calls[k].pieces)], <<>>)

-----------------------------------------------------------------------------
(* The Responses stream                                                     *)

\* matches_identity: by id if both have one, by the id of the call otherwise.
SameItem(a, b) ==
  IF a.id # 0 /\ b.id # 0 THEN a.id = b.id ELSE a.call # 0 /\ a.call = b.call

\* upsert_responses_output_item: the first that matches is replaced.
Upsert(items, item) ==
  LET same == {k \in DOMAIN items : SameItem(items[k], item)} IN
  IF same = {} THEN Append(items, item)
  ELSE [items EXCEPT ![CHOOSE k \in same : \A l \in same : k <= l] = item]

\* Of an item: announced, deltas (those of arguments are passed over), completed.
ResponsesEvents(i) ==
  (IF made.how.announced THEN 2 ELSE 0) + (IF Item(i).kind = "call" THEN 0 ELSE Item(i).pieces)

\* apply_event, of the next event of item i.
ApplyEvent(i) ==
  LET first == progress[i] = 0 /\ made.how.announced
      last == progress[i] + 1 = ResponsesEvents(i) /\ made.how.announced
      nth == progress[i] + (IF made.how.announced THEN 0 ELSE 1) IN
  IF first THEN [accum EXCEPT !.items = Upsert(@, Output(i, <<>>))]
  ELSE IF last THEN [accum EXCEPT !.items = Upsert(@, Output(i, Pieces(Item(i).pieces)))]
  ELSE IF Item(i).kind = "text" THEN [accum EXCEPT !.text = Append(@, nth)]
  ELSE [accum EXCEPT !.reasoned = TRUE]

\* synthetic_output_items: reasoning that came only as deltas becomes an item.
Synthetic ==
  IF accum.reasoned /\ \A k \in DOMAIN accum.items : accum.items[k].kind # "reasoning"
  THEN Append(accum.items, [kind |-> "reasoning", id |-> 0, call |-> 0, pieces |-> <<1>>])
  ELSE accum.items

\* merge_responses_output_items
MergedItems(target, incoming) ==
  LET merged[n \in 0..Len(incoming)] ==
        IF n = 0 THEN target ELSE Upsert(merged[n - 1], incoming[n])
  IN merged[Len(incoming)]

\* The last event: its response with the items of the stream put in, or those alone.
ResponsesAnswer ==
  Normalized(IF made.how.whole THEN MergedItems(WholeOutput, Synthetic) ELSE Synthetic, accum.text)

-----------------------------------------------------------------------------
(* A call                                                                   *)

ProviderInit ==
  /\ history = <<ChatMessage("system", "some")>>
  /\ phase = "idle" /\ wire = "chat_completions" /\ stream = FALSE
  /\ made = NothingMade /\ progress = <<>> /\ accum = NoAccum
  /\ answer = [got |-> <<>>, meant |-> <<>>]
  /\ posts = 0

Turns == Cardinality({i \in DOMAIN history : history[i].role = "assistant"})

\* The agent asks, or goes on after the results.
AddMessage(text) ==
  /\ phase = "idle" /\ Turns < MaxTurns /\ Last(history).role # "user"
  /\ history' = Append(history, ChatMessage("user", text))
  /\ UNCHANGED <<phase, wire, stream, made, progress, accum, answer, posts>>

\* chat_completions: the configuration may name another wire each time.
SendRequest(w, s) ==
  /\ phase = "idle" /\ Turns < MaxTurns /\ Last(history).role # "system"
  /\ posts < MaxPosts /\ posts' = posts + 1
  /\ phase' = "sent" /\ wire' = w /\ stream' = (s /\ w # "anthropic_messages")
  /\ UNCHANGED <<history, made, progress, accum, answer>>

\* The provider generates, and answers with success.
Generate(items, how) ==
  /\ phase = "sent"
  /\ made' = [items |-> items, how |-> how]
  /\ phase' = IF stream THEN "streaming" ELSE "body"
  /\ progress' = [i \in DOMAIN items |-> 0]
  /\ accum' = NoAccum
  /\ UNCHANGED <<history, wire, stream, answer, posts>>

Forget == made' = NothingMade /\ progress' = <<>> /\ accum' = NoAccum

\* The call returns an error; the agent may call again.
Abandon ==
  /\ phase' = "idle" /\ Forget
  /\ UNCHANGED <<history, wire, stream, answer, posts>>

\* should_fallback_from_streaming: the same request once more, without a stream.
FallBack ==
  /\ stream
  /\ posts' = posts + 1
  /\ phase' = "sent" /\ stream' = FALSE /\ Forget
  /\ UNCHANGED <<history, wire, answer>>

\* A status that refuses: of streaming, perhaps, or of the request.
Refused(ofStreaming) ==
  /\ phase = "sent"
  /\ IF ofStreaming /\ stream THEN FallBack ELSE Abandon

\* No status, or a body or stream that breaks off.
Broken == phase # "idle" /\ Abandon

\* The client returns an answer; the agent appends it, runs its calls and appends
\* their results, which may be empty.
Return(a) ==
  /\ answer' = [got |-> [text |-> a.text, calls |-> a.calls], meant |-> Generated]
  /\ \E text \in {"blank", "some"} :
       history' = Append(history,
           [ChatMessage("assistant", IF a.text = <<>> THEN "none" ELSE "some") EXCEPT
              !.calls = [k \in DOMAIN a.calls |-> [id |-> a.calls[k].id]], !.items = a.items])
         \o [k \in DOMAIN a.calls |-> ResultTurn(a.calls[k].id, text)]
  /\ phase' = "idle" /\ Forget
  /\ UNCHANGED <<wire, stream, posts>>

ReadBody == phase = "body" /\ Return(WholeAnswer)

EventsOf(i) == IF wire = "responses" THEN ResponsesEvents(i) ELSE ChatEvents(i)

\* The next event of the stream: the items of Responses come one after the other,
\* the deltas of a chat in any order.
StreamEvent(i) ==
  /\ phase = "streaming" /\ i \in DOMAIN progress /\ progress[i] < EventsOf(i)
  /\ wire = "responses" => \A j \in 1..(i - 1) : progress[j] = EventsOf(j)
  /\ progress' = [progress EXCEPT ![i] = @ + 1]
  /\ accum' = IF wire = "responses" THEN ApplyEvent(i) ELSE ApplyChunk(i)
  /\ UNCHANGED <<history, phase, wire, stream, made, answer, posts>>

\* [DONE], response.completed or response.done.
StreamDone ==
  /\ phase = "streaming" /\ \A i \in DOMAIN progress : progress[i] = EventsOf(i)
  /\ Return(IF wire = "responses" THEN ResponsesAnswer ELSE ChatAnswer)

\* Mutant of StreamBreaks: what was streamed is taken for the answer.
StreamBreaksWell ==
  phase = "streaming" /\ Return(IF wire = "responses" THEN ResponsesAnswer ELSE ChatAnswer)

\* The stream ends before its last event, or an event is an error or nonsense.
StreamBreaks == phase = "streaming" /\ FallBack

ProviderNext ==
  \/ \E text \in {"blank", "some", "image"} : AddMessage(text)
  \/ \E w \in WireApis, s \in BOOLEAN : SendRequest(w, s)
  \/ \E items \in Generations : \E how \in MannersOf(wire) : Generate(items, how)
  \/ \E ofStreaming \in BOOLEAN : Refused(ofStreaming)
  \/ Broken \/ ReadBody \/ StreamDone \/ StreamBreaks
  \/ \E i \in DOMAIN progress : StreamEvent(i)

ProviderSpec == ProviderInit /\ [][ProviderNext]_providerVars

-----------------------------------------------------------------------------
\* Every variable keeps its type.
ProviderTypeOK ==
  /\ \A i \in DOMAIN history : history[i].role \in {"system", "user", "assistant", "tool"}
  /\ phase \in {"idle", "sent", "streaming", "body"}
  /\ wire \in WireApis /\ stream \in BOOLEAN
  /\ DOMAIN progress = DOMAIN made.items
  /\ posts \in 0..(MaxPosts + 1)

\* On whatever wire the history goes next, each result answers one call of the
\* turn before it, each call has one result, and no user speaks in between; and
\* at most four blocks are marked for the cache, which is what the API takes
\* (convert_messages_to_anthropic, ResponsesRequest::from_chat_request,
\* normalize_responses_output_items).
EveryWireIsPaired ==
  phase = "idle" =>
    /\ \A w \in WireApis :
         LET blocks == OnWire(w, history)
             OfKind(kind) == {p \in Positions(blocks) : BlockAt(blocks, p).kind = kind}
             Answers(q, p) == Before(p, q) /\ BlockAt(blocks, q).id = BlockAt(blocks, p).id IN
         /\ \A p \in OfKind("call") : Cardinality({q \in OfKind("result") : Answers(q, p)}) = 1
         /\ \A q \in OfKind("result") : \E p \in OfKind("call") :
              /\ Answers(q, p)
              /\ \A r \in Positions(blocks) :
                   Before(p, r) /\ Before(r, q) =>
                     BlockAt(blocks, r).role = "assistant" \/ BlockAt(blocks, r).kind = "result"
    /\ Cardinality(Breakpoints(OnWire("anthropic_messages", history))) <= 4

\* An answer is what the provider generated in full: the pieces of each text and
\* call together again, in order, whatever the stream's manner and interleaving,
\* and never the part that came before a stream ended early
\* (ChatCompletionsStreamAccumulator, ResponsesStreamAccumulator, read_sse_response).
AnswerIsGeneration == answer.got = answer.meant
=============================================================================
