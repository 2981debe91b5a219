----------------------------- MODULE EventStream -----------------------------
(***************************************************************************)
(* What clients get to see (crates/sa/src/main.rs): events are numbered,   *)
(* kept in a bounded buffer and broadcast; questions are listed as pending *)
(* and announced; a connection subscribes to the broadcast and gets a      *)
(* snapshot, and a viewer that comes back asks for the events after the    *)
(* last one it has.                                                        *)
(*                                                                         *)
(* Any thread publishes, and between two steps of one another may run: an  *)
(* id is drawn, the event buffered and the message broadcast in three      *)
(* steps.  Messages carry nothing but what they are about.  What a viewer  *)
(* remembers (events, questions, the last event) is external.              *)
(***************************************************************************)
EXTENDS Integers, Sequences, FiniteSets

CONSTANTS
  Publishers,   \* threads that publish events
  Viewers,      \* clients, one connection each at a time
  Questions,    \* questions agents ask
  BufferSize,   \* MAX_BUFFERED_EVENTS
  ChannelSize,  \* capacity of the broadcast channel
  MaxEvents, MaxLinks  \* bounds

ASSUME SizesAssumption == {BufferSize, ChannelSize} \subseteq Nat \ {0}
ASSUME StreamBoundsAssumption == {MaxEvents, MaxLinks} \subseteq Nat

Events == 1..MaxEvents
Message == [event : Events] \cup [asked : Questions] \cup [resolved : Questions]

VARIABLES
  nextId,     \* Hub::next_event_id: the last id drawn
  publisher,  \* per publisher: the event it has drawn, and how far it is
  buffer,     \* Hub::events_buf
  sent,       \* every message broadcast so far, in order
  pending,    \* Hub::pending_questions
  announced,  \* questions whose announcement was broadcast
  resolved,   \* questions answered
  link,       \* per viewer, its connection
  viewer,     \* per viewer, what it remembers
  links,      \* counter
  overtaken   \* history: events buffered or broadcast after one with a greater id

streamVars == <<nextId, publisher, buffer, sent, pending, announced, resolved, link, viewer,
                links, overtaken>>

Quiet == [pc |-> "idle", event |-> 0]

\* at: messages of the broadcast the connection has behind it; late: it got its
\* snapshot before it subscribed; lagged: it was told that it lost messages;
\* history: the viewer has asked for history on it, and lost nothing since.
NoLink == [pc |-> "off", at |-> 0, late |-> FALSE, lagged |-> FALSE, history |-> FALSE]

StreamInit ==
  /\ nextId = 0
  /\ publisher = [p \in Publishers |-> Quiet]
  /\ buffer = <<>>
  /\ sent = <<>>
  /\ pending = {} /\ announced = {} /\ resolved = {}
  /\ link = [c \in Viewers |-> NoLink]
  /\ viewer = [c \in Viewers |-> [seen |-> {}, last |-> 0, asked |-> {}]]
  /\ links = 0
  /\ overtaken = {}

-----------------------------------------------------------------------------
(* publish_with_agent                                                       *)

Draw(p) ==
  /\ publisher[p].pc = "idle" /\ nextId < MaxEvents
  /\ nextId' = nextId + 1
  /\ publisher' = [publisher EXCEPT ![p] = [pc |-> "drawn", event |-> nextId + 1]]
  /\ UNCHANGED <<buffer, sent, pending, announced, resolved, link, viewer, links, overtaken>>

\* The events that were buffered at some time: all but those on their way there.
EverBuffered ==
  {e \in 1..nextId : \A p \in Publishers : publisher[p].pc = "drawn" => publisher[p].event # e}

\* The buffer keeps the last events appended.
Kept(seq) == IF Len(seq) > BufferSize THEN Tail(seq) ELSE seq

Buffer(p) ==
  LET e == publisher[p].event
  IN /\ publisher[p].pc = "drawn"
     /\ buffer' = Kept(Append(buffer, e))
     /\ overtaken' = IF \E f \in EverBuffered : f > e THEN overtaken \cup {e} ELSE overtaken
     /\ publisher' = [publisher EXCEPT ![p].pc = "buffered"]
     /\ UNCHANGED <<nextId, sent, pending, announced, resolved, link, viewer, links>>

Published == {sent[i].event : i \in {j \in 1..Len(sent) : "event" \in DOMAIN sent[j]}}

Broadcast(p) ==
  LET e == publisher[p].event
  IN /\ publisher[p].pc = "buffered"
     /\ sent' = Append(sent, [event |-> e])
     /\ overtaken' = IF \E f \in Published : f > e THEN overtaken \cup {e} ELSE overtaken
     /\ publisher' = [publisher EXCEPT ![p] = Quiet]
     /\ UNCHANGED <<nextId, buffer, pending, announced, resolved, link, viewer, links>>

-----------------------------------------------------------------------------
(* Questions: persist_pending_question and answer_question                  *)

PostQuestion(q) ==
  /\ q \notin pending \cup resolved
  /\ pending' = pending \cup {q}
  /\ UNCHANGED <<nextId, publisher, buffer, sent, announced, resolved, link, viewer, links,
                 overtaken>>

Announce(q) ==
  /\ q \in (pending \cup resolved) \ announced
  /\ announced' = announced \cup {q}
  /\ sent' = Append(sent, [asked |-> q])
  /\ UNCHANGED <<nextId, publisher, buffer, pending, resolved, link, viewer, links, overtaken>>

Resolve(q) ==
  /\ q \in pending /\ \E c \in Viewers : q \in viewer[c].asked
  /\ pending' = pending \ {q}
  /\ resolved' = resolved \cup {q}
  /\ sent' = Append(sent, [resolved |-> q])
  /\ UNCHANGED <<nextId, publisher, buffer, announced, link, viewer, links, overtaken>>

-----------------------------------------------------------------------------
(* Connections                                                              *)

\* A connection on a ready runtime subscribes at once; one that initialises the
\* runtime gets its snapshot first.
OpenLink(c) ==
  /\ link[c].pc = "off" /\ links < MaxLinks
  /\ links' = links + 1
  /\ \/ link' = [link EXCEPT ![c] = [NoLink EXCEPT !.pc = "subscribed", !.at = Len(sent)]]
     \/ link' = [link EXCEPT ![c] = [NoLink EXCEPT !.pc = "initialised", !.late = TRUE]]
  /\ UNCHANGED <<nextId, publisher, buffer, sent, pending, announced, resolved, viewer, overtaken>>

\* Mutant of Snapshot: without the questions.
SnapshotBare(c) ==
  /\ link[c].pc \in {"subscribed", "initialised"}
  /\ link' = [link EXCEPT ![c].pc = IF @ = "subscribed" THEN "open" ELSE "unsubscribed"]
  /\ UNCHANGED <<nextId, publisher, buffer, sent, pending, announced, resolved, viewer, links,
                 overtaken>>

\* send_ready_runtime_snapshot
Snapshot(c) ==
  /\ link[c].pc \in {"subscribed", "initialised"}
  /\ viewer' = [viewer EXCEPT ![c].asked = @ \cup pending]
  /\ link' = [link EXCEPT ![c].pc = IF @ = "subscribed" THEN "open" ELSE "unsubscribed"]
  /\ UNCHANGED <<nextId, publisher, buffer, sent, pending, announced, resolved, links, overtaken>>

\* spawn_event_forwarder_for_connection after initialize_from_request
SubscribeLate(c) ==
  /\ link[c].pc = "unsubscribed"
  /\ link' = [link EXCEPT ![c].pc = "open", ![c].at = Len(sent)]
  /\ UNCHANGED <<nextId, publisher, buffer, sent, pending, announced, resolved, viewer, links,
                 overtaken>>

Greater(a, b) == IF a > b THEN a ELSE b

\* The viewer counts an event as its last one only when it knows of no gap
\* before it (gapless: it has asked for history).
Remembers(k, m, gapless) ==
  IF "event" \in DOMAIN m
  THEN [k EXCEPT !.seen = @ \cup {m.event}, !.last = IF gapless THEN Greater(@, m.event) ELSE @]
  ELSE IF "asked" \in DOMAIN m THEN [k EXCEPT !.asked = @ \cup {m.asked}]
  ELSE k

Subscribed(c) == link[c].pc \in {"subscribed", "open"}

\* The forwarder passes the next message on, or says that it lost some.
Forward(c) ==
  /\ Subscribed(c) /\ link[c].at < Len(sent)
  /\ IF Len(sent) - link[c].at > ChannelSize
     THEN /\ link' = [link EXCEPT ![c].at = Len(sent) - ChannelSize, ![c].lagged = TRUE,
                                    ![c].history = FALSE]
          /\ UNCHANGED viewer
     ELSE /\ link' = [link EXCEPT ![c].at = @ + 1]
          /\ viewer' = [viewer EXCEPT ![c] = Remembers(@, sent[link[c].at + 1], link[c].history)]
  /\ UNCHANGED <<nextId, publisher, buffer, sent, pending, announced, resolved, links, overtaken>>

\* Mutant of SinceLast: the event the viewer names is left out and so is the next.
SinceLastTooFew(c) == {buffer[i] : i \in {j \in 1..Len(buffer) : buffer[j] > viewer[c].last + 1}}

\* history_since
SinceLast(c) == {buffer[i] : i \in {j \in 1..Len(buffer) : buffer[j] > viewer[c].last}}

CatchUp(c) ==
  LET seen == viewer[c].seen \cup SinceLast(c)
  IN /\ link[c].pc = "open" /\ ~link[c].history
     /\ link' = [link EXCEPT ![c].history = TRUE]
     /\ \E last \in seen \cup {0} :
          /\ \A e \in seen : e <= last
          /\ viewer' = [viewer EXCEPT ![c].seen = seen, ![c].last = last]
     /\ UNCHANGED <<nextId, publisher, buffer, sent, pending, announced, resolved, links,
                    overtaken>>

DropLink(c) ==
  /\ link[c].pc # "off"
  /\ link' = [link EXCEPT ![c] = NoLink]
  /\ UNCHANGED <<nextId, publisher, buffer, sent, pending, announced, resolved, viewer, links,
                 overtaken>>

StreamNext ==
  \/ \E p \in Publishers : Draw(p) \/ Buffer(p) \/ Broadcast(p)
  \/ \E q \in Questions : PostQuestion(q) \/ Announce(q) \/ Resolve(q)
  \/ \E c \in Viewers : \/ OpenLink(c) \/ Snapshot(c) \/ SubscribeLate(c) \/ Forward(c)
                        \/ CatchUp(c) \/ DropLink(c)

StreamSpec == StreamInit /\ [][StreamNext]_streamVars

-----------------------------------------------------------------------------
(* Every variable keeps its type.                                           *)
StreamTypeOK ==
  /\ nextId \in 0..MaxEvents
  /\ publisher \in [Publishers -> [pc : {"idle", "drawn", "buffered"}, event : 0..MaxEvents]]
  /\ buffer \in Seq(Events) /\ Len(buffer) <= BufferSize
  /\ sent \in Seq(Message)
  /\ pending \subseteq Questions /\ announced \subseteq Questions /\ resolved \subseteq Questions
  /\ link \in [Viewers -> [pc : {"off", "initialised", "unsubscribed", "subscribed", "open"},
                           at : 0..Len(sent), late : BOOLEAN, lagged : BOOLEAN, history : BOOLEAN]]
  /\ viewer \in [Viewers -> [seen : SUBSET Events, last : 0..MaxEvents, asked : SUBSET Questions]]
  /\ links \in 0..MaxLinks
  /\ overtaken \subseteq Events

Buffered == {buffer[i] : i \in 1..Len(buffer)}
CaughtUp(c) == link[c].pc = "open" /\ link[c].at = Len(sent)

\* A viewer that has asked for history and has everything sent to it since lacks
\* a buffered event only if one with a greater id went ahead of it: subscribing
\* comes before history, and no event falls between the two (main.rs 694-727,
\* 870, 4985).
MissesOnlyOvertaken ==
  \A c \in Viewers : CaughtUp(c) /\ link[c].history
    => (Published \cap Buffered) \ viewer[c].seen \subseteq overtaken

\* A question that waits for its answer and was announced has reached every
\* connection that subscribed before it got its snapshot and has not lagged.
PendingQuestionsAreKnown ==
  \A c \in Viewers : CaughtUp(c) /\ ~link[c].late /\ ~link[c].lagged
    => pending \cap announced \subseteq viewer[c].asked
=============================================================================
