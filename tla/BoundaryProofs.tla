--------------------------- MODULE BoundaryProofs ---------------------------
(***************************************************************************)
(* Proofs about the boundary of the runtime: what a viewer misses and      *)
(* knows of the events (EventStream), the configuration its connections    *)
(* share (WsSession), whose answer a caller of an MCP server takes (Mcp)   *)
(* and what is in the log of a background command (TerminalTask), for any  *)
(* publishers, viewers, clients, callers, servers, programs and bounds.    *)
(***************************************************************************)
EXTENDS EventStream, WsSession, Mcp, TerminalTask, SequenceTheorems, TLAPS

(***************************************************************************)
(* EventStream                                                             *)
(***************************************************************************)
\* The message at i is of an event, of that one, or asks that question.
IsEvent(i) == "event" \in DOMAIN sent[i]
OfEvent(i, e) == IsEvent(i) /\ sent[i].event = e
Asks(i, q) == "asked" \in DOMAIN sent[i] /\ sent[i].asked = q
Ahead(c) == {i \in 1..Len(sent) : i > link[c].at}

\* Ids are drawn once, and the event is buffered before it is published.
Drawn ==
  /\ \A p \in Publishers :
       publisher[p].pc # "idle" => publisher[p].event \in 1..nextId
  /\ \A p, r \in Publishers :
       p # r /\ publisher[p].pc # "idle" /\ publisher[r].pc # "idle"
         => publisher[p].event # publisher[r].event
  /\ Published \subseteq EverBuffered /\ Buffered \subseteq EverBuffered
  /\ \A p \in Publishers : publisher[p].pc = "buffered" => publisher[p].event \notin Published

\* An event that is published after one with a greater id was overtaken.
InOrder ==
  \A i, j \in 1..Len(sent) :
    i < j /\ IsEvent(i) /\ IsEvent(j) /\ sent[i].event > sent[j].event => sent[j].event \in overtaken

\* What a viewer names as its last event it has, and it has all up to there that are
\* buffered, but for those that were overtaken or will have been when they are published.
NamesNoGap(c) ==
  /\ viewer[c].seen \subseteq EverBuffered
  /\ viewer[c].last \in viewer[c].seen \cup {0}
  /\ \A e \in Buffered : e <= viewer[c].last =>
       \/ e \in viewer[c].seen \cup overtaken
       \/ e \notin Published /\ \E f \in Published : f > e

\* On a connection with history, what the viewer lacks is overtaken or on its way.
GetsTheRest(c) ==
  link[c].history => \A e \in Published \cap Buffered :
    e \in viewer[c].seen \cup overtaken \/ \E i \in Ahead(c) : OfEvent(i, e)

\* An early connection with its snapshot: the viewer knows the questions, or hears of them.
HearsQuestions(c) ==
  link[c].pc = "open" /\ ~link[c].late /\ ~link[c].lagged =>
    \A q \in pending \cap announced :
      q \in viewer[c].asked \/ \E i \in Ahead(c) : Asks(i, q)

\* A connection that subscribes late says so, and history comes when it is open.
Subscribes(c) ==
  /\ link[c].pc \in {"initialised", "unsubscribed"} => link[c].late
  /\ link[c].history => link[c].pc = "open"

StreamInv ==
  /\ StreamTypeOK
  /\ Drawn /\ InOrder
  /\ announced \subseteq pending \cup resolved
  /\ \A c \in Viewers : NamesNoGap(c) /\ GetsTheRest(c) /\ HearsQuestions(c) /\ Subscribes(c)

Pcs == {"idle", "drawn", "buffered"}
LinkPcs == {"off", "initialised", "unsubscribed", "subscribed", "open"}
ViewerRecords == [seen : SUBSET Events, last : 0..MaxEvents, asked : SUBSET Questions]
LinkRecords == [pc : LinkPcs, at : 0..Len(sent), late : BOOLEAN, lagged : BOOLEAN, history : BOOLEAN]

-----------------------------------------------------------------------------
\* What a message is, and what it is not.
LEMMA SentMessages ==
  /\ \A e \in Events : /\ [event |-> e] \in Message
                       /\ "event" \in DOMAIN [event |-> e] /\ [event |-> e].event = e
                       /\ "asked" \notin DOMAIN [event |-> e]
  /\ \A q \in Questions : /\ [asked |-> q] \in Message
                          /\ "asked" \in DOMAIN [asked |-> q] /\ [asked |-> q].asked = q
                          /\ "event" \notin DOMAIN [asked |-> q]
  /\ \A q \in Questions : /\ [resolved |-> q] \in Message
                          /\ "asked" \notin DOMAIN [resolved |-> q]
                          /\ "event" \notin DOMAIN [resolved |-> q]
  /\ \A m \in Message : /\ "event" \in DOMAIN m => m.event \in Events /\ "asked" \notin DOMAIN m
                        /\ "asked" \in DOMAIN m => m.asked \in Questions
BY DEF Message

\* The events that are published, by their places.
LEMMA PublishedIs ==
  /\ \A e : e \in Published <=> \E i \in 1..Len(sent) : OfEvent(i, e)
  /\ \A e : e \in Published' <=> \E i \in 1..Len(sent') : OfEvent(i, e)'
BY DEF Published, OfEvent, IsEvent

LEMMA BufferedIs ==
  /\ \A e : e \in Buffered <=> \E i \in 1..Len(buffer) : e = buffer[i]
  /\ \A e : e \in Buffered' <=> \E i \in 1..Len(buffer') : e = buffer'[i]
BY DEF Buffered

\* What the types say of the parts.
LEMMA StreamTypes ==
  ASSUME StreamTypeOK
  PROVE  /\ nextId \in 0..MaxEvents /\ MaxEvents \in Nat
         /\ Len(sent) \in Nat /\ sent \in Seq(Message)
         /\ \A i \in 1..Len(sent) : sent[i] \in Message
         /\ Len(buffer) \in Nat /\ \A i \in 1..Len(buffer) : buffer[i] \in Events
         /\ Published \subseteq Events /\ Buffered \subseteq Events /\ EverBuffered \subseteq Events
         /\ \A c \in Viewers : viewer[c] \in ViewerRecords /\ link[c] \in LinkRecords
         /\ \A p \in Publishers : publisher[p] \in [pc : Pcs, event : 0..MaxEvents]
<1>1. nextId \in 0..MaxEvents /\ MaxEvents \in Nat
  BY StreamBoundsAssumption DEF StreamTypeOK
<1>2. Len(sent) \in Nat /\ sent \in Seq(Message) /\ \A i \in 1..Len(sent) : sent[i] \in Message
  BY DEF StreamTypeOK
<1>3. Len(buffer) \in Nat /\ \A i \in 1..Len(buffer) : buffer[i] \in Events
  BY DEF StreamTypeOK
<1>4. Published \subseteq Events
  BY <1>2, PublishedIs, SentMessages DEF OfEvent, IsEvent
<1>5. Buffered \subseteq Events
  BY <1>3, BufferedIs
<1>6. EverBuffered \subseteq Events
  BY <1>1 DEF EverBuffered, Events
<1>7. /\ \A c \in Viewers : viewer[c] \in ViewerRecords /\ link[c] \in LinkRecords
      /\ \A p \in Publishers : publisher[p] \in [pc : Pcs, event : 0..MaxEvents]
  BY DEF StreamTypeOK, ViewerRecords, LinkRecords, LinkPcs, Pcs
<1>8. QED
  BY <1>1, <1>2, <1>3, <1>4, <1>5, <1>6, <1>7

\* With everything sent there is nothing ahead.
LEMMA StreamInvIsEnough == StreamInv => MissesOnlyOvertaken /\ PendingQuestionsAreKnown
<1>1. SUFFICES ASSUME StreamInv, NEW c \in Viewers, CaughtUp(c)
               PROVE  /\ link[c].history => (Published \cap Buffered) \ viewer[c].seen \subseteq overtaken
                      /\ ~link[c].late /\ ~link[c].lagged
                           => pending \cap announced \subseteq viewer[c].asked
  BY DEF MissesOnlyOvertaken, PendingQuestionsAreKnown
<1>2. Ahead(c) = {} /\ link[c].pc = "open"
  BY <1>1, StreamTypes DEF Ahead, CaughtUp, StreamInv
<1>3. GetsTheRest(c) /\ HearsQuestions(c)
  BY <1>1 DEF StreamInv
<1>4. QED
  BY <1>2, <1>3 DEF GetsTheRest, HearsQuestions

-----------------------------------------------------------------------------
(* What carries over                                                        *)

\* Publishers, buffer and messages stay.
LEMMA StreamSame ==
  ASSUME StreamInv, UNCHANGED <<nextId, publisher, buffer, sent, overtaken>>
  PROVE  /\ Drawn' /\ InOrder'
         /\ Published' = Published /\ Buffered' = Buffered /\ EverBuffered' = EverBuffered
<1>1. Published' = Published /\ Buffered' = Buffered /\ EverBuffered' = EverBuffered
  BY DEF Published, Buffered, EverBuffered
<1>2. QED
  BY <1>1 DEF StreamInv, Drawn, InOrder, IsEvent

\* A message is sent.
LEMMA Sends ==
  ASSUME StreamTypeOK, NEW m \in Message, sent' = Append(sent, m)
  PROVE  /\ sent' \in Seq(Message) /\ Len(sent') = Len(sent) + 1
         /\ sent'[Len(sent')] = m /\ Len(sent') \in 1..Len(sent')
         /\ \A i \in 1..Len(sent) : i \in 1..Len(sent') /\ sent'[i] = sent[i]
         /\ \A i \in 1..Len(sent') : i \in 1..Len(sent) \/ i = Len(sent')
         /\ \A e : e \in Published' <=> e \in Published \/ ("event" \in DOMAIN m /\ e = m.event)
<1>1. /\ sent' \in Seq(Message) /\ Len(sent') = Len(sent) + 1
      /\ sent'[Len(sent')] = m /\ Len(sent') \in 1..Len(sent')
      /\ \A i \in 1..Len(sent) : i \in 1..Len(sent') /\ sent'[i] = sent[i]
      /\ \A i \in 1..Len(sent') : i \in 1..Len(sent) \/ i = Len(sent')
  BY StreamTypes
<1>2. \A e : e \in Published' <=> e \in Published \/ ("event" \in DOMAIN m /\ e = m.event)
  <2>1. \A i \in 1..Len(sent) : \A e : OfEvent(i, e)' <=> OfEvent(i, e)
    BY <1>1 DEF OfEvent, IsEvent
  <2>2. \A e : OfEvent(Len(sent), e)' <=> "event" \in DOMAIN m /\ e = m.event
    BY <1>1 DEF OfEvent, IsEvent
  <2>3. QED
    BY <1>1, <2>1, <2>2, PublishedIs
<1>3. QED
  BY <1>1, <1>2

\* The order of the messages, when one that is no event or was not overtaken is sent.
LEMMA OrderKept ==
  ASSUME StreamTypeOK, InOrder, NEW m \in Message, sent' = Append(sent, m),
         overtaken \subseteq overtaken',
         "event" \in DOMAIN m => ((\E f \in Published : f > m.event) => m.event \in overtaken')
  PROVE  InOrder'
<1>1. SUFFICES ASSUME NEW i \in 1..Len(sent'), NEW j \in 1..Len(sent'), i < j,
                      IsEvent(i)', IsEvent(j)', sent'[i].event > sent'[j].event
               PROVE  sent'[j].event \in overtaken'
  BY DEF InOrder
<1>2. i \in 1..Len(sent) /\ sent'[i] = sent[i] /\ IsEvent(i)
  BY <1>1, Sends, StreamTypes DEF IsEvent
<1>3. CASE j \in 1..Len(sent)
  BY <1>1, <1>2, <1>3, Sends DEF InOrder, IsEvent
<1>4. CASE j = Len(sent')
  <2>1. sent'[j] = m /\ "event" \in DOMAIN m
    BY <1>1, <1>4, Sends DEF IsEvent
  <2>2. sent[i].event \in Published
    BY <1>2, PublishedIs DEF OfEvent
  <2>3. QED
    BY <1>1, <1>2, <2>1, <2>2
<1>5. QED
  BY <1>3, <1>4, Sends

\* The last event of a viewer stays, and an event that is published now was
\* overtaken if one with a greater id is published.
LEMMA NamesKept ==
  ASSUME NEW c \in Viewers, NamesNoGap(c),
         Buffered' \subseteq Buffered, Published \subseteq Published', EverBuffered \subseteq EverBuffered',
         overtaken \subseteq overtaken',
         viewer'[c].last = viewer[c].last,
         viewer[c].seen \subseteq viewer'[c].seen, viewer'[c].seen \subseteq EverBuffered',
         \A e \in Published' : e \in Published \/ ((\E f \in Published : f > e) => e \in overtaken')
  PROVE  NamesNoGap(c)'
BY DEF NamesNoGap

\* The messages ahead of a connection stay ahead, and what is new is one of them.
LEMMA GetsKept ==
  ASSUME NEW c \in Viewers, GetsTheRest(c),
         link'[c].history => link[c].history,
         viewer[c].seen \subseteq viewer'[c].seen, overtaken \subseteq overtaken',
         \A i \in Ahead(c) : i \in Ahead(c)' /\ sent'[i] = sent[i],
         \A e \in Published' \cap Buffered' :
           \/ e \in Published \cap Buffered \/ e \in viewer'[c].seen
           \/ \E i \in Ahead(c)' : OfEvent(i, e)'
  PROVE  GetsTheRest(c)'
<1>1. SUFFICES ASSUME link'[c].history, NEW e \in Published' \cap Buffered'
               PROVE  e \in viewer'[c].seen \cup overtaken' \/ \E i \in Ahead(c)' : OfEvent(i, e)'
  BY DEF GetsTheRest
<1>2. CASE e \in Published \cap Buffered
  <2>1. e \in viewer[c].seen \cup overtaken \/ \E i \in Ahead(c) : OfEvent(i, e)
    BY <1>1, <1>2 DEF GetsTheRest
  <2>2. \A i \in Ahead(c) : OfEvent(i, e) => OfEvent(i, e)'
    BY DEF OfEvent, IsEvent
  <2>3. QED
    BY <2>1, <2>2
<1>3. QED
  BY <1>1, <1>2

LEMMA HearsKept ==
  ASSUME NEW c \in Viewers, HearsQuestions(c),
         link'[c].pc = link[c].pc, link'[c].late = link[c].late, link'[c].lagged = link[c].lagged,
         viewer[c].asked \subseteq viewer'[c].asked,
         \A i \in Ahead(c) : i \in Ahead(c)' /\ sent'[i] = sent[i],
         \A q \in pending' \cap announced' :
           q \in pending \cap announced \/ \E i \in Ahead(c)' : Asks(i, q)'
  PROVE  HearsQuestions(c)'
<1>1. SUFFICES ASSUME link[c].pc = "open", ~link[c].late, ~link[c].lagged,
                      NEW q \in pending' \cap announced'
               PROVE  q \in viewer'[c].asked \/ \E i \in Ahead(c)' : Asks(i, q)'
  BY DEF HearsQuestions
<1>2. CASE q \in pending \cap announced
  <2>1. q \in viewer[c].asked \/ \E i \in Ahead(c) : Asks(i, q)
    BY <1>1, <1>2 DEF HearsQuestions
  <2>2. \A i \in Ahead(c) : Asks(i, q) => Asks(i, q)'
    BY DEF Asks
  <2>3. QED
    BY <2>1, <2>2
<1>3. QED
  BY <1>1, <1>2

\* The messages ahead, when one is sent and when none is.
LEMMA AheadKept ==
  ASSUME StreamTypeOK, NEW c \in Viewers, link'[c].at = link[c].at,
         sent' = sent \/ \E m \in Message : sent' = Append(sent, m)
  PROVE  /\ \A i \in Ahead(c) : i \in Ahead(c)' /\ sent'[i] = sent[i]
         /\ sent' # sent => Len(sent') \in Ahead(c)'
<1>1. CASE sent' = sent
  BY <1>1 DEF Ahead
<1>2. CASE \E m \in Message : sent' = Append(sent, m)
  <2>1. PICK m \in Message : sent' = Append(sent, m)
    BY <1>2
  <2>2. link[c].at \in 0..Len(sent)
    BY StreamTypes DEF LinkRecords
  <2>3. QED
    BY <2>1, <2>2, Sends, StreamTypes DEF Ahead
<1>3. QED
  BY <1>1, <1>2

-----------------------------------------------------------------------------
LEMMA StreamInitInv == StreamInit => StreamInv
<1>1. SUFFICES ASSUME StreamInit PROVE StreamInv
  OBVIOUS
<1>2. /\ nextId = 0 /\ buffer = <<>> /\ sent = <<>> /\ Len(sent) = 0 /\ Len(buffer) = 0
      /\ pending = {} /\ announced = {} /\ resolved = {} /\ overtaken = {} /\ links = 0
      /\ \A p \in Publishers : publisher[p] = Quiet
      /\ \A c \in Viewers : link[c] = NoLink /\ viewer[c] = [seen |-> {}, last |-> 0, asked |-> {}]
  BY <1>1 DEF StreamInit
<1>3. StreamTypeOK
  <2>1. 0 \in 0..MaxEvents /\ 0 \in 0..MaxLinks /\ 0 <= BufferSize
    BY SizesAssumption, StreamBoundsAssumption
  <2>2. publisher \in [Publishers -> [pc : {"idle", "drawn", "buffered"}, event : 0..MaxEvents]]
    BY <1>1, <2>1 DEF StreamInit, Quiet
  <2>3. link \in [Viewers -> [pc : {"off", "initialised", "unsubscribed", "subscribed", "open"},
                     at : 0..Len(sent), late : BOOLEAN, lagged : BOOLEAN, history : BOOLEAN]]
    BY <1>1, <1>2 DEF StreamInit, NoLink
  <2>4. viewer \in [Viewers -> [seen : SUBSET Events, last : 0..MaxEvents, asked : SUBSET Questions]]
    BY <1>1, <2>1 DEF StreamInit
  <2>5. buffer \in Seq(Events) /\ sent \in Seq(Message)
    BY <1>2
  <2>6. QED
    BY <1>2, <2>1, <2>2, <2>3, <2>4, <2>5 DEF StreamTypeOK
<1>4. Published = {} /\ Buffered = {}
  BY <1>2, PublishedIs, BufferedIs
<1>5. Drawn
  BY <1>2, <1>4 DEF Drawn, Quiet
<1>6. InOrder
  BY <1>2 DEF InOrder
<1>7. \A c \in Viewers : NamesNoGap(c) /\ GetsTheRest(c) /\ HearsQuestions(c) /\ Subscribes(c)
  BY <1>2, <1>4 DEF NamesNoGap, GetsTheRest, HearsQuestions, Subscribes, NoLink
<1>8. QED
  BY <1>2, <1>3, <1>5, <1>6, <1>7 DEF StreamInv

\* The connections do not move while messages are sent.
LEMMA LinksTyped ==
  ASSUME StreamTypeOK, link' = link, NEW m \in Message, sent' = Append(sent, m)
  PROVE  link' \in [Viewers -> [pc : {"off", "initialised", "unsubscribed", "subscribed", "open"},
                     at : 0..Len(sent'), late : BOOLEAN, lagged : BOOLEAN, history : BOOLEAN]]
<1>1. \A n \in 0..Len(sent) : n \in 0..Len(sent')
  BY Sends, StreamTypes
<1>2. QED
  BY <1>1 DEF StreamTypeOK

-----------------------------------------------------------------------------
(* Publishers                                                               *)

\* A publisher changes alone.
LEMMA PublisherMoves ==
  ASSUME StreamTypeOK, NEW p \in Publishers, NEW r \in [pc : Pcs, event : 0..MaxEvents],
         publisher' = [publisher EXCEPT ![p] = r]
  PROVE  /\ publisher' \in [Publishers -> [pc : {"idle", "drawn", "buffered"}, event : 0..MaxEvents]]
         /\ publisher'[p] = r
         /\ \A o \in Publishers : o # p => publisher'[o] = publisher[o]
BY DEF StreamTypeOK, Pcs

\* A drawn event is not buffered yet: nothing changes for the viewers.
LEMMA DrawInv ==
  ASSUME StreamInv, NEW p \in Publishers, Draw(p)
  PROVE  StreamInv'
<1> DEFINE r == [pc |-> "drawn", event |-> nextId + 1]
<1>1. /\ publisher[p].pc = "idle" /\ nextId < MaxEvents /\ nextId' = nextId + 1
      /\ publisher' = [publisher EXCEPT ![p] = r]
      /\ UNCHANGED <<buffer, sent, pending, announced, resolved, link, viewer, links, overtaken>>
  BY DEF Draw
<1>2. /\ nextId \in Nat /\ nextId' \in 0..MaxEvents
      /\ r \in [pc : Pcs, event : 0..MaxEvents]
  BY <1>1, StreamTypes DEF StreamInv, Pcs
<1>3. /\ publisher' \in [Publishers -> [pc : {"idle", "drawn", "buffered"}, event : 0..MaxEvents]]
      /\ publisher'[p] = r /\ \A o \in Publishers : o # p => publisher'[o] = publisher[o]
  BY <1>1, <1>2, PublisherMoves DEF StreamInv
<1>4. StreamTypeOK'
  BY <1>1, <1>2, <1>3 DEF StreamInv, StreamTypeOK
<1>5. Published' = Published /\ Buffered' = Buffered
  BY <1>1 DEF Published, Buffered
<1>6. EverBuffered' = EverBuffered
  <2>1. \A o \in Publishers : o # p /\ publisher[o].pc = "drawn" => publisher[o].event \in 1..nextId
    BY DEF StreamInv, Drawn
  <2>2. \A e \in 1..nextId' : e \in 1..nextId \/ e = nextId + 1
    BY <1>1, <1>2
  <2>3. \A e \in 1..nextId : e \in 1..nextId' /\ e # nextId + 1
    BY <1>1, <1>2
  <2>4. QED
    BY <1>1, <1>3, <2>1, <2>2, <2>3 DEF EverBuffered
<1>7. Drawn'
  <2>1. \A o \in Publishers : o # p /\ publisher[o].pc # "idle" =>
          publisher[o].event \in 1..nextId' /\ publisher[o].event # nextId + 1
    BY <1>1, <1>2 DEF StreamInv, Drawn
  <2>2. publisher'[p].event = nextId + 1 /\ nextId + 1 \in 1..nextId' /\ publisher'[p].pc = "drawn"
    BY <1>1, <1>2, <1>3
  <2>3. QED
    BY <1>3, <1>5, <1>6, <2>1, <2>2 DEF StreamInv, Drawn
<1>8. InOrder'
  BY <1>1 DEF StreamInv, InOrder, IsEvent
<1>9. ASSUME NEW c \in Viewers
      PROVE  NamesNoGap(c)' /\ GetsTheRest(c)' /\ HearsQuestions(c)' /\ Subscribes(c)'
  BY <1>1, <1>5, <1>6
     DEF StreamInv, NamesNoGap, GetsTheRest, HearsQuestions, Subscribes, Ahead, OfEvent, IsEvent, Asks
<1>10. QED
  BY <1>1, <1>4, <1>7, <1>8, <1>9 DEF StreamInv

\* The buffer keeps some of what it had, and the event.
LEMMA KeptIs ==
  ASSUME StreamTypeOK, NEW e \in Events, buffer' = Kept(Append(buffer, e))
  PROVE  /\ buffer' \in Seq(Events) /\ Len(buffer') <= BufferSize
         /\ \A f \in Buffered' : f \in Buffered \/ f = e
<1> DEFINE s == Append(buffer, e)
<1>1. /\ buffer \in Seq(Events) /\ Len(buffer) <= BufferSize /\ Len(buffer) \in Nat
      /\ BufferSize \in Nat \ {0}
  BY SizesAssumption DEF StreamTypeOK
<1>2. s \in Seq(Events) /\ Len(s) = Len(buffer) + 1
      /\ \A i \in 1..Len(s) : IF i = Len(s) THEN s[i] = e ELSE i \in 1..Len(buffer) /\ s[i] = buffer[i]
  BY <1>1
<1> HIDE DEF s
<1>3. CASE Len(s) > BufferSize
  <2>1. buffer' = Tail(s)
    BY <1>3 DEF Kept, s
  <2>2. Tail(s) \in Seq(Events) /\ Len(Tail(s)) = Len(s) - 1
        /\ \A i \in 1..Len(Tail(s)) : i + 1 \in 1..Len(s) /\ Tail(s)[i] = s[i + 1]
    BY <1>1, <1>2
  <2>3. \A f \in Buffered' : f \in Buffered \/ f = e
    BY <1>2, <2>1, <2>2, BufferedIs
  <2>4. QED
    BY <1>1, <1>2, <2>1, <2>2, <2>3
<1>4. CASE ~(Len(s) > BufferSize)
  <2>1. buffer' = s
    BY <1>4 DEF Kept, s
  <2>2. \A f \in Buffered' : f \in Buffered \/ f = e
    BY <1>2, <2>1, BufferedIs
  <2>3. QED
    BY <1>1, <1>2, <1>4, <2>1, <2>2
<1>5. QED
  BY <1>3, <1>4

\* The event joins those that were buffered; a viewer that names it or a later one
\* had one that went ahead of it.
LEMMA BufferInv ==
  ASSUME StreamInv, NEW p \in Publishers, Buffer(p)
  PROVE  StreamInv'
<1> DEFINE e == publisher[p].event
           r == [publisher[p] EXCEPT !.pc = "buffered"]
<1>1. /\ publisher[p].pc = "drawn" /\ buffer' = Kept(Append(buffer, e))
      /\ overtaken' = IF \E f \in EverBuffered : f > e THEN overtaken \cup {e} ELSE overtaken
      /\ publisher' = [publisher EXCEPT ![p] = r]
      /\ UNCHANGED <<nextId, sent, pending, announced, resolved, link, viewer, links>>
  BY DEF Buffer, StreamInv, StreamTypeOK
<1>2. /\ r \in [pc : Pcs, event : 0..MaxEvents] /\ r.pc = "buffered" /\ r.event = e
      /\ e \in Events /\ e \in 1..nextId
  <2>1. publisher[p] \in [pc : Pcs, event : 0..MaxEvents] /\ nextId \in 0..MaxEvents /\ MaxEvents \in Nat
    BY StreamTypes DEF StreamInv
  <2>2. e \in 1..nextId
    BY <1>1 DEF StreamInv, Drawn
  <2>3. QED
    BY <2>1, <2>2 DEF Pcs, Events
<1>3. /\ publisher' \in [Publishers -> [pc : {"idle", "drawn", "buffered"}, event : 0..MaxEvents]]
      /\ publisher'[p] = r /\ \A o \in Publishers : o # p => publisher'[o] = publisher[o]
  BY <1>1, <1>2, PublisherMoves DEF StreamInv
<1>4. /\ buffer' \in Seq(Events) /\ Len(buffer') <= BufferSize
      /\ \A f \in Buffered' : f \in Buffered \/ f = e
  BY <1>1, <1>2, KeptIs DEF StreamInv
<1>5. overtaken' \subseteq Events /\ overtaken \subseteq overtaken'
  BY <1>1, <1>2 DEF StreamInv, StreamTypeOK
<1>6. StreamTypeOK'
  BY <1>1, <1>3, <1>4, <1>5 DEF StreamInv, StreamTypeOK
<1>7. Published' = Published
  BY <1>1 DEF Published
<1>8. /\ EverBuffered' = EverBuffered \cup {e} /\ e \notin EverBuffered
      /\ e \notin Published
  <2>1. \A o \in Publishers : o # p /\ publisher[o].pc = "drawn" => publisher[o].event # e
    BY <1>1 DEF StreamInv, Drawn
  <2>2. e \notin EverBuffered
    BY <1>1 DEF EverBuffered
  <2>3. EverBuffered' = EverBuffered \cup {e}
    BY <1>1, <1>2, <1>3, <2>1 DEF EverBuffered
  <2>4. QED
    BY <2>2, <2>3 DEF StreamInv, Drawn
<1>9. Drawn'
  <2>1. Published' \subseteq EverBuffered' /\ Buffered' \subseteq EverBuffered'
    BY <1>4, <1>7, <1>8 DEF StreamInv, Drawn
  <2>2. \A o \in Publishers : publisher'[o].event = publisher[o].event
          /\ (publisher'[o].pc # "idle" => publisher[o].pc # "idle")
    BY <1>1, <1>2, <1>3
  <2>3. \A o \in Publishers : publisher'[o].pc = "buffered" => publisher'[o].event \notin Published
    BY <1>2, <1>3, <1>8 DEF StreamInv, Drawn
  <2>4. QED
    BY <1>1, <1>7, <2>1, <2>2, <2>3 DEF StreamInv, Drawn
<1>10. InOrder'
  BY <1>1, <1>5 DEF StreamInv, InOrder, IsEvent
<1>11. ASSUME NEW c \in Viewers
       PROVE  NamesNoGap(c)'
  <2>1. NamesNoGap(c) /\ viewer'[c] = viewer[c]
    BY <1>1 DEF StreamInv
  <2>2. e <= viewer[c].last => e \in overtaken'
    <3>1. SUFFICES ASSUME e <= viewer[c].last PROVE \E f \in EverBuffered : f > e
      BY <1>1
    <3>2. viewer[c].last \in EverBuffered /\ viewer[c].last # e
      BY <1>2, <1>8, <2>1, <3>1 DEF NamesNoGap, Events
    <3>3. viewer[c].last > e
      BY <1>2, <3>1, <3>2, StreamTypes DEF StreamInv, Events
    <3>4. QED
      BY <3>2, <3>3
  <2>3. ASSUME NEW f \in Buffered', f <= viewer[c].last
        PROVE  \/ f \in viewer[c].seen \cup overtaken'
               \/ f \notin Published /\ \E g \in Published : g > f
    <3>1. CASE f = e
      BY <2>2, <2>3, <3>1
    <3>2. CASE f \in Buffered
      BY <1>5, <2>1, <2>3, <3>2 DEF NamesNoGap
    <3>3. QED
      BY <1>4, <3>1, <3>2
  <2>4. viewer[c].seen \subseteq EverBuffered' /\ viewer[c].last \in viewer[c].seen \cup {0}
    BY <1>8, <2>1 DEF NamesNoGap
  <2>5. QED
    BY <1>7, <2>1, <2>3, <2>4 DEF NamesNoGap
<1>12. ASSUME NEW c \in Viewers
       PROVE  GetsTheRest(c)' /\ HearsQuestions(c)' /\ Subscribes(c)'
  <2>1. \A f \in Published' \cap Buffered' : f \in Published \cap Buffered
    BY <1>4, <1>7, <1>8
  <2>2. GetsTheRest(c)'
    BY <1>1, <1>5, <2>1 DEF StreamInv, GetsTheRest, Ahead, OfEvent, IsEvent
  <2>3. QED
    BY <1>1, <2>2 DEF StreamInv, HearsQuestions, Subscribes, Ahead, Asks
<1>13. QED
  BY <1>1, <1>6, <1>9, <1>10, <1>11, <1>12 DEF StreamInv

\* The event is published: it comes to every connection, and was overtaken if one
\* with a greater id is published.
LEMMA BroadcastInv ==
  ASSUME StreamInv, NEW p \in Publishers, Broadcast(p)
  PROVE  StreamInv'
<1>0. PICK e : e = publisher[p].event
  OBVIOUS
<1>1. /\ publisher[p].pc = "buffered" /\ sent' = Append(sent, [event |-> e])
      /\ overtaken' = IF \E f \in Published : f > e THEN overtaken \cup {e} ELSE overtaken
      /\ publisher' = [publisher EXCEPT ![p] = Quiet]
      /\ UNCHANGED <<nextId, buffer, pending, announced, resolved, link, viewer, links>>
  BY <1>0 DEF Broadcast
<1>2. Quiet \in [pc : Pcs, event : 0..MaxEvents] /\ e \in Events /\ e \in 1..nextId
  <2>1. nextId \in 0..MaxEvents /\ MaxEvents \in Nat
    BY StreamTypes DEF StreamInv
  <2>2. e \in 1..nextId
    BY <1>0, <1>1 DEF StreamInv, Drawn
  <2>3. QED
    BY <2>1, <2>2 DEF Pcs, Events, Quiet
<1>3. /\ publisher' \in [Publishers -> [pc : {"idle", "drawn", "buffered"}, event : 0..MaxEvents]]
      /\ publisher'[p] = Quiet /\ \A o \in Publishers : o # p => publisher'[o] = publisher[o]
  BY <1>1, <1>2, PublisherMoves DEF StreamInv
<1>4. [event |-> e] \in Message /\ "event" \in DOMAIN [event |-> e] /\ [event |-> e].event = e
  BY <1>2, SentMessages
<1>5. overtaken' \subseteq Events /\ overtaken \subseteq overtaken'
      /\ ((\E f \in Published : f > e) => e \in overtaken')
  BY <1>1, <1>2 DEF StreamInv, StreamTypeOK
<1>6. StreamTypeOK'
  BY <1>1, <1>3, <1>4, <1>5, Sends, LinksTyped DEF StreamInv, StreamTypeOK
<1>7. Published' = Published \cup {e} /\ Buffered' = Buffered
  BY <1>1, <1>4, Sends DEF StreamInv, Buffered
<1>8. EverBuffered' = EverBuffered /\ e \in EverBuffered
  <2>1. \A o \in Publishers : publisher'[o].pc = "drawn" <=> publisher[o].pc = "drawn"
    BY <1>1, <1>3 DEF Quiet
  <2>2. \A o \in Publishers : publisher[o].pc = "drawn" => publisher'[o].event = publisher[o].event
                              /\ publisher[o].event # e
    BY <1>0, <1>1, <1>3 DEF StreamInv, Drawn
  <2>3. QED
    BY <1>1, <1>2, <2>1, <2>2 DEF EverBuffered
<1>9. Drawn'
  <2>1. \A o \in Publishers : publisher'[o].pc # "idle" =>
          o # p /\ publisher'[o] = publisher[o] /\ publisher[o].event # e
    BY <1>0, <1>1, <1>3 DEF StreamInv, Drawn, Quiet
  <2>2. Published' \subseteq EverBuffered' /\ Buffered' \subseteq EverBuffered'
    BY <1>7, <1>8 DEF StreamInv, Drawn
  <2>3. QED
    BY <1>1, <1>7, <2>1, <2>2 DEF StreamInv, Drawn
<1>10. InOrder'
  BY <1>1, <1>4, <1>5, OrderKept DEF StreamInv
<1>11. ASSUME NEW c \in Viewers
       PROVE  NamesNoGap(c)' /\ GetsTheRest(c)' /\ HearsQuestions(c)' /\ Subscribes(c)'
  <2>1. NamesNoGap(c) /\ GetsTheRest(c) /\ HearsQuestions(c) /\ Subscribes(c)
        /\ viewer'[c] = viewer[c] /\ link'[c] = link[c]
    BY <1>1 DEF StreamInv
  <2>2. NamesNoGap(c)'
    BY <1>5, <1>7, <1>8, <2>1 DEF NamesNoGap
  <2>3. /\ \A i \in Ahead(c) : i \in Ahead(c)' /\ sent'[i] = sent[i]
        /\ Len(sent') \in Ahead(c)'
    <3>1. sent' # sent
      BY <1>1, <1>4, Sends, StreamTypes DEF StreamInv
    <3>2. QED
      BY <1>1, <1>4, <2>1, <3>1, AheadKept DEF StreamInv
  <2>4. OfEvent(Len(sent), e)'
    BY <1>1, <1>4, Sends DEF StreamInv, OfEvent, IsEvent
  <2>5. \A f \in Published' \cap Buffered' : f \in Published \cap Buffered \/ f = e
    BY <1>7
  <2>6. GetsTheRest(c)'
    BY <1>5, <2>1, <2>3, <2>4, <2>5, GetsKept
  <2>7. HearsQuestions(c)'
    BY <1>1, <2>1, <2>3, HearsKept
  <2>8. QED
    BY <2>1, <2>2, <2>6, <2>7 DEF Subscribes
<1>12. QED
  BY <1>1, <1>6, <1>9, <1>10, <1>11 DEF StreamInv

-----------------------------------------------------------------------------
(* Questions                                                                *)

\* A message that is no event leaves the events as they are.
LEMMA TellsInv ==
  ASSUME StreamInv, NEW m \in Message, "event" \notin DOMAIN m, sent' = Append(sent, m),
         pending' \subseteq Questions, announced' \subseteq Questions, resolved' \subseteq Questions,
         announced' \subseteq pending' \cup resolved',
         \A q \in pending' \cap announced' :
           q \in pending \cap announced \/ ("asked" \in DOMAIN m /\ m.asked = q),
         UNCHANGED <<nextId, publisher, buffer, link, viewer, links, overtaken>>
  PROVE  StreamInv'
<1>1. StreamTypeOK'
  BY Sends, LinksTyped DEF StreamInv, StreamTypeOK
<1>2. Published' = Published /\ Buffered' = Buffered /\ EverBuffered' = EverBuffered
  <2>1. \A e : e \in Published' <=> e \in Published
    BY Sends DEF StreamInv
  <2>2. Published' = Published
    BY <2>1
  <2>3. QED
    BY <2>2 DEF Buffered, EverBuffered
<1>3. Drawn'
  BY <1>2 DEF StreamInv, Drawn
<1>4. InOrder'
  BY OrderKept DEF StreamInv
<1>5. ASSUME NEW c \in Viewers
      PROVE  NamesNoGap(c)' /\ GetsTheRest(c)' /\ HearsQuestions(c)' /\ Subscribes(c)'
  <2>1. NamesNoGap(c) /\ GetsTheRest(c) /\ HearsQuestions(c) /\ Subscribes(c)
        /\ viewer'[c] = viewer[c] /\ link'[c] = link[c]
    BY DEF StreamInv
  <2>2. NamesNoGap(c)'
    BY <1>2, <2>1 DEF NamesNoGap
  <2>3. /\ \A i \in Ahead(c) : i \in Ahead(c)' /\ sent'[i] = sent[i]
        /\ Len(sent') \in Ahead(c)'
    <3>1. sent' # sent
      BY Sends, StreamTypes DEF StreamInv
    <3>2. QED
      BY <2>1, <3>1, AheadKept DEF StreamInv
  <2>4. \A q : "asked" \in DOMAIN m /\ m.asked = q => Asks(Len(sent), q)'
    BY Sends DEF StreamInv, Asks
  <2>5. GetsTheRest(c)'
    BY <1>2, <2>1, <2>3, GetsKept
  <2>6. HearsQuestions(c)'
    BY <2>1, <2>3, <2>4, HearsKept
  <2>7. QED
    BY <2>1, <2>2, <2>5, <2>6 DEF Subscribes
<1>6. QED
  BY <1>1, <1>3, <1>4, <1>5 DEF StreamInv

\* A question is not announced before it is pending.
LEMMA QuestionInv ==
  ASSUME StreamInv, NEW q \in Questions, PostQuestion(q) \/ Announce(q) \/ Resolve(q)
  PROVE  StreamInv'
<1>1. CASE PostQuestion(q)
  <2>1. /\ q \notin announced /\ pending' = pending \cup {q}
        /\ UNCHANGED <<nextId, publisher, buffer, sent, announced, resolved, link, viewer, links, overtaken>>
    BY <1>1 DEF PostQuestion, StreamInv
  <2>2. StreamTypeOK'
    BY <2>1 DEF StreamInv, StreamTypeOK
  <2>3. /\ Drawn' /\ InOrder'
        /\ Published' = Published /\ Buffered' = Buffered /\ EverBuffered' = EverBuffered
    BY <2>1, StreamSame
  <2>4. ASSUME NEW c \in Viewers
        PROVE  NamesNoGap(c)' /\ GetsTheRest(c)' /\ HearsQuestions(c)' /\ Subscribes(c)'
    <3>1. NamesNoGap(c)' /\ GetsTheRest(c)' /\ Subscribes(c)'
      BY <2>1, <2>3 DEF StreamInv, NamesNoGap, GetsTheRest, Subscribes, Ahead, OfEvent, IsEvent
    <3>2. HearsQuestions(c)'
      BY <2>1 DEF StreamInv, HearsQuestions, Ahead, Asks
    <3>3. QED
      BY <3>1, <3>2
  <2>5. QED
    BY <2>1, <2>2, <2>3, <2>4 DEF StreamInv
<1>2. CASE Announce(q)
  <2>1. /\ q \in pending \cup resolved /\ announced' = announced \cup {q}
        /\ sent' = Append(sent, [asked |-> q])
        /\ UNCHANGED <<nextId, publisher, buffer, pending, resolved, link, viewer, links, overtaken>>
    BY <1>2 DEF Announce
  <2>2. /\ [asked |-> q] \in Message /\ "event" \notin DOMAIN [asked |-> q]
        /\ "asked" \in DOMAIN [asked |-> q] /\ [asked |-> q].asked = q
    BY SentMessages
  <2>3. /\ pending' \subseteq Questions /\ announced' \subseteq Questions /\ resolved' \subseteq Questions
        /\ announced' \subseteq pending' \cup resolved'
        /\ \A d \in pending' \cap announced' : d \in pending \cap announced \/ d = q
    BY <2>1 DEF StreamInv, StreamTypeOK
  <2>4. QED
    BY <2>1, <2>2, <2>3, TellsInv
<1>3. CASE Resolve(q)
  <2>1. /\ pending' = pending \ {q} /\ resolved' = resolved \cup {q}
        /\ sent' = Append(sent, [resolved |-> q])
        /\ UNCHANGED <<nextId, publisher, buffer, announced, link, viewer, links, overtaken>>
    BY <1>3 DEF Resolve
  <2>2. [resolved |-> q] \in Message /\ "event" \notin DOMAIN [resolved |-> q]
    BY SentMessages
  <2>3. /\ pending' \subseteq Questions /\ announced' \subseteq Questions /\ resolved' \subseteq Questions
        /\ announced' \subseteq pending' \cup resolved'
        /\ \A d \in pending' \cap announced' : d \in pending \cap announced
    BY <2>1 DEF StreamInv, StreamTypeOK
  <2>4. QED
    BY <2>1, <2>2, <2>3, TellsInv
<1>4. QED
  BY <1>1, <1>2, <1>3

-----------------------------------------------------------------------------
(* Connections                                                              *)

\* A step of one connection and its viewer.
LEMMA ViewerMoves ==
  ASSUME StreamInv, NEW c \in Viewers, NEW r \in LinkRecords, NEW v \in ViewerRecords,
         link' = [link EXCEPT ![c] = r], viewer' = [viewer EXCEPT ![c] = v],
         links' \in 0..MaxLinks,
         UNCHANGED <<nextId, publisher, buffer, sent, pending, announced, resolved, overtaken>>,
         NamesNoGap(c)', GetsTheRest(c)', HearsQuestions(c)', Subscribes(c)'
  PROVE  StreamInv'
<1>1. /\ link' \in [Viewers -> LinkRecords] /\ viewer' \in [Viewers -> ViewerRecords]
      /\ \A d \in Viewers : d # c => link'[d] = link[d] /\ viewer'[d] = viewer[d]
  BY DEF StreamInv, StreamTypeOK, LinkRecords, LinkPcs, ViewerRecords
<1>2. StreamTypeOK'
  BY <1>1 DEF StreamInv, StreamTypeOK, LinkRecords, LinkPcs, ViewerRecords
<1>3. /\ Drawn' /\ InOrder'
      /\ Published' = Published /\ Buffered' = Buffered /\ EverBuffered' = EverBuffered
  BY StreamSame
<1>4. ASSUME NEW d \in Viewers, d # c
      PROVE  NamesNoGap(d)' /\ GetsTheRest(d)' /\ HearsQuestions(d)' /\ Subscribes(d)'
  BY <1>1, <1>3, <1>4
     DEF StreamInv, NamesNoGap, GetsTheRest, HearsQuestions, Subscribes, Ahead, OfEvent, IsEvent, Asks
<1>5. QED
  BY <1>2, <1>3, <1>4 DEF StreamInv

\* The records of the connection and the viewer that moves.
LEMMA MovedRecords ==
  ASSUME StreamTypeOK, NEW c \in Viewers
  PROVE  /\ \A r : link' = [link EXCEPT ![c] = r] => link'[c] = r
         /\ \A v : viewer' = [viewer EXCEPT ![c] = v] => viewer'[c] = v
         /\ viewer = [viewer EXCEPT ![c] = viewer[c]]
BY DEF StreamTypeOK

\* What a connection that opens, closes or comes further with its viewer as it was
\* keeps: its history, if it has any, as it was, and no question to hear of.
LEMMA LinkOnlyInv ==
  ASSUME StreamInv, NEW c \in Viewers, NEW r \in LinkRecords,
         link' = [link EXCEPT ![c] = r], links' \in 0..MaxLinks,
         UNCHANGED <<nextId, publisher, buffer, sent, pending, announced, resolved, viewer, overtaken>>,
         r.history => link[c].history /\ r.at = link[c].at /\ r.pc = "open",
         r.pc = "open" => r.late \/ r.lagged,
         r.pc \in {"initialised", "unsubscribed"} => r.late
  PROVE  StreamInv'
<1>1. viewer[c] \in ViewerRecords /\ viewer' = [viewer EXCEPT ![c] = viewer[c]]
      /\ link'[c] = r
  BY StreamTypes, MovedRecords DEF StreamInv
<1>2. Published' = Published /\ Buffered' = Buffered /\ EverBuffered' = EverBuffered
  BY StreamSame
<1>3. NamesNoGap(c)' /\ Subscribes(c)' /\ HearsQuestions(c)'
  BY <1>1, <1>2 DEF StreamInv, NamesNoGap, Subscribes, HearsQuestions
<1>4. GetsTheRest(c)'
  BY <1>1, <1>2 DEF StreamInv, GetsTheRest, Ahead, OfEvent, IsEvent
<1>5. QED
  BY <1>1, <1>3, <1>4, ViewerMoves

LEMMA OpenInv ==
  ASSUME StreamInv, NEW c \in Viewers, OpenLink(c)
  PROVE  StreamInv'
<1>1. Len(sent) \in 0..Len(sent) /\ 0 \in 0..Len(sent)
  BY StreamTypes DEF StreamInv
<1>2. /\ links' \in 0..MaxLinks
      /\ UNCHANGED <<nextId, publisher, buffer, sent, pending, announced, resolved, viewer, overtaken>>
  BY StreamBoundsAssumption DEF OpenLink, StreamInv, StreamTypeOK
<1>3. ASSUME NEW r \in LinkRecords, link' = [link EXCEPT ![c] = r], ~r.history,
             r.pc = "subscribed" \/ (r.pc = "initialised" /\ r.late)
      PROVE  StreamInv'
  BY <1>2, <1>3, LinkOnlyInv
<1>4. CASE link' = [link EXCEPT ![c] = [NoLink EXCEPT !.pc = "subscribed", !.at = Len(sent)]]
  <2> DEFINE r == [NoLink EXCEPT !.pc = "subscribed", !.at = Len(sent)]
  <2>1. r \in LinkRecords /\ ~r.history /\ r.pc = "subscribed"
    BY <1>1 DEF NoLink, LinkRecords, LinkPcs
  <2> HIDE DEF r
  <2>2. QED
    BY <1>3, <1>4, <2>1 DEF r
<1>5. CASE link' = [link EXCEPT ![c] = [NoLink EXCEPT !.pc = "initialised", !.late = TRUE]]
  <2> DEFINE r == [NoLink EXCEPT !.pc = "initialised", !.late = TRUE]
  <2>1. r \in LinkRecords /\ ~r.history /\ r.pc = "initialised" /\ r.late
    BY <1>1 DEF NoLink, LinkRecords, LinkPcs
  <2> HIDE DEF r
  <2>2. QED
    BY <1>3, <1>5, <2>1 DEF r
<1>6. QED
  BY <1>4, <1>5 DEF OpenLink

LEMMA DropInv ==
  ASSUME StreamInv, NEW c \in Viewers, DropLink(c)
  PROVE  StreamInv'
<1>1. NoLink \in LinkRecords /\ ~NoLink.history /\ NoLink.pc = "off"
  BY StreamTypes DEF StreamInv, NoLink, LinkRecords, LinkPcs
<1>2. /\ link' = [link EXCEPT ![c] = NoLink] /\ links' \in 0..MaxLinks
      /\ UNCHANGED <<nextId, publisher, buffer, sent, pending, announced, resolved, viewer, overtaken>>
  BY DEF DropLink, StreamInv, StreamTypeOK
<1>3. QED
  BY <1>1, <1>2, LinkOnlyInv

\* A connection that subscribes after its snapshot has no history yet.
LEMMA SubscribeLateInv ==
  ASSUME StreamInv, NEW c \in Viewers, SubscribeLate(c)
  PROVE  StreamInv'
<1> DEFINE r == [link[c] EXCEPT !.pc = "open", !.at = Len(sent)]
<1>1. link[c] \in LinkRecords /\ Len(sent) \in 0..Len(sent)
  BY StreamTypes DEF StreamInv
<1>2. link[c].pc = "unsubscribed" /\ link[c].late /\ ~link[c].history
  BY DEF SubscribeLate, StreamInv, Subscribes
<1>3. r \in LinkRecords /\ r.pc = "open" /\ r.late /\ ~r.history
  BY <1>1, <1>2 DEF LinkRecords, LinkPcs
<1>4. /\ link' = [link EXCEPT ![c] = r] /\ links' \in 0..MaxLinks
      /\ UNCHANGED <<nextId, publisher, buffer, sent, pending, announced, resolved, viewer, overtaken>>
  BY DEF SubscribeLate, StreamInv, StreamTypeOK
<1>5. QED
  <2> HIDE DEF r
  <2>1. QED
    BY <1>3, <1>4, LinkOnlyInv

\* The snapshot has every question that is pending.
LEMMA SnapshotInv ==
  ASSUME StreamInv, NEW c \in Viewers, Snapshot(c)
  PROVE  StreamInv'
<1> DEFINE pc == IF link[c].pc = "subscribed" THEN "open" ELSE "unsubscribed"
           r == [link[c] EXCEPT !.pc = pc]
           v == [viewer[c] EXCEPT !.asked = @ \cup pending]
<1>1. link[c] \in LinkRecords /\ viewer[c] \in ViewerRecords /\ pending \subseteq Questions
  BY StreamTypes DEF StreamInv, StreamTypeOK
<1>2. link[c].pc \in {"subscribed", "initialised"} /\ ~link[c].history
      /\ (link[c].pc = "initialised" => link[c].late)
  BY DEF Snapshot, StreamInv, Subscribes
<1>3. /\ r \in LinkRecords /\ r.pc = pc /\ r.late = link[c].late /\ ~r.history
      /\ v \in ViewerRecords /\ v.seen = viewer[c].seen /\ v.last = viewer[c].last
      /\ pending \subseteq v.asked
  BY <1>1, <1>2 DEF LinkRecords, LinkPcs, ViewerRecords
<1>4. /\ link' = [link EXCEPT ![c] = r] /\ viewer' = [viewer EXCEPT ![c] = v]
      /\ links' \in 0..MaxLinks
      /\ UNCHANGED <<nextId, publisher, buffer, sent, pending, announced, resolved, overtaken>>
  BY DEF Snapshot, StreamInv, StreamTypeOK
<1> HIDE DEF r, v
<1>5. link'[c] = r /\ viewer'[c] = v
  BY <1>4, MovedRecords DEF StreamInv
<1>6. Published' = Published /\ Buffered' = Buffered /\ EverBuffered' = EverBuffered
  BY <1>4, StreamSame
<1>7. NamesNoGap(c)' /\ GetsTheRest(c)' /\ HearsQuestions(c)' /\ Subscribes(c)'
  BY <1>2, <1>3, <1>4, <1>5, <1>6 DEF StreamInv, NamesNoGap, GetsTheRest, HearsQuestions, Subscribes
<1>8. QED
  BY <1>3, <1>4, <1>7, ViewerMoves

\* What a viewer remembers of a message, and where that leaves its last event.
LEMMA RemembersIs ==
  ASSUME NEW v \in ViewerRecords, NEW m \in Message, NEW gapless \in BOOLEAN,
         MaxEvents \in Nat
  PROVE  /\ Remembers(v, m, gapless) \in ViewerRecords
         /\ v.seen \subseteq Remembers(v, m, gapless).seen
         /\ v.asked \subseteq Remembers(v, m, gapless).asked
         /\ "asked" \in DOMAIN m => m.asked \in Remembers(v, m, gapless).asked
         /\ "event" \in DOMAIN m => Remembers(v, m, gapless).seen = v.seen \cup {m.event}
         /\ "event" \notin DOMAIN m => Remembers(v, m, gapless).seen = v.seen
         /\ \/ Remembers(v, m, gapless).last = v.last
            \/ /\ gapless /\ "event" \in DOMAIN m /\ m.event > v.last
               /\ Remembers(v, m, gapless).last = m.event
<1>1. CASE "event" \in DOMAIN m
  <2> DEFINE last == IF gapless THEN Greater(v.last, m.event) ELSE v.last
  <2>1. m.event \in Events /\ "asked" \notin DOMAIN m
    BY <1>1, SentMessages
  <2>2. last \in 0..MaxEvents
        /\ (last = v.last \/ (gapless /\ m.event > v.last /\ last = m.event))
    BY <2>1 DEF Greater, Events, ViewerRecords
  <2>3. Remembers(v, m, gapless) = [v EXCEPT !.seen = @ \cup {m.event}, !.last = last]
    BY <1>1 DEF Remembers
  <2> HIDE DEF last
  <2>4. QED
    BY <1>1, <2>1, <2>2, <2>3 DEF ViewerRecords
<1>2. CASE "event" \notin DOMAIN m /\ "asked" \in DOMAIN m
  <2>1. Remembers(v, m, gapless) = [v EXCEPT !.asked = @ \cup {m.asked}] /\ m.asked \in Questions
    BY <1>2, SentMessages DEF Remembers
  <2>2. QED
    BY <1>2, <2>1 DEF ViewerRecords
<1>3. CASE "event" \notin DOMAIN m /\ "asked" \notin DOMAIN m
  BY <1>3 DEF Remembers
<1>4. QED
  BY <1>1, <1>2, <1>3

\* The next message: a viewer with history that gets an event ahead of one it lacks
\* knows, by the order of the messages, that the one it lacks was overtaken.
LEMMA NextMessageInv ==
  ASSUME StreamInv, NEW c \in Viewers, Subscribed(c), link[c].at < Len(sent),
         link' = [link EXCEPT ![c].at = @ + 1],
         viewer' = [viewer EXCEPT ![c] = Remembers(@, sent[link[c].at + 1], link[c].history)],
         UNCHANGED <<nextId, publisher, buffer, sent, pending, announced, resolved, links, overtaken>>
  PROVE  StreamInv'
<1>1. PICK next : next = link[c].at + 1
  OBVIOUS
<1>2. PICK m : m = sent[next]
  OBVIOUS
<1> DEFINE r == [link[c] EXCEPT !.at = next]
           v == Remembers(viewer[c], m, link[c].history)
<1>3. link[c] \in LinkRecords /\ viewer[c] \in ViewerRecords /\ MaxEvents \in Nat
  BY StreamTypes DEF StreamInv
<1>4. next \in 1..Len(sent) /\ m \in Message /\ next \in Ahead(c)
  BY <1>1, <1>2, <1>3, StreamTypes DEF StreamInv, LinkRecords, Ahead
<1>5. link[c].history \in BOOLEAN
  BY <1>3 DEF LinkRecords
<1>6. /\ r \in LinkRecords /\ r.at = next /\ r.pc = link[c].pc /\ r.late = link[c].late
      /\ r.lagged = link[c].lagged /\ r.history = link[c].history
  BY <1>3, <1>4 DEF LinkRecords
<1>7. /\ v \in ViewerRecords /\ viewer[c].seen \subseteq v.seen /\ viewer[c].asked \subseteq v.asked
      /\ "asked" \in DOMAIN m => m.asked \in v.asked
      /\ "event" \in DOMAIN m => v.seen = viewer[c].seen \cup {m.event}
      /\ "event" \notin DOMAIN m => v.seen = viewer[c].seen
      /\ \/ v.last = viewer[c].last
         \/ /\ link[c].history /\ "event" \in DOMAIN m /\ m.event > viewer[c].last
            /\ v.last = m.event
  BY <1>3, <1>4, <1>5, RemembersIs
<1>8. link' = [link EXCEPT ![c] = r] /\ viewer' = [viewer EXCEPT ![c] = v]
  BY <1>1, <1>2 DEF StreamInv, StreamTypeOK
<1> HIDE DEF r, v
<1>9. link'[c] = r /\ viewer'[c] = v
  BY <1>8, MovedRecords DEF StreamInv
<1>10. Published' = Published /\ Buffered' = Buffered /\ EverBuffered' = EverBuffered
  BY StreamSame
<1>11. \A i \in Ahead(c) : i = next \/ i \in Ahead(c)'
  BY <1>1, <1>6, <1>9, <1>3, StreamTypes DEF Ahead, StreamInv, LinkRecords
<1>12. "event" \in DOMAIN m => m.event \in Published /\ m.event \in EverBuffered /\ OfEvent(next, m.event)
  BY <1>2, <1>4, PublishedIs DEF StreamInv, Drawn, OfEvent, IsEvent
<1>13. GetsTheRest(c)'
  <2>1. SUFFICES ASSUME link[c].history, NEW e \in Published \cap Buffered
                 PROVE  e \in v.seen \cup overtaken \/ \E i \in Ahead(c)' : OfEvent(i, e)'
    BY <1>6, <1>9, <1>10 DEF GetsTheRest
  <2>2. CASE e \in viewer[c].seen \cup overtaken
    BY <1>7, <2>2
  <2>3. CASE \E i \in Ahead(c) : OfEvent(i, e)
    <3>1. PICK i \in Ahead(c) : OfEvent(i, e)
      BY <2>3
    <3>2. CASE i = next
      BY <1>2, <1>7, <3>1, <3>2 DEF OfEvent, IsEvent
    <3>3. CASE i # next
      BY <1>11, <3>1, <3>3 DEF OfEvent, IsEvent
    <3>4. QED
      BY <3>2, <3>3
  <2>4. QED
    BY <2>1, <2>2, <2>3 DEF StreamInv, GetsTheRest
<1>14. NamesNoGap(c)'
  <2>1. v.seen \subseteq EverBuffered /\ v.last \in v.seen \cup {0}
    BY <1>7, <1>12 DEF StreamInv, NamesNoGap
  <2>2. ASSUME NEW e \in Buffered, e <= v.last
        PROVE  e \in v.seen \cup overtaken \/ (e \notin Published /\ \E f \in Published : f > e)
    <3>1. CASE e <= viewer[c].last
      BY <1>7, <2>2, <3>1 DEF StreamInv, NamesNoGap
    <3>2. CASE ~(e <= viewer[c].last)
      <4>1. /\ link[c].history /\ "event" \in DOMAIN m /\ v.last = m.event
            /\ m.event \in Published /\ OfEvent(next, m.event)
        BY <1>7, <1>12, <2>2, <3>2
      <4>2. e \in Nat /\ m.event \in Nat
        BY <2>2, <4>1, StreamTypes DEF StreamInv, Events
      <4>3. CASE e = m.event
        BY <1>7, <4>1, <4>3
      <4>4. CASE e # m.event /\ e \notin Published
        BY <2>2, <4>1, <4>2, <4>4
      <4>5. CASE e # m.event /\ e \in Published
        <5>1. e \in viewer[c].seen \cup overtaken \/ \E i \in Ahead(c) : OfEvent(i, e)
          BY <2>2, <4>1, <4>5 DEF StreamInv, GetsTheRest
        <5>2. ASSUME NEW i \in Ahead(c), OfEvent(i, e)
              PROVE  e \in overtaken
          <6>1. i # next
            BY <1>2, <4>5, <5>2 DEF OfEvent
          <6>2. next < i /\ i \in 1..Len(sent)
            BY <1>1, <1>3, <1>4, <5>2, <6>1 DEF Ahead, LinkRecords
          <6>3. sent[next].event > sent[i].event /\ sent[i].event = e
            BY <1>2, <2>2, <4>1, <4>2, <4>5, <5>2 DEF OfEvent
          <6>4. QED
            BY <1>4, <4>1, <5>2, <6>2, <6>3 DEF StreamInv, InOrder, OfEvent
        <5>3. QED
          BY <1>7, <5>1, <5>2
      <4>6. QED
        BY <4>3, <4>4, <4>5
    <3>3. QED
      BY <3>1, <3>2
  <2>3. QED
    BY <1>9, <1>10, <2>1, <2>2 DEF NamesNoGap
<1>15. HearsQuestions(c)'
  <2>1. SUFFICES ASSUME link[c].pc = "open", ~link[c].late, ~link[c].lagged,
                        NEW q \in pending \cap announced
                 PROVE  q \in v.asked \/ \E i \in Ahead(c)' : Asks(i, q)'
    BY <1>6, <1>9 DEF HearsQuestions
  <2>2. q \in viewer[c].asked \/ \E i \in Ahead(c) : Asks(i, q)
    BY <2>1 DEF StreamInv, HearsQuestions
  <2>3. ASSUME NEW i \in Ahead(c), Asks(i, q)
        PROVE  q \in v.asked \/ (i \in Ahead(c)' /\ Asks(i, q)')
    BY <1>2, <1>7, <1>11, <2>3 DEF Asks
  <2>4. QED
    BY <1>7, <2>2, <2>3
<1>16. Subscribes(c)'
  BY <1>6, <1>9 DEF StreamInv, Subscribes
<1>17. links' \in 0..MaxLinks /\ r \in LinkRecords /\ v \in ViewerRecords
  BY <1>6, <1>7 DEF StreamInv, StreamTypeOK
<1>18. QED
  BY <1>8, <1>13, <1>14, <1>15, <1>16, <1>17, ViewerMoves

LEMMA ForwardInv ==
  ASSUME StreamInv, NEW c \in Viewers, Forward(c)
  PROVE  StreamInv'
<1>1. /\ Subscribed(c) /\ link[c].at < Len(sent)
      /\ UNCHANGED <<nextId, publisher, buffer, sent, pending, announced, resolved, links, overtaken>>
  BY DEF Forward
<1>2. CASE Len(sent) - link[c].at > ChannelSize
  <2> DEFINE r == [link[c] EXCEPT !.at = Len(sent) - ChannelSize, !.lagged = TRUE, !.history = FALSE]
  <2>1. link[c] \in LinkRecords /\ Len(sent) \in Nat /\ ChannelSize \in Nat \ {0}
    BY StreamTypes, SizesAssumption DEF StreamInv
  <2>2. Len(sent) - ChannelSize \in 0..Len(sent)
    BY <1>2, <2>1 DEF LinkRecords
  <2>3. r \in LinkRecords /\ r.pc = link[c].pc /\ r.lagged /\ ~r.history
    BY <2>1, <2>2 DEF LinkRecords
  <2>4. link' = [link EXCEPT ![c] = r] /\ UNCHANGED viewer
    BY <1>2 DEF Forward, StreamInv, StreamTypeOK
  <2>5. r.pc \notin {"initialised", "unsubscribed"}
    BY <1>1, <2>3 DEF Subscribed
  <2>6. QED
    <3> HIDE DEF r
    <3>1. QED
      BY <1>1, <2>3, <2>4, <2>5, LinkOnlyInv DEF StreamInv, StreamTypeOK
<1>3. CASE ~(Len(sent) - link[c].at > ChannelSize)
  BY <1>1, <1>3, NextMessageInv DEF Forward
<1>4. QED
  BY <1>2, <1>3

\* History: the viewer gets what is buffered after its last event; what it lacks
\* before that was overtaken, or is not published yet.
LEMMA CatchUpInv ==
  ASSUME StreamInv, NEW c \in Viewers, CatchUp(c)
  PROVE  StreamInv'
<1>1. PICK seen : seen = viewer[c].seen \cup SinceLast(c)
  OBVIOUS
<1>2. PICK last \in seen \cup {0} :
        /\ \A e \in seen : e <= last
        /\ viewer' = [viewer EXCEPT ![c].seen = seen, ![c].last = last]
  BY <1>1 DEF CatchUp
<1> DEFINE r == [link[c] EXCEPT !.history = TRUE]
           v == [viewer[c] EXCEPT !.seen = seen, !.last = last]
<1>3. /\ link[c].pc = "open" /\ ~link[c].history /\ link' = [link EXCEPT ![c].history = TRUE]
      /\ UNCHANGED <<nextId, publisher, buffer, sent, pending, announced, resolved, links, overtaken>>
  BY DEF CatchUp
<1>4. link[c] \in LinkRecords /\ viewer[c] \in ViewerRecords /\ MaxEvents \in Nat
  BY StreamTypes DEF StreamInv
<1>5. \A e : e \in SinceLast(c) <=> e \in Buffered /\ e > viewer[c].last
  BY BufferedIs DEF SinceLast
<1>6. seen \subseteq EverBuffered /\ seen \subseteq Events /\ last \in 0..MaxEvents
  BY <1>1, <1>2, <1>4, <1>5, StreamTypes DEF StreamInv, NamesNoGap, Drawn, Events
<1>7. /\ r \in LinkRecords /\ r.at = link[c].at /\ r.pc = link[c].pc /\ r.late = link[c].late
      /\ r.lagged = link[c].lagged /\ r.history
  BY <1>4 DEF LinkRecords
<1>8. v \in ViewerRecords /\ v.seen = seen /\ v.last = last /\ v.asked = viewer[c].asked
  BY <1>4, <1>6 DEF ViewerRecords
<1>9. link' = [link EXCEPT ![c] = r] /\ viewer' = [viewer EXCEPT ![c] = v]
  BY <1>2, <1>3 DEF StreamInv, StreamTypeOK
<1> HIDE DEF r, v
<1>10. link'[c] = r /\ viewer'[c] = v
  BY <1>9, MovedRecords DEF StreamInv
<1>11. Published' = Published /\ Buffered' = Buffered /\ EverBuffered' = EverBuffered
  BY <1>3, StreamSame
<1>12. ASSUME NEW e \in Buffered
       PROVE  e \in seen \cup overtaken \/ (e \notin Published /\ \E f \in Published : f > e)
  <2>1. CASE e <= viewer[c].last
    BY <1>1, <1>12, <2>1 DEF StreamInv, NamesNoGap
  <2>2. CASE ~(e <= viewer[c].last)
    <3>1. e > viewer[c].last
      BY <1>4, <1>12, <2>2, StreamTypes DEF StreamInv, Events, ViewerRecords
    <3>2. QED
      BY <1>1, <1>5, <1>12, <3>1
  <2>3. QED
    BY <2>1, <2>2
<1>13. NamesNoGap(c)'
  <2>1. v.seen \subseteq EverBuffered' /\ v.last \in v.seen \cup {0}
    BY <1>2, <1>6, <1>8, <1>11
  <2>2. \A e \in Buffered' :
          e \in v.seen \cup overtaken' \/ (e \notin Published' /\ \E f \in Published' : f > e)
    BY <1>3, <1>8, <1>11, <1>12
  <2>3. QED
    BY <1>10, <2>1, <2>2 DEF NamesNoGap
<1>14. GetsTheRest(c)'
  BY <1>3, <1>8, <1>10, <1>11, <1>12 DEF GetsTheRest
<1>15. HearsQuestions(c)' /\ Subscribes(c)'
  BY <1>3, <1>7, <1>8, <1>10 DEF StreamInv, HearsQuestions, Subscribes, Ahead, Asks
<1>16. links' \in 0..MaxLinks /\ r \in LinkRecords /\ v \in ViewerRecords
  BY <1>3, <1>7, <1>8 DEF StreamInv, StreamTypeOK
<1>17. QED
  BY <1>3, <1>9, <1>13, <1>14, <1>15, <1>16, ViewerMoves

-----------------------------------------------------------------------------
LEMMA StreamNextInv == StreamInv /\ [StreamNext]_streamVars => StreamInv'
<1>1. SUFFICES ASSUME StreamInv, [StreamNext]_streamVars PROVE StreamInv'
  OBVIOUS
<1>2. CASE \E p \in Publishers : Draw(p) \/ Buffer(p) \/ Broadcast(p)
  BY <1>1, <1>2, DrawInv, BufferInv, BroadcastInv
<1>3. CASE \E q \in Questions : PostQuestion(q) \/ Announce(q) \/ Resolve(q)
  BY <1>1, <1>3, QuestionInv
<1>4. CASE \E c \in Viewers : \/ OpenLink(c) \/ Snapshot(c) \/ SubscribeLate(c) \/ Forward(c)
                              \/ CatchUp(c) \/ DropLink(c)
  BY <1>1, <1>4, OpenInv, SnapshotInv, SubscribeLateInv, ForwardInv, CatchUpInv, DropInv
<1>5. CASE UNCHANGED streamVars
  <2>1. UNCHANGED <<nextId, publisher, buffer, sent, pending, announced, resolved, link, viewer,
                    links, overtaken>>
    BY <1>5 DEF streamVars
  <2>2. /\ Drawn' /\ InOrder'
        /\ Published' = Published /\ Buffered' = Buffered /\ EverBuffered' = EverBuffered
    BY <1>1, <2>1, StreamSame
  <2>3. StreamTypeOK'
    BY <1>1, <2>1 DEF StreamInv, StreamTypeOK
  <2>4. \A c \in Viewers : NamesNoGap(c)' /\ GetsTheRest(c)' /\ HearsQuestions(c)' /\ Subscribes(c)'
    BY <1>1, <2>1, <2>2
       DEF StreamInv, NamesNoGap, GetsTheRest, HearsQuestions, Subscribes, Ahead, OfEvent, IsEvent, Asks
  <2>5. QED
    BY <1>1, <2>1, <2>2, <2>3, <2>4 DEF StreamInv
<1>6. QED
  BY <1>1, <1>2, <1>3, <1>4, <1>5 DEF StreamNext

LEMMA StreamInvariant == StreamSpec => []StreamInv
BY StreamInitInv, StreamNextInv, PTL DEF StreamSpec

\* Every variable of the event stream keeps its type, for any publishers, viewers
\* and bounds, and the buffer its size (EventHub::publish_with_agent).
THEOREM StreamTypeCorrect == StreamSpec => []StreamTypeOK
<1>1. StreamInv => StreamTypeOK
  BY DEF StreamInv
<1> QED BY <1>1, StreamInvariant, PTL

\* Whatever threads publish at once and however often a viewer connects, lags and
\* asks for history: with everything sent to it since it has history, it lacks a
\* buffered event only if one with a greater id went ahead of it
\* (publish_with_agent, history_since, spawn_event_forwarder_for_connection).
THEOREM ViewersMissOnlyOvertaken == StreamSpec => []MissesOnlyOvertaken
BY StreamInvariant, StreamInvIsEnough, PTL

\* And it knows every question that is announced and pending, when it subscribed
\* before its snapshot and has not lagged (persist_pending_question,
\* send_ready_runtime_snapshot).
THEOREM QuestionsReachViewers == StreamSpec => []PendingQuestionsAreKnown
BY StreamInvariant, StreamInvIsEnough, PTL

(***************************************************************************)
(* WsSession                                                               *)
(***************************************************************************)

\* Where the handler of an update, and any handler, may be.
Updating == {"merged", "writing", "written", "loaded"}
Places == {"idle", "rendered", "built", "moved", "merged", "writing", "written", "loaded"}

\* A file that can be read is a version that was whole there; and once there is
\* one, what a handler will make of the file, or make live, is such a version.
ConfigSound ==
  /\ version \in Nat /\ step \in [Clients -> Places] /\ own \in [Clients -> Int]
  /\ file \in Int
  /\ file \notin {NoFile, Torn} => file \in everFile

HandlerSound(c) ==
  /\ step[c] \in {"rendered", "built", "merged", "writing"} => own[c] > 0
  /\ step[c] \in {"moved", "loaded"} => own[c] \in everFile
  /\ step[c] \in {"moved"} \cup Updating => file # NoFile

SessionInv == ConfigSound /\ LiveConfigIsOnDisk /\ \A c \in Clients : HandlerSound(c)

\* A handler goes on to a step with a version; the others stay where they are.
GoesTo(c, s, v) ==
  /\ step' = [step EXCEPT ![c] = s]
  /\ own' = [own EXCEPT ![c] = v]
-----------------------------------------------------------------------------
\* What becomes of the file and of what is live, as far as handlers rely on it.
StaysWhole ==
  /\ everFile \subseteq everFile'
  /\ file # NoFile => file' # NoFile

\* One handler moves.
LEMMA OneHandlerMoves ==
  ASSUME SessionInv, NEW c \in Clients, NEW s \in Places, NEW v \in Int,
         GoesTo(c, s, v), StaysWhole,
         s \in {"rendered", "built", "merged", "writing"} => v > 0,
         s \in {"moved", "loaded"} => v \in everFile',
         s \in {"moved"} \cup Updating => file' # NoFile
  PROVE  /\ step' \in [Clients -> Places] /\ own' \in [Clients -> Int]
         /\ \A d \in Clients : HandlerSound(d)'
<1>1. step \in [Clients -> Places] /\ own \in [Clients -> Int]
  BY DEF SessionInv, ConfigSound
<1>2. /\ step'[c] = s /\ own'[c] = v
      /\ \A d \in Clients : d # c => step'[d] = step[d] /\ own'[d] = own[d]
      /\ step' \in [Clients -> Places] /\ own' \in [Clients -> Int]
  BY <1>1 DEF GoesTo
<1>3. ASSUME NEW d \in Clients PROVE HandlerSound(d)'
  <2>1. CASE d = c
    BY <1>2, <2>1 DEF HandlerSound
  <2>2. CASE d # c
    BY <1>2, <2>2 DEF SessionInv, HandlerSound, StaysWhole
  <2> QED BY <2>1, <2>2
<1> QED BY <1>2, <1>3

\* A handler that is over, or whose connection is closed.
LEMMA HandlerOver ==
  ASSUME SessionInv, NEW c \in Clients, GoesTo(c, "idle", 0), UNCHANGED configVars
  PROVE  SessionInv'
<1>1. /\ step' \in [Clients -> Places] /\ own' \in [Clients -> Int]
      /\ \A d \in Clients : HandlerSound(d)'
  <2>1. StaysWhole
    BY DEF StaysWhole, configVars
  <2> QED BY <2>1, OneHandlerMoves DEF Updating, Places
<1> QED BY <1>1 DEF SessionInv, ConfigSound, LiveConfigIsOnDisk, configVars

\* No handler moves and the configuration stays.
LEMMA NoHandlerMoves ==
  ASSUME SessionInv, UNCHANGED <<configVars, step, own>>
  PROVE  SessionInv'
BY DEF SessionInv, ConfigSound, HandlerSound, LiveConfigIsOnDisk, configVars

\* The connection.
LEMMA ClientSteps ==
  ASSUME SessionInv, NEW c \in Clients, Client(c)
  PROVE  SessionInv'
<1>1. CASE Connect(c) \/ Accept(c) \/ \E k \in Kinds : Send(c, k)
  BY <1>1, NoHandlerMoves DEF Connect, Accept, Send
<1>2. CASE Reject(c) \/ Disconnect(c)
  BY <1>2, HandlerOver DEF Reject, Disconnect, Closed, GoesTo
<1> QED BY <1>1, <1>2 DEF Client

\* The jobs.
LEMMA JobSteps ==
  ASSUME SessionInv, NEW c \in Clients, JobStep(c)
  PROVE  SessionInv'
<1>1. UNCHANGED <<configVars, step, own>>
  <2>1. CASE Ask(c) \/ RunStarts(c) \/ ApprovalRequested(c) \/ RunEnds(c) \/ LoadPlan(c)
    BY <2>1 DEF Ask, RunStarts, ApprovalRequested, RunEnds, LoadPlan, Elsewhere
  <2>2. CASE GeneratePlan(c) \/ AnnounceStep(c) \/ ExecuteStep(c)
    BY <2>2 DEF GeneratePlan, AnnounceStep, ExecuteStep
  <2> QED BY <2>1, <2>2, SMTT(30) DEF JobStep
<1> QED BY <1>1, NoHandlerMoves

\* Requests that are answered, refused or handed to a job in one step.
LEMMA OneStepRequests ==
  ASSUME SessionInv, NEW c \in Clients,
         \/ Unparsed(c) \/ HelloAgain(c) \/ GetHistory(c) \/ GetConfig(c) \/ GetSkillDoc(c)
         \/ GetSupportedModels(c) \/ CancelWorkflow(c) \/ PauseWorkflow(c) \/ ResumeWorkflow(c)
         \/ ModifyPlan(c) \/ Interrupt(c) \/ AnswerQuestion(c) \/ GetSkillsList(c) \/ SetChatMode(c)
         \/ ImageUpload(c) \/ GetMemory(c) \/ GetMemoryReport(c) \/ TestApiKey(c)
         \/ SubmitChat(c) \/ SubmitPlan(c) \/ SubmitWorkflow(c) \/ StartWorkflow(c)
         \/ RespondApproval(c) \/ InjectWorkflowContext(c) \/ ApprovePlan(c)
         \/ InitRefuse(c) \/ UpdateRefuse(c)
  PROVE  SessionInv'
<1>1. UNCHANGED configVars /\ GoesTo(c, "idle", 0)
  <2> USE DEF Reply, Silence, Over, Elsewhere, GoesTo
  <2>1. CASE \/ Unparsed(c) \/ HelloAgain(c) \/ GetHistory(c) \/ GetConfig(c) \/ GetSkillDoc(c)
             \/ GetSupportedModels(c) \/ CancelWorkflow(c) \/ PauseWorkflow(c) \/ ResumeWorkflow(c)
             \/ ModifyPlan(c) \/ Interrupt(c) \/ AnswerQuestion(c)
    BY <2>1 DEF Unparsed, HelloAgain, GetHistory, GetConfig, GetSkillDoc, GetSupportedModels,
                CancelWorkflow, PauseWorkflow, ResumeWorkflow, ModifyPlan, Interrupt,
                AnswerQuestion, AtOnce
  <2>2. CASE GetSkillsList(c) \/ SetChatMode(c) \/ ImageUpload(c) \/ SubmitChat(c)
    BY <2>2 DEF GetSkillsList, SetChatMode, ImageUpload, SubmitChat, Closed
  <2>3. CASE GetMemory(c) \/ GetMemoryReport(c) \/ TestApiKey(c) \/ StartWorkflow(c) \/ ApprovePlan(c)
    BY <2>3 DEF GetMemory, GetMemoryReport, InJob, TestApiKey, StartWorkflow, ApprovePlan, Hand
  <2>4. CASE SubmitPlan(c) \/ SubmitWorkflow(c)
    BY <2>4 DEF SubmitPlan, SubmitWorkflow, SubmitJob
  <2>5. CASE RespondApproval(c) \/ InjectWorkflowContext(c)
    BY <2>5 DEF RespondApproval, InjectWorkflowContext, Answers
  <2>6. CASE InitRefuse(c) \/ UpdateRefuse(c)
    BY <2>6 DEF InitRefuse, UpdateRefuse, FailConfig
  <2> QED BY <2>1, <2>2, <2>3, <2>4, <2>5, <2>6
<1> QED BY <1>1, HandlerOver

\* The first configuration: live only once its file is in place.
LEMMA InitialisationSteps ==
  ASSUME SessionInv, NEW c \in Clients,
         InitRender(c) \/ InitBuild(c) \/ InitMove(c) \/ InitSwitch(c)
  PROVE  SessionInv'
<1>1. /\ step \in [Clients -> Places] /\ own \in [Clients -> Int] /\ HandlerSound(c)
      /\ version \in Nat
  BY DEF SessionInv, ConfigSound
<1>2. CASE InitRender(c)
  <2>1. GoesTo(c, "rendered", version + 1) /\ StaysWhole /\ UNCHANGED <<file, everFile, live>>
    BY <1>2 DEF InitRender, GoesTo, StaysWhole
  <2>2. /\ step' \in [Clients -> Places] /\ own' \in [Clients -> Int]
        /\ \A d \in Clients : HandlerSound(d)'
    BY <1>1, <2>1, OneHandlerMoves DEF Updating, Places
  <2>3. version' \in Nat
    BY <1>1, <1>2 DEF InitRender
  <2> QED BY <2>1, <2>2, <2>3 DEF SessionInv, ConfigSound, LiveConfigIsOnDisk
<1>3. CASE InitBuild(c)
  <2>1. /\ StaysWhole /\ UNCHANGED <<file, everFile, live, version>>
        /\ GoesTo(c, "built", own[c]) \/ GoesTo(c, "idle", 0)
    <3>1. own = [own EXCEPT ![c] = own[c]]
      BY <1>1
    <3> QED BY <1>3, <3>1 DEF InitBuild, GoesTo, StaysWhole, Reply, Over, HandlerUnchanged, configVars
  <2>2. own[c] > 0
    BY <1>1, <1>3 DEF InitBuild, At, HandlerSound
  <2>3. /\ step' \in [Clients -> Places] /\ own' \in [Clients -> Int]
        /\ \A d \in Clients : HandlerSound(d)'
    BY <1>1, <2>1, <2>2, OneHandlerMoves DEF Updating, Places
  <2> QED BY <2>1, <2>3 DEF SessionInv, ConfigSound, LiveConfigIsOnDisk
<1>4. CASE InitMove(c)
  <2>1. CASE FailConfig(c)
    BY <2>1, HandlerOver DEF FailConfig, Reply, Over, Elsewhere, GoesTo
  <2>2. CASE ~FailConfig(c)
    <3>1. /\ file' = own[c] /\ everFile' = everFile \cup {own[c]} /\ UNCHANGED <<live, version>>
          /\ step' = [step EXCEPT ![c] = "moved"] /\ own' = own /\ step[c] = "built"
      BY <1>4, <2>2 DEF InitMove, At
    <3>2. own[c] \in Int /\ own[c] > 0
      BY <1>1, <3>1 DEF HandlerSound
    <3>3. file' # NoFile
      BY <3>1, <3>2 DEF NoFile
    <3>4. GoesTo(c, "moved", own[c]) /\ StaysWhole
      BY <1>1, <3>1, <3>3 DEF GoesTo, StaysWhole
    <3>5. /\ step' \in [Clients -> Places] /\ own' \in [Clients -> Int]
          /\ \A d \in Clients : HandlerSound(d)'
      BY <3>1, <3>2, <3>3, <3>4, OneHandlerMoves DEF Updating, Places
    <3> QED BY <3>1, <3>2, <3>3, <3>5 DEF SessionInv, ConfigSound, LiveConfigIsOnDisk
  <2> QED BY <2>1, <2>2
<1>5. CASE InitSwitch(c)
  <2>1. /\ GoesTo(c, "idle", 0) /\ StaysWhole /\ UNCHANGED <<file, everFile, version>>
        /\ live' = IF Ready THEN live ELSE own[c]
    BY <1>5 DEF InitSwitch, Reply, Over, GoesTo, StaysWhole
  <2>2. own[c] \in everFile /\ file # NoFile
    BY <1>1, <1>5 DEF InitSwitch, At, HandlerSound
  <2>3. /\ step' \in [Clients -> Places] /\ own' \in [Clients -> Int]
        /\ \A d \in Clients : HandlerSound(d)'
    BY <2>1, OneHandlerMoves DEF Updating, Places
  <2> QED BY <2>1, <2>2, <2>3 DEF SessionInv, ConfigSound, LiveConfigIsOnDisk, Ready
<1> QED BY <1>2, <1>3, <1>4, <1>5

\* An update: live only as it was read back from the file.
LEMMA UpdateSteps ==
  ASSUME SessionInv, NEW c \in Clients,
         UpdateMerge(c) \/ UpdateTruncate(c) \/ UpdateWrite(c) \/ ReloadLoad(c) \/ ReloadApply(c)
  PROVE  SessionInv'
<1>1. /\ step \in [Clients -> Places] /\ own \in [Clients -> Int] /\ HandlerSound(c)
      /\ version \in Nat /\ file \in Int
  BY DEF SessionInv, ConfigSound
<1>2. CASE UpdateMerge(c)
  <2>1. /\ GoesTo(c, "merged", version + 1) /\ StaysWhole /\ UNCHANGED <<file, everFile, live>>
        /\ file > 0 /\ version' = version + 1
    BY <1>2 DEF UpdateMerge, GoesTo, StaysWhole
  <2>2. file # NoFile
    BY <1>1, <2>1 DEF NoFile
  <2>3. /\ step' \in [Clients -> Places] /\ own' \in [Clients -> Int]
        /\ \A d \in Clients : HandlerSound(d)'
    BY <1>1, <2>1, <2>2, OneHandlerMoves DEF Updating, Places
  <2> QED BY <1>1, <2>1, <2>3 DEF SessionInv, ConfigSound, LiveConfigIsOnDisk
<1>3. CASE UpdateTruncate(c)
  <2>1. /\ file' = Torn /\ UNCHANGED <<everFile, live, version>>
        /\ step' = [step EXCEPT ![c] = "writing"] /\ own' = own /\ step[c] = "merged"
    BY <1>3 DEF UpdateTruncate, At
  <2>2. own[c] > 0 /\ own[c] \in Int /\ file' \in Int /\ file' # NoFile
    BY <1>1, <2>1 DEF HandlerSound, Torn, NoFile
  <2>3. GoesTo(c, "writing", own[c]) /\ StaysWhole
    BY <1>1, <2>1, <2>2 DEF GoesTo, StaysWhole
  <2>4. /\ step' \in [Clients -> Places] /\ own' \in [Clients -> Int]
        /\ \A d \in Clients : HandlerSound(d)'
    BY <2>2, <2>3, OneHandlerMoves DEF Updating, Places
  <2> QED BY <2>1, <2>2, <2>4 DEF SessionInv, ConfigSound, LiveConfigIsOnDisk
<1>4. CASE UpdateWrite(c)
  <2>1. CASE FailConfig(c)
    BY <2>1, HandlerOver DEF FailConfig, Reply, Over, Elsewhere, GoesTo
  <2>2. CASE ~FailConfig(c)
    <3>1. /\ file' = own[c] /\ everFile' = everFile \cup {own[c]} /\ UNCHANGED <<live, version>>
          /\ step' = [step EXCEPT ![c] = "written"] /\ own' = own /\ step[c] = "writing"
      BY <1>4, <2>2 DEF UpdateWrite, At
    <3>2. own[c] \in Int /\ own[c] > 0
      BY <1>1, <3>1 DEF HandlerSound
    <3>3. file' # NoFile
      BY <3>1, <3>2 DEF NoFile
    <3>4. GoesTo(c, "written", own[c]) /\ StaysWhole
      BY <1>1, <3>1, <3>3 DEF GoesTo, StaysWhole
    <3>5. /\ step' \in [Clients -> Places] /\ own' \in [Clients -> Int]
          /\ \A d \in Clients : HandlerSound(d)'
      BY <3>2, <3>3, <3>4, OneHandlerMoves DEF Updating, Places
    <3> QED BY <3>1, <3>2, <3>3, <3>5 DEF SessionInv, ConfigSound, LiveConfigIsOnDisk
  <2> QED BY <2>1, <2>2
<1>5. CASE ReloadLoad(c)
  <2>1. /\ GoesTo(c, "loaded", file) /\ StaysWhole /\ UNCHANGED configVars
        /\ step[c] = "written" /\ file # Torn
    BY <1>5 DEF ReloadLoad, At, GoesTo, StaysWhole, configVars
  <2>2. file # NoFile /\ file \in everFile
    BY <1>1, <2>1 DEF SessionInv, ConfigSound, HandlerSound, Updating
  <2>3. /\ step' \in [Clients -> Places] /\ own' \in [Clients -> Int]
        /\ \A d \in Clients : HandlerSound(d)'
    BY <1>1, <2>1, <2>2, OneHandlerMoves DEF Updating, Places, configVars
  <2> QED BY <2>1, <2>3 DEF SessionInv, ConfigSound, LiveConfigIsOnDisk, configVars
<1>6. CASE ReloadApply(c)
  <2>1. /\ GoesTo(c, "idle", 0) /\ StaysWhole /\ UNCHANGED <<file, everFile, version>>
        /\ live' = own[c]
    BY <1>6 DEF ReloadApply, Reply, Over, GoesTo, StaysWhole
  <2>2. own[c] \in everFile /\ file # NoFile
    BY <1>1, <1>6 DEF ReloadApply, At, HandlerSound, Updating
  <2>3. /\ step' \in [Clients -> Places] /\ own' \in [Clients -> Int]
        /\ \A d \in Clients : HandlerSound(d)'
    BY <2>1, OneHandlerMoves DEF Updating, Places
  <2> QED BY <2>1, <2>2, <2>3 DEF SessionInv, ConfigSound, LiveConfigIsOnDisk
<1> QED BY <1>2, <1>3, <1>4, <1>5, <1>6

\* The end of the process and its start.
LEMMA ProcessSteps ==
  ASSUME SessionInv, Crash \/ Start
  PROVE  SessionInv'
<1>1. CASE Crash
  <2>1. /\ step' = [c \in Clients |-> "idle"] /\ own' = [c \in Clients |-> 0]
        /\ live' = Bootstrap /\ UNCHANGED <<file, everFile, version>>
    BY <1>1 DEF Crash
  <2>2. \A c \in Clients : HandlerSound(c)'
    BY <2>1 DEF HandlerSound, Updating
  <2> QED BY <2>1, <2>2 DEF SessionInv, ConfigSound, LiveConfigIsOnDisk, Places
<1>2. CASE Start
  <2>1. live' = file /\ file # Torn /\ UNCHANGED <<file, everFile, version, step, own>>
    BY <1>2 DEF Start
  <2>2. LiveConfigIsOnDisk'
    BY <2>1 DEF SessionInv, ConfigSound, LiveConfigIsOnDisk, NoFile, Bootstrap
  <2>3. \A c \in Clients : HandlerSound(c)'
    BY <2>1 DEF SessionInv, HandlerSound
  <2> QED BY <2>1, <2>2, <2>3 DEF SessionInv, ConfigSound
<1> QED BY <1>1, <1>2

\* The invariant of the sessions.
LEMMA SessionInductive == SessionSpec => []SessionInv
<1>1. SessionInit => SessionInv
  BY DEF SessionInit, Places, SessionInv, ConfigSound, HandlerSound, LiveConfigIsOnDisk, NoFile,
         Bootstrap, Torn, Updating
<1>2. SessionInv /\ [SessionNext]_sessionVars => SessionInv'
  <2> SUFFICES ASSUME SessionInv, [SessionNext]_sessionVars PROVE SessionInv'
    OBVIOUS
  <2>1. ASSUME NEW c \in Clients, Client(c) \/ Handler(c) \/ JobStep(c) PROVE SessionInv'
    BY <2>1, ClientSteps, JobSteps, OneStepRequests, InitialisationSteps, UpdateSteps DEF Handler
  <2>2. CASE UNCHANGED sessionVars
    BY <2>2, NoHandlerMoves DEF sessionVars
  <2> QED BY <2>1, <2>2, ProcessSteps DEF SessionNext
<1> QED BY <1>1, <1>2, PTL DEF SessionSpec

\* However the initialisations and updates of different clients and the crashes
\* of the process interleave: what is live was whole in sa.toml, and the file is
\* there.
THEOREM LiveConfigWasWhole == SessionSpec => []LiveConfigIsOnDisk
<1>1. SessionInv => LiveConfigIsOnDisk
  BY DEF SessionInv
<1> QED BY SessionInductive, <1>1, PTL

(***************************************************************************)
(* Mcp                                                                     *)
(***************************************************************************)

BeforeReady == {"initialize", "initialized", "tools", "resources", "prompts"}
RequestSteps == {"write", "read", "connect", "get", "address", "post", "body", "wait"}

\* The request under way and how far connect is.
Request ==
  [by : Callers \cup {"connect", "none"}, id : Nat \cup {-1}, at : RequestSteps \cup {"none"}]
RequestOK ==
  /\ transport \in Transports
  /\ stage \in BeforeReady \cup {"ready", "failed"}
  /\ call \in Request
  /\ call.at = "none" => call = NoCall
  /\ call.at # "none" => call.id \in Nat /\ stage # "failed"
  /\ transport = "stdio" => call.at \in {"none", "write", "read"}
  /\ transport # "stdio" => call.at \notin {"write", "read"}

\* What is queued, owed, pending and unread.
WireOK ==
  /\ waiting \in Seq(Callers) /\ nextRequest \in Nat
  /\ waiting # <<>> => stage = "ready"
  /\ owed \subseteq Nat /\ pendingIds \subseteq Nat
  /\ out \in Seq(Nat \cup {Note, Foreign, Junk})
  /\ torn \in BOOLEAN /\ upset \in BOOLEAN

\* Until a request is given up or the server sends one, what is on its way over
\* stdio answers the request that waits for it.
InTurn ==
  transport = "stdio" /\ ~upset =>
    /\ ~torn
    /\ IF call.at = "read"
       THEN /\ call.id # Note /\ owed \subseteq {call.id}
            /\ \A i \in DOMAIN out : out[i] \in {Note, Junk, call.id}
            /\ \A i \in DOMAIN out : out[i] = call.id => call.id \notin owed
            /\ \A i, j \in DOMAIN out : out[i] = call.id /\ out[j] = call.id => i = j
       ELSE owed = {} /\ \A i \in DOMAIN out : out[i] \in {Note, Junk}

\* The channel of a request holds its answer or word that the stream is closed.
OwnBox ==
  /\ box \in {Nothing, ReaderEnded, call.id}
  /\ call.at = "none" => box = Nothing

McpInv == RequestOK /\ WireOK /\ InTurn /\ OwnBox /\ MixedUpOnlyAfterUpset
-----------------------------------------------------------------------------
\* The transports, and where a request starts on each.
LEMMA FirstSteps ==
  ASSUME NEW t \in Transports
  PROVE  /\ t \in {"stdio", "http", "sse"}
         /\ FirstStep[t] = IF t = "stdio" THEN "write" ELSE IF t = "http" THEN "post" ELSE "connect"
BY TransportsAssumption DEF FirstStep

\* A stage of connect is followed by a later one or by failure.
LEMMA NextStage ==
  ASSUME NEW s \in BeforeReady, NEW result
  PROVE  Succeeding(s, result) \in (BeforeReady \ {"initialize"}) \cup {"ready", "failed"}
<1> DEFINE i == CHOOSE k \in 2..6 : Stages[k - 1] = s
<1>1. \E k \in 2..6 : Stages[k - 1] = s
  <2>1. /\ 2 \in 2..6 /\ 3 \in 2..6 /\ 4 \in 2..6 /\ 5 \in 2..6 /\ 6 \in 2..6
        /\ 2 - 1 = 1 /\ 3 - 1 = 2 /\ 4 - 1 = 3 /\ 5 - 1 = 4 /\ 6 - 1 = 5
    OBVIOUS
  <2>2. Stages[1] = "initialize" /\ Stages[2] = "initialized" /\ Stages[3] = "tools"
        /\ Stages[4] = "resources" /\ Stages[5] = "prompts"
    BY DEF Stages
  <2> QED BY <2>1, <2>2 DEF BeforeReady
<1>2. i \in 2..6
  BY <1>1
<1> HIDE DEF i
<1>3. Stages[i] \in (BeforeReady \ {"initialize"}) \cup {"ready"}
  BY <1>2 DEF Stages, BeforeReady
<1> QED BY <1>3 DEF Succeeding, i

\* The request is over, and if it is one of the handshake another may start.
CallClosed ==
  /\ box' = Nothing
  /\ stage' \in BeforeReady \cup {"ready", "failed"}
  /\ call' \in Request
  /\ call'.at = "none" => call' = NoCall
  /\ call'.at # "none" => call'.id \in Nat /\ stage' # "failed"
  /\ call'.at \in {"none", FirstStep[transport]}
  /\ stage = "ready" => stage' = "ready"

\* How a request ends.
LEMMA EndedFacts ==
  ASSUME RequestOK, call.at # "none", NEW result, Ended(result)
  PROVE  CallClosed
<1>1. /\ transport \in Transports /\ stage \in BeforeReady \cup {"ready"} /\ call \in Request
      /\ NoCall \in Request /\ NoCall.at = "none"
  BY DEF RequestOK, Request, NoCall
<1>2. FirstStep[transport] \in RequestSteps
  BY <1>1, FirstSteps DEF RequestSteps
<1>3. CASE stage = "ready"
  BY <1>1, <1>3 DEF Ended, CallClosed
<1>4. CASE stage # "ready"
  <2>1. PICK next : next = Succeeding(stage, result)
    OBVIOUS
  <2>2. next \in (BeforeReady \ {"initialize"}) \cup {"ready", "failed"}
    BY <1>1, <1>4, <2>1, NextStage
  <2>3. /\ box' = Nothing /\ stage' = next
        /\ call' = IF next \in {"ready", "failed"} THEN NoCall
                   ELSE [call EXCEPT !.id = Handshake[next], !.at = FirstStep[transport]]
    BY <1>4, <2>1 DEF Ended
  <2>4. CASE next \in {"ready", "failed"}
    BY <1>1, <1>4, <2>2, <2>3, <2>4 DEF CallClosed
  <2>5. CASE next \notin {"ready", "failed"}
    <3>1. Handshake[next] \in Nat
      BY <2>2, <2>5 DEF Handshake, BeforeReady
    <3>2. /\ call'.at = FirstStep[transport] /\ call'.id \in Nat /\ call' \in Request
      BY <1>1, <1>2, <2>3, <2>5, <3>1 DEF Request
    <3>3. FirstStep[transport] # "none"
      BY <1>2 DEF RequestSteps
    <3> QED BY <1>4, <2>2, <2>3, <2>5, <3>2, <3>3 DEF CallClosed
  <2> QED BY <2>4, <2>5
<1> QED BY <1>3, <1>4

\* A closed request leaves the request part and the channel in order.
LEMMA ClosedInv ==
  ASSUME RequestOK, CallClosed, transport' = transport
  PROVE  /\ RequestOK' /\ OwnBox'
         /\ call'.at # "read" /\ (transport = "stdio" => call'.at \in {"none", "write"})
         /\ stage = "ready" => stage' = "ready"
<1>1. transport \in Transports
  BY DEF RequestOK
<1>2. FirstStep[transport] = IF transport = "stdio" THEN "write"
                             ELSE IF transport = "http" THEN "post" ELSE "connect"
  BY <1>1, FirstSteps
<1> QED BY <1>1, <1>2 DEF RequestOK, CallClosed, OwnBox

\* The request goes on with its next step.
LEMMA GoesInv ==
  ASSUME RequestOK, OwnBox, call.at # "none", transport' = transport, transport # "stdio",
         NEW at \in RequestSteps \ {"write", "read"}, Goes(at)
  PROVE  RequestOK' /\ OwnBox' /\ upset' = upset /\ mistaken' = mistaken
<1>1. call' = [call EXCEPT !.at = at] /\ UNCHANGED <<stage, box, mistaken, upset>>
  BY DEF Goes
<1>2. call' \in Request /\ call'.at = at /\ call'.id = call.id
  BY <1>1 DEF RequestOK, Request
<1> QED BY <1>1, <1>2 DEF RequestOK, OwnBox, RequestSteps

\* An answer that was taken stays the last one taken.
LEMMA NothingTaken ==
  ASSUME MixedUpOnlyAfterUpset, upset => upset', mistaken' = mistaken
  PROVE  MixedUpOnlyAfterUpset'
BY DEF MixedUpOnlyAfterUpset, AnswerIsForItsCall, NotMistaken

\* A request that ends without an answer, over stdio, upsets the connection.
LEMMA FailInv ==
  ASSUME McpInv, call.at # "none", Fail, transport' = transport
  PROVE  /\ RequestOK' /\ OwnBox' /\ InTurn' /\ MixedUpOnlyAfterUpset'
         /\ upset' \in BOOLEAN /\ (stage = "ready" => stage' = "ready")
<1>1. Ended("failure") /\ upset' = (upset \/ transport = "stdio") /\ mistaken' = mistaken
  BY DEF Fail, Upset
<1>2. RequestOK' /\ OwnBox' /\ (stage = "ready" => stage' = "ready")
  BY <1>1, EndedFacts, ClosedInv DEF McpInv
<1>3. InTurn'
  BY <1>1 DEF InTurn
<1>4. MixedUpOnlyAfterUpset' /\ upset' \in BOOLEAN
  BY <1>1, NothingTaken DEF McpInv, WireOK
<1> QED BY <1>2, <1>3, <1>4

\* What is taken for an answer.
LEMMA TakeFacts ==
  ASSUME McpInv, call.at # "none", transport' = transport, NEW message, NEW via,
         Take(message, via)
  PROVE  /\ RequestOK' /\ OwnBox' /\ upset' = upset
         /\ call'.at # "read" /\ (transport = "stdio" => call'.at \in {"none", "write"})
         /\ stage = "ready" => stage' = "ready"
         /\ mistaken' = IF message \in {call.id, ReaderEnded} THEN NotMistaken
                        ELSE [of |-> IF message = Note THEN "note" ELSE "other", via |-> via]
<1>1. PICK result : Ended(result)
  BY DEF Take
<1>2. CallClosed
  BY <1>1, EndedFacts DEF McpInv
<1> QED BY <1>2, ClosedInv DEF McpInv, Take

\* Only stdio has an order to keep.
LEMMA NotStdio == ASSUME transport' # "stdio" PROVE InTurn'
BY DEF InTurn
-----------------------------------------------------------------------------
\* The mutex and the timeouts.
LEMMA CallersInv ==
  ASSUME McpInv, (\E c \in Callers : Queue(c)) \/ Begin \/ GiveUp
  PROVE  McpInv'
<1>1. CASE \E c \in Callers : Queue(c)
  <2>1. PICK c \in Callers : Queue(c)
    BY <1>1
  <2>2. /\ waiting' \in Seq(Callers) /\ stage = "ready"
        /\ UNCHANGED <<transport, stage, call, nextRequest, owed, alive, torn, out, extras,
                       reader, streamState, pendingIds, box, mistaken, upset>>
    BY <2>1 DEF Queue, wireVars, sseVars, McpInv, WireOK
  <2> QED BY <2>2 DEF McpInv, RequestOK, WireOK, InTurn, OwnBox, MixedUpOnlyAfterUpset,
                      AnswerIsForItsCall
<1>2. CASE Begin
  <2>1. /\ call = NoCall /\ waiting # <<>> /\ waiting' = Tail(waiting)
        /\ nextRequest' = nextRequest + 1
        /\ call' = [by |-> Head(waiting), id |-> nextRequest, at |-> FirstStep[transport]]
        /\ UNCHANGED <<transport, stage, owed, alive, torn, out, extras,
                       reader, streamState, pendingIds, box, mistaken, upset>>
    BY <1>2 DEF Begin, wireVars, sseVars
  <2>2. transport \in Transports /\ waiting \in Seq(Callers) /\ nextRequest \in Nat
    BY DEF McpInv, RequestOK, WireOK
  <2>3. Head(waiting) \in Callers /\ Tail(waiting) \in Seq(Callers)
    BY <2>1, <2>2
  <2>4. FirstStep[transport] = IF transport = "stdio" THEN "write"
                               ELSE IF transport = "http" THEN "post" ELSE "connect"
    BY <2>2, FirstSteps
  <2>5. call' \in Request /\ call'.id \in Nat /\ call'.at = FirstStep[transport]
    BY <2>1, <2>2, <2>3, <2>4 DEF Request, RequestSteps
  <2>6. stage = "ready"
    BY <2>1 DEF McpInv, WireOK
  <2>7. RequestOK'
    BY <2>1, <2>2, <2>4, <2>5, <2>6 DEF RequestOK
  <2>8. call.at = "none"
    BY <2>1 DEF NoCall
  <2>9. WireOK' /\ InTurn' /\ OwnBox' /\ MixedUpOnlyAfterUpset'
    BY <2>1, <2>2, <2>3, <2>4, <2>5, <2>6, <2>8
       DEF McpInv, WireOK, InTurn, OwnBox, MixedUpOnlyAfterUpset, AnswerIsForItsCall
  <2> QED BY <2>7, <2>9 DEF McpInv
<1>3. CASE GiveUp
  <2>1. /\ call.at # "none" /\ Fail /\ torn' \in {torn, TRUE}
        /\ UNCHANGED <<transport, waiting, nextRequest, owed, out, pendingIds>>
    BY <1>3 DEF GiveUp, McpInv, RequestOK
  <2>2. RequestOK' /\ OwnBox' /\ InTurn' /\ MixedUpOnlyAfterUpset' /\ upset' \in BOOLEAN
          /\ (stage = "ready" => stage' = "ready")
        /\ (stage = "ready" => stage' = "ready")
    BY <2>1, FailInv
  <2> QED BY <2>1, <2>2 DEF McpInv, WireOK
<1> QED BY <1>1, <1>2, <1>3

\* A line is written when nothing is on its way, and the answer to it is the first
\* line with an id.
LEMMA StdioInv ==
  ASSUME McpInv, WriteLine \/ WriteFails \/ ReadLine \/ ReadEof
  PROVE  McpInv'
<1>1. CASE WriteFails \/ ReadEof
  <2>1. /\ call.at # "none" /\ Fail
        /\ UNCHANGED <<transport, waiting, nextRequest, owed, torn, out, pendingIds>>
    BY <1>1 DEF WriteFails, ReadEof, RequestAt, wireVars
  <2>2. RequestOK' /\ OwnBox' /\ InTurn' /\ MixedUpOnlyAfterUpset' /\ upset' \in BOOLEAN
          /\ (stage = "ready" => stage' = "ready")
        /\ (stage = "ready" => stage' = "ready")
    BY <2>1, FailInv
  <2> QED BY <2>1, <2>2 DEF McpInv, WireOK
<1>2. CASE WriteLine
  <2>1. /\ transport = "stdio" /\ call.at = "write" /\ torn' = FALSE
        /\ owed' = IF torn \/ Notifying THEN owed ELSE owed \cup {call.id}
        /\ UNCHANGED <<transport, waiting, nextRequest, out, pendingIds>>
    BY <1>2 DEF WriteLine, RequestAt
  <2>2. call.id \in Nat /\ call \in Request /\ owed \subseteq Nat
    BY <2>1 DEF McpInv, RequestOK, WireOK
  <2>3. CASE Notifying
    <3>1. Ended("nothing") /\ UNCHANGED <<mistaken, upset>>
      BY <1>2, <2>3 DEF WriteLine, Sent
    <3>2. /\ RequestOK' /\ OwnBox' /\ call'.at \in {"none", "write"}
          /\ stage = "ready" => stage' = "ready"
      BY <2>1, <3>1, EndedFacts, ClosedInv DEF McpInv
    <3> QED BY <2>1, <2>3, <3>1, <3>2
            DEF McpInv, WireOK, InTurn, MixedUpOnlyAfterUpset, AnswerIsForItsCall
  <2>4. CASE ~Notifying
    <3>1. call' = [call EXCEPT !.at = "read"] /\ UNCHANGED <<stage, box, mistaken, upset>>
      BY <1>2, <2>4 DEF WriteLine
    <3>2. call' \in Request /\ call'.at = "read" /\ call'.id = call.id
      BY <2>2, <3>1 DEF Request, RequestSteps
    <3>3. RequestOK' /\ OwnBox'
      BY <2>1, <2>2, <3>1, <3>2 DEF McpInv, RequestOK, OwnBox
    <3>4. WireOK'
      BY <2>1, <2>2, <3>1 DEF McpInv, WireOK
    <3>5. InTurn'
      <4>1. CASE upset
        BY <4>1, <3>1 DEF InTurn
      <4>2. CASE ~upset
        <5>1. /\ ~torn /\ owed = {} /\ \A i \in DOMAIN out : out[i] \in {Note, Junk}
          BY <2>1, <4>2 DEF McpInv, InTurn
        <5>2. owed' = {call.id} /\ call.id # Note /\ call.id # Junk
          BY <2>1, <2>2, <2>4, <5>1 DEF Notifying, Note, Junk
        <5> QED BY <2>1, <3>1, <3>2, <5>1, <5>2 DEF InTurn
      <4> QED BY <4>1, <4>2
    <3>6. MixedUpOnlyAfterUpset'
      BY <3>1, NothingTaken DEF McpInv
    <3> QED BY <3>3, <3>4, <3>5, <3>6 DEF McpInv
  <2> QED BY <2>3, <2>4
<1>3. CASE ReadLine
  <2>1. /\ transport = "stdio" /\ call.at = "read" /\ out # <<>> /\ out' = Tail(out)
        /\ UNCHANGED <<transport, waiting, nextRequest, owed, torn, pendingIds>>
        /\ IF SkipsLine(Head(out)) THEN UNCHANGED <<stage, call, box, mistaken, upset>>
           ELSE IF Head(out) = Junk THEN Fail
           ELSE Take(Head(out), "line")
    BY <1>3 DEF ReadLine, RequestAt
  <2>2. out \in Seq(Nat \cup {Note, Foreign, Junk})
    BY DEF McpInv, WireOK
  <2>3. /\ out' \in Seq(Nat \cup {Note, Foreign, Junk}) /\ 1 \in DOMAIN out /\ Head(out) = out[1]
        /\ \A i \in DOMAIN out' : i + 1 \in DOMAIN out /\ out'[i] = out[i + 1] /\ i # 0
    BY <2>1, <2>2
  <2>4. CASE SkipsLine(Head(out))
    <3>1. UNCHANGED <<stage, call, box, mistaken, upset>>
      BY <2>1, <2>4
    <3>2. InTurn'
      BY <2>1, <2>3, <3>1 DEF McpInv, InTurn
    <3> QED BY <2>1, <2>3, <3>1, <3>2
            DEF McpInv, RequestOK, WireOK, OwnBox, MixedUpOnlyAfterUpset, AnswerIsForItsCall
  <2>5. CASE Head(out) = Junk /\ ~SkipsLine(Head(out))
    <3>1. RequestOK' /\ OwnBox' /\ InTurn' /\ MixedUpOnlyAfterUpset' /\ upset' \in BOOLEAN
          /\ (stage = "ready" => stage' = "ready")
        /\ (stage = "ready" => stage' = "ready")
      BY <2>1, <2>5, FailInv
    <3> QED BY <2>1, <2>3, <3>1 DEF McpInv, WireOK
  <2>6. CASE Head(out) # Junk /\ ~SkipsLine(Head(out))
    <3>1. Take(Head(out), "line")
      BY <2>1, <2>6
    <3>2. /\ RequestOK' /\ OwnBox' /\ upset' = upset /\ call'.at # "read"
          /\ stage = "ready" => stage' = "ready"
          /\ mistaken' = IF Head(out) \in {call.id, ReaderEnded} THEN NotMistaken
                         ELSE [of |-> IF Head(out) = Note THEN "note" ELSE "other", via |-> "line"]
      BY <2>1, <3>1, TakeFacts
    <3>3. Head(out) # Note /\ Head(out) # Junk
      BY <2>6 DEF SkipsLine
    <3>4. ~upset => Head(out) = call.id /\ owed = {} /\ \A i \in DOMAIN out' : out'[i] \in {Note, Junk}
      <4> SUFFICES ASSUME ~upset
                   PROVE  Head(out) = call.id /\ owed = {} /\ \A i \in DOMAIN out' : out'[i] \in {Note, Junk}
        OBVIOUS
      <4>1. /\ owed \subseteq {call.id}
            /\ \A i \in DOMAIN out : out[i] \in {Note, Junk, call.id}
            /\ \A i \in DOMAIN out : out[i] = call.id => call.id \notin owed
            /\ \A i, j \in DOMAIN out : out[i] = call.id /\ out[j] = call.id => i = j
        BY <2>1 DEF McpInv, InTurn
      <4>2. out[1] = call.id
        BY <2>3, <3>3, <4>1
      <4>3. \A i \in DOMAIN out' : out[i + 1] # call.id
        <5> SUFFICES ASSUME NEW i \in DOMAIN out', out[i + 1] = call.id PROVE FALSE
          OBVIOUS
        <5>1. i + 1 = 1
          BY <2>3, <4>1, <4>2
        <5>2. i \in Nat
          BY <2>3
        <5> QED BY <2>3, <5>1, <5>2
      <4> QED BY <2>3, <4>1, <4>2, <4>3
    <3>5. InTurn'
      BY <2>1, <3>2, <3>4 DEF McpInv, InTurn
    <3>6. MixedUpOnlyAfterUpset'
      <4>1. Head(out) # ReaderEnded
        BY <2>2, <2>3 DEF ReaderEnded, Note, Foreign, Junk
      <4> QED BY <3>2, <3>3, <3>4 DEF MixedUpOnlyAfterUpset, AnswerIsForItsCall, NotMistaken
    <3> QED BY <2>1, <2>3, <3>2, <3>5, <3>6 DEF McpInv, WireOK
  <2> QED BY <2>4, <2>5, <2>6
<1> QED BY <1>1, <1>2, <1>3

\* What the client does with an event stream, and what it reads from it.
LEMMA OutputInv ==
  ASSUME McpInv, StreamReady \/ OpenStream \/ Address \/ HandleSseEvent \/ StreamEnds,
         reader => transport # "stdio"
  PROVE  McpInv'
<1>1. transport' = transport /\ transport # "stdio"
  BY DEF StreamReady, OpenStream, Address, HandleSseEvent, StreamEnds, RequestAt
<1>2. InTurn'
  BY <1>1, NotStdio
<1>3. CASE StreamReady \/ Address \/ (OpenStream /\ ~Fail)
  <2>1. PICK at \in {"get", "address", "post"} : Goes(at)
    BY <1>3 DEF StreamReady, OpenStream, Address
  <2>2. RequestOK' /\ OwnBox' /\ upset' = upset /\ mistaken' = mistaken
    <3>1. call.at # "none" /\ at \in RequestSteps \ {"write", "read"}
      BY <1>3, <2>1 DEF StreamReady, OpenStream, Address, RequestAt, RequestSteps
    <3> QED BY <1>1, <2>1, <3>1, GoesInv DEF McpInv
  <2>3. /\ UNCHANGED <<waiting, nextRequest, owed, torn, out>> /\ stage' = stage
        /\ pendingIds' \in {pendingIds, pendingIds \cup {call.id}}
        /\ pendingIds' # pendingIds => call.at # "none"
    BY <1>3, <2>1 DEF StreamReady, OpenStream, Address, wireVars, Goes, RequestAt
  <2>4. WireOK'
    BY <2>2, <2>3 DEF McpInv, RequestOK, WireOK
  <2> QED BY <1>2, <2>2, <2>4, NothingTaken DEF McpInv
<1>4. CASE OpenStream /\ Fail
  <2>1. call.at # "none" /\ UNCHANGED <<waiting, nextRequest, owed, torn, out, pendingIds>>
    BY <1>4 DEF OpenStream, RequestAt, wireVars
  <2> QED BY <1>1, <1>4, <2>1, FailInv DEF McpInv, WireOK
<1>5. CASE HandleSseEvent \/ StreamEnds
  <2>1. /\ UNCHANGED <<stage, waiting, call, nextRequest, owed, torn, mistaken, upset>>
        /\ out' \in {Tail(out), <<>>} /\ (HandleSseEvent => out # <<>>)
        /\ pendingIds' \subseteq pendingIds
    BY <1>5 DEF HandleSseEvent, StreamEnds
  <2>2. out' \in Seq(Nat \cup {Note, Foreign, Junk})
    <3>1. out \in Seq(Nat \cup {Note, Foreign, Junk})
      BY DEF McpInv, WireOK
    <3>2. CASE HandleSseEvent
      <4>1. out # <<>> /\ out' = Tail(out)
        BY <3>2 DEF HandleSseEvent
      <4> QED BY <3>1, <4>1
    <3>3. CASE StreamEnds
      <4>1. out' = <<>>
        BY <3>3 DEF StreamEnds
      <4> QED BY <4>1
    <3> QED BY <1>5, <3>2, <3>3
  <2>3. /\ box' \in {box, call.id, ReaderEnded}
        /\ box' # box => call.id \in pendingIds
    BY <1>5 DEF HandleSseEvent, StreamEnds, Waits
  <2>4. call.at = "none" => call.id \notin pendingIds
    <3>1. -1 \notin Nat
      OBVIOUS
    <3> QED BY <3>1 DEF McpInv, RequestOK, WireOK, NoCall
  <2>5. OwnBox'
    BY <2>1, <2>3, <2>4 DEF McpInv, OwnBox
  <2>6. RequestOK' /\ WireOK' /\ MixedUpOnlyAfterUpset'
    BY <1>1, <2>1, <2>2, NothingTaken DEF McpInv, RequestOK, WireOK
  <2> QED BY <1>2, <2>5, <2>6 DEF McpInv
<1> QED BY <1>3, <1>4, <1>5

\* The POST of a request: its body may hold its answer or a notification, and its
\* channel only its answer.
LEMMA PostInv ==
  ASSUME McpInv,
         Received \/ PostFails \/ PostAccepted \/ TakeBody \/ EmptyBody \/ BadBody \/ TakeFromStream
  PROVE  McpInv'
<1>1. /\ transport' = transport /\ transport # "stdio" /\ call.at # "none"
      /\ UNCHANGED <<waiting, nextRequest, torn, out>>
      /\ call.at \in {"post", "body", "wait"}
  BY DEF Received, PostFails, PostAccepted, TakeBody, EmptyBody, BadBody, TakeFromStream, wireVars,
         McpInv, RequestOK
<1>2. InTurn'
  BY <1>1, NotStdio
<1>3. owed \subseteq Nat /\ pendingIds \subseteq Nat /\ call.id \in Nat
  BY <1>1 DEF McpInv, RequestOK, WireOK
<1>4. owed' \subseteq Nat /\ pendingIds' \subseteq Nat
  <2>1. /\ owed' \subseteq owed \cup {call.id}
        /\ pendingIds' \subseteq pendingIds
    BY DEF Received, PostFails, PostAccepted, TakeBody, EmptyBody, BadBody, TakeFromStream,
           wireVars, sseVars
  <2> QED BY <1>3, <2>1
<1>5. CASE Received
  <2>1. UNCHANGED <<stage, call, box, mistaken, upset>>
    BY <1>5 DEF Received, sseVars
  <2> QED BY <1>1, <1>2, <1>4, <2>1, NothingTaken DEF McpInv, RequestOK, WireOK, OwnBox
<1>6. CASE Fail
  BY <1>1, <1>2, <1>4, <1>6, FailInv DEF McpInv, WireOK
<1>7. CASE Sent
  <2>1. Ended("nothing") /\ UNCHANGED <<mistaken, upset>>
    BY <1>7 DEF Sent
  <2>2. RequestOK' /\ OwnBox' /\ (stage = "ready" => stage' = "ready")
    BY <1>1, <2>1, EndedFacts, ClosedInv DEF McpInv
  <2> QED BY <1>1, <1>2, <1>4, <2>1, <2>2, NothingTaken DEF McpInv, WireOK
<1>8. CASE \E at \in {"body", "wait"} : Goes(at)
  <2>1. PICK at \in {"body", "wait"} : Goes(at)
    BY <1>8
  <2>2. RequestOK' /\ OwnBox' /\ upset' = upset /\ mistaken' = mistaken
    BY <1>1, <2>1, GoesInv DEF McpInv, RequestSteps
  <2>3. stage' = stage
    BY <2>1 DEF Goes
  <2> QED BY <1>1, <1>2, <1>4, <2>2, <2>3, NothingTaken DEF McpInv, WireOK
<1>9. CASE TakeBody \/ TakeFromStream
  <2>1. PICK message, via :
          /\ Take(message, via)
          /\ \/ message \in {Note, call.id} /\ via = "body"
             \/ message = box /\ message # Nothing
    BY <1>9 DEF TakeBody, TakeFromStream
  <2>2. /\ RequestOK' /\ OwnBox' /\ upset' = upset /\ (stage = "ready" => stage' = "ready")
        /\ mistaken' = IF message \in {call.id, ReaderEnded} THEN NotMistaken
                       ELSE [of |-> IF message = Note THEN "note" ELSE "other", via |-> via]
    BY <1>1, <2>1, TakeFacts
  <2>3. message \in {call.id, ReaderEnded} \/ (message = Note /\ via = "body")
    <3>1. box \in {Nothing, ReaderEnded, call.id}
      BY DEF McpInv, OwnBox
    <3> QED BY <2>1, <3>1
  <2>4. MixedUpOnlyAfterUpset'
    BY <2>2, <2>3 DEF MixedUpOnlyAfterUpset, AnswerIsForItsCall
  <2> QED BY <1>1, <1>2, <1>4, <2>2, <2>4 DEF McpInv, WireOK
<1> QED BY <1>5, <1>6, <1>7, <1>8, <1>9
        DEF PostFails, PostAccepted, EmptyBody, BadBody

\* The server answers what it owes once, and a request of its own upsets stdio.
LEMMA ServerInv ==
  ASSUME McpInv,
         \/ \E i \in Ids : ServerAnswers(i)
         \/ \E message \in {Note, Foreign, Junk} : ServerSends(message)
         \/ ServerDies
  PROVE  McpInv'
<1>1. /\ UNCHANGED <<transport, stage, waiting, call, nextRequest, torn, pendingIds, box, mistaken>>
      /\ (upset => upset') /\ upset' \in BOOLEAN
  BY DEF ServerAnswers, ServerSends, ServerDies, sseVars, Upset, McpInv, WireOK
<1>2. out \in Seq(Nat \cup {Note, Foreign, Junk}) /\ owed \subseteq Nat
  BY DEF McpInv, WireOK
<1>3. RequestOK' /\ OwnBox' /\ MixedUpOnlyAfterUpset'
  BY <1>1, NothingTaken DEF McpInv, RequestOK, OwnBox
<1>4. CASE ServerDies
  <2>1. owed' = {} /\ out' = out /\ upset' = upset
    BY <1>4 DEF ServerDies
  <2>2. InTurn'
    BY <1>1, <2>1 DEF McpInv, InTurn
  <2> QED BY <1>1, <1>2, <1>3, <2>1, <2>2 DEF McpInv, WireOK
<1>5. CASE \/ \E i \in Ids : ServerAnswers(i)
           \/ \E message \in {Note, Foreign, Junk} : ServerSends(message)
  <2>1. PICK message \in owed \cup {Note, Foreign, Junk} :
          /\ out' = Append(out, message)
          /\ \/ message \in owed /\ owed' = owed \ {message} /\ upset' = upset
             \/ /\ message \in {Note, Foreign, Junk} /\ owed' = owed
                /\ IF message = Foreign THEN Upset ELSE upset' = upset
    BY <1>5 DEF ServerAnswers, ServerSends
  <2>2. /\ out' \in Seq(Nat \cup {Note, Foreign, Junk}) /\ owed' \subseteq Nat
        /\ DOMAIN out' = DOMAIN out \cup {Len(out) + 1} /\ Len(out) + 1 \notin DOMAIN out
        /\ out'[Len(out) + 1] = message /\ \A i \in DOMAIN out : out'[i] = out[i]
    <3>1. message \in Nat \cup {Note, Foreign, Junk} /\ owed' \subseteq Nat
      BY <1>2, <2>1
    <3> QED BY <1>2, <2>1, <3>1
  <2>3. ASSUME transport = "stdio", ~upset'
        PROVE  InTurn'
    <3>1. ~upset /\ message # Foreign /\ upset' = upset
      <4>1. CASE message \in owed /\ upset' = upset
        BY <1>2, <2>3, <4>1 DEF Foreign
      <4>2. CASE message = Foreign /\ Upset
        BY <2>3, <4>2 DEF Upset
      <4>3. CASE message # Foreign /\ upset' = upset
        BY <2>3, <4>3
      <4> QED BY <2>1, <4>1, <4>2, <4>3
    <3>2. \/ message \in owed /\ owed' = owed \ {message}
          \/ message \in {Note, Junk} /\ owed' = owed
      BY <2>1, <3>1
    <3>3. CASE call.at # "read"
      BY <1>1, <2>2, <2>3, <3>1, <3>2, <3>3 DEF McpInv, InTurn
    <3>4. CASE call.at = "read"
      <4>1. /\ ~torn /\ call.id # Note /\ owed \subseteq {call.id} /\ call.id \in Nat
            /\ \A i \in DOMAIN out : out[i] \in {Note, Junk, call.id}
            /\ \A i \in DOMAIN out : out[i] = call.id => call.id \notin owed
            /\ \A i, j \in DOMAIN out : out[i] = call.id /\ out[j] = call.id => i = j
        BY <2>3, <3>1, <3>4 DEF McpInv, InTurn, RequestOK
      <4>2. call.id # Junk
        BY <4>1 DEF Junk
      <4>3. CASE message \in owed /\ owed' = owed \ {message}
        <5>1. message = call.id /\ owed' = {} /\ \A i \in DOMAIN out : out[i] # call.id
          BY <4>1, <4>3
        <5>2. /\ \A i \in DOMAIN out' : out'[i] \in {Note, Junk, call.id}
              /\ \A i, j \in DOMAIN out' : out'[i] = call.id /\ out'[j] = call.id => i = j
          BY <2>2, <4>1, <5>1
        <5>3. \A i \in DOMAIN out' : out'[i] = call.id => call.id \notin owed'
          BY <5>1
        <5> QED BY <1>1, <3>4, <4>1, <5>1, <5>2, <5>3 DEF InTurn
      <4>4. CASE message \in {Note, Junk} /\ owed' = owed
        <5>1. /\ \A i \in DOMAIN out' : out'[i] \in {Note, Junk, call.id}
              /\ \A i \in DOMAIN out' : out'[i] = call.id => i \in DOMAIN out /\ out[i] = call.id
          BY <2>2, <4>1, <4>2, <4>4
        <5> QED BY <1>1, <3>4, <4>1, <4>4, <5>1 DEF InTurn
      <4> QED BY <3>2, <4>3, <4>4
    <3> QED BY <3>3, <3>4
  <2>4. InTurn'
    BY <1>1, <2>3 DEF InTurn
  <2>5. WireOK'
    BY <1>1, <2>2 DEF McpInv, WireOK
  <2> QED BY <1>3, <2>4, <2>5 DEF McpInv
<1> QED BY <1>4, <1>5

\* The invariant holds when connect starts, and every step preserves it.
LEMMA McpInductive == McpSpec => []McpInv
<1>1. ASSUME McpInit PROVE McpInv
  <2>1. transport \in Transports
    BY <1>1 DEF McpInit
  <2>2. FirstStep[transport] = IF transport = "stdio" THEN "write"
                               ELSE IF transport = "http" THEN "post" ELSE "connect"
    BY <2>1, FirstSteps
  <2>3. call \in Request /\ call.id = 1 /\ call.at = FirstStep[transport]
    BY <1>1, <2>2 DEF McpInit, Request, RequestSteps
  <2>4. RequestOK
    BY <1>1, <2>1, <2>2, <2>3 DEF McpInit, RequestOK, BeforeReady
  <2>5. WireOK
    <3>1. <<>> \in Seq(Callers) /\ <<>> \in Seq(Nat \cup {Note, Foreign, Junk})
      OBVIOUS
    <3> QED BY <1>1, <3>1 DEF McpInit, WireOK, FirstId
  <2>6. InTurn /\ OwnBox
    BY <1>1, <2>2, <2>3 DEF McpInit, InTurn, OwnBox
  <2>7. MixedUpOnlyAfterUpset
    BY <1>1 DEF McpInit, MixedUpOnlyAfterUpset, AnswerIsForItsCall
  <2> QED BY <2>4, <2>5, <2>6, <2>7 DEF McpInv
<1>2. ASSUME McpInv, reader => transport # "stdio", [McpNext]_mcpVars
      PROVE  McpInv' /\ (reader' => transport' # "stdio")
  <2>1. reader' => transport' # "stdio"
    <3>1. transport' = transport
      BY <1>2 DEF McpNext, Queue, Begin, GiveUp, WriteLine, WriteFails, ReadLine, ReadEof,
                  StreamReady, OpenStream, Address, HandleSseEvent, StreamEnds, Received,
                  PostFails, PostAccepted, TakeBody, EmptyBody, BadBody, TakeFromStream,
                  ServerAnswers, ServerSends, ServerDies, mcpVars
    <3>2. reader' => reader \/ OpenStream
      BY <1>2 DEF McpNext, Queue, Begin, GiveUp, WriteLine, WriteFails, ReadLine, ReadEof,
                  StreamReady, Address, HandleSseEvent, StreamEnds, Received,
                  PostFails, PostAccepted, TakeBody, EmptyBody, BadBody, TakeFromStream,
                  ServerAnswers, ServerSends, ServerDies, mcpVars, sseVars
    <3>3. OpenStream => transport # "stdio"
      BY DEF OpenStream, RequestAt
    <3> QED BY <1>2, <3>1, <3>2, <3>3
  <2>2. CASE McpNext
    <3>1. CASE (\E c \in Callers : Queue(c)) \/ Begin \/ GiveUp
      BY <1>2, <2>1, <3>1, CallersInv
    <3>2. CASE WriteLine \/ WriteFails \/ ReadLine \/ ReadEof
      BY <1>2, <2>1, <3>2, StdioInv
    <3>3. CASE StreamReady \/ OpenStream \/ Address \/ HandleSseEvent \/ StreamEnds
      BY <1>2, <2>1, <3>3, OutputInv
    <3>4. CASE Received \/ PostFails \/ PostAccepted \/ TakeBody \/ EmptyBody \/ BadBody
               \/ TakeFromStream
      BY <1>2, <2>1, <3>4, PostInv
    <3>5. CASE \/ \E i \in Ids : ServerAnswers(i)
               \/ \E message \in {Note, Foreign, Junk} : ServerSends(message)
               \/ ServerDies
      BY <1>2, <2>1, <3>5, ServerInv
    <3> QED BY <2>2, <3>1, <3>2, <3>3, <3>4, <3>5 DEF McpNext
  <2>3. CASE UNCHANGED mcpVars
    BY <1>2, <2>3 DEF mcpVars, wireVars, sseVars, McpInv, RequestOK, WireOK, InTurn, OwnBox,
                      MixedUpOnlyAfterUpset, AnswerIsForItsCall
  <2> QED BY <1>2, <2>1, <2>2, <2>3
<1>3. McpInit => McpInv /\ (reader => transport # "stdio")
  BY <1>1 DEF McpInit
<1>4. /\ McpInv /\ (reader => transport # "stdio") /\ [McpNext]_mcpVars
      => McpInv' /\ (reader => transport # "stdio")'
  BY <1>2
<1> QED BY <1>3, <1>4, PTL DEF McpSpec

\* Whatever the server sends in whatever order, and whichever requests are given
\* up: a request takes another's answer only over stdio and only after one was
\* given up or the server asked something itself; a stream never mixes answers up.
THEOREM AnswersMixedUpOnlyAfterUpset == McpSpec => []MixedUpOnlyAfterUpset
<1>1. McpInv => MixedUpOnlyAfterUpset
  BY DEF McpInv
<1> QED BY McpInductive, <1>1, PTL

(***************************************************************************)
(* TerminalTask                                                            *)
(***************************************************************************)

\* The types of what the output of a command passes through.
Entry == [from : Pipes, chunk : Nat]
OutputTypes ==
  /\ wrote \in [Pipes -> Nat] /\ pipe \in [Pipes -> Seq(Nat)]
  /\ pump \in [Pipes -> {"none", "pumping", "ended", "failed"}]
  /\ chunks \in Seq(Entry) /\ taskLog \in Seq(Entry)
  /\ runner \in {"call", "refused", "spawn", "open", "loop", "ended", "lost"}

\* The log and what is on its way to it, and the chunks read from a pipe.
OnItsWay == taskLog \o chunks
Taken(p) == wrote[p] - Len(pipe[p])
Starting == {"call", "spawn", "open"}

\* While the thread of the task is there, no chunk read from a pipe is missing.
PipeInOrder(p) ==
  /\ \A i \in 1..Len(pipe[p]) : pipe[p][i] = Taken(p) + i
  /\ Taken(p) \in Nat
  /\ KeepsOrder(OnItsWay, p)
  /\ runner \in Starting \cup {"loop"} => Chunks(OnItsWay, p) = 1..Taken(p)

\* Who ended its pump has read all there will be.
PumpInOrder(p) ==
  /\ runner \in Starting => pump[p] = "none"
  /\ runner = "loop" => pump[p] # "none"
  /\ runner = "loop" /\ pump[p] = "ended" => pipe[p] = <<>> /\ ~HoldsPipes
  /\ runner = "loop" /\ sawEof => pump[p] # "pumping"

\* The channel is closed when it is empty, and the record says Exited when the
\* log is complete and nobody writes any more.
EndInOrder ==
  /\ runner \in Starting => ~sawEof
  /\ runner = "loop" /\ sawEof => chunks = <<>>
  /\ record = "Exited" => /\ runner = "ended" /\ ~HoldsPipes
                          /\ \A p \in Pipes : Chunks(taskLog, p) = 1..wrote[p]

TerminalInv ==
  /\ OutputTypes /\ EndInOrder
  /\ \A p \in Pipes : PipeInOrder(p) /\ PumpInOrder(p)
-----------------------------------------------------------------------------
\* The chunks before an entry do not depend on what comes after it.
LEMMA PrefixChunks ==
  ASSUME NEW s \in Seq(Entry), NEW t \in Seq(Entry), NEW p
  PROVE  /\ \A k \in 1..Len(s) + 1 : ChunksBefore(s \o t, p, k) = ChunksBefore(s, p, k)
         /\ KeepsOrder(s \o t, p) => KeepsOrder(s, p)
<1>1. /\ \A i \in 1..Len(s) : (s \o t)[i] = s[i]
      /\ DOMAIN s = 1..Len(s) /\ 1..Len(s) \subseteq DOMAIN (s \o t) /\ Len(s) \in Nat
  OBVIOUS
<1>2. ASSUME NEW k \in 1..Len(s) + 1
      PROVE  ChunksBefore(s \o t, p, k) = ChunksBefore(s, p, k)
  <2>1. 1..k - 1 \subseteq 1..Len(s)
    BY <1>1
  <2>2. \A i \in 1..k - 1 : (s \o t)[i] = s[i]
    BY <1>1, <2>1
  <2>3. {i \in 1..k - 1 : (s \o t)[i].from = p} = {i \in 1..k - 1 : s[i].from = p}
    BY <2>2
  <2> QED BY <2>2, <2>3 DEF ChunksBefore
<1>3. ASSUME KeepsOrder(s \o t, p) PROVE KeepsOrder(s, p)
  <2>1. \A k \in DOMAIN s : k \in 1..Len(s) + 1 /\ k \in DOMAIN (s \o t) /\ (s \o t)[k] = s[k]
    BY <1>1
  <2> QED BY <1>2, <1>3, <2>1 DEF KeepsOrder
<1> QED BY <1>2, <1>3

\* An entry that continues its pipe, or that is of the other, keeps the order.
LEMMA AppendedChunk ==
  ASSUME NEW s \in Seq(Entry), NEW e \in Entry, NEW p, KeepsOrder(s, p),
         e.from = p => e.chunk > 0 /\ Chunks(s, p) = 1..e.chunk - 1
  PROVE  /\ KeepsOrder(Append(s, e), p)
         /\ Chunks(Append(s, e), p) = IF e.from = p THEN 1..e.chunk ELSE Chunks(s, p)
<1> DEFINE t == Append(s, e)
<1>1. /\ Len(t) = Len(s) + 1 /\ DOMAIN t = 1..Len(s) + 1 /\ DOMAIN s = 1..Len(s) /\ Len(s) \in Nat
      /\ t[Len(s) + 1] = e /\ \A i \in 1..Len(s) : t[i] = s[i]
  OBVIOUS
<1>2. e.chunk \in Nat
  BY DEF Entry
<1> HIDE DEF t
<1>3. ASSUME NEW k \in 1..Len(s) + 1
      PROVE  ChunksBefore(t, p, k) = ChunksBefore(s, p, k)
  <2>1. \A i \in 1..k - 1 : t[i] = s[i]
    BY <1>1
  <2>2. {i \in 1..k - 1 : t[i].from = p} = {i \in 1..k - 1 : s[i].from = p}
    BY <2>1
  <2> QED BY <2>1, <2>2 DEF ChunksBefore
<1>4. KeepsOrder(t, p)
  <2> SUFFICES ASSUME NEW k \in DOMAIN t, t[k].from = p
               PROVE  ChunksBefore(t, p, k) = 1..t[k].chunk - 1
    BY DEF KeepsOrder
  <2>1. CASE k \in DOMAIN s
    BY <1>1, <1>3, <2>1 DEF KeepsOrder
  <2>2. CASE k = Len(s) + 1
    BY <1>1, <1>3, <2>2 DEF Chunks
  <2> QED BY <1>1, <2>1, <2>2
<1>5. Chunks(t, p) = ChunksBefore(t, p, Len(s) + 2)
  BY <1>1 DEF Chunks
<1>6. ChunksBefore(t, p, Len(s) + 2) =
        ChunksBefore(t, p, Len(s) + 1) \cup (IF e.from = p THEN {e.chunk} ELSE {})
  <2>1. 1..(Len(s) + 2) - 1 = (1..(Len(s) + 1) - 1) \cup {Len(s) + 1}
    BY <1>1
  <2> QED BY <1>1, <2>1 DEF ChunksBefore
<1>7. ChunksBefore(t, p, Len(s) + 1) = Chunks(s, p)
  BY <1>1, <1>3 DEF Chunks
<1>8. e.from = p => Chunks(t, p) = 1..e.chunk
  <2>1. e.from = p => Chunks(t, p) = (1..e.chunk - 1) \cup {e.chunk}
    BY <1>5, <1>6, <1>7
  <2>2. \A n \in Nat \ {0} : 1..n = (1..n - 1) \cup {n}
    OBVIOUS
  <2>3. e.from = p => e.chunk \in Nat \ {0}
    BY <1>2
  <2> QED BY <2>1, <2>2, <2>3
<1> QED BY <1>4, <1>5, <1>6, <1>7, <1>8 DEF t

\* What is received moves from the channel to the log.
LEMMA MovedEntry ==
  ASSUME NEW s \in Seq(Entry), NEW t \in Seq(Entry)
  PROVE  /\ t # <<>> => Append(s, Head(t)) \o Tail(t) = s \o t
         /\ \A e \in Entry : s \o Append(t, e) = Append(s \o t, e)
         /\ s \o <<>> = s
<1>1. ASSUME t # <<>> PROVE Append(s, Head(t)) \o Tail(t) = s \o t
  <2>1. /\ Head(t) = t[1] /\ Head(t) \in Entry /\ Tail(t) \in Seq(Entry) /\ Len(t) \in Nat \ {0}
        /\ Len(Tail(t)) = Len(t) - 1 /\ \A i \in 1..Len(t) - 1 : Tail(t)[i] = t[i + 1]
    BY <1>1
  <2> DEFINE a == Append(s, Head(t))
             b == Tail(t)
  <2>2. /\ a \in Seq(Entry) /\ b \in Seq(Entry) /\ Len(a) = Len(s) + 1 /\ Len(s) \in Nat
        /\ a[Len(s) + 1] = t[1] /\ \A i \in 1..Len(s) : a[i] = s[i]
    BY <2>1
  <2>3. Len(b) = Len(t) - 1 /\ \A i \in 1..Len(t) - 1 : b[i] = t[i + 1]
    BY <2>1
  <2> HIDE DEF a, b
  <2>4. b \in Seq(Entry)
    BY <2>1 DEF b
  <2>5. /\ a \o b \in Seq(Entry) /\ s \o t \in Seq(Entry)
        /\ Len(a \o b) = Len(a) + Len(b) /\ Len(s \o t) = Len(s) + Len(t)
    BY <2>2, <2>4, ConcatProperties
  <2>6. Len(a \o b) = Len(s \o t)
    BY <2>1, <2>2, <2>3, <2>5
  <2>7. ASSUME NEW i \in 1..Len(s \o t) PROVE (a \o b)[i] = (s \o t)[i]
    <3>1. CASE i \in 1..Len(s)
      BY <2>2, <2>4, <3>1
    <3>2. CASE i = Len(s) + 1
      BY <2>1, <2>2, <2>4, <3>2
    <3>3. CASE i \in Len(s) + 2..Len(s) + Len(t)
      <4>1. (a \o b)[i] = b[i - (Len(s) + 1)] /\ (s \o t)[i] = t[i - Len(s)]
        BY <2>1, <2>2, <2>3, <2>4, <3>3
      <4>2. i - (Len(s) + 1) \in 1..Len(t) - 1 /\ i - (Len(s) + 1) + 1 = i - Len(s)
        BY <2>1, <2>2, <3>3
      <4> QED BY <2>3, <4>1, <4>2
    <3>4. i \in 1..Len(s) + Len(t)
      BY <2>5
    <3>5. Len(s) \in Nat /\ Len(t) \in Nat
      BY <2>1, <2>2
    <3>6. i \in 1..Len(s) \/ i = Len(s) + 1 \/ i \in Len(s) + 2..Len(s) + Len(t)
      BY <3>4, <3>5
    <3> QED BY <3>1, <3>2, <3>3, <3>6
  <2>8. a \o b = s \o t
    BY <2>5, <2>6, <2>7, SeqEqual
  <2> QED BY <2>8 DEF a, b
<1>2. ASSUME NEW e \in Entry PROVE s \o Append(t, e) = Append(s \o t, e)
  BY AppendIsConcat, ConcatAssociative
<1>3. s \o <<>> = s
  OBVIOUS
<1> QED BY <1>1, <1>2, <1>3
-----------------------------------------------------------------------------
\* Where nothing moved, the pipes are as they were.
LEMMA StillInOrder ==
  ASSUME TerminalInv, UNCHANGED <<taskLog, chunks, pipe, wrote>>,
         runner' \in Starting \cup {"loop"} => runner \in Starting \cup {"loop"}
  PROVE  \A p \in Pipes : PipeInOrder(p)'
BY SMTT(30) DEF TerminalInv, PipeInOrder, OnItsWay, Taken, KeepsOrder, Chunks, ChunksBefore

\* A thread that fails drops the channel, and what is in the log stays in order.
LEMMA ChannelDropped ==
  ASSUME TerminalInv, taskLog' = taskLog, chunks' = <<>>, UNCHANGED <<pipe, wrote>>,
         runner' \notin Starting \cup {"loop"}
  PROVE  \A p \in Pipes : PipeInOrder(p)'
<1>1. taskLog \in Seq(Entry) /\ chunks \in Seq(Entry)
  BY DEF TerminalInv, OutputTypes
<1>2. OnItsWay' = taskLog
  BY <1>1, MovedEntry DEF OnItsWay
<1>3. \A p \in Pipes : KeepsOrder(taskLog, p)
  BY <1>1, PrefixChunks DEF TerminalInv, PipeInOrder, OnItsWay
<1> SUFFICES ASSUME NEW p \in Pipes PROVE PipeInOrder(p)'
  OBVIOUS
<1>4. KeepsOrder(OnItsWay, p)'
  BY <1>2, <1>3 DEF KeepsOrder, ChunksBefore
<1> QED BY <1>4 DEF TerminalInv, PipeInOrder, Taken

\* Starting the command.
LEMMA StartInv ==
  ASSUME TerminalInv, StartTerminalTask \/ Spawn \/ OpenLog
  PROVE  TerminalInv'
<1>1. /\ UNCHANGED <<taskLog, chunks, pipe, wrote, sawEof>>
      /\ runner \in Starting /\ runner' \in Starting \cup {"loop", "refused"}
      /\ runner' = "loop" => OpenLog
  BY DEF StartTerminalTask, Spawn, OpenLog, loopVars, pumpVars, processVars, Starting
<1>2. runner' \in Starting \cup {"loop"} => runner \in Starting \cup {"loop"}
  BY <1>1
<1>3. \A p \in Pipes : PipeInOrder(p)'
  BY <1>1, <1>2, StillInOrder
<1>4. pump' = pump \/ pump' = [p \in Pipes |-> "pumping"]
  BY DEF StartTerminalTask, Spawn, OpenLog, pumpVars
<1>5. OutputTypes'
  <2>1. runner' \in {"call", "refused", "spawn", "open", "loop", "ended", "lost"}
    BY <1>1 DEF Starting
  <2> QED BY <1>1, <1>4, <2>1 DEF TerminalInv, OutputTypes
<1>6. \A p \in Pipes : PumpInOrder(p)'
  BY <1>1 DEF TerminalInv, PumpInOrder, EndInOrder, StartTerminalTask, Spawn, OpenLog, pumpVars,
              processVars, Starting
<1>7. EndInOrder'
  <2>1. ~sawEof /\ record # "Exited"
    BY <1>1 DEF TerminalInv, EndInOrder, Starting
  <2>2. record' # "Exited"
    BY <2>1 DEF StartTerminalTask, Spawn, OpenLog
  <2> QED BY <1>1, <2>1, <2>2 DEF EndInOrder
<1> QED BY <1>3, <1>5, <1>6, <1>7 DEF TerminalInv

\* The thread fails, or the process dies, or a program is not there.
LEMMA FailuresInv ==
  ASSUME TerminalInv, ProgramNotFound \/ SpawnFails \/ OpenLogFails \/ WriteLogFails \/ CrashTask
  PROVE  TerminalInv'
<1>1. UNCHANGED <<taskLog, pipe, wrote, sawEof>> /\ runner # "ended"
  BY DEF ProgramNotFound, SpawnFails, OpenLogFails, WriteLogFails, CrashTask, pumpVars, loopVars
<1>2. record # "Exited"
  BY <1>1 DEF TerminalInv, EndInOrder
<1>3. CASE UNCHANGED <<runner, record, shell, chunks>> /\ ProgramNotFound
  <2>1. UNCHANGED <<pump, heir>>
    BY <1>3 DEF ProgramNotFound, pumpVars
  <2>2. \A p \in Pipes : PipeInOrder(p)'
    BY <1>1, <1>3, StillInOrder
  <2> QED BY <1>1, <1>2, <1>3, <2>1, <2>2
          DEF TerminalInv, OutputTypes, PumpInOrder, EndInOrder, HoldsPipes
<1>4. CASE /\ runner' \in {"ended", "lost"} /\ chunks' = <<>> /\ record' \in {record, "Failed"}
           /\ pump' \in {pump, [p \in Pipes |-> IF pump[p] = "pumping" THEN "ended" ELSE pump[p]]}
  <2>1. runner' \notin Starting \cup {"loop"}
    BY <1>4 DEF Starting
  <2>2. \A p \in Pipes : PipeInOrder(p)'
    BY <1>1, <1>4, <2>1, ChannelDropped
  <2>3. OutputTypes'
    <3>1. <<>> \in Seq(Entry)
      OBVIOUS
    <3>2. pump' \in [Pipes -> {"none", "pumping", "ended", "failed"}]
      BY <1>4 DEF TerminalInv, OutputTypes
    <3> QED BY <1>1, <1>4, <3>1, <3>2 DEF TerminalInv, OutputTypes
  <2>4. EndInOrder' /\ \A p \in Pipes : PumpInOrder(p)'
    BY <1>2, <1>4, <2>1 DEF EndInOrder, PumpInOrder
  <2> QED BY <2>2, <2>3, <2>4 DEF TerminalInv
<1>5. \/ UNCHANGED <<runner, record, shell, chunks>> /\ ProgramNotFound
      \/ /\ runner' \in {"ended", "lost"} /\ chunks' = <<>> /\ record' \in {record, "Failed"}
         /\ pump' \in {pump, [p \in Pipes |-> IF pump[p] = "pumping" THEN "ended" ELSE pump[p]]}
  BY DEF ProgramNotFound, SpawnFails, OpenLogFails, WriteLogFails, CrashTask, FailTask, pumpVars
<1> QED BY <1>3, <1>4, <1>5

\* The command writes to the end of a pipe, or moves nothing.
LEMMA CommandInv ==
  ASSUME TerminalInv, Command
  PROVE  TerminalInv'
<1>1. /\ UNCHANGED <<taskLog, chunks, runner, pump, sawEof, record>>
      /\ HoldsPipes
  BY DEF Command, CommandWrites, CommandForks, ShellExits, HeirExits, HoldsPipes, loopVars, pumpVars
<1>2. record # "Exited"
  BY <1>1 DEF TerminalInv, EndInOrder
<1>3. \A p \in Pipes : runner = "loop" => pump[p] # "ended"
  BY <1>1 DEF TerminalInv, PumpInOrder
<1>4. EndInOrder' /\ \A p \in Pipes : PumpInOrder(p)'
  BY <1>1, <1>2, <1>3 DEF TerminalInv, EndInOrder, PumpInOrder
<1>5. CASE UNCHANGED <<pipe, wrote>>
  <2>1. \A p \in Pipes : PipeInOrder(p)'
    BY <1>1, <1>5, StillInOrder
  <2> QED BY <1>1, <1>4, <1>5, <2>1 DEF TerminalInv, OutputTypes
<1>6. CASE \E p \in Pipes : CommandWrites(p)
  <2>1. PICK p \in Pipes : /\ wrote' = [wrote EXCEPT ![p] = @ + 1]
                           /\ pipe' = [pipe EXCEPT ![p] = Append(@, wrote'[p])]
    BY <1>6 DEF CommandWrites
  <2>2. /\ wrote \in [Pipes -> Nat] /\ pipe \in [Pipes -> Seq(Nat)]
        /\ pipe[p] \in Seq(Nat) /\ wrote[p] \in Nat
    BY DEF TerminalInv, OutputTypes
  <2>3. /\ wrote'[p] = wrote[p] + 1 /\ pipe'[p] = Append(pipe[p], wrote[p] + 1)
        /\ \A q \in Pipes : q # p => wrote'[q] = wrote[q] /\ pipe'[q] = pipe[q]
    BY <2>1, <2>2
  <2>4. /\ Len(pipe'[p]) = Len(pipe[p]) + 1 /\ Len(pipe[p]) \in Nat
        /\ pipe'[p][Len(pipe[p]) + 1] = wrote[p] + 1
        /\ \A i \in 1..Len(pipe[p]) : pipe'[p][i] = pipe[p][i]
    BY <2>2, <2>3
  <2>5. \A q \in Pipes : Taken(q)' = Taken(q)
    <3>1. (wrote[p] + 1) - (Len(pipe[p]) + 1) = wrote[p] - Len(pipe[p])
      BY <2>2, <2>4
    <3>2. wrote'[p] - Len(pipe'[p]) = wrote[p] - Len(pipe[p])
      BY <2>3, <2>4, <3>1
    <3> QED BY <2>3, <3>2 DEF Taken
  <2>6. ASSUME NEW q \in Pipes PROVE PipeInOrder(q)'
    <3>1. /\ KeepsOrder(OnItsWay, q)'
          /\ runner' \in Starting \cup {"loop"} => (Chunks(OnItsWay, q) = 1..Taken(q))'
          /\ Taken(q)' \in Nat
      <4>1. OnItsWay' = OnItsWay /\ Taken(q)' = Taken(q) /\ runner' = runner
        BY <1>1, <2>5 DEF OnItsWay
      <4>2. KeepsOrder(OnItsWay, q)' <=> KeepsOrder(OnItsWay, q)
        BY <4>1 DEF KeepsOrder, ChunksBefore
      <4>3. Chunks(OnItsWay, q)' = Chunks(OnItsWay, q)
        BY <4>1 DEF Chunks, ChunksBefore
      <4> QED BY <4>1, <4>2, <4>3 DEF TerminalInv, PipeInOrder
    <3>2. \A i \in 1..Len(pipe'[q]) : pipe'[q][i] = Taken(q) + i
      <4>1. CASE q # p
        BY <2>3, <4>1 DEF TerminalInv, PipeInOrder
      <4>2. CASE q = p
        <5>1. Taken(p) + (Len(pipe[p]) + 1) = wrote[p] + 1
          BY <2>2, <2>4 DEF Taken
        <5>2. \A i \in 1..Len(pipe[p]) : pipe[p][i] = Taken(p) + i
          BY DEF TerminalInv, PipeInOrder
        <5>3. \A i \in 1..Len(pipe[p]) + 1 : i \in 1..Len(pipe[p]) \/ i = Len(pipe[p]) + 1
          BY <2>4
        <5> QED BY <2>4, <4>2, <5>1, <5>2, <5>3
      <4> QED BY <4>1, <4>2
    <3> QED BY <2>5, <3>1, <3>2 DEF PipeInOrder
  <2>7. OutputTypes'
    <3>1. wrote' \in [Pipes -> Nat]
      BY <2>1, <2>2
    <3>2. Append(pipe[p], wrote[p] + 1) \in Seq(Nat)
      BY <2>2
    <3>3. pipe' \in [Pipes -> Seq(Nat)]
      BY <2>1, <2>2, <2>3, <3>2
    <3> QED BY <1>1, <3>1, <3>3 DEF TerminalInv, OutputTypes
  <2> QED BY <1>4, <2>6, <2>7 DEF TerminalInv
<1> QED BY <1>5, <1>6 DEF Command, CommandForks, ShellExits, HeirExits, pumpVars

\* A pump carries the next chunk of its pipe to the channel, or drops it when
\* nobody receives any more.
LEMMA PumpChunkInv ==
  ASSUME TerminalInv, NEW p \in Pipes, PumpChunk(p)
  PROVE  TerminalInv'
<1>1. /\ pump[p] = "pumping" /\ pipe[p] # <<>> /\ pipe' = [pipe EXCEPT ![p] = Tail(@)]
      /\ UNCHANGED <<runner, taskLog, wrote, shell, heir, sawEof, record>>
  BY DEF PumpChunk, processVars, loopVars
<1>2. /\ pipe \in [Pipes -> Seq(Nat)] /\ pipe[p] \in Seq(Nat) /\ wrote \in [Pipes -> Nat]
      /\ pump \in [Pipes -> {"none", "pumping", "ended", "failed"}]
      /\ taskLog \in Seq(Entry) /\ chunks \in Seq(Entry)
  BY DEF TerminalInv, OutputTypes
<1>3. /\ pipe'[p] = Tail(pipe[p]) /\ \A q \in Pipes : q # p => pipe'[q] = pipe[q]
      /\ pipe' \in [Pipes -> Seq(Nat)]
  <2>1. Tail(pipe[p]) \in Seq(Nat)
    BY <1>1, <1>2
  <2> QED BY <1>1, <1>2, <2>1
<1>4. /\ Len(pipe[p]) \in Nat \ {0} /\ Len(pipe'[p]) = Len(pipe[p]) - 1
      /\ Head(pipe[p]) = pipe[p][1] /\ Head(pipe[p]) \in Nat
      /\ \A i \in 1..Len(pipe[p]) - 1 : pipe'[p][i] = pipe[p][i + 1]
  BY <1>1, <1>2, <1>3
<1>5. Taken(p)' = Taken(p) + 1 /\ \A q \in Pipes : q # p => Taken(q)' = Taken(q)
  <2>1. wrote[p] - (Len(pipe[p]) - 1) = (wrote[p] - Len(pipe[p])) + 1
    BY <1>2, <1>4
  <2> QED BY <1>1, <1>3, <1>4, <2>1 DEF Taken
<1>6. \A q \in Pipes : /\ \A i \in 1..Len(pipe[q]) : pipe[q][i] = Taken(q) + i
                       /\ Taken(q) \in Nat /\ KeepsOrder(OnItsWay, q)
                       /\ runner \in Starting \cup {"loop"} => Chunks(OnItsWay, q) = 1..Taken(q)
  BY DEF TerminalInv, PipeInOrder
<1>7. \A i \in 1..Len(pipe'[p]) : pipe'[p][i] = Taken(p)' + i
  <2> SUFFICES ASSUME NEW i \in 1..Len(pipe'[p]) PROVE pipe'[p][i] = Taken(p)' + i
    OBVIOUS
  <2>1. i \in 1..Len(pipe[p]) - 1 /\ i + 1 \in 1..Len(pipe[p])
    BY <1>4
  <2>2. pipe'[p][i] = Taken(p) + (i + 1)
    BY <1>4, <1>6, <2>1
  <2> QED BY <1>5, <1>6, <2>1, <2>2
<1>8. EndInOrder' /\ \A q \in Pipes : PumpInOrder(q)'
  <2>1. runner \notin Starting /\ (runner = "loop" => ~sawEof)
    BY <1>1 DEF TerminalInv, PumpInOrder
  <2>2. HoldsPipes' = HoldsPipes
    BY <1>1 DEF HoldsPipes
  <2>3. runner = "loop" => pump' = pump
    BY DEF PumpChunk
  <2>4. EndInOrder'
    BY <1>1, <2>1, <2>2 DEF TerminalInv, EndInOrder, Chunks, ChunksBefore
  <2>5. ASSUME NEW q \in Pipes PROVE PumpInOrder(q)'
    BY <1>1, <1>3, <2>1, <2>2, <2>3 DEF TerminalInv, PumpInOrder
  <2> QED BY <2>4, <2>5
<1>9. ASSUME NEW q \in Pipes
       PROVE  Taken(q)' \in Nat /\ \A i \in 1..Len(pipe'[q]) : pipe'[q][i] = Taken(q)' + i
  <2>1. CASE q = p
    BY <1>5, <1>6, <1>7, <2>1
  <2>2. CASE q # p
    <3>1. pipe'[q] = pipe[q] /\ Taken(q)' = Taken(q)
      BY <1>3, <1>5, <2>2
    <3> QED BY <1>6, <3>1
  <2> QED BY <2>1, <2>2
<1>10. CASE runner = "loop"
  <2>1. PICK e : e = [from |-> p, chunk |-> Head(pipe[p])]
    OBVIOUS
  <2>2. chunks' = Append(chunks, e) /\ pump' = pump
    BY <1>10, <2>1 DEF PumpChunk
  <2>3. e \in Entry /\ e.from = p /\ e.chunk = Taken(p) + 1
    <3>1. Head(pipe[p]) = Taken(p) + 1
      BY <1>4, <1>6
    <3> QED BY <1>4, <2>1, <3>1 DEF Entry
  <2>4. OnItsWay \in Seq(Entry) /\ OnItsWay' = Append(OnItsWay, e)
    <3>1. taskLog \o chunks \in Seq(Entry)
      BY <1>2
    <3> QED BY <1>1, <1>2, <2>2, <2>3, <3>1, MovedEntry DEF OnItsWay
  <2>5. PICK w \in Seq(Entry) : w = OnItsWay
    BY <2>4
  <2>6. ASSUME NEW q \in Pipes
        PROVE  /\ KeepsOrder(Append(w, e), q)
               /\ Chunks(Append(w, e), q) = IF q = p THEN 1..Taken(p) + 1 ELSE 1..Taken(q)
    <3>1. KeepsOrder(w, q) /\ Chunks(w, q) = 1..Taken(q) /\ Taken(q) \in Nat
      BY <1>6, <1>10, <2>5
    <3>2. e.from = q => e.chunk > 0 /\ Chunks(w, q) = 1..e.chunk - 1
      <4>1. e.from = q => q = p /\ (Taken(p) + 1) - 1 = Taken(p) /\ Taken(p) + 1 > 0
        BY <2>3, <3>1
      <4> QED BY <2>3, <3>1, <4>1
    <3>3. /\ KeepsOrder(Append(w, e), q)
          /\ Chunks(Append(w, e), q) = IF e.from = q THEN 1..e.chunk ELSE Chunks(w, q)
      BY <2>3, <3>1, <3>2, AppendedChunk
    <3> QED BY <2>3, <3>1, <3>3
  <2>7. ASSUME NEW q \in Pipes PROVE PipeInOrder(q)'
    <3>1. OnItsWay' = Append(w, e)
      BY <2>4, <2>5
    <3>2. KeepsOrder(OnItsWay, q)' /\ (Chunks(OnItsWay, q) = 1..Taken(q))'
      <4>1. (1..Taken(q))' = IF q = p THEN 1..Taken(p) + 1 ELSE 1..Taken(q)
        BY <1>5
      <4>2. PICK t : t = Append(w, e)
        OBVIOUS
      <4>3. KeepsOrder(OnItsWay, q)' <=> KeepsOrder(t, q)
        BY <3>1, <4>2 DEF KeepsOrder, ChunksBefore
      <4>4. Chunks(OnItsWay, q)' = Chunks(t, q)
        BY <3>1, <4>2 DEF Chunks, ChunksBefore
      <4>5. KeepsOrder(t, q) /\ Chunks(t, q) = IF q = p THEN 1..Taken(p) + 1 ELSE 1..Taken(q)
        BY <2>6, <4>2
      <4> QED BY <4>1, <4>3, <4>4, <4>5
    <3>3. Taken(q)' \in Nat /\ \A i \in 1..Len(pipe'[q]) : pipe'[q][i] = Taken(q)' + i
      BY <1>9
    <3> QED BY <3>2, <3>3 DEF PipeInOrder
  <2>8. chunks' \in Seq(Entry)
    BY <1>2, <2>2, <2>3
  <2> QED BY <1>1, <1>2, <1>3, <1>8, <2>2, <2>7, <2>8 DEF TerminalInv, OutputTypes
<1>11. CASE runner # "loop"
  <2>1. chunks' = chunks /\ pump' = [pump EXCEPT ![p] = "ended"]
    BY <1>11 DEF PumpChunk
  <2>2. runner' \notin Starting \cup {"loop"} /\ OnItsWay' = OnItsWay
    BY <1>1, <1>11, <2>1 DEF TerminalInv, PumpInOrder, OnItsWay
  <2>3. ASSUME NEW q \in Pipes PROVE PipeInOrder(q)'
    <3>1. KeepsOrder(OnItsWay, q)'
      BY <1>6, <2>2 DEF KeepsOrder, ChunksBefore
    <3>2. Taken(q)' \in Nat /\ \A i \in 1..Len(pipe'[q]) : pipe'[q][i] = Taken(q)' + i
      BY <1>9
    <3> QED BY <2>2, <3>1, <3>2 DEF PipeInOrder
  <2>4. pump' \in [Pipes -> {"none", "pumping", "ended", "failed"}]
    BY <1>2, <2>1
  <2> QED BY <1>1, <1>2, <1>3, <1>8, <2>1, <2>3, <2>4 DEF TerminalInv, OutputTypes
<1> QED BY <1>10, <1>11

\* A pump stops at the end of its pipe, or when reading fails.
LEMMA PumpStopsInv ==
  ASSUME TerminalInv, NEW p \in Pipes, PumpEnds(p) \/ PumpFails(p)
  PROVE  TerminalInv'
<1>1. /\ UNCHANGED <<taskLog, chunks, pipe, wrote, runner, shell, heir, sawEof, record>>
      /\ pump[p] = "pumping"
  BY DEF PumpEnds, PumpFails, processVars, loopVars
<1>2. PICK to \in {"ended", "failed"} :
        /\ pump' = [pump EXCEPT ![p] = to]
        /\ to = "ended" => pipe[p] = <<>> /\ ~HoldsPipes
  BY DEF PumpEnds, PumpFails
<1>3. pump \in [Pipes -> {"none", "pumping", "ended", "failed"}]
  BY DEF TerminalInv, OutputTypes
<1>4. \A q \in Pipes : pump'[q] = IF q = p THEN to ELSE pump[q]
  BY <1>2, <1>3
<1>5. pump' \in [Pipes -> {"none", "pumping", "ended", "failed"}]
  BY <1>2, <1>3
<1>6. \A q \in Pipes : PipeInOrder(q)'
  BY <1>1, StillInOrder
<1>7. HoldsPipes' = HoldsPipes
  BY <1>1 DEF HoldsPipes
<1>8. EndInOrder'
  BY <1>1, <1>7 DEF TerminalInv, EndInOrder, Chunks, ChunksBefore
<1>9. \A q \in Pipes : PumpInOrder(q)'
  BY <1>1, <1>2, <1>4, <1>7 DEF TerminalInv, PumpInOrder
<1> QED BY <1>1, <1>5, <1>6, <1>8, <1>9 DEF TerminalInv, OutputTypes

\* The thread receives a chunk, the end of the channel or word of the shell.
LEMMA LoopInv ==
  ASSUME TerminalInv, Receive \/ ReceiveEof \/ Poll \/ Timeout \/ Finish \/ RecoverTask
  PROVE  TerminalInv'
<1>1. /\ UNCHANGED <<pipe, wrote, pump, heir>>
      /\ shell' = "running" => shell = "running"
  BY DEF Receive, ReceiveEof, Poll, Timeout, Finish, RecoverTask, pumpVars, processVars
<1>2. HoldsPipes' => HoldsPipes
  BY <1>1 DEF HoldsPipes
<1>3. taskLog \in Seq(Entry) /\ chunks \in Seq(Entry)
  BY DEF TerminalInv, OutputTypes
<1>4. CASE Receive
  <2>1. /\ runner = "loop" /\ ~sawEof /\ chunks # <<>> /\ chunks' = Tail(chunks)
        /\ taskLog' = Append(taskLog, Head(chunks)) /\ UNCHANGED <<runner, sawEof, record>>
    BY <1>4 DEF Receive
  <2>2. OnItsWay' = OnItsWay
    BY <1>3, <2>1, MovedEntry DEF OnItsWay
  <2>3. Head(chunks) \in Entry /\ Tail(chunks) \in Seq(Entry)
    BY <1>3, <2>1
  <2>4. taskLog' \in Seq(Entry) /\ chunks' \in Seq(Entry)
    BY <1>3, <2>1, <2>3
  <2>5. ASSUME NEW q \in Pipes PROVE PipeInOrder(q)'
    <3>1. Taken(q)' = Taken(q)
      BY <1>1 DEF Taken
    <3>2. KeepsOrder(OnItsWay, q)' <=> KeepsOrder(OnItsWay, q)
      BY <2>2 DEF KeepsOrder, ChunksBefore
    <3>3. Chunks(OnItsWay, q)' = Chunks(OnItsWay, q)
      BY <2>2 DEF Chunks, ChunksBefore
    <3> QED BY <1>1, <2>1, <3>1, <3>2, <3>3 DEF TerminalInv, PipeInOrder
  <2>6. record # "Exited"
    BY <2>1 DEF TerminalInv, EndInOrder
  <2>7. EndInOrder' /\ \A q \in Pipes : PumpInOrder(q)'
    BY <1>1, <1>2, <2>1, <2>6 DEF TerminalInv, EndInOrder, PumpInOrder
  <2> QED BY <1>1, <2>1, <2>4, <2>5, <2>7 DEF TerminalInv, OutputTypes
<1>5. CASE ReceiveEof \/ Poll \/ Timeout \/ RecoverTask
  <2>1. /\ UNCHANGED <<runner, chunks, taskLog>>
        /\ sawEof' # sawEof => /\ runner = "loop" /\ chunks = <<>>
                               /\ \A q \in Pipes : pump[q] # "pumping"
        /\ record' \in {record, "Failed"}
    BY <1>5 DEF ReceiveEof, Poll, Timeout, RecoverTask, loopVars
  <2>2. \A q \in Pipes : PipeInOrder(q)'
    BY <1>1, <2>1, StillInOrder
  <2>3. \A q \in Pipes : PumpInOrder(q)'
    BY <1>1, <1>2, <2>1 DEF TerminalInv, PumpInOrder
  <2>4. EndInOrder'
    BY <1>1, <1>2, <2>1 DEF TerminalInv, EndInOrder, Chunks, ChunksBefore, Starting
  <2> QED BY <1>1, <2>1, <2>2, <2>3, <2>4 DEF TerminalInv, OutputTypes
<1>6. CASE Finish
  <2>1. /\ runner = "loop" /\ sawEof /\ runner' = "ended"
        /\ record' = "Exited" => \A q \in Pipes : pump[q] # "failed"
        /\ UNCHANGED <<chunks, taskLog, shell, sawEof>>
    BY <1>6 DEF Finish, LoopIsOver, loopVars, processVars
  <2>2. \A q \in Pipes : PipeInOrder(q)'
    BY <1>1, <2>1, StillInOrder
  <2>3. ASSUME record' = "Exited"
        PROVE  ~HoldsPipes /\ \A q \in Pipes : Chunks(taskLog, q) = 1..wrote[q]
    <3>1. chunks = <<>>
      BY <2>1 DEF TerminalInv, EndInOrder
    <3>2. \A q \in Pipes : pump[q] = "ended"
      BY <2>1, <2>3 DEF TerminalInv, OutputTypes, PumpInOrder
    <3>3. ~HoldsPipes /\ \A q \in Pipes : pipe[q] = <<>>
      BY <2>1, <3>2 DEF TerminalInv, PumpInOrder, Pipes
    <3>4. OnItsWay = taskLog
      BY <1>3, <3>1, MovedEntry DEF OnItsWay
    <3>5. \A q \in Pipes : Taken(q) = wrote[q]
      <4>1. \A q \in Pipes : wrote[q] \in Nat /\ Len(pipe[q]) = 0
        BY <3>3 DEF TerminalInv, OutputTypes
      <4> QED BY <4>1 DEF Taken
    <3>6. \A q \in Pipes : Chunks(OnItsWay, q) = 1..Taken(q)
      BY <2>1 DEF TerminalInv, PipeInOrder
    <3> QED BY <3>3, <3>4, <3>5, <3>6
  <2>4. EndInOrder' /\ \A q \in Pipes : PumpInOrder(q)'
    <3>1. \A q \in Pipes : (Chunks(taskLog, q) = 1..wrote[q])' <=> (Chunks(taskLog, q) = 1..wrote[q])
      BY <1>1, <2>1 DEF Chunks, ChunksBefore
    <3> QED BY <1>2, <2>1, <2>3, <3>1 DEF EndInOrder, PumpInOrder, Starting
  <2>5. OutputTypes'
    BY <1>1, <2>1 DEF TerminalInv, OutputTypes
  <2> QED BY <2>2, <2>4, <2>5 DEF TerminalInv
<1> QED BY <1>4, <1>5, <1>6

\* The invariant holds initially and every step preserves it.
LEMMA TerminalInductive == TerminalSpec => []TerminalInv
<1>1. ASSUME TerminalInit PROVE TerminalInv
  <2>1. taskLog = <<>> /\ chunks = <<>> /\ OnItsWay = <<>>
    BY <1>1 DEF TerminalInit, OnItsWay
  <2>2. OutputTypes
    <3>1. <<>> \in Seq(Entry) /\ <<>> \in Seq(Nat)
      OBVIOUS
    <3> QED BY <1>1, <3>1 DEF TerminalInit, OutputTypes
  <2>3. EndInOrder /\ \A p \in Pipes : PumpInOrder(p)
    BY <1>1 DEF TerminalInit, EndInOrder, PumpInOrder, Starting
  <2>4. ASSUME NEW p \in Pipes PROVE PipeInOrder(p)
    <3>1. Taken(p) = 0 /\ pipe[p] = <<>>
      BY <1>1 DEF TerminalInit, Taken
    <3>2. KeepsOrder(<<>>, p) /\ Chunks(<<>>, p) = 1..0
      BY DEF KeepsOrder, Chunks, ChunksBefore
    <3> QED BY <2>1, <3>1, <3>2 DEF PipeInOrder
  <2> QED BY <2>2, <2>3, <2>4 DEF TerminalInv
<1>2. ASSUME TerminalInv, [TerminalNext]_terminalVars PROVE TerminalInv'
  <2>1. CASE StartTerminalTask \/ Spawn \/ OpenLog
    BY <1>2, <2>1, StartInv
  <2>2. CASE ProgramNotFound \/ SpawnFails \/ OpenLogFails \/ WriteLogFails \/ CrashTask
    BY <1>2, <2>2, FailuresInv
  <2>3. CASE Command
    BY <1>2, <2>3, CommandInv
  <2>4. CASE \E p \in Pipes : PumpChunk(p) \/ PumpEnds(p) \/ PumpFails(p)
    BY <1>2, <2>4, PumpChunkInv, PumpStopsInv
  <2>5. CASE Receive \/ ReceiveEof \/ Poll \/ Timeout \/ Finish \/ RecoverTask
    BY <1>2, <2>5, LoopInv
  <2>6. CASE UNCHANGED terminalVars
    <3>1. UNCHANGED <<taskLog, chunks, pipe, wrote, runner, shell, heir, pump, sawEof, record>>
      BY <2>6 DEF terminalVars, processVars, pumpVars, loopVars
    <3>2. \A p \in Pipes : PipeInOrder(p)'
      BY <1>2, <3>1, StillInOrder
    <3>3. EndInOrder' /\ \A p \in Pipes : PumpInOrder(p)'
      BY <1>2, <3>1
         DEF TerminalInv, EndInOrder, PumpInOrder, HoldsPipes, Chunks, ChunksBefore
    <3> QED BY <1>2, <3>1, <3>2, <3>3 DEF TerminalInv, OutputTypes
  <2> QED BY <1>2, <2>1, <2>2, <2>3, <2>4, <2>5, <2>6 DEF TerminalNext, TaskThread
<1>3. TerminalInit => TerminalInv
  BY <1>1
<1>4. TerminalInv /\ [TerminalNext]_terminalVars => TerminalInv'
  BY <1>2
<1> QED BY <1>3, <1>4, PTL DEF TerminalSpec

\* However the command, its pumps, the thread of the task, the time limit, crashes
\* and processes left behind interleave, the log of a task misses nothing between
\* two chunks of a pipe, and nothing at all once the task is recorded as Exited.
THEOREM LogHoldsAllOutput == TerminalSpec => []LogHoldsOutput
<1>1. ASSUME TerminalInv PROVE LogHoldsOutput
  <2>1. taskLog \in Seq(Entry) /\ chunks \in Seq(Entry)
    BY <1>1 DEF TerminalInv, OutputTypes
  <2>2. \A p \in Pipes : KeepsOrder(taskLog, p)
    BY <1>1, <2>1, PrefixChunks DEF TerminalInv, PipeInOrder, OnItsWay
  <2> QED BY <1>1, <2>2 DEF TerminalInv, EndInOrder, LogHoldsOutput
<1>2. TerminalInv => LogHoldsOutput
  BY <1>1
<1> QED BY TerminalInductive, <1>2, PTL
=============================================================================
