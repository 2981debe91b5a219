------------------------------ MODULE SessionLog ------------------------------
(***************************************************************************)
(* The session log of an agent (crates/sa-core/src/session.rs): segments   *)
(* of JSON lines, the pointer to the current one, loading with repair,     *)
(* appending, and the new segment a compaction starts.                     *)
(*                                                                         *)
(* Every write call is a step: a line, its newline, the truncation of a    *)
(* file, the pointer.  The process may die between any two of them, and    *)
(* within a line, which leaves a fragment.  Paths, their checks and the    *)
(* metadata in the first line are left out; a segment's name is a number,  *)
(* greater for a later one (two segments of one second have no such order).*)
(* One store uses the log: SessionLock says when that is so.               *)
(***************************************************************************)
EXTENDS Transcript, Places

CONSTANTS MaxSegments, MaxAppends, MaxDeaths  \* bounds

\* There is room for a first segment.
ASSUME LogBoundsAssumption == /\ MaxSegments \in Nat \ {0}
                              /\ {MaxAppends, MaxDeaths} \subseteq Nat

Segments == 1..MaxSegments
NoSegment == 0

\* Lines of a file that are no messages.
Meta == Text("meta")
Summary == Text("summary")
Fragment == Text("fragment")
IsMessage(line) == line.role \in {"user", "assistant", "tool"}

VARIABLES
  segment,  \* segments: lines, and whether the last line has its newline
  pointer,  \* sessions/current: a segment, or NoSegment when absent or empty
  store,    \* SessionStore: closed, open, or loaded (the runner has the messages)
  current,  \* SessionState: the segment that is current
  replayed, \* messages of the runner, when loaded
  logWrites, \* the write calls left of the operation under way
  result,   \* what the operation gives when it is done
  logAppends, deaths,  \* counters
  promise,  \* history: logs a reader may find, whenever it looks
  joined    \* history: segments in which a line was joined to an earlier one

logVars == <<segment, pointer, store, current, replayed, logWrites, result, logAppends, deaths,
             promise, joined>>

Absent == [lines |-> <<>>, ended |-> TRUE, exists |-> FALSE]
Empty == [Absent EXCEPT !.exists = TRUE]
Nothing == [store |-> "closed", current |-> NoSegment, replayed |-> <<>>]

LogInit ==
  /\ segment = [s \in Segments |-> Absent]
  /\ pointer = NoSegment
  /\ store = "closed" /\ current = NoSegment /\ replayed = <<>>
  /\ logWrites = <<>> /\ result = Nothing
  /\ logAppends = 0 /\ deaths = 0
  /\ promise = {<<>>} /\ joined = {}

-----------------------------------------------------------------------------
(* Reading                                                                  *)

\* parse_session_file: a last line without newline that is no entry is dropped;
\* any other such line, or a file without metadata, is an error.
EndsTorn(f) == ~f.ended /\ f.lines # <<>> /\ Last(f.lines) = Fragment
Whole(f) == IF EndsTorn(f) THEN Front(f.lines) ELSE f.lines
Readable(f) == /\ Whole(f) # <<>> /\ Head(Whole(f)) = Meta
               /\ \A i \in 1..Len(Whole(f)) : Whole(f)[i] # Fragment
MessagesIn(lines) == Picked(lines, {i \in 1..Len(lines) : IsMessage(lines[i])})
Messages(f) == MessagesIn(Whole(f))

SummaryOf(f) == IF \E i \in 1..Len(Whole(f)) : Whole(f)[i] = Summary THEN <<Summary>> ELSE <<>>

Existing == {s \in Segments : segment[s].exists}

\* resolve_or_create_current_state: the segment pointed at, or the latest.
ResolvedLog == IF pointer \in Existing THEN pointer
            ELSE IF Existing = {} THEN NoSegment ELSE MaxOf(Existing)

-----------------------------------------------------------------------------
(* Writing                                                                  *)

Line(s, entry) == <<[call |-> "line", seg |-> s, entry |-> entry],
                    [call |-> "newline", seg |-> s, entry |-> Meta]>>
Lines(s, entries) == [k \in 1..2 * Len(entries) |-> Line(s, entries[(k + 1) \div 2])[2 - (k % 2)]]
FileCall(name, s) == [call |-> name, seg |-> s, entry |-> Meta]

\* write_pointer_file is fs::write: the file is emptied, then written.
PointTo(s) == <<FileCall("unpoint", s), FileCall("point", s)>>

\* Mutant of NewSegment: the segment is made current before it is written.
NewSegmentEarly(s, entries) ==
  <<FileCall("create", s)>> \o PointTo(s) \o Lines(s, <<Meta>> \o entries)

\* create_new_segment: the file, then the pointer.
NewSegment(s, entries) ==
  <<FileCall("create", s)>> \o Lines(s, <<Meta>> \o entries) \o PointTo(s)

\* write_existing_segment_file: File::create truncates.
Rewrite(s, entries) == <<FileCall("create", s)>> \o Lines(s, <<Meta>> \o entries)

\* A line that follows one without newline becomes one line with it, no entry.
WithLine(f, entry) ==
  IF f.ended THEN [f EXCEPT !.lines = Append(@, entry), !.ended = FALSE]
  ELSE [f EXCEPT !.lines = Append(Front(@), Fragment)]

Applied(w) ==
  CASE w.call = "line" -> /\ segment' = [segment EXCEPT ![w.seg] = WithLine(@, w.entry)]
                          /\ UNCHANGED pointer
    [] w.call = "newline" -> segment' = [segment EXCEPT ![w.seg].ended = TRUE] /\ UNCHANGED pointer
    [] w.call = "create" -> segment' = [segment EXCEPT ![w.seg] = Empty] /\ UNCHANGED pointer
    [] w.call = "unpoint" -> pointer' = NoSegment /\ UNCHANGED segment
    [] w.call = "point" -> pointer' = w.seg /\ UNCHANGED segment

Given(r) == store' = r.store /\ current' = r.current /\ replayed' = r.replayed

Idle == logWrites = <<>>

\* An operation begins: its writes, what it gives, and the logs readers may find
\* from now on.
Starts(calls, r, logs) ==
  /\ promise' = logs
  /\ IF calls = <<>> THEN Given(r) /\ UNCHANGED <<logWrites, result>>
     ELSE logWrites' = calls /\ result' = r /\ UNCHANGED <<store, current, replayed>>
  /\ UNCHANGED <<segment, pointer, deaths, joined>>

\* The next write call; the last one ends the operation.
Write ==
  /\ ~Idle
  /\ Applied(Head(logWrites))
  /\ logWrites' = Tail(logWrites)
  /\ IF Len(logWrites) = 1 THEN Given(result) ELSE UNCHANGED <<store, current, replayed>>
  /\ promise' = IF Len(logWrites) = 1 /\ result.store = "loaded" THEN {result.replayed}
                ELSE promise
  /\ joined' = IF Head(logWrites).call = "line" /\ ~segment[Head(logWrites).seg].ended
               THEN joined \cup {Head(logWrites).seg} ELSE joined
  /\ UNCHANGED <<result, logAppends, deaths>>

-----------------------------------------------------------------------------
(* Operations                                                               *)

Opened(s) == [store |-> "open", current |-> s, replayed |-> <<>>]
LogLoaded(s, messages) == [store |-> "loaded", current |-> s, replayed |-> messages]

\* SessionStore::new.  The writes of this operation promise nothing new.
OpenStore ==
  /\ store = "closed" /\ Idle
  /\ IF Existing = {}
     THEN /\ logWrites' = NewSegment(1, <<>>) /\ result' = Opened(1)
          /\ UNCHANGED <<store, current, replayed>>
     ELSE /\ Readable(segment[ResolvedLog])
          /\ result' = Opened(ResolvedLog)
          /\ IF pointer = ResolvedLog THEN Given(Opened(ResolvedLog)) /\ UNCHANGED logWrites
             ELSE logWrites' = PointTo(ResolvedLog) /\ UNCHANGED <<store, current, replayed>>
  /\ UNCHANGED <<segment, pointer, logAppends, deaths, promise, joined>>

\* load_snapshot rewrites the segment when it drops anything.
NeedsRewrite(f) == EndsTorn(f) \/ Sanitized(Messages(f)) # Messages(f)

\* A rewrite cut short leaves a shorter log than the one repaired.
LoadSnapshot ==
  LET f == segment[current]
      kept == Sanitized(Messages(f))
  IN /\ store \in {"open", "loaded"} /\ Idle
     /\ Readable(f)
     /\ Starts(IF NeedsRewrite(f) THEN Rewrite(current, SummaryOf(f) \o kept) ELSE <<>>,
               LogLoaded(current, kept),
               IF NeedsRewrite(f) THEN Prefixes(kept) \cup {Messages(f)} ELSE {kept})
     /\ UNCHANGED logAppends

\* Calls of the last turn that have no result.
Open == UNION {replayed[i].calls \ Results(replayed, i) : i \in Unanswered(replayed)}

\* append_message, of a message that continues the conversation.
AppendMessage(m) ==
  /\ store = "loaded" /\ Idle /\ logAppends < MaxAppends
  /\ m.role = "tool" <=> Open # {}
  /\ m.role = "tool" => m.call \in Open
  /\ logAppends' = logAppends + 1
  /\ LET after == Append(replayed, m)
     IN Starts(Line(current, m), LogLoaded(current, after), {replayed, after})

\* rollover_after_compaction: a summary and what is kept of the messages.
Rollover(kept) ==
  /\ store = "loaded" /\ Idle /\ Open = {} /\ Segments \ Existing # {}
  /\ LET s == CHOOSE x \in Segments \ Existing : \A y \in Segments \ Existing : x <= y
     IN Starts(NewSegment(s, <<Summary>> \o kept), LogLoaded(s, kept), {replayed, kept})
  /\ UNCHANGED logAppends

\* The process dies, within a line perhaps, and is started again.
Die ==
  /\ deaths < MaxDeaths
  /\ deaths' = deaths + 1
  /\ Given(Nothing) /\ logWrites' = <<>> /\ result' = Nothing
  /\ \/ UNCHANGED <<segment, joined>>
     \/ /\ ~Idle /\ Head(logWrites).call = "line"
        /\ LET s == Head(logWrites).seg
           IN /\ segment' = [segment EXCEPT ![s] = WithLine(@, Fragment)]
              /\ joined' = IF segment[s].ended THEN joined ELSE joined \cup {s}
  /\ UNCHANGED <<pointer, logAppends, promise>>

LogNext ==
  \/ OpenStore \/ LoadSnapshot \/ Write \/ Die
  \/ \E m \in {User, Assistant({1, 2}), ToolResult(1), ToolResult(2)} : AppendMessage(m)
  \/ \E i \in CutPoints(replayed) \ {1} : Rollover(SubSeq(replayed, i, Len(replayed)))

LogSpec == LogInit /\ [][LogNext]_logVars

-----------------------------------------------------------------------------
(* Every variable keeps its type.                                           *)
LogTypeOK ==
  /\ \A s \in Segments : /\ \A i \in 1..Len(segment[s].lines) : segment[s].lines[i] = Meta => i = 1
                        /\ {segment[s].ended, segment[s].exists} \subseteq BOOLEAN
  /\ pointer \in Segments \cup {NoSegment} /\ current \in Segments \cup {NoSegment}
  /\ store \in {"closed", "open", "loaded"}
  /\ store = "closed" <=> current = NoSegment
  /\ logAppends \in 0..MaxAppends /\ deaths \in 0..MaxDeaths
  /\ joined \subseteq Segments

\* Whoever reads the log after a crash finds what was in it before the operation
\* that was cut short or what that operation was to leave.  A repair that is cut
\* short loses more, and so does a line joined to one that a crash left without
\* its newline (session.rs 361, 614, 685).
CrashKeepsLog ==
  ResolvedLog # NoSegment /\ Readable(segment[ResolvedLog]) /\ ResolvedLog \notin joined
    => Sanitized(Messages(segment[ResolvedLog])) \in {Sanitized(log) : log \in promise}

\* A log can be read again whatever a crash left: "A crash can leave one final
\* JSONL fragment without a newline.  We discard only that trailing fragment"
\* (session.rs 592-594).
LogStaysReadable == ResolvedLog # NoSegment /\ Idle => Readable(segment[ResolvedLog])
=============================================================================
