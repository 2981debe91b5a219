------------------------------ MODULE Transcript ------------------------------
(***************************************************************************)
(* Conversations as the runtime keeps them, and what it does with whole    *)
(* conversations: repairing one for replay (session.rs), choosing what a   *)
(* compaction keeps and what a request holds (compact.rs).                 *)
(*                                                                         *)
(* A message is its role, the tool calls it makes or the call it answers,  *)
(* and whether a provider's token count hangs on it.  Every message weighs *)
(* one token.                                                              *)
(***************************************************************************)
EXTENDS Integers, Sequences, SequencesExt, FiniteSets

Text(role) == [role |-> role, calls |-> {}, call |-> 0, usage |-> 0]
User == Text("user")
Assistant(calls) == [Text("assistant") EXCEPT !.calls = calls]
ToolResult(call) == [Text("tool") EXCEPT !.call = call]

-----------------------------------------------------------------------------
(* Replay                                                                   *)

\* Calls answered by the tool messages that follow i, up to any other message.
Results(seq, i) ==
  {seq[j].call : j \in {k \in i+1..Len(seq) : \A l \in i+1..k : seq[l].role = "tool"}}

\* Turns with a call that got no result.
Unanswered(seq) ==
  {i \in 1..Len(seq) : seq[i].role = "assistant" /\ ~(seq[i].calls \subseteq Results(seq, i))}

\* Where sanitize_replayable_messages cuts: the first of them, 0 for nowhere.
CutAt(seq) ==
  IF Unanswered(seq) = {} THEN 0 ELSE CHOOSE i \in Unanswered(seq) : \A j \in Unanswered(seq) : i <= j

\* sanitize_replayable_messages
Sanitized(seq) == IF CutAt(seq) = 0 THEN seq ELSE SubSeq(seq, 1, CutAt(seq) - 1)

\* What a provider takes: the results of a turn's calls follow it, one for each,
\* and no result is without its call.
WellFormed(seq) ==
  \A i \in 1..Len(seq) :
    /\ seq[i].calls # {} =>
         LET n == Cardinality(seq[i].calls)
         IN /\ i + n <= Len(seq)
            /\ {seq[j].call : j \in i+1..i+n} = seq[i].calls
    /\ seq[i].role = "tool" => \E j \in 1..i-1 : /\ seq[i].call \in seq[j].calls
                                                  /\ \A k \in j+1..i-1 : seq[k].role = "tool"

-----------------------------------------------------------------------------
(* What a compaction keeps                                                  *)

\* find_valid_cut_points: never at a tool result.
CutPoints(seq) == {i \in 1..Len(seq) : seq[i].role # "tool"}

MaxOf(set) == CHOOSE x \in set : \A y \in set : y <= x

\* Mutant of FirstKept: the cut is where the budget says.
FirstKeptAnywhere(seq, keep) ==
  IF Len(seq) < keep \/ CutPoints(seq) = {} THEN 0 ELSE Len(seq) - keep + 1

\* find_cut_point: the last legal cut at or before the message that fills the
\* budget; 0 keeps everything.  (Indices are the code's plus one.)
FirstKept(seq, keep) ==
  LET at == Len(seq) - keep + 1
      legal == {i \in CutPoints(seq) : i <= at}
  IN IF at < 1 \/ CutPoints(seq) = {} THEN 0
     ELSE IF legal = {} THEN 1 ELSE MaxOf(legal)

\* find_turn_start_index
TurnStart(seq, i) == LET users == {j \in 1..i : seq[j].role = "user"}
                     IN IF users = {} THEN 0 ELSE MaxOf(users)

\* A cut at a message that is not the user's splits the turn it is in.
Splits(seq, i) == seq[i].role # "user" /\ TurnStart(seq, i) # 0

\* clear_request_usage_snapshots
WithoutUsage(seq) == [i \in 1..Len(seq) |-> [seq[i] EXCEPT !.usage = 0]]

\* prepare_compaction: nothing to do, or what is summarised and what is kept.
Prepared(seq, min, keep) ==
  LET at == FirstKept(seq, keep)
  IN IF Len(seq) < min \/ at <= 1 THEN [ok |-> FALSE, kept |-> seq, prefix |-> <<>>, old |-> <<>>]
     ELSE LET end == IF Splits(seq, at) THEN TurnStart(seq, at) - 1 ELSE at - 1
          IN [ok |-> TRUE, kept |-> SubSeq(seq, at, Len(seq)),
              prefix |-> SubSeq(seq, end + 1, at - 1), old |-> SubSeq(seq, 1, end)]

-----------------------------------------------------------------------------
(* Requests                                                                 *)

\* estimate_request_tokens: the last count a provider gave and what follows it,
\* or the whole, the summary included.
Tokens(summary, seq) ==
  LET counted == {i \in 1..Len(seq) : seq[i].usage > 0}
  IN IF counted = {} THEN summary + Len(seq)
     ELSE seq[MaxOf(counted)].usage + Len(seq) - MaxOf(counted)

\* build_request_messages: the system message and the summary lead it.
Request(summary, seq) ==
  <<Text("system")>> \o (IF summary = 0 THEN <<>> ELSE <<User>>) \o seq
=============================================================================
