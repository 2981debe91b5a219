--------------------------- MODULE AgentTurnProofs ---------------------------
(***************************************************************************)
(* What a run of the model sends and what it keeps of its mail, for every  *)
(* compaction setting, every cap on retries and every bound: a request     *)
(* pairs the calls of a turn with their results, and mail that is behind   *)
(* the offset is in the session or in its summary.                         *)
(*                                                                         *)
(* The first is about conversations in which only the last turn may be     *)
(* unfinished: joining, cutting at a message that is no result, repairing  *)
(* and answering keep them so.  The second needs of mail that it stands    *)
(* before every turn a repair cuts.                                        *)
(*                                                                         *)
(* Then what the client of a provider makes of a conversation and of an    *)
(* answer, for everything a provider may generate: each wire pairs calls   *)
(* with results, and an answer is the generation in full.  The history is  *)
(* whole turns of calls that no other turn names; the items or the slots   *)
(* of a stream hold the pieces that arrived, in order.                     *)
(***************************************************************************)
EXTENDS AgentTurn, Provider, FiniteSetTheorems, SequenceTheorems, WellFoundedInduction, TLAPS

\* What a message may be: the calls of a turn are numbered from one.
TurnMessages ==
  [role : {"system", "user", "assistant", "tool"}, calls : {1..n : n \in Nat},
   call : Nat, usage : Nat]

\* Every turn is followed by its results, in order, as far as the conversation
\* goes, and every result is one of them.
Paired(seq) ==
  \A i \in 1..Len(seq) :
    /\ seq[i].calls # {} => seq[i].role = "assistant"
    /\ \A c \in seq[i].calls :
         i + c <= Len(seq) => (seq[i + c].role = "tool" /\ seq[i + c].call = c)
    /\ seq[i].role = "tool" => /\ seq[i].call \in 1..i-1
                               /\ seq[i].call \in seq[i - seq[i].call].calls

\* Every turn but the one at p has its results.
FinishedBut(seq, p) ==
  \A i \in 1..Len(seq) : i # p => \A c \in seq[i].calls : i + c <= Len(seq)

Finished(seq) == FinishedBut(seq, 0)

\* The turn at p, the last one, waits for the results of these calls.
OpenAt(seq, p, left) ==
  /\ seq[p].calls = 1..(Len(seq) - p + Len(left))
  /\ \A k \in 1..Len(left) : left[k] = Len(seq) - p + k
  /\ FinishedBut(seq, p)

\* A conversation in which these calls are still to execute.
Pending(seq, left) ==
  /\ Paired(seq)
  /\ left = <<>> => Finished(seq)
  /\ left # <<>> => \E p \in 1..Len(seq) : OpenAt(seq, p, left)

\* A message that is neither a turn's beginning nor a result.
Quiet(m) == m.calls = {} /\ m.role # "tool"

-----------------------------------------------------------------------------
(* Places and messages                                                      *)

\* A set of places that is not empty has a first one.
LEMMA FirstPlace ==
  ASSUME NEW n \in Nat, NEW places \in SUBSET (1..n), places # {}
  PROVE  \E j \in places : \A k \in places : j <= k
<1>1. PICK less : less = OpToRel(<, Nat)
  OBVIOUS
<1>2. \A a, b \in Nat : a < b => <<a, b>> \in less
  <2>1. less = {ss \in Nat \X Nat : ss[1] < ss[2]}
    BY <1>1 DEF OpToRel
  <2> QED BY <2>1
<1>3. IsWellFoundedOn(less, Nat)
  BY <1>1, NatLessThanWellFounded
<1>4. places \subseteq Nat
  OBVIOUS
<1>5. PICK j \in places : \A k \in places : <<k, j>> \notin less
  BY <1>3, <1>4, WFMin
<1>6. ASSUME NEW k \in places PROVE j <= k
  <2>1. ~(k < j) /\ j \in Nat /\ k \in Nat
    BY <1>2, <1>4, <1>5
  <2> QED BY <2>1
<1> QED BY <1>6

\* And a last one.
LEMMA LastOfPlaces ==
  ASSUME NEW n \in Nat, NEW places \in SUBSET (1..n), places # {}
  PROVE  \E j \in places : \A k \in places : k <= j
<1>1. PICK behind : behind = {d \in 1..n : n + 1 - d \in places}
  OBVIOUS
<1>2. behind \in SUBSET (1..n) /\ behind # {}
  <2>1. PICK j \in places : TRUE
    OBVIOUS
  <2>2. n + 1 - j \in 1..n /\ n + 1 - (n + 1 - j) = j
    BY <2>1
  <2> QED BY <1>1, <2>2
<1>3. PICK d \in behind : \A e \in behind : d <= e
  BY <1>2, FirstPlace
<1>4. n + 1 - d \in places /\ d \in 1..n
  BY <1>1, <1>3
<1>5. ASSUME NEW k \in places PROVE k <= n + 1 - d
  <2>1. n + 1 - k \in 1..n /\ n + 1 - (n + 1 - k) = k
    OBVIOUS
  <2>2. n + 1 - k \in behind
    BY <1>1, <2>1
  <2>3. d <= n + 1 - k
    BY <1>3, <2>2
  <2> QED BY <1>4, <2>1, <2>3
<1> QED BY <1>4, <1>5

\* The messages the runner makes.
LEMMA MessagesMade ==
  /\ User \in TurnMessages /\ Quiet(User)
  /\ Text("system") \in TurnMessages /\ Quiet(Text("system"))
  /\ \A i \in Nat : Mail(i) \in TurnMessages /\ Quiet(Mail(i))
  /\ \A i \in Nat : /\ ToolResult(i) \in TurnMessages /\ ToolResult(i).role = "tool"
                    /\ ToolResult(i).call = i /\ ToolResult(i).calls = {}
<1>1. {} = 1..0 /\ {} \in {1..n : n \in Nat}
  <2>1. 0 \in Nat /\ 1..0 = {}
    OBVIOUS
  <2> QED BY <2>1
<1> QED BY <1>1, Zenon DEF TurnMessages, Text, User, Mail, ToolResult, Quiet

LEMMA AnswerMade ==
  ASSUME NEW n \in Nat, summary \in Nat, Len(memory) \in Nat, NEW a \in Answer(1..n)
  PROVE  a \in TurnMessages /\ a.role = "assistant" /\ a.calls = 1..n
<1>1. summary + Len(memory) + 1 \in Nat
  OBVIOUS
<1>2. PICK u \in Nat : a = [Assistant(1..n) EXCEPT !.usage = u]
  BY <1>1 DEF Answer
<1>3. 1..n \in {1..k : k \in Nat}
  OBVIOUS
<1>4. a = [role |-> "assistant", calls |-> 1..n, call |-> 0, usage |-> u]
  BY <1>2 DEF Assistant, Text
<1> QED BY <1>3, <1>4 DEF TurnMessages

\* A number that is one of a turn's calls has those before it with it.
LEMMA CallsNumbered ==
  ASSUME NEW m \in TurnMessages, NEW c \in m.calls
  PROVE  c \in Nat /\ c >= 1 /\ 1..c \subseteq m.calls
<1>1. PICK n \in Nat : m.calls = 1..n
  BY DEF TurnMessages
<1> QED BY <1>1

-----------------------------------------------------------------------------
(* Conversations that grow                                                  *)

LEMMA ResultAt ==
  ASSUME NEW s, Paired(s), NEW i \in 1..Len(s), NEW c \in s[i].calls, i + c <= Len(s)
  PROVE  s[i + c].role = "tool" /\ s[i + c].call = c
BY DEF Paired

LEMMA QuietFinished ==
  ASSUME NEW t \in Seq(TurnMessages), \A i \in 1..Len(t) : Quiet(t[i])
  PROVE  Paired(t) /\ Finished(t)
BY DEF Paired, Finished, FinishedBut, Quiet

\* What is said after a finished conversation pairs as it did on its own.
LEMMA JoinedPaired ==
  ASSUME NEW s \in Seq(TurnMessages), NEW t \in Seq(TurnMessages),
         Paired(s), Finished(s), Paired(t)
  PROVE  Paired(s \o t)
<1>1. PICK l \in Nat, n \in Nat : l = Len(s) /\ n = Len(t)
  BY LenProperties
<1>2. PICK u : u = s \o t
  OBVIOUS
<1>3. /\ Len(u) = l + n
      /\ \A i \in 1..l : u[i] = s[i]
      /\ \A i \in 1..n : u[l + i] = t[i]
  <2>1. \A i \in 1..l + n : u[i] = IF i <= l THEN s[i] ELSE t[i - l]
    BY <1>1, <1>2, ConcatProperties
  <2>2. Len(u) = l + n
    BY <1>1, <1>2, ConcatProperties
  <2>3. ASSUME NEW i \in 1..n PROVE u[l + i] = t[i]
    <3>1. l + i \in 1..l + n /\ ~(l + i <= l) /\ (l + i) - l = i
      BY <1>1
    <3> QED BY <2>1, <3>1
  <2> QED BY <1>1, <2>1, <2>2, <2>3
<1>4. \A i \in 1..Len(u) : i \in 1..l \/ \E k \in 1..n : i = l + k
  <2>1. ASSUME NEW i \in 1..l + n, i \notin 1..l PROVE \E k \in 1..n : i = l + k
    <3>1. i - l \in 1..n /\ i = l + (i - l)
      BY <1>1, <2>1
    <3> QED BY <3>1
  <2> QED BY <1>3, <2>1
<1> DEFINE Fits(i) == /\ u[i].calls # {} => u[i].role = "assistant"
                      /\ \A c \in u[i].calls :
                           i + c <= Len(u) => (u[i + c].role = "tool" /\ u[i + c].call = c)
                      /\ u[i].role = "tool" => /\ u[i].call \in 1..i-1
                                               /\ u[i].call \in u[i - u[i].call].calls
<1>5. ASSUME NEW i \in 1..l PROVE Fits(i)
  <2>1. s[i] \in TurnMessages
    BY <1>1, ElementOfSeq
  <2>2. ASSUME NEW c \in u[i].calls PROVE u[i + c].role = "tool" /\ u[i + c].call = c
    <3>1. c \in s[i].calls /\ c \in Nat /\ c >= 1
      BY <1>3, <2>1, CallsNumbered
    <3>2. i + c <= l /\ i + c \in 1..l
      BY <1>1, <3>1 DEF Finished, FinishedBut
    <3> QED BY <1>1, <1>3, <3>1, <3>2 DEF Paired
  <2>3. ASSUME u[i].role = "tool"
        PROVE  u[i].call \in 1..i-1 /\ u[i].call \in u[i - u[i].call].calls
    <3>1. /\ s[i].call \in 1..i-1
          /\ s[i].call \in s[i - s[i].call].calls
      BY <1>1, <1>3, <2>3 DEF Paired
    <3>2. i - s[i].call \in 1..l
      BY <1>1, <3>1
    <3> QED BY <1>3, <3>1, <3>2
  <2> QED BY <1>1, <1>3, <2>2, <2>3 DEF Paired
<1>6. ASSUME NEW k \in 1..n, NEW i, i = l + k PROVE Fits(i)
  <2>1. t[k] \in TurnMessages /\ u[i] = t[k]
    BY <1>1, <1>3, <1>6, ElementOfSeq
  <2>2. ASSUME NEW c \in u[i].calls, i + c <= Len(u)
        PROVE  u[i + c].role = "tool" /\ u[i + c].call = c
    <3>1. c \in t[k].calls /\ c \in Nat /\ c >= 1
      BY <2>1, CallsNumbered
    <3>2. k + c \in 1..n /\ i + c = l + (k + c) /\ k + c <= n
      BY <1>1, <1>3, <1>6, <2>2, <3>1
    <3>3. t[k + c].role = "tool" /\ t[k + c].call = c
      BY <1>1, <3>1, <3>2 DEF Paired
    <3> QED BY <1>3, <3>2, <3>3
  <2>3. ASSUME u[i].role = "tool"
        PROVE  u[i].call \in 1..i - 1 /\ u[i].call \in u[i - u[i].call].calls
    <3>1. /\ t[k].call \in 1..k-1
          /\ t[k].call \in t[k - t[k].call].calls
      BY <1>1, <2>1, <2>3 DEF Paired
    <3>2. k - t[k].call \in 1..n /\ i - t[k].call = l + (k - t[k].call)
      BY <1>1, <1>6, <3>1
    <3>3. t[k].call \in 1..i - 1
      BY <1>1, <1>6, <3>1
    <3>4. u[i - t[k].call] = t[k - t[k].call]
      BY <1>3, <3>2
    <3> QED BY <2>1, <3>1, <3>3, <3>4
  <2>4. u[i].calls # {} => u[i].role = "assistant"
    BY <1>1, <2>1 DEF Paired
  <2> QED BY <2>2, <2>3, <2>4
<1>7. \A i \in 1..Len(u) : Fits(i)
  <2> HIDE DEF Fits
  <2> QED BY <1>4, <1>5, <1>6
<1>8. Paired(u)
  BY <1>7 DEF Paired
<1> QED BY <1>2, <1>8

LEMMA JoinedFinished ==
  ASSUME NEW s \in Seq(TurnMessages), NEW t \in Seq(TurnMessages), Finished(s), Finished(t)
  PROVE  Finished(s \o t)
<1>1. PICK l \in Nat, n \in Nat : l = Len(s) /\ n = Len(t)
  BY LenProperties
<1>2. PICK u : u = s \o t
  OBVIOUS
<1>3. /\ Len(u) = l + n
      /\ \A i \in 1..l + n : u[i] = IF i <= l THEN s[i] ELSE t[i - l]
  BY <1>1, <1>2, ConcatProperties
<1>4. ASSUME NEW i \in 1..Len(u), NEW c \in u[i].calls PROVE i + c <= Len(u)
  <2>1. CASE i <= l
    <3>1. i \in 1..l /\ u[i] = s[i]
      BY <1>1, <1>3, <2>1
    <3>2. s[i] \in TurnMessages
      BY <1>1, <3>1, ElementOfSeq
    <3>3. c \in Nat
      BY <3>1, <3>2, CallsNumbered
    <3>4. i + c <= l
      BY <1>1, <3>1 DEF Finished, FinishedBut
    <3> QED BY <1>1, <1>3, <3>3, <3>4
  <2>2. CASE ~(i <= l)
    <3>1. i - l \in 1..n /\ u[i] = t[i - l]
      BY <1>1, <1>3, <2>2
    <3>2. t[i - l] \in TurnMessages
      BY <1>1, <3>1, ElementOfSeq
    <3>3. c \in Nat
      BY <3>1, <3>2, CallsNumbered
    <3>4. i - l # 0 /\ c \in t[i - l].calls
      BY <3>1
    <3>5. i - l + c <= n
      BY <1>1, <3>1, <3>4 DEF Finished, FinishedBut
    <3> QED BY <1>1, <1>3, <3>1, <3>3, <3>5
  <2> QED BY <2>1, <2>2
<1> QED BY <1>2, <1>4 DEF Finished, FinishedBut

\* Messages of the user or the model after a finished conversation.
LEMMA QuietJoined ==
  ASSUME NEW s \in Seq(TurnMessages), NEW t \in Seq(TurnMessages), Pending(s, <<>>),
         \A i \in 1..Len(t) : Quiet(t[i])
  PROVE  s \o t \in Seq(TurnMessages) /\ Pending(s \o t, <<>>)
<1>1. Paired(t) /\ Finished(t)
  BY QuietFinished
<1>2. Paired(s) /\ Finished(s)
  BY DEF Pending
<1>3. Paired(s \o t) /\ Finished(s \o t)
  BY <1>1, <1>2, JoinedPaired, JoinedFinished
<1>4. s \o t \in Seq(TurnMessages)
  BY ConcatProperties
<1> QED BY <1>3, <1>4 DEF Pending

\* The answer with calls 1..n begins a turn that waits for all of them.
LEMMA AnswerOpens ==
  ASSUME NEW s \in Seq(TurnMessages), Pending(s, <<>>), NEW n \in Nat \ {0},
         NEW a \in TurnMessages, a.role = "assistant", a.calls = 1..n
  PROVE  /\ s \o <<a>> \in Seq(TurnMessages)
         /\ Pending(s \o <<a>>, [i \in 1..n |-> i])
<1>0. PICK u, left : u = s \o <<a>> /\ left = [i \in 1..n |-> i]
  OBVIOUS
<1>1. PICK l \in Nat : l = Len(s) /\ u = s \o <<a>> /\ left = [i \in 1..n |-> i]
  BY <1>0, LenProperties
<1>2. <<a>> \in Seq(TurnMessages) /\ Len(<<a>>) = 1 /\ <<a>>[1] = a
  OBVIOUS
<1>3. /\ u \in Seq(TurnMessages) /\ Len(u) = l + 1
      /\ \A i \in 1..l : u[i] = s[i]
      /\ u[l + 1] = a
  BY <1>1, <1>2, ConcatProperties
<1>4. Paired(<<a>>)
  <2>1. ASSUME NEW c \in <<a>>[1].calls PROVE ~(1 + c <= Len(<<a>>))
    BY <1>2
  <2> QED BY <1>2, <2>1 DEF Paired
<1>5. Paired(u)
  BY <1>1, <1>2, <1>4, JoinedPaired DEF Pending
<1>6. Len(left) = n /\ left # <<>> /\ \A k \in 1..Len(left) : left[k] = k
  <2>1. left \in [1..n -> Nat] /\ n \in Nat /\ n >= 1
    BY <1>1
  <2>2. left \in Seq(Nat) /\ DOMAIN left = 1..n
    BY <2>1
  <2>3. Len(left) = n
    BY <2>1, <2>2, LenProperties
  <2>4. left # <<>>
    BY <2>1, <2>3, EmptySeq
  <2> QED BY <1>1, <2>3, <2>4
<1>7. OpenAt(u, l + 1, left)
  <2>1. u[l + 1].calls = 1..(Len(u) - (l + 1) + Len(left))
    <3>1. Len(u) - (l + 1) + Len(left) = n
      BY <1>3, <1>6
    <3> QED BY <1>3, <3>1
  <2>2. ASSUME NEW k \in 1..Len(left) PROVE left[k] = Len(u) - (l + 1) + k
    <3>1. k \in Nat /\ Len(u) - (l + 1) + k = k
      BY <1>3, <1>6
    <3> QED BY <1>6, <3>1
  <2>3. ASSUME NEW i \in 1..Len(u), i # l + 1, NEW c \in u[i].calls PROVE i + c <= Len(u)
    <3>1. i \in 1..l /\ u[i] = s[i]
      BY <1>3, <2>3
    <3>2. c \in Nat
      BY <1>3, <2>3, CallsNumbered, ElementOfSeq
    <3>3. i + c <= l
      BY <1>1, <3>1 DEF Pending, Finished, FinishedBut
    <3> QED BY <1>3, <3>2, <3>3
  <2> QED BY <2>1, <2>2, <2>3 DEF OpenAt, FinishedBut
<1>8. l + 1 \in 1..Len(u)
  BY <1>3
<1>9. Pending(u, left)
  BY <1>5, <1>6, <1>7, <1>8 DEF Pending
<1> QED BY <1>1, <1>3, <1>9

\* The result of the first call a turn waits for leaves it with the others.
LEMMA ResultContinues ==
  ASSUME NEW s \in Seq(TurnMessages), NEW left \in Seq(Nat), left # <<>>, Pending(s, left)
  PROVE  /\ s \o <<ToolResult(Head(left))>> \in Seq(TurnMessages)
         /\ Pending(s \o <<ToolResult(Head(left))>>, Tail(left))
         /\ Tail(left) \in Seq(Nat)
<1>1. PICK l \in Nat, h \in Nat, r \in Nat :
        l = Len(s) /\ h = Head(left) /\ r + 1 = Len(left) /\ h = left[1]
  <2>1. Len(left) \in Nat /\ Len(left) >= 1 /\ Len(s) \in Nat
    BY LenProperties, EmptySeq
  <2>2. Head(left) = left[1] /\ left[1] \in Nat
    BY <2>1, ElementOfSeq
  <2>3. Len(left) - 1 \in Nat /\ (Len(left) - 1) + 1 = Len(left)
    BY <2>1
  <2> QED BY <2>1, <2>2, <2>3
<1>2. PICK m, u, rest : m = ToolResult(h) /\ u = s \o <<m>> /\ rest = Tail(left)
  OBVIOUS
<1>3. m \in TurnMessages /\ m.role = "tool" /\ m.call = h /\ m.calls = {}
  BY <1>2, MessagesMade
<1>4. <<m>> \in Seq(TurnMessages) /\ Len(<<m>>) = 1 /\ <<m>>[1] = m
  BY <1>3
<1>5. /\ u \in Seq(TurnMessages) /\ Len(u) = l + 1
      /\ \A i \in 1..l : u[i] = s[i]
      /\ u[l + 1] = m
  BY <1>1, <1>2, <1>4, ConcatProperties
<1>6. /\ rest \in Seq(Nat) /\ Len(rest) = r
      /\ \A k \in 1..r : rest[k] = left[k + 1]
  BY <1>1, <1>2, HeadTailProperties
<1>7. PICK p \in 1..l : OpenAt(s, p, left)
  BY <1>1 DEF Pending
<1>8. h = l - p + 1 /\ s[p].calls = 1..(l - p + 1 + r)
  <2>1. 1 \in 1..Len(left) /\ l - p + Len(left) = l - p + 1 + r
    BY <1>1
  <2>2. left[1] = Len(s) - p + 1 /\ s[p].calls = 1..(Len(s) - p + Len(left))
    BY <1>7, <2>1 DEF OpenAt
  <2> QED BY <1>1, <2>1, <2>2
<1>9. ASSUME NEW i \in 1..l, NEW c \in s[i].calls, i # p
      PROVE  i + c <= l /\ i + c \in 1..l
  <2>1. c \in Nat
    BY <1>1, <1>9, CallsNumbered, ElementOfSeq
  <2> QED BY <1>1, <1>7, <1>9, <2>1 DEF OpenAt, FinishedBut
<1> DEFINE Fits(i) == /\ u[i].calls # {} => u[i].role = "assistant"
                      /\ \A c \in u[i].calls :
                           i + c <= Len(u) => (u[i + c].role = "tool" /\ u[i + c].call = c)
                      /\ u[i].role = "tool" => /\ u[i].call \in 1..i-1
                                               /\ u[i].call \in u[i - u[i].call].calls
<1>10. ASSUME NEW i \in 1..l PROVE Fits(i)
  <2>1. u[i] = s[i] /\ s[i] \in TurnMessages
    BY <1>1, <1>5, ElementOfSeq
  <2>2. ASSUME NEW c \in u[i].calls, i + c <= Len(u)
        PROVE  u[i + c].role = "tool" /\ u[i + c].call = c
    <3>1. c \in s[i].calls /\ c \in Nat /\ c >= 1
      BY <2>1, CallsNumbered
    <3>2. CASE i + c = l + 1
      <4>1. i = p
        BY <1>1, <1>9, <3>1, <3>2
      <4>2. c = h
        BY <1>8, <3>1, <3>2, <4>1
      <4> QED BY <1>3, <1>5, <3>2, <4>2
    <3>3. CASE i + c # l + 1
      <4>1. i + c \in 1..l /\ i + c <= l
        BY <1>5, <2>2, <3>1, <3>3
      <4>2. s[i + c].role = "tool" /\ s[i + c].call = c
        BY <1>1, <3>1, <4>1 DEF Pending, Paired
      <4> QED BY <1>5, <4>1, <4>2
    <3> QED BY <3>2, <3>3
  <2>3. ASSUME u[i].role = "tool"
        PROVE  u[i].call \in 1..i - 1 /\ u[i].call \in u[i - u[i].call].calls
    <3>1. /\ s[i].call \in 1..i-1
          /\ s[i].call \in s[i - s[i].call].calls
      BY <1>1, <2>1, <2>3 DEF Pending, Paired
    <3>2. i - s[i].call \in 1..l
      BY <1>1, <3>1
    <3> QED BY <1>5, <2>1, <3>1, <3>2
  <2>4. u[i].calls # {} => u[i].role = "assistant"
    BY <1>1, <2>1 DEF Pending, Paired
  <2> QED BY <2>2, <2>3, <2>4
<1>11. Fits(l + 1)
  <2>1. h \in 1..l /\ (l + 1) - h = p
    BY <1>1, <1>8
  <2>2. h \in s[p].calls
    BY <1>1, <1>8
  <2> QED BY <1>3, <1>5, <2>1, <2>2, SMTT(20)
<1>12. Paired(u)
  <2>1. \A i \in 1..Len(u) : Fits(i)
    <3> HIDE DEF Fits
    <3>1. \A i \in 1..Len(u) : i \in 1..l \/ i = l + 1
      BY <1>5
    <3> QED BY <1>10, <1>11, <3>1
  <2> QED BY <2>1 DEF Paired
<1>13. FinishedBut(u, p)
  <2>1. ASSUME NEW i \in 1..Len(u), i # p, NEW c \in u[i].calls PROVE i + c <= Len(u)
    <3>1. i \in 1..l
      BY <1>3, <1>5, <2>1
    <3>2. i + c <= l /\ i + c \in 1..l
      BY <1>5, <1>9, <2>1, <3>1, SMTT(20)
    <3> QED BY <1>5, <3>2
  <2> QED BY <2>1 DEF FinishedBut
<1>14. rest # <<>> => OpenAt(u, p, rest)
  <2>1. u[p].calls = 1..(Len(u) - p + Len(rest))
    <3>1. Len(u) - p + Len(rest) = l - p + 1 + r
      BY <1>5, <1>6
    <3> QED BY <1>5, <1>8, <3>1
  <2>2. ASSUME NEW k \in 1..Len(rest) PROVE rest[k] = Len(u) - p + k
    <3>1. k + 1 \in 1..Len(left) /\ k \in 1..r
      BY <1>1, <1>6
    <3>2. left[k + 1] = l - p + (k + 1)
      BY <1>1, <1>7, <3>1 DEF OpenAt
    <3>3. l - p + (k + 1) = Len(u) - p + k
      BY <1>5, <3>1
    <3> QED BY <1>6, <3>1, <3>2, <3>3
  <2> QED BY <1>13, <2>1, <2>2 DEF OpenAt
<1>15. rest = <<>> => Finished(u)
  <2>1. ASSUME rest = <<>>, NEW c \in u[p].calls PROVE p + c <= Len(u)
    <3>1. r = 0 /\ c \in 1..(l - p + 1)
      BY <1>5, <1>6, <1>8, <2>1, SMTT(30)
    <3> QED BY <1>5, <3>1
  <2> QED BY <1>13, <2>1 DEF Finished, FinishedBut
<1>16. p \in 1..Len(u)
  BY <1>5
<1> QED BY <1>1, <1>2, <1>5, <1>6, <1>12, <1>14, <1>15, <1>16 DEF Pending

-----------------------------------------------------------------------------
(* Conversations that are cut                                               *)

\* What a compaction keeps begins at a message that is no result.
LEMMA KeptPaired ==
  ASSUME NEW s \in Seq(TurnMessages), Pending(s, <<>>),
         NEW from \in 1..Len(s), s[from].role # "tool"
  PROVE  /\ SubSeq(s, from, Len(s)) \in Seq(TurnMessages)
         /\ Pending(SubSeq(s, from, Len(s)), <<>>)
<1>1. PICK l \in Nat, d \in Nat, n \in Nat : l = Len(s) /\ d = from - 1 /\ n = l - d
  <2>1. Len(s) \in Nat /\ from - 1 \in Nat /\ Len(s) - (from - 1) \in Nat
    BY LenProperties
  <2> QED BY <2>1
<1>2. PICK u : u = SubSeq(s, from, Len(s))
  OBVIOUS
<1>3. /\ u \in Seq(TurnMessages) /\ Len(u) = n
      /\ \A i \in 1..n : u[i] = s[d + i] /\ d + i \in 1..l
  <2>1. \A i \in from..l : s[i] \in TurnMessages
    BY <1>1, ElementOfSeq
  <2>2. /\ u \in Seq(TurnMessages) /\ Len(u) = IF from <= l THEN l - from + 1 ELSE 0
        /\ \A i \in 1..l - from + 1 : u[i] = s[from + i - 1]
    BY <1>1, <1>2, <2>1, SubSeqProperties
  <2>3. l - from + 1 = n /\ from <= l /\ \A i \in 1..n : from + i - 1 = d + i /\ d + i \in 1..l
    BY <1>1
  <2> QED BY <2>2, <2>3
<1>4. ASSUME NEW i \in 1..n, NEW c \in u[i].calls
      PROVE  i + c <= n /\ u[i + c].role = "tool" /\ u[i + c].call = c
  <2>1. d + i \in 1..l /\ c \in s[d + i].calls /\ c \in Nat /\ c >= 1
    BY <1>3, CallsNumbered, ElementOfSeq
  <2>2. d + i + c <= l
    <3>1. d + i # 0
      BY <2>1
    <3> QED BY <1>1, <2>1, <3>1 DEF Pending, Finished, FinishedBut
  <2>3. s[d + i + c].role = "tool" /\ s[d + i + c].call = c
    <3>1. PICK e : e = d + i
      OBVIOUS
    <3>2. e \in 1..Len(s) /\ c \in s[e].calls /\ e + c <= Len(s) /\ d + i + c = e + c
      BY <1>1, <2>1, <2>2, <3>1
    <3>3. s[e + c].role = "tool" /\ s[e + c].call = c
      BY <3>2 DEF Pending, Paired
    <3> QED BY <3>2, <3>3
  <2>4. i + c \in 1..n /\ i + c <= n /\ d + (i + c) = d + i + c
    BY <1>1, <2>1, <2>2
  <2> QED BY <1>3, <2>3, <2>4
<1>5. ASSUME NEW i \in 1..n, u[i].role = "tool"
      PROVE  u[i].call \in 1..i-1 /\ u[i].call \in u[i - u[i].call].calls
  <2>1. PICK c : c = s[d + i].call
    OBVIOUS
  <2>2. d + i \in 1..l /\ s[d + i].role = "tool" /\ u[i].call = c
    BY <1>3, <1>5, <2>1
  <2>3. c \in 1..d + i - 1 /\ c \in s[d + i - c].calls
    <3>1. PICK e : e = d + i
      OBVIOUS
    <3>2. e \in 1..Len(s) /\ s[e].role = "tool" /\ s[e].call = c
      BY <1>1, <2>1, <2>2, <3>1
    <3>3. c \in 1..e - 1 /\ c \in s[e - c].calls
      BY <3>2 DEF Pending, Paired
    <3> QED BY <3>1, <3>3
  <2>4. d + i - c >= from
    <3> SUFFICES ASSUME d + i - c < from PROVE FALSE
      BY <1>1, <2>3
    <3>1. PICK j, k : j = d + i - c /\ k = from - j
      OBVIOUS
    <3>2. j \in 1..l /\ k \in 1..c /\ j + k = from
      BY <1>1, <2>2, <2>3, <3>1
    <3>3. k \in s[j].calls
      <4>1. 1..c \subseteq s[j].calls
        BY <1>1, <2>3, <3>1, <3>2, CallsNumbered, ElementOfSeq
      <4> QED BY <3>2, <4>1
    <3>4. s[from].role = "tool"
      BY <1>1, <3>2, <3>3 DEF Pending, Paired
    <3> QED BY <3>4
  <2>5. i - c \in 1..n /\ d + (i - c) = d + i - c /\ c \in 1..i-1
    BY <1>1, <2>3, <2>4
  <2>6. u[i - c] = s[d + i - c]
    BY <1>3, <2>5
  <2> QED BY <2>2, <2>3, <2>5, <2>6
<1>6. \A i \in 1..n : u[i].calls # {} => u[i].role = "assistant"
  <2>1. ASSUME NEW i \in 1..n, u[i].calls # {} PROVE u[i].role = "assistant"
    <3>1. d + i \in 1..l /\ u[i] = s[d + i]
      BY <1>3
    <3> QED BY <1>1, <2>1, <3>1 DEF Pending, Paired
  <2> QED BY <2>1
<1>7. Paired(u)
  BY <1>3, <1>4, <1>5, <1>6 DEF Paired
<1>8. Finished(u)
  BY <1>3, <1>4 DEF Finished, FinishedBut
<1> QED BY <1>2, <1>3, <1>7, <1>8 DEF Pending

\* Token counts are not about turns.
LEMMA CountsCleared ==
  ASSUME NEW s \in Seq(TurnMessages), Pending(s, <<>>)
  PROVE  /\ WithoutUsage(s) \in Seq(TurnMessages)
         /\ Pending(WithoutUsage(s), <<>>)
<1>0. PICK u : u = WithoutUsage(s)
  OBVIOUS
<1>1. PICK l \in Nat : l = Len(s) /\ u = WithoutUsage(s)
  BY <1>0, LenProperties
<1>2. ASSUME NEW i \in 1..l
      PROVE  [s[i] EXCEPT !.usage = 0] \in TurnMessages
  <2>1. s[i] \in TurnMessages
    BY <1>1, ElementOfSeq
  <2> QED BY <2>1 DEF TurnMessages
<1>3. u = [i \in 1..l |-> [s[i] EXCEPT !.usage = 0]]
  BY <1>1 DEF WithoutUsage
<1>4. u \in Seq(TurnMessages) /\ Len(u) = l
  <2>1. u \in [1..l -> TurnMessages]
    BY <1>2, <1>3
  <2>2. u \in Seq(TurnMessages) /\ DOMAIN u = 1..l
    BY <2>1
  <2> QED BY <1>1, <2>2, LenProperties
<1>5. \A i \in 1..l : /\ u[i].calls = s[i].calls /\ u[i].role = s[i].role
                      /\ u[i].call = s[i].call
  <2>1. ASSUME NEW i \in 1..l
        PROVE  u[i].calls = s[i].calls /\ u[i].role = s[i].role /\ u[i].call = s[i].call
    <3>1. s[i] \in TurnMessages
      BY <1>1, ElementOfSeq
    <3> QED BY <1>3, <3>1 DEF TurnMessages
  <2> QED BY <2>1
<1>6. Paired(s) /\ Finished(s)
  BY DEF Pending
<1>7. Finished(u)
  BY <1>1, <1>4, <1>5, <1>6 DEF Finished, FinishedBut
<1>8. ASSUME NEW i \in 1..l
      PROVE  /\ u[i].calls # {} => u[i].role = "assistant"
             /\ \A c \in u[i].calls : i + c <= l => (u[i + c].role = "tool" /\ u[i + c].call = c)
             /\ u[i].role = "tool" => /\ u[i].call \in 1..i-1
                                      /\ u[i].call \in u[i - u[i].call].calls
  <2>1. s[i] \in TurnMessages
    BY <1>1, ElementOfSeq
  <2>2. ASSUME NEW c \in u[i].calls, i + c <= l
        PROVE  u[i + c].role = "tool" /\ u[i + c].call = c
    <3>1. c \in s[i].calls /\ c \in Nat /\ c >= 1 /\ i + c \in 1..l
      BY <1>5, <2>1, <2>2, CallsNumbered
    <3>2. s[i + c].role = "tool" /\ s[i + c].call = c
      BY <1>1, <1>6, <2>2, <3>1, ResultAt
    <3> QED BY <1>5, <3>1, <3>2
  <2>3. ASSUME u[i].role = "tool"
        PROVE  u[i].call \in 1..i-1 /\ u[i].call \in u[i - u[i].call].calls
    <3>1. s[i].call \in 1..i-1 /\ s[i].call \in s[i - s[i].call].calls
      BY <1>1, <1>5, <1>6, <2>3 DEF Paired
    <3>2. i - s[i].call \in 1..l
      BY <3>1
    <3> QED BY <1>5, <3>1, <3>2
  <2>4. u[i].calls # {} => u[i].role = "assistant"
    BY <1>1, <1>5, <1>6 DEF Paired
  <2> QED BY <2>2, <2>3, <2>4
<1>9. Paired(u)
  BY <1>4, <1>8 DEF Paired
<1> QED BY <1>1, <1>4, <1>7, <1>9 DEF Pending

\* Where a compaction cuts there is no result.
LEMMA CutIsLegal ==
  ASSUME NEW s \in Seq(TurnMessages), NEW min \in Nat, NEW keep \in Nat,
         Prepared(s, min, keep).ok
  PROVE  \E from \in 1..Len(s) :
           s[from].role # "tool" /\ Prepared(s, min, keep).kept = SubSeq(s, from, Len(s))
<1>0. PICK from : from = FirstKept(s, keep)
  OBVIOUS
<1>1. PICK l \in Nat : l = Len(s) /\ from = FirstKept(s, keep)
  BY <1>0, LenProperties
<1>2. /\ ~(Len(s) < min \/ from <= 1)
      /\ Prepared(s, min, keep).kept = SubSeq(s, from, Len(s))
  <2>1. CASE Len(s) < min \/ from <= 1
    BY <1>1, <2>1 DEF Prepared
  <2>2. CASE ~(Len(s) < min \/ from <= 1)
    BY <1>1, <2>2 DEF Prepared
  <2> QED BY <2>1, <2>2
<1>3. PICK last, legal : /\ last = Len(s) - keep + 1
                         /\ legal = {i \in CutPoints(s) : i <= last}
  OBVIOUS
<1>4. from = IF last < 1 \/ CutPoints(s) = {} THEN 0
             ELSE IF legal = {} THEN 1 ELSE MaxOf(legal)
  BY <1>1, <1>3 DEF FirstKept
<1>5. legal # {} /\ from = MaxOf(legal)
  BY <1>2, <1>4
<1>6. legal \in SUBSET (1..l)
  BY <1>1, <1>3 DEF CutPoints
<1>7. from \in legal
  <2>1. \E x \in legal : \A y \in legal : y <= x
    BY <1>5, <1>6, LastOfPlaces
  <2> QED BY <1>5, <2>1 DEF MaxOf
<1>8. from \in 1..Len(s) /\ s[from].role # "tool"
  BY <1>3, <1>7 DEF CutPoints
<1> QED BY <1>2, <1>8

\* The turns a repair looks for are the unfinished ones.
LEMMA ResultsFollow ==
  ASSUME NEW s \in Seq(TurnMessages), NEW i \in 1..Len(s), i \notin Unanswered(s),
         s[i].role = "assistant", NEW c \in s[i].calls
  PROVE  \E j \in i+1..Len(s) : s[j].call = c /\ \A k \in i+1..j : s[k].role = "tool"
BY DEF Unanswered, Results

\* The first broken turn, if there is one.
LEMMA WhereCut ==
  ASSUME NEW s \in Seq(TurnMessages)
  PROVE  \/ Unanswered(s) = {} /\ Sanitized(s) = s
         \/ \E b \in Unanswered(s) : /\ b \in 1..Len(s) /\ s[b].role = "assistant"
                                 /\ Sanitized(s) = SubSeq(s, 1, b - 1)
                                 /\ \A k \in Unanswered(s) : b <= k
<1>0. PICK b : b = CutAt(s)
  OBVIOUS
<1>1. PICK l \in Nat : l = Len(s) /\ b = CutAt(s)
  BY <1>0, LenProperties
<1>2. Unanswered(s) \in SUBSET (1..l)
  BY <1>1 DEF Unanswered
<1>3. CASE Unanswered(s) = {}
  BY <1>1, <1>3 DEF CutAt, Sanitized
<1>4. CASE Unanswered(s) # {}
  <2>1. b = CHOOSE i \in Unanswered(s) : \A j \in Unanswered(s) : i <= j
    BY <1>1, <1>4 DEF CutAt
  <2>2. b \in Unanswered(s) /\ \A k \in Unanswered(s) : b <= k
    BY <1>2, <1>4, <2>1, FirstPlace
  <2>3. b \in 1..Len(s) /\ s[b].role = "assistant"
    BY <2>2 DEF Unanswered
  <2>4. Sanitized(s) = SubSeq(s, 1, b - 1)
    BY <1>1, <2>3 DEF Sanitized
  <2> QED BY <2>2, <2>3, <2>4
<1> QED BY <1>3, <1>4

\* A beginning of a conversation.
LEMMA Beginning ==
  ASSUME NEW s \in Seq(TurnMessages), NEW b \in 1..Len(s)
  PROVE  /\ SubSeq(s, 1, b - 1) \in Seq(TurnMessages)
         /\ Len(SubSeq(s, 1, b - 1)) = b - 1
         /\ \A i \in 1..b - 1 : SubSeq(s, 1, b - 1)[i] = s[i]
<1>1. b \in Nat /\ Len(s) \in Nat /\ b - 1 \in Int /\ b - 1 <= Len(s)
  BY LenProperties
<1>2. \A i \in 1..b - 1 : i \in 1..Len(s) /\ s[i] \in TurnMessages
  BY <1>1, ElementOfSeq
<1>3. PICK u : u = SubSeq(s, 1, b - 1)
  OBVIOUS
<1>4. /\ u \in Seq(TurnMessages)
      /\ Len(u) = IF 1 <= b - 1 THEN b - 1 - 1 + 1 ELSE 0
      /\ \A i \in 1..b - 1 - 1 + 1 : u[i] = s[1 + i - 1]
  BY <1>1, <1>2, <1>3, SubSeqProperties
<1>5. Len(u) = b - 1
  BY <1>1, <1>4
<1>6. \A i \in 1..b - 1 : i \in 1..b - 1 - 1 + 1 /\ 1 + i - 1 = i
  BY <1>1
<1> QED BY <1>3, <1>4, <1>5, <1>6

\* A repaired conversation has no broken turn, and what is kept of it is what it
\* began with.
LEMMA RepairedWhole ==
  ASSUME NEW s \in Seq(TurnMessages)
  PROVE  /\ Sanitized(s) \in Seq(TurnMessages)
         /\ Unanswered(Sanitized(s)) = {}
<1>1. CASE Unanswered(s) = {} /\ Sanitized(s) = s
  BY <1>1
<1>2. CASE \E b \in Unanswered(s) : /\ b \in 1..Len(s) /\ s[b].role = "assistant"
                                /\ Sanitized(s) = SubSeq(s, 1, b - 1)
                                /\ \A k \in Unanswered(s) : b <= k
  <2>0. PICK u : u = Sanitized(s)
    OBVIOUS
  <2>1. PICK b \in 1..Len(s) : /\ s[b].role = "assistant"
                               /\ u = Sanitized(s) /\ u = SubSeq(s, 1, b - 1)
                               /\ \A k \in Unanswered(s) : b <= k
    BY <1>2, <2>0
  <2>2. u \in Seq(TurnMessages) /\ Len(u) = b - 1 /\ \A i \in 1..b - 1 : u[i] = s[i]
    BY <2>1, Beginning
  <2>3. ASSUME NEW i \in Unanswered(u) PROVE FALSE
    <3>1. i \in 1..Len(s) /\ i < b /\ i \in 1..b - 1 /\ u[i] = s[i] /\ s[i].role = "assistant"
      BY <2>1, <2>2, LenProperties DEF Unanswered
    <3>2. i \notin Unanswered(s)
      BY <2>1, <3>1
    <3>3. ASSUME NEW c \in u[i].calls PROVE c \in Results(u, i)
      <4>1. PICK j \in i+1..Len(s) : s[j].call = c /\ \A k \in i+1..j : s[k].role = "tool"
        BY <3>1, <3>2, ResultsFollow
      <4>2. j < b
        <5> SUFFICES ASSUME b <= j PROVE FALSE
          BY <2>1, <3>1, LenProperties
        <5>1. b \in i+1..j
          BY <3>1, <4>1, LenProperties
        <5> QED BY <2>1, <4>1, <5>1
      <4>3. j \in i+1..Len(u) /\ u[j] = s[j]
        BY <2>2, <3>1, <4>1, <4>2, LenProperties
      <4>4. \A k \in i+1..j : u[k].role = "tool"
        BY <2>2, <3>1, <4>1, <4>2, LenProperties
      <4> QED BY <4>1, <4>3, <4>4 DEF Results
    <3> QED BY <3>3 DEF Unanswered
  <2> QED BY <2>1, <2>2, <2>3
<1> QED BY <1>1, <1>2, WhereCut

\* Of a conversation in which only the last turn may be unfinished a repair
\* leaves a finished one.
LEMMA RepairedPending ==
  ASSUME NEW s \in Seq(TurnMessages), Paired(s)
  PROVE  Pending(Sanitized(s), <<>>)
<1>1. PICK u : u = Sanitized(s)
  OBVIOUS
<1>2. u \in Seq(TurnMessages) /\ Unanswered(u) = {}
  BY <1>1, RepairedWhole
<1>3. Paired(u)
  <2>1. CASE u = s
    BY <2>1
  <2>2. CASE u # s
    <3>1. PICK b \in 1..Len(s) : s[b].role = "assistant" /\ u = SubSeq(s, 1, b - 1)
      BY <1>1, <2>2, WhereCut
    <3>2. Len(u) = b - 1 /\ \A i \in 1..b - 1 : u[i] = s[i] /\ i \in 1..Len(s)
      BY <3>1, Beginning, LenProperties
    <3>3. ASSUME NEW i \in 1..Len(u)
          PROVE  /\ u[i].calls # {} => u[i].role = "assistant"
                 /\ \A c \in u[i].calls :
                      i + c <= Len(u) => (u[i + c].role = "tool" /\ u[i + c].call = c)
                 /\ u[i].role = "tool" => /\ u[i].call \in 1..i-1
                                          /\ u[i].call \in u[i - u[i].call].calls
      <4>1. i \in 1..Len(s) /\ i \in 1..b - 1 /\ u[i] = s[i] /\ s[i] \in TurnMessages
        BY <3>2, ElementOfSeq
      <4>2. ASSUME NEW c \in u[i].calls, i + c <= Len(u)
            PROVE  u[i + c].role = "tool" /\ u[i + c].call = c
        <5>1. c \in Nat /\ c \in s[i].calls
          BY <4>1, CallsNumbered
        <5>2. i + c \in 1..b - 1 /\ i + c <= Len(s)
          BY <3>2, <4>1, <4>2, <5>1, LenProperties
        <5>3. s[i + c].role = "tool" /\ s[i + c].call = c
          BY <4>1, <5>1, <5>2 DEF Paired
        <5> QED BY <3>2, <5>2, <5>3
      <4>3. ASSUME u[i].role = "tool"
            PROVE  u[i].call \in 1..i-1 /\ u[i].call \in u[i - u[i].call].calls
        <5>1. s[i].call \in 1..i-1 /\ s[i].call \in s[i - s[i].call].calls
          BY <4>1, <4>3 DEF Paired
        <5>2. i - s[i].call \in 1..b - 1
          BY <4>1, <5>1
        <5> QED BY <3>2, <4>1, <5>1, <5>2
      <4>4. u[i].calls # {} => u[i].role = "assistant"
        BY <4>1 DEF Paired
      <4> QED BY <4>2, <4>3, <4>4
    <3> QED BY <3>3 DEF Paired
  <2> QED BY <2>1, <2>2
<1>4. ASSUME NEW i \in 1..Len(u), NEW c \in u[i].calls PROVE i + c <= Len(u)
  <2>1. u[i].role = "assistant" /\ i \notin Unanswered(u)
    BY <1>2, <1>3, <1>4 DEF Paired
  <2>2. PICK j \in i+1..Len(u) : u[j].call = c /\ \A k \in i+1..j : u[k].role = "tool"
    BY <1>2, <2>1, ResultsFollow, SMTT(30)
  <2>3. u[i] \in TurnMessages /\ c \in Nat /\ i \in Nat /\ j \in Nat /\ Len(u) \in Nat
    BY <1>2, CallsNumbered, ElementOfSeq, LenProperties
  <2> SUFFICES ASSUME i + c > Len(u) PROVE FALSE
    BY <2>3
  <2>4. j - i \in 1..c /\ i + (j - i) = j /\ i + (j - i) <= Len(u)
    BY <2>2, <2>3
  <2>5. j - i \in u[i].calls
    BY <2>3, <2>4, CallsNumbered
  <2>6. u[j].call = j - i
    <3>1. PICK k : k = j - i
      OBVIOUS
    <3>2. k \in u[i].calls /\ i + k <= Len(u) /\ i + k = j
      BY <2>4, <2>5, <3>1
    <3>3. u[i + k].call = k
      BY <1>3, <3>2, ResultAt
    <3> QED BY <3>1, <3>2, <3>3
  <2> QED BY <2>2, <2>3, <2>6
<1>5. Finished(u)
  BY <1>4 DEF Finished, FinishedBut
<1> QED BY <1>1, <1>3, <1>5 DEF Pending

-----------------------------------------------------------------------------
(* What is sent                                                             *)

\* A finished conversation pairs its calls and results one to one.
LEMMA FinishedIsWellFormed ==
  ASSUME NEW s \in Seq(TurnMessages), Pending(s, <<>>)
  PROVE  WellFormed(s)
<1>1. Paired(s) /\ Finished(s) /\ Len(s) \in Nat
  BY LenProperties DEF Pending
<1>2. ASSUME NEW i \in 1..Len(s), s[i].calls # {}
      PROVE  /\ i + Cardinality(s[i].calls) <= Len(s)
             /\ {s[j].call : j \in i+1..i+Cardinality(s[i].calls)} = s[i].calls
  <2>1. PICK n \in Nat : s[i].calls = 1..n
    <3>1. s[i] \in TurnMessages
      BY ElementOfSeq
    <3> QED BY <3>1 DEF TurnMessages
  <2>2. n \in s[i].calls /\ n >= 1
    BY <1>2, <2>1
  <2>3. Cardinality(s[i].calls) = n
    <3>1. Cardinality(1..n) = IF 1 > n THEN 0 ELSE n - 1 + 1
      BY <2>1, FS_Interval
    <3> QED BY <2>1, <2>2, <3>1
  <2>4. i + n <= Len(s)
    BY <1>1, <2>2 DEF Finished, FinishedBut
  <2>5. ASSUME NEW c \in 1..n PROVE i + c \in i+1..i+n /\ s[i + c].call = c
    <3>1. c \in s[i].calls /\ i + c <= Len(s)
      BY <1>1, <2>1, <2>4
    <3>2. s[i + c].call = c
      BY <1>1, <3>1, ResultAt
    <3>3. i + c \in i+1..i+n
      BY <1>1, <2>1
    <3> QED BY <3>2, <3>3
  <2>6. ASSUME NEW j \in i+1..i+n PROVE s[j].call \in 1..n
    <3>1. PICK c : c = j - i
      OBVIOUS
    <3>2. c \in 1..n /\ i + c = j
      BY <2>1, <3>1, SMTT(30)
    <3> QED BY <2>5, <3>2
  <2>7. {s[j].call : j \in i+1..i+n} = 1..n
    <3>1. \A c \in 1..n : \E j \in i+1..i+n : c = s[j].call
      BY <2>5
    <3> QED BY <2>6, <3>1
  <2> QED BY <2>1, <2>3, <2>4, <2>7
<1>3. ASSUME NEW i \in 1..Len(s), s[i].role = "tool"
      PROVE  \E j \in 1..i-1 : /\ s[i].call \in s[j].calls
                               /\ \A k \in j+1..i-1 : s[k].role = "tool"
  <2>1. PICK c, j : c = s[i].call /\ j = i - c
    OBVIOUS
  <2>2. c \in 1..i-1 /\ c \in s[j].calls
    BY <1>1, <1>3, <2>1 DEF Paired
  <2>3. j \in 1..i-1 /\ j \in 1..Len(s) /\ s[j] \in TurnMessages
    BY <1>1, <2>1, <2>2, ElementOfSeq
  <2>4. ASSUME NEW k \in j+1..i-1 PROVE s[k].role = "tool"
    <3>1. PICK e : e = k - j
      OBVIOUS
    <3>2. e \in 1..c /\ j + e = k /\ j + e <= Len(s)
      <4>1. c \in Int /\ i \in 1..Len(s) /\ j = i - c /\ k \in j+1..i-1 /\ c \in 1..i-1
        BY <2>1, <2>2
      <4> QED BY <1>1, <2>3, <3>1, <4>1
    <3>3. e \in s[j].calls
      BY <2>2, <2>3, <3>2, CallsNumbered
    <3> QED BY <1>1, <2>3, <3>2, <3>3, ResultAt
  <2> QED BY <2>1, <2>2, <2>3, <2>4
<1> QED BY <1>2, <1>3 DEF WellFormed

\* The system message and the summary lead a request and change no turn.
LEMMA RequestIsFinished ==
  ASSUME NEW weight, NEW s \in Seq(TurnMessages), Pending(s, <<>>)
  PROVE  WellFormed(Request(weight, s))
<1>1. PICK sys, lead : /\ sys = <<Text("system")>>
                       /\ lead = IF weight = 0 THEN <<>> ELSE <<User>>
  OBVIOUS
<1>2. sys \in Seq(TurnMessages) /\ \A i \in 1..Len(sys) : Quiet(sys[i])
  BY <1>1, MessagesMade
<1>3. lead \in Seq(TurnMessages) /\ \A i \in 1..Len(lead) : Quiet(lead[i])
  BY <1>1, MessagesMade
<1>4. Pending(sys, <<>>)
  BY <1>2, QuietFinished DEF Pending
<1>5. PICK front : front = sys \o lead
  OBVIOUS
<1>6. front \in Seq(TurnMessages) /\ Pending(front, <<>>)
  BY <1>2, <1>3, <1>4, <1>5, QuietJoined
<1>7. front \o s \in Seq(TurnMessages) /\ Pending(front \o s, <<>>)
  <2>1. Paired(front \o s) /\ Finished(front \o s)
    BY <1>6, JoinedPaired, JoinedFinished DEF Pending
  <2> QED BY <1>6, <2>1, ConcatProperties DEF Pending
<1>8. Request(weight, s) = front \o s
  BY <1>1, <1>5 DEF Request
<1> QED BY <1>7, <1>8, FinishedIsWellFormed

-----------------------------------------------------------------------------
(* Types                                                                    *)

\* Messages none of which begins a turn or answers one.
QuietTalk == {t \in Seq(TurnMessages) : \A i \in 1..Len(t) : Quiet(t[i])}

LEMMA QuietTalks ==
  /\ <<>> \in QuietTalk /\ <<User>> \in QuietTalk
  /\ \A s, t \in QuietTalk : s \o t \in QuietTalk
  /\ \A m \in TurnMessages : Quiet(m) => <<m>> \in QuietTalk
<1>1. <<>> \in QuietTalk
  BY DEF QuietTalk
<1>2. ASSUME NEW m \in TurnMessages, Quiet(m) PROVE <<m>> \in QuietTalk
  <2>1. <<m>> \in Seq(TurnMessages) /\ Len(<<m>>) = 1 /\ <<m>>[1] = m
    OBVIOUS
  <2> QED BY <1>2, <2>1 DEF QuietTalk
<1>3. ASSUME NEW s \in QuietTalk, NEW t \in QuietTalk PROVE s \o t \in QuietTalk
  <2>1. s \in Seq(TurnMessages) /\ t \in Seq(TurnMessages)
    BY DEF QuietTalk
  <2>0. PICK u : u = s \o t
    OBVIOUS
  <2>2. PICK l \in Nat, n \in Nat : u = s \o t /\ l = Len(s) /\ n = Len(t)
    BY <2>0, <2>1, LenProperties
  <2>3. /\ u \in Seq(TurnMessages) /\ Len(u) = l + n
        /\ \A i \in 1..l + n : u[i] = IF i <= l THEN s[i] ELSE t[i - l]
    BY <2>1, <2>2, ConcatProperties
  <2>4. ASSUME NEW i \in 1..l + n PROVE Quiet(u[i])
    <3>1. CASE i <= l
      BY <2>2, <2>3, <3>1 DEF QuietTalk
    <3>2. CASE ~(i <= l)
      <4>1. i - l \in 1..n
        BY <2>2, <3>2
      <4> QED BY <2>2, <2>3, <3>2, <4>1 DEF QuietTalk
    <3> QED BY <3>1, <3>2
  <2> QED BY <2>2, <2>3, <2>4 DEF QuietTalk
<1>4. <<User>> \in QuietTalk
  BY <1>2, MessagesMade
<1> QED BY <1>1, <1>2, <1>3, <1>4

\* A task takes no mail.
MailTyped ==
  /\ offset \in 0..taken /\ taken \in 0..mail /\ mail \in 0..MaxMail
  /\ mode = "task" => taken = 0

StepTyped == step \in 0..MaxSteps /\ lastTool \in 0..step

\* One switch of model in every step may pass the cap on retries.
RetriesTyped ==
  /\ retries \in Nat /\ errors \in 0..retries
  /\ retries <= Cap(MaxRetries) + step + 1
  /\ at \in {"mail", "compact", "summarise", "request"} => retries <= Cap(MaxRetries) + step
  /\ (at = "call" /\ model = "main") => retries <= Cap(MaxRetries) + step

FlagsTyped ==
  /\ mode \in {"quantum", "task"}
  /\ at \in {"idle", "mail", "step", "compact", "summarise", "request", "call", "tools"}
  /\ model \in {"main", "fallback"} /\ exhausted \subseteq {"main", "fallback"}
  /\ cancelled \in BOOLEAN /\ compacted \in BOOLEAN /\ runs \in 0..MaxRuns
  /\ interposed \in BOOLEAN /\ digested \subseteq 1..MaxMail

\* Calls are left to execute while tools run only; mail is taken by a quantum.
TalkTyped ==
  /\ memory \in Seq(TurnMessages) /\ summary \in Nat
  /\ log \in [messages : Seq(TurnMessages), summary : Nat]
  /\ calls \in Seq(Nat) /\ (at # "tools" => calls = <<>>)
  /\ at = "mail" => mode = "quantum"

TurnTyped == MailTyped /\ StepTyped /\ RetriesTyped /\ FlagsTyped /\ TalkTyped

\* What a compaction keeps is of the conversation.
LEMMA KeptIsTyped ==
  ASSUME NEW s \in Seq(TurnMessages), NEW min \in Nat, NEW keep \in Nat
  PROVE  /\ WithoutUsage(Prepared(s, min, keep).kept) \in Seq(TurnMessages)
         /\ Pending(s, <<>>) => Pending(WithoutUsage(Prepared(s, min, keep).kept), <<>>)
<1>1. PICK kept : kept = Prepared(s, min, keep).kept
  OBVIOUS
<1>2. kept \in Seq(TurnMessages) /\ (Pending(s, <<>>) => Pending(kept, <<>>))
  <2>1. CASE Prepared(s, min, keep).ok
    <3>1. PICK from \in 1..Len(s) : s[from].role # "tool" /\ kept = SubSeq(s, from, Len(s))
      BY <1>1, <2>1, CutIsLegal
    <3>2. \A i \in from..Len(s) : s[i] \in TurnMessages
      BY <3>1, ElementOfSeq, LenProperties
    <3>3. kept \in Seq(TurnMessages)
      BY <3>1, <3>2, SubSeqProperties, LenProperties
    <3> QED BY <3>1, <3>3, KeptPaired
  <2>2. CASE ~Prepared(s, min, keep).ok
    <3>1. CASE Len(s) < min \/ FirstKept(s, keep) <= 1
      BY <1>1, <3>1 DEF Prepared
    <3>2. CASE ~(Len(s) < min \/ FirstKept(s, keep) <= 1)
      BY <2>2, <3>2 DEF Prepared
    <3> QED BY <3>1, <3>2
  <2> QED BY <2>1, <2>2
<1>0. PICK u : u = WithoutUsage(kept)
  OBVIOUS
<1>3. PICK l \in Nat : u = WithoutUsage(kept) /\ l = Len(kept)
  BY <1>0, <1>2, LenProperties
<1>4. u \in Seq(TurnMessages)
  <2>1. ASSUME NEW i \in 1..l PROVE [kept[i] EXCEPT !.usage = 0] \in TurnMessages
    <3>1. kept[i] \in TurnMessages
      BY <1>2, <1>3, ElementOfSeq
    <3> QED BY <3>1 DEF TurnMessages
  <2>2. u = [i \in 1..l |-> [kept[i] EXCEPT !.usage = 0]]
    BY <1>3 DEF WithoutUsage
  <2> QED BY <2>1, <2>2
<1> QED BY <1>1, <1>2, <1>3, <1>4, CountsCleared

LEMMA SaysTyped ==
  ASSUME memory \in Seq(TurnMessages), log \in [messages : Seq(TurnMessages), summary : Nat],
         NEW t \in Seq(TurnMessages), Says(t)
  PROVE  /\ memory' \in Seq(TurnMessages)
         /\ log' \in [messages : Seq(TurnMessages), summary : Nat]
<1>1. memory' \in Seq(TurnMessages)
  BY ConcatProperties DEF Says
<1>2. log.messages \o t \in Seq(TurnMessages)
  BY ConcatProperties
<1> QED BY <1>1, <1>2 DEF Says

LEMMA CallsTyped ==
  ASSUME NEW n \in Nat
  PROVE  /\ [i \in 1..n |-> i] \in Seq(Nat)
         /\ n = 0 => [i \in 1..n |-> i] = <<>>
<1>1. [i \in 1..n |-> i] \in [1..n -> Nat]
  OBVIOUS
<1>2. [i \in 1..n |-> i] \in Seq(Nat)
  BY <1>1
<1>3. DOMAIN [i \in 1..n |-> i] = 1..n
  OBVIOUS
<1>4. n = 0 => Len([i \in 1..n |-> i]) = 0
  BY <1>2, <1>3, LenProperties
<1>5. n = 0 => [i \in 1..n |-> i] = <<>>
  BY <1>2, <1>4, EmptySeq
<1> QED BY <1>2, <1>5

\* Bounds.
LEMMA TurnBounds ==
  /\ Cap(MaxRetries) \in Nat /\ MaxMail \in Nat /\ MaxRuns \in Nat /\ MaxSteps \in Nat
  /\ KeepRecent \in Nat /\ MinMessages \in Nat
BY TurnAssumption DEF Cap

LEMMA TurnTypedGivesType == TurnTyped => TurnTypeOK
<1> SUFFICES ASSUME TurnTyped PROVE TurnTypeOK
  OBVIOUS
<1>1. retries \in 0..Cap(MaxRetries) + MaxSteps + 1
  BY TurnBounds DEF TurnTyped, RetriesTyped, StepTyped
<1> QED BY <1>1 DEF TurnTyped, MailTyped, StepTyped, RetriesTyped, FlagsTyped, TurnTypeOK

LEMMA TurnInitTyped == TurnInit => TurnTyped
<1> SUFFICES ASSUME TurnInit PROVE TurnTyped
  OBVIOUS
<1>1. MailTyped /\ StepTyped
  BY TurnBounds DEF TurnInit, MailTyped, StepTyped
<1>2. RetriesTyped
  BY TurnBounds DEF TurnInit, RetriesTyped
<1>3. FlagsTyped
  <2>1. runs \in 0..MaxRuns
    BY TurnBounds DEF TurnInit
  <2> QED BY <2>1 DEF TurnInit, FlagsTyped
<1>4. TalkTyped
  BY DEF TurnInit, TalkTyped, NewLog
<1> QED BY <1>1, <1>2, <1>3, <1>4 DEF TurnTyped

\* A run that ends or fails, whatever it said before.
LEMMA EndsTyped ==
  ASSUME TurnTyped, NEW ok, Ends(ok), memory' \in Seq(TurnMessages),
         log' \in [messages : Seq(TurnMessages), summary : Nat], UNCHANGED noteVars
  PROVE  TurnTyped'
<1>1. MailTyped'
  BY TurnBounds DEF TurnTyped, MailTyped, Ends, postVars
<1>2. StepTyped'
  BY DEF TurnTyped, StepTyped, Ends, stepVars
<1>3. RetriesTyped'
  BY DEF TurnTyped, RetriesTyped, Ends, callVars, stepVars
<1>4. FlagsTyped'
  BY DEF TurnTyped, FlagsTyped, Ends, callVars, postVars, noteVars
<1>5. TalkTyped'
  BY DEF TurnTyped, TalkTyped, Ends
<1> QED BY <1>1, <1>2, <1>3, <1>4, <1>5 DEF TurnTyped

LEMMA FailsTyped == ASSUME TurnTyped, Fails PROVE TurnTyped'
<1>1. memory' \in Seq(TurnMessages) /\ log' \in [messages : Seq(TurnMessages), summary : Nat]
  BY DEF TurnTyped, TalkTyped, Fails, Silent
<1> QED BY <1>1, EndsTyped DEF Fails

\* What is said in a step, in an answer of a quantum and in one of a task.
LEMMA StepTalk == ASSUME Step PROVE \E t \in QuietTalk : Says(t)
<1>1. PICK x \in {<<>>, <<User>>}, y \in {<<>>, <<User>>}, z \in {<<>>, <<User>>} :
        Says(x \o y \o z)
  BY DEF Step
<1>2. x \o y \o z \in QuietTalk
  BY QuietTalks
<1> QED BY <1>1, <1>2

LEMMA TextTalk ==
  ASSUME AnswerText, summary \in Nat, memory \in Seq(TurnMessages)
  PROVE  \E t \in QuietTalk : Says(t)
<1>1. PICK t \in {<<>>} \cup {<<a>> : a \in Answer({})} : Says(t)
  BY DEF AnswerText
<1>2. ASSUME NEW a \in Answer({}) PROVE <<a>> \in QuietTalk
  <2>1. {} = 1..0 /\ Len(memory) \in Nat
    BY LenProperties
  <2>2. a \in Answer(1..0)
    BY <2>1
  <2>3. a \in TurnMessages /\ a.role = "assistant" /\ a.calls = 1..0
    BY <2>1, <2>2, AnswerMade
  <2> QED BY <2>1, <2>3, QuietTalks DEF Quiet
<1> QED BY <1>1, <1>2, QuietTalks

\* A task that makes calls says its answer only, or interposes a message.
LEMMA TaskTalk ==
  ASSUME AnswerTask, TurnTyped
  PROVE  \E n \in 0..2, t \in Seq(TurnMessages) :
           /\ Says(t) /\ calls' = [i \in 1..n |-> i]
           /\ at' \in {"tools", "step", "idle"} /\ (at' # "tools" => n = 0)
           /\ n = 0 => t \in QuietTalk
           /\ (n > 0 /\ ~interposed') => \E a \in Answer(1..n) : t = <<a>>
<1> DEFINE Said(n, a, text) == IF text \/ n > 0 THEN <<a>> ELSE <<>>
           Warned(text, tagged) == IF text /\ ~tagged THEN <<User>> ELSE <<>>
           Prompt(n) == IF n = 0 /\ step - lastTool < 3 THEN <<User>> ELSE <<>>
           Outcome(n, a, text, tagged) ==
             /\ Says(Said(n, a, text) \o Warned(text, tagged) \o Prompt(n))
             /\ interposed' = (interposed \/ (n > 0 /\ Warned(text, tagged) # <<>>))
             /\ calls' = [i \in 1..n |-> i]
             /\ at' = IF n > 0 THEN "tools" ELSE IF Prompt(n) # <<>> THEN "step" ELSE "idle"
<1>b. PICK n \in 0..2 : \E a \in Answer(1..n) : \E text, tagged \in BOOLEAN :
          Outcome(n, a, text, tagged)
  BY ZenonT(40) DEF AnswerTask
<1>0. PICK text \in BOOLEAN, tagged \in BOOLEAN, a \in Answer(1..n) :
        a \in Answer(1..n) /\ Outcome(n, a, text, tagged)
  <2> HIDE DEF Outcome
  <2> QED BY <1>b
<1>a. PICK said, warned, prompt :
        said = Said(n, a, text) /\ warned = Warned(text, tagged) /\ prompt = Prompt(n)
  OBVIOUS
<1>1. /\ said = IF text \/ n > 0 THEN <<a>> ELSE <<>>
      /\ warned = IF text /\ ~tagged THEN <<User>> ELSE <<>>
      /\ prompt = IF n = 0 /\ step - lastTool < 3 THEN <<User>> ELSE <<>>
      /\ Says(said \o warned \o prompt)
      /\ interposed' = (interposed \/ (n > 0 /\ warned # <<>>))
      /\ calls' = [i \in 1..n |-> i]
      /\ at' = IF n > 0 THEN "tools" ELSE IF prompt # <<>> THEN "step" ELSE "idle"
  BY <1>0, <1>a
<1>2. n \in Nat /\ Len(memory) \in Nat
  BY LenProperties DEF TurnTyped, TalkTyped
<1>3. a \in TurnMessages /\ a.role = "assistant" /\ a.calls = 1..n
  BY <1>0, <1>2, AnswerMade DEF TurnTyped, TalkTyped
<1>4. warned \in QuietTalk /\ prompt \in QuietTalk
  BY <1>1, QuietTalks
<1>5. said \in Seq(TurnMessages)
  BY <1>1, <1>3
<1>6. said \o warned \o prompt \in Seq(TurnMessages)
  <2>1. warned \in Seq(TurnMessages) /\ prompt \in Seq(TurnMessages)
    BY <1>4 DEF QuietTalk
  <2> QED BY <1>5, <2>1, ConcatProperties
<1>7. n = 0 => said \o warned \o prompt \in QuietTalk
  <2>1. n = 0 => a.calls = {}
    BY <1>3
  <2>2. n = 0 => <<a>> \in QuietTalk
    BY <1>3, <2>1, QuietTalks DEF Quiet
  <2>3. n = 0 => said \in QuietTalk
    BY <1>1, <2>2, QuietTalks
  <2> QED BY <1>4, <2>3, QuietTalks
<1>8. (n > 0 /\ ~interposed') => said \o warned \o prompt = <<a>>
  <2>1. ASSUME n > 0, ~interposed' PROVE said = <<a>> /\ warned = <<>> /\ prompt = <<>>
    <3>1. said = <<a>>
      BY <1>1, <2>1
    <3>2. prompt = <<>>
      BY <1>1, <2>1
    <3>3. warned = <<>>
      BY <1>1, <2>1 DEF TurnTyped, FlagsTyped
    <3> QED BY <3>1, <3>2, <3>3
  <2>2. <<a>> \o <<>> \o <<>> = <<a>>
    BY <1>3, ConcatEmptySeq
  <2> QED BY <2>1, <2>2
<1>9. at' \in {"tools", "step", "idle"} /\ (at' # "tools" => n = 0)
  BY <1>1
<1> QED BY <1>0, <1>1, <1>6, <1>7, <1>8, <1>9

LEMMA CallsLeft ==
  ASSUME NEW left \in Seq(Nat), left # <<>>
  PROVE  Head(left) \in Nat /\ Tail(left) \in Seq(Nat)
BY HeadTailProperties

\* Every step keeps the types.
LEMMA TurnNextTyped == TurnTyped /\ [TurnNext]_turnVars => TurnTyped'
<1> SUFFICES ASSUME TurnTyped, [TurnNext]_turnVars PROVE TurnTyped'
  OBVIOUS
<1>1. CASE Post
  <2>1. MailTyped'
    BY <1>1, TurnBounds DEF TurnTyped, MailTyped, Post, callVars, stepVars, noteVars
  <2>2. StepTyped'
    BY <1>1, TurnBounds DEF TurnTyped, StepTyped, Post, callVars, stepVars, noteVars
  <2>3. RetriesTyped'
    BY <1>1, TurnBounds DEF TurnTyped, RetriesTyped, Post, callVars, stepVars, noteVars
  <2>4. FlagsTyped'
    BY <1>1, TurnBounds DEF TurnTyped, FlagsTyped, Post, callVars, stepVars, noteVars
  <2>5. TalkTyped'
    BY <1>1 DEF TurnTyped, TalkTyped, Post, callVars, stepVars, noteVars
  <2> QED BY <2>1, <2>2, <2>3, <2>4, <2>5 DEF TurnTyped
<1>2. CASE Interrupt
  <2>1. MailTyped'
    BY <1>2, TurnBounds DEF TurnTyped, MailTyped, Interrupt, callVars, stepVars, noteVars
  <2>2. StepTyped'
    BY <1>2, TurnBounds DEF TurnTyped, StepTyped, Interrupt, callVars, stepVars, noteVars
  <2>3. RetriesTyped'
    BY <1>2, TurnBounds DEF TurnTyped, RetriesTyped, Interrupt, callVars, stepVars, noteVars
  <2>4. FlagsTyped'
    BY <1>2, TurnBounds DEF TurnTyped, FlagsTyped, Interrupt, callVars, stepVars, noteVars
  <2>5. TalkTyped'
    BY <1>2 DEF TurnTyped, TalkTyped, Interrupt, callVars, stepVars, noteVars
  <2> QED BY <2>1, <2>2, <2>3, <2>4, <2>5 DEF TurnTyped
<1>3. CASE StartQuantum
  <2>1. MailTyped'
    BY <1>3, TurnBounds DEF TurnTyped, MailTyped, StartQuantum, Begins, noteVars
  <2>2. StepTyped'
    BY <1>3, TurnBounds DEF TurnTyped, StepTyped, StartQuantum, Begins, noteVars
  <2>3. RetriesTyped'
    BY <1>3, TurnBounds DEF TurnTyped, RetriesTyped, StartQuantum, Begins, noteVars
  <2>4. FlagsTyped'
    <3>1. runs' \in 0..MaxRuns /\ exhausted' = {}
      BY <1>3, TurnBounds DEF TurnTyped, FlagsTyped, StartQuantum, Begins
    <3> QED BY <1>3, <3>1 DEF TurnTyped, FlagsTyped, StartQuantum, Begins, noteVars
  <2>5. TalkTyped'
    <3>1. PICK s : s = Sanitized(log.messages)
      OBVIOUS
    <3>2. s \in Seq(TurnMessages)
      BY <3>1, RepairedWhole DEF TurnTyped, TalkTyped
    <3>3. memory' = s /\ log' = [log EXCEPT !.messages = s] /\ summary' = log.summary
      BY <1>3, <3>1 DEF StartQuantum, Begins
    <3>4. log' \in [messages : Seq(TurnMessages), summary : Nat] /\ summary' \in Nat
      BY <3>2, <3>3 DEF TurnTyped, TalkTyped
    <3> QED BY <1>3, <3>2, <3>3, <3>4 DEF TurnTyped, TalkTyped, StartQuantum, Begins
  <2> QED BY <2>1, <2>2, <2>3, <2>4, <2>5 DEF TurnTyped
<1>4. CASE TakeMail
  <2>1. MailTyped'
    BY <1>4, TurnBounds DEF TurnTyped, MailTyped, TalkTyped, TakeMail, postVars, callVars, stepVars, noteVars
  <2>2. StepTyped'
    BY <1>4, TurnBounds DEF TurnTyped, StepTyped, TakeMail, postVars, callVars, stepVars, noteVars
  <2>3. RetriesTyped'
    BY <1>4, TurnBounds DEF TurnTyped, RetriesTyped, TakeMail, postVars, callVars, stepVars, noteVars
  <2>4. FlagsTyped'
    BY <1>4, TurnBounds DEF TurnTyped, FlagsTyped, TakeMail, postVars, callVars, stepVars, noteVars
  <2>5. TalkTyped'
    <3>1. CASE taken < mail
      <4>1. <<Mail(taken + 1)>> \in Seq(TurnMessages)
        BY <1>4, TurnBounds, MessagesMade DEF TurnTyped, MailTyped
      <4>2. /\ memory' \in Seq(TurnMessages)
            /\ log' \in [messages : Seq(TurnMessages), summary : Nat]
        BY <1>4, <3>1, <4>1, SaysTyped DEF TurnTyped, TalkTyped, TakeMail
      <4> QED BY <1>4, <3>1, <4>2 DEF TurnTyped, TalkTyped, TakeMail, postVars
    <3>2. CASE ~(taken < mail)
      BY <1>4, <3>2 DEF TurnTyped, TalkTyped, TakeMail, Silent, postVars
    <3> QED BY <3>1, <3>2
  <2> QED BY <2>1, <2>2, <2>3, <2>4, <2>5 DEF TurnTyped
<1>5. CASE StartTask
  <2>1. MailTyped'
    BY <1>5, TurnBounds DEF TurnTyped, MailTyped, StartTask, Begins, noteVars
  <2>2. StepTyped'
    BY <1>5, TurnBounds DEF TurnTyped, StepTyped, StartTask, Begins, noteVars
  <2>3. RetriesTyped'
    BY <1>5, TurnBounds DEF TurnTyped, RetriesTyped, StartTask, Begins, noteVars
  <2>4. FlagsTyped'
    <3>1. runs' \in 0..MaxRuns /\ exhausted' = {}
      BY <1>5, TurnBounds DEF TurnTyped, FlagsTyped, StartTask, Begins
    <3> QED BY <1>5, <3>1 DEF TurnTyped, FlagsTyped, StartTask, Begins, noteVars
  <2>5. TalkTyped'
    <3>1. memory' \in Seq(TurnMessages)
      BY <1>5, MessagesMade DEF StartTask, Begins
    <3> QED BY <1>5, <3>1 DEF TurnTyped, TalkTyped, StartTask, Begins
  <2> QED BY <2>1, <2>2, <2>3, <2>4, <2>5 DEF TurnTyped
<1>6. CASE Step
  <2>1. MailTyped'
    BY <1>6, TurnBounds DEF TurnTyped, MailTyped, Step, postVars, callVars, stepVars, noteVars
  <2>2. StepTyped'
    BY <1>6, TurnBounds DEF TurnTyped, StepTyped, Step, postVars, callVars, stepVars, noteVars
  <2>3. RetriesTyped'
    <3>1. step' = step + 1 /\ at' = "compact" /\ retries' = retries /\ errors' = errors
      BY <1>6 DEF Step, callVars
    <3> QED BY <3>1, TurnBounds DEF TurnTyped, RetriesTyped, StepTyped
  <2>4. FlagsTyped'
    BY <1>6, TurnBounds DEF TurnTyped, FlagsTyped, Step, postVars, callVars, stepVars, noteVars
  <2>5. TalkTyped'
    <3>1. PICK t \in QuietTalk : Says(t)
      BY <1>6, StepTalk
    <3>2. /\ memory' \in Seq(TurnMessages)
          /\ log' \in [messages : Seq(TurnMessages), summary : Nat]
      BY <3>1, SaysTyped DEF TurnTyped, TalkTyped, QuietTalk
    <3>3. /\ at # "tools" /\ at' = "compact"
          /\ UNCHANGED <<mode, summary, calls>>
      BY <1>6 DEF Step, postVars
    <3> QED BY <3>2, <3>3 DEF TurnTyped, TalkTyped
  <2> QED BY <2>1, <2>2, <2>3, <2>4, <2>5 DEF TurnTyped
<1>7. CASE CompactDone
  <2>1. MailTyped'
    BY <1>7, TurnBounds DEF TurnTyped, MailTyped, CompactDone, postVars, callVars, stepVars, noteVars
  <2>2. StepTyped'
    BY <1>7, TurnBounds DEF TurnTyped, StepTyped, CompactDone, postVars, callVars, stepVars, noteVars
  <2>3. RetriesTyped'
    BY <1>7, TurnBounds DEF TurnTyped, RetriesTyped, CompactDone, postVars, callVars, stepVars, noteVars
  <2>4. FlagsTyped'
    BY <1>7, TurnBounds DEF TurnTyped, FlagsTyped, CompactDone, postVars, callVars, stepVars, noteVars
  <2>5. TalkTyped'
    BY <1>7 DEF TurnTyped, TalkTyped, CompactDone, postVars, callVars, stepVars, noteVars
  <2> QED BY <2>1, <2>2, <2>3, <2>4, <2>5 DEF TurnTyped
<1>8. CASE CompactStart
  <2>1. MailTyped'
    BY <1>8, TurnBounds DEF TurnTyped, MailTyped, CompactStart, postVars, callVars, stepVars, noteVars
  <2>2. StepTyped'
    BY <1>8, TurnBounds DEF TurnTyped, StepTyped, CompactStart, postVars, callVars, stepVars, noteVars
  <2>3. RetriesTyped'
    BY <1>8, TurnBounds DEF TurnTyped, RetriesTyped, CompactStart, postVars, callVars, stepVars, noteVars
  <2>4. FlagsTyped'
    BY <1>8, TurnBounds DEF TurnTyped, FlagsTyped, CompactStart, postVars, callVars, stepVars, noteVars
  <2>5. TalkTyped'
    BY <1>8 DEF TurnTyped, TalkTyped, CompactStart, postVars, callVars, stepVars, noteVars
  <2> QED BY <2>1, <2>2, <2>3, <2>4, <2>5 DEF TurnTyped
<1>9. CASE Summarised
  <2>1. MailTyped'
    BY <1>9, TurnBounds DEF TurnTyped, MailTyped, Summarised, postVars, callVars, stepVars, noteVars
  <2>2. StepTyped'
    BY <1>9, TurnBounds DEF TurnTyped, StepTyped, Summarised, postVars, callVars, stepVars, noteVars
  <2>3. RetriesTyped'
    BY <1>9, TurnBounds DEF TurnTyped, RetriesTyped, Summarised, postVars, callVars, stepVars, noteVars
  <2>4. FlagsTyped'
    BY <1>9, TurnBounds DEF TurnTyped, FlagsTyped, Summarised, postVars, callVars, stepVars, noteVars
  <2>5. TalkTyped'
    <3>1. memory' \in Seq(TurnMessages)
      BY <1>9, KeptIsTyped, TurnBounds DEF TurnTyped, TalkTyped, Summarised, Plan
    <3>2. summary' \in Nat /\ at # "tools" /\ at' = "compact" /\ UNCHANGED <<mode, log, calls>>
      BY <1>9 DEF Summarised, postVars
    <3> QED BY <3>1, <3>2 DEF TurnTyped, TalkTyped
  <2> QED BY <2>1, <2>2, <2>3, <2>4, <2>5 DEF TurnTyped
<1>10. CASE BuildRequest
  <2>1. MailTyped'
    BY <1>10, TurnBounds DEF TurnTyped, MailTyped, BuildRequest, postVars, callVars, stepVars, noteVars
  <2>2. StepTyped'
    BY <1>10, TurnBounds DEF TurnTyped, StepTyped, BuildRequest, postVars, callVars, stepVars, noteVars
  <2>3. RetriesTyped'
    BY <1>10, TurnBounds DEF TurnTyped, RetriesTyped, BuildRequest, postVars, callVars, stepVars, noteVars
  <2>4. FlagsTyped'
    BY <1>10, TurnBounds DEF TurnTyped, FlagsTyped, BuildRequest, postVars, callVars, stepVars, noteVars
  <2>5. TalkTyped'
    BY <1>10 DEF TurnTyped, TalkTyped, BuildRequest, postVars, callVars, stepVars, noteVars
  <2> QED BY <2>1, <2>2, <2>3, <2>4, <2>5 DEF TurnTyped
<1>11. CASE SwitchOnQuota
  <2>1. MailTyped'
    BY <1>11, TurnBounds DEF TurnTyped, MailTyped, SwitchOnQuota, CallAgain, postVars, callVars, stepVars, noteVars
  <2>2. StepTyped'
    BY <1>11, TurnBounds DEF TurnTyped, StepTyped, SwitchOnQuota, CallAgain, postVars, callVars, stepVars, noteVars
  <2>3. RetriesTyped'
    <3>1. /\ at = "call" /\ model = "main" /\ at' = "call" /\ model' = "fallback"
          /\ errors' = 0 /\ retries' = retries + 1 /\ step' = step
      BY <1>11 DEF TurnTyped, FlagsTyped, SwitchOnQuota, CallAgain, stepVars
    <3> QED BY <3>1, TurnBounds DEF TurnTyped, RetriesTyped, StepTyped
  <2>4. FlagsTyped'
    BY <1>11, TurnBounds DEF TurnTyped, FlagsTyped, SwitchOnQuota, CallAgain, postVars, callVars, stepVars, noteVars
  <2>5. TalkTyped'
    BY <1>11 DEF TurnTyped, TalkTyped, SwitchOnQuota, CallAgain, postVars, callVars, stepVars, noteVars
  <2> QED BY <2>1, <2>2, <2>3, <2>4, <2>5 DEF TurnTyped
<1>12. CASE Retry
  <2>1. MailTyped'
    BY <1>12, TurnBounds DEF TurnTyped, MailTyped, Retry, CallAgain, postVars, callVars, stepVars, noteVars
  <2>2. StepTyped'
    BY <1>12, TurnBounds DEF TurnTyped, StepTyped, Retry, CallAgain, postVars, callVars, stepVars, noteVars
  <2>3. RetriesTyped'
    <3>1. /\ retries + 1 < Cap(MaxRetries) /\ at' = "call"
          /\ errors' = errors + 1 /\ retries' = retries + 1 /\ step' = step
      BY <1>12 DEF Retry, CallAgain, stepVars
    <3> QED BY <3>1, TurnBounds DEF TurnTyped, RetriesTyped, StepTyped
  <2>4. FlagsTyped'
    BY <1>12, TurnBounds DEF TurnTyped, FlagsTyped, Retry, CallAgain, postVars, callVars, stepVars, noteVars
  <2>5. TalkTyped'
    BY <1>12 DEF TurnTyped, TalkTyped, Retry, CallAgain, postVars, callVars, stepVars, noteVars
  <2> QED BY <2>1, <2>2, <2>3, <2>4, <2>5 DEF TurnTyped
<1>13. CASE SwitchOnErrors
  <2>1. MailTyped'
    BY <1>13, TurnBounds DEF TurnTyped, MailTyped, SwitchOnErrors, CallAgain, postVars, callVars, stepVars, noteVars
  <2>2. StepTyped'
    BY <1>13, TurnBounds DEF TurnTyped, StepTyped, SwitchOnErrors, CallAgain, postVars, callVars, stepVars, noteVars
  <2>3. RetriesTyped'
    <3>1. /\ retries + 1 < Cap(MaxRetries) /\ at' = "call"
          /\ errors' = 0 /\ retries' = retries + 1 /\ step' = step
      BY <1>13 DEF SwitchOnErrors, CallAgain, stepVars
    <3> QED BY <3>1, TurnBounds DEF TurnTyped, RetriesTyped, StepTyped
  <2>4. FlagsTyped'
    BY <1>13, TurnBounds DEF TurnTyped, FlagsTyped, SwitchOnErrors, CallAgain, postVars, callVars, stepVars, noteVars
  <2>5. TalkTyped'
    BY <1>13 DEF TurnTyped, TalkTyped, SwitchOnErrors, CallAgain, postVars, callVars, stepVars, noteVars
  <2> QED BY <2>1, <2>2, <2>3, <2>4, <2>5 DEF TurnTyped
<1>14. CASE AnswerCalls
  <2>1. MailTyped'
    BY <1>14, TurnBounds DEF TurnTyped, MailTyped, AnswerCalls, postVars, callVars, stepVars, noteVars
  <2>2. StepTyped'
    BY <1>14, TurnBounds DEF TurnTyped, StepTyped, AnswerCalls, postVars, callVars, stepVars, noteVars
  <2>3. RetriesTyped'
    BY <1>14, TurnBounds DEF TurnTyped, RetriesTyped, AnswerCalls, postVars, callVars, stepVars, noteVars
  <2>4. FlagsTyped'
    BY <1>14, TurnBounds DEF TurnTyped, FlagsTyped, AnswerCalls, postVars, callVars, stepVars, noteVars
  <2>5. TalkTyped'
    <3>1. PICK n \in 1..2 : \E a \in Answer(1..n) : Says(<<a>>) /\ calls' = [i \in 1..n |-> i]
      BY <1>14 DEF AnswerCalls
    <3>2. PICK a \in Answer(1..n) : Says(<<a>>) /\ calls' = [i \in 1..n |-> i]
      BY <3>1
    <3>3. n \in Nat /\ Len(memory) \in Nat
      BY LenProperties DEF TurnTyped, TalkTyped
    <3>4. <<a>> \in Seq(TurnMessages)
      BY <3>3, AnswerMade DEF TurnTyped, TalkTyped
    <3>5. /\ memory' \in Seq(TurnMessages)
          /\ log' \in [messages : Seq(TurnMessages), summary : Nat]
      BY <3>2, <3>4, SaysTyped DEF TurnTyped, TalkTyped
    <3>6. calls' \in Seq(Nat)
      BY <3>2, <3>3, CallsTyped
    <3>7. at' = "tools" /\ UNCHANGED <<mode, summary>>
      BY <1>14 DEF AnswerCalls, postVars
    <3> QED BY <3>5, <3>6, <3>7 DEF TurnTyped, TalkTyped
  <2> QED BY <2>1, <2>2, <2>3, <2>4, <2>5 DEF TurnTyped
<1>15. CASE AnswerTask
  <2>1. MailTyped'
    BY <1>15, TurnBounds DEF TurnTyped, MailTyped, AnswerTask, postVars, callVars, stepVars, noteVars
  <2>2. StepTyped'
    BY <1>15, TurnBounds DEF TurnTyped, StepTyped, AnswerTask, postVars, callVars, stepVars, noteVars
  <2>3. RetriesTyped'
    BY <1>15, TurnBounds DEF TurnTyped, RetriesTyped, AnswerTask, postVars, callVars, stepVars, noteVars
  <2>4. FlagsTyped'
    BY <1>15, TurnBounds DEF TurnTyped, FlagsTyped, AnswerTask, postVars, callVars, stepVars, noteVars
  <2>5. TalkTyped'
    <3>1. PICK n \in 0..2, t \in Seq(TurnMessages) :
            /\ Says(t) /\ calls' = [i \in 1..n |-> i]
            /\ at' \in {"tools", "step", "idle"} /\ (at' # "tools" => n = 0)
      BY <1>15, TaskTalk DEF TurnTyped
    <3>2. /\ memory' \in Seq(TurnMessages)
          /\ log' \in [messages : Seq(TurnMessages), summary : Nat]
      BY <3>1, SaysTyped DEF TurnTyped, TalkTyped
    <3>3. calls' \in Seq(Nat) /\ (at' # "tools" => calls' = <<>>)
      <4>1. n \in Nat
        OBVIOUS
      <4>2. calls' \in Seq(Nat) /\ (n = 0 => calls' = <<>>)
        BY <3>1, <4>1, CallsTyped
      <4> QED BY <3>1, <4>2
    <3>4. UNCHANGED <<mode, summary>>
      BY <1>15 DEF AnswerTask, postVars
    <3> QED BY <3>1, <3>2, <3>3, <3>4 DEF TurnTyped, TalkTyped
  <2> QED BY <2>1, <2>2, <2>3, <2>4, <2>5 DEF TurnTyped
<1>16. CASE ToolResultSaid
  <2>1. MailTyped'
    BY <1>16, TurnBounds DEF TurnTyped, MailTyped, ToolResultSaid, ToolGives, postVars, callVars, stepVars, noteVars
  <2>2. StepTyped'
    BY <1>16, TurnBounds DEF TurnTyped, StepTyped, ToolResultSaid, ToolGives, postVars, callVars, stepVars, noteVars
  <2>3. RetriesTyped'
    BY <1>16, TurnBounds DEF TurnTyped, RetriesTyped, ToolResultSaid, ToolGives, postVars, callVars, stepVars, noteVars
  <2>4. FlagsTyped'
    BY <1>16, TurnBounds DEF TurnTyped, FlagsTyped, ToolResultSaid, ToolGives, postVars, callVars, stepVars, noteVars
  <2>5. TalkTyped'
    <3>1. Head(calls) \in Nat /\ Tail(calls) \in Seq(Nat)
      BY <1>16, CallsLeft DEF TurnTyped, TalkTyped, ToolResultSaid, ToolGives
    <3>2. <<ToolResult(Head(calls))>> \in Seq(TurnMessages)
      BY <3>1, MessagesMade
    <3>3. /\ memory' \in Seq(TurnMessages)
          /\ log' \in [messages : Seq(TurnMessages), summary : Nat]
      BY <1>16, <3>2, SaysTyped DEF TurnTyped, TalkTyped, ToolResultSaid, ToolGives
    <3>4. at = "tools" /\ calls' = Tail(calls) /\ UNCHANGED <<at, mode, summary>>
      BY <1>16 DEF ToolResultSaid, ToolGives, postVars
    <3> QED BY <3>1, <3>3, <3>4 DEF TurnTyped, TalkTyped
  <2> QED BY <2>1, <2>2, <2>3, <2>4, <2>5 DEF TurnTyped
<1>17. CASE ToolImage
  <2>1. MailTyped'
    BY <1>17, TurnBounds DEF TurnTyped, MailTyped, ToolImage, ToolGives, postVars, callVars, stepVars, noteVars
  <2>2. StepTyped'
    BY <1>17, TurnBounds DEF TurnTyped, StepTyped, ToolImage, ToolGives, postVars, callVars, stepVars, noteVars
  <2>3. RetriesTyped'
    BY <1>17, TurnBounds DEF TurnTyped, RetriesTyped, ToolImage, ToolGives, postVars, callVars, stepVars, noteVars
  <2>4. FlagsTyped'
    BY <1>17, TurnBounds DEF TurnTyped, FlagsTyped, ToolImage, ToolGives, postVars, callVars, stepVars, noteVars
  <2>5. TalkTyped'
    <3>1. Head(calls) \in Nat /\ Tail(calls) \in Seq(Nat)
      BY <1>17, CallsLeft DEF TurnTyped, TalkTyped, ToolImage, ToolGives
    <3>2. <<ToolResult(Head(calls)), User>> \in Seq(TurnMessages)
      BY <3>1, MessagesMade
    <3>3. /\ memory' \in Seq(TurnMessages)
          /\ log' \in [messages : Seq(TurnMessages), summary : Nat]
      BY <1>17, <3>2, SaysTyped DEF TurnTyped, TalkTyped, ToolImage, ToolGives
    <3>4. at = "tools" /\ calls' = Tail(calls) /\ UNCHANGED <<at, mode, summary>>
      BY <1>17 DEF ToolImage, ToolGives, postVars
    <3> QED BY <3>1, <3>3, <3>4 DEF TurnTyped, TalkTyped
  <2> QED BY <2>1, <2>2, <2>3, <2>4, <2>5 DEF TurnTyped
<1>18. CASE Crash
  <2>1. MailTyped'
    BY <1>18, TurnBounds DEF TurnTyped, MailTyped, Crash, postVars, callVars, stepVars, noteVars
  <2>2. StepTyped'
    BY <1>18, TurnBounds DEF TurnTyped, StepTyped, Crash, postVars, callVars, stepVars, noteVars
  <2>3. RetriesTyped'
    BY <1>18, TurnBounds DEF TurnTyped, RetriesTyped, Crash, postVars, callVars, stepVars, noteVars
  <2>4. FlagsTyped'
    BY <1>18, TurnBounds DEF TurnTyped, FlagsTyped, Crash, postVars, callVars, stepVars, noteVars
  <2>5. TalkTyped'
    BY <1>18 DEF TurnTyped, TalkTyped, Crash, postVars, callVars, stepVars, noteVars
  <2> QED BY <2>1, <2>2, <2>3, <2>4, <2>5 DEF TurnTyped
<1>19. CASE StopTask \/ CompactStuck \/ SummaryFails \/ RequestCancelled \/ CallFails \/ ToolEndsRun
  BY <1>19, FailsTyped DEF StopTask, CompactStuck, SummaryFails, RequestCancelled, CallFails, ToolEndsRun
<1>20. CASE AnswerText
  <2>1. PICK t \in QuietTalk : Says(t)
    BY <1>20, TextTalk DEF TurnTyped, TalkTyped
  <2>2. /\ memory' \in Seq(TurnMessages)
        /\ log' \in [messages : Seq(TurnMessages), summary : Nat]
    BY <2>1, SaysTyped DEF TurnTyped, TalkTyped, QuietTalk
  <2> QED BY <1>20, <2>2, EndsTyped DEF AnswerText
<1>21. CASE AnswerControl
  <2>1. /\ memory' \in Seq(TurnMessages)
        /\ log' \in [messages : Seq(TurnMessages), summary : Nat]
    BY <1>21 DEF AnswerControl, Silent, TurnTyped, TalkTyped
  <2> QED BY <1>21, <2>1, EndsTyped DEF AnswerControl
<1>22. CASE TurnDone
  <2>1. /\ memory' \in Seq(TurnMessages)
        /\ log' \in [messages : Seq(TurnMessages), summary : Nat]
    BY <1>22 DEF TurnDone, Silent, TurnTyped, TalkTyped
  <2>2. CASE mode = "quantum"
    BY <1>22, <2>1, <2>2, EndsTyped DEF TurnDone
  <2>3. CASE mode # "quantum"
    <3>1. at' = "step" /\ calls = <<>>
      BY <1>22, <2>3 DEF TurnDone
    <3>2. UNCHANGED <<summary, offset, taken, calls, cancelled, compacted, postVars, callVars,
                      stepVars, noteVars>>
      BY <1>22, <2>3 DEF TurnDone
    <3>3. MailTyped' /\ StepTyped'
      BY <3>2 DEF TurnTyped, MailTyped, StepTyped, postVars, stepVars
    <3>4. RetriesTyped'
      BY <3>1, <3>2 DEF TurnTyped, RetriesTyped, callVars, stepVars
    <3>5. FlagsTyped'
      BY <3>1, <3>2 DEF TurnTyped, FlagsTyped, postVars, callVars, noteVars
    <3>6. TalkTyped'
      BY <1>22, <2>1, <2>3, <3>1, <3>2 DEF TurnTyped, TalkTyped, TurnDone, postVars
    <3> QED BY <3>3, <3>4, <3>5, <3>6 DEF TurnTyped
  <2> QED BY <2>2, <2>3
<1>23. CASE UNCHANGED turnVars
  <2>1. MailTyped' /\ StepTyped' /\ RetriesTyped'
    BY <1>23 DEF TurnTyped, MailTyped, StepTyped, RetriesTyped, turnVars
  <2>2. FlagsTyped' /\ TalkTyped'
    BY <1>23 DEF TurnTyped, FlagsTyped, TalkTyped, turnVars
  <2> QED BY <2>1, <2>2 DEF TurnTyped
<1> QED BY <1>1, <1>2, <1>3, <1>4, <1>5, <1>6, <1>7, <1>8, <1>9, <1>10, <1>11, <1>12, <1>13, <1>14, <1>15, <1>16, <1>17, <1>18, <1>19, <1>20, <1>21, <1>22, <1>23 DEF TurnNext, Call, Tools

-----------------------------------------------------------------------------
(* Requests are well formed                                                 *)

\* Unless a message was put among results, the conversation is finished but for
\* the calls that are left; a log that is not in use may end in a turn a crash or
\* an error cut short.
TurnsPaired ==
  ~interposed =>
    /\ Paired(log.messages)
    /\ at # "idle" => Pending(memory, calls)
    /\ (at # "idle" /\ mode = "quantum") => Pending(log.messages, calls)

LEMMA SameTurns ==
  ASSUME TurnsPaired, UNCHANGED <<log, mode, interposed>>,
         at' = "idle" \/ (at # "idle" /\ UNCHANGED <<memory, calls>>)
  PROVE  TurnsPaired'
BY DEF TurnsPaired

LEMMA FailsPaired == ASSUME TurnsPaired, Fails PROVE TurnsPaired'
BY SameTurns DEF Fails, Ends, Silent, postVars, noteVars

\* What is said continues both the memory and, in a quantum, the log.
LEMMA SaysPaired ==
  ASSUME TurnTyped, TurnsPaired, ~interposed, at # "idle",
         NEW t \in Seq(TurnMessages), Says(t), NEW left, calls' = left, mode' = mode,
         \A s \in Seq(TurnMessages) : Pending(s, calls) => Pending(s \o t, left)
  PROVE  TurnsPaired'
<1>1. memory \in Seq(TurnMessages) /\ log.messages \in Seq(TurnMessages)
  BY DEF TurnTyped, TalkTyped
<1>2. memory' = memory \o t
  BY DEF Says
<1>3. Pending(memory', calls')
  BY <1>1, <1>2 DEF TurnsPaired
<1>4. CASE mode = "quantum"
  <2>1. log' = [log EXCEPT !.messages = log.messages \o t]
    BY <1>4 DEF Says
  <2>2. log'.messages = log.messages \o t
    BY <2>1 DEF TurnTyped, TalkTyped
  <2>3. Pending(log'.messages, calls')
    BY <1>1, <1>4, <2>2 DEF TurnsPaired
  <2> QED BY <1>3, <2>3 DEF TurnsPaired, Pending
<1>5. CASE mode # "quantum"
  <2>1. log' = log
    BY <1>5 DEF Says
  <2> QED BY <1>3, <1>5, <2>1 DEF TurnsPaired
<1> QED BY <1>4, <1>5

\* Text says nothing of turns.
LEMMA QuietSaysPaired ==
  ASSUME TurnTyped, TurnsPaired, ~interposed, at # "idle", at # "tools",
         NEW t \in QuietTalk, Says(t), calls' = <<>>, mode' = mode
  PROVE  TurnsPaired'
<1>1. calls = <<>>
  BY DEF TurnTyped, TalkTyped
<1>2. ASSUME NEW s \in Seq(TurnMessages), Pending(s, <<>>) PROVE Pending(s \o t, <<>>)
  BY <1>2, QuietJoined DEF QuietTalk
<1>3. t \in Seq(TurnMessages)
  BY DEF QuietTalk
<1> QED BY <1>1, <1>2, <1>3, SaysPaired

\* An answer with calls begins a turn.
LEMMA AnswerPaired ==
  ASSUME TurnTyped, TurnsPaired, ~interposed, at = "call", mode' = mode,
         NEW n \in 1..2, NEW a \in Answer(1..n), Says(<<a>>), calls' = [i \in 1..n |-> i]
  PROVE  TurnsPaired'
<1>1. calls = <<>> /\ Len(memory) \in Nat /\ n \in Nat \ {0}
  BY LenProperties DEF TurnTyped, TalkTyped
<1>2. a \in TurnMessages /\ a.role = "assistant" /\ a.calls = 1..n
  BY <1>1, AnswerMade DEF TurnTyped, TalkTyped
<1>3. <<a>> \in Seq(TurnMessages)
  BY <1>2
<1>4. PICK left : left = [i \in 1..n |-> i]
  OBVIOUS
<1>5. ASSUME NEW s \in Seq(TurnMessages), Pending(s, calls) PROVE Pending(s \o <<a>>, left)
  BY <1>1, <1>2, <1>4, <1>5, AnswerOpens
<1> QED BY <1>3, <1>4, <1>5, SaysPaired

LEMMA TurnNextPaired ==
  TurnTyped /\ TurnsPaired /\ [TurnNext]_turnVars => TurnsPaired'
<1> SUFFICES ASSUME TurnTyped, TurnsPaired, [TurnNext]_turnVars PROVE TurnsPaired'
  OBVIOUS
<1> SUFFICES ASSUME ~interposed' PROVE TurnsPaired'
  BY DEF TurnsPaired
<1>1. memory \in Seq(TurnMessages) /\ log.messages \in Seq(TurnMessages) /\ calls \in Seq(Nat)
  BY DEF TurnTyped, TalkTyped
<1>2. CASE Post \/ Interrupt \/ CompactStart \/ BuildRequest \/ Crash
  BY <1>2, SameTurns DEF Post, Interrupt, CompactStart, BuildRequest, Crash, TurnTyped, FlagsTyped,
     postVars, noteVars
<1>3. CASE SwitchOnQuota \/ Retry \/ SwitchOnErrors
  BY <1>3, SameTurns DEF SwitchOnQuota, Retry, SwitchOnErrors, CallAgain, postVars, noteVars
<1>4. CASE StopTask \/ CompactStuck \/ SummaryFails \/ RequestCancelled \/ CallFails \/ ToolEndsRun
  BY <1>4, FailsPaired
     DEF StopTask, CompactStuck, SummaryFails, RequestCancelled, CallFails, ToolEndsRun
<1>5. CASE AnswerControl
  BY <1>5, SameTurns DEF AnswerControl, Ends, Silent, postVars, noteVars
<1>6. CASE TurnDone
  <2>1. at # "idle" /\ UNCHANGED <<memory, log, mode, interposed>>
    BY <1>6 DEF TurnDone, Silent, Ends, noteVars, postVars
  <2>2. at' = "idle" \/ UNCHANGED calls
    BY <1>6 DEF TurnDone, Ends
  <2> QED BY <2>1, <2>2, SameTurns
<1>7. CASE StartQuantum
  <2>1. PICK s : s = Sanitized(log.messages)
    OBVIOUS
  <2>2. memory' = s /\ log' = [log EXCEPT !.messages = s] /\ calls' = calls /\ at = "idle"
        /\ interposed' = interposed
    BY <1>7, <2>1 DEF StartQuantum, Begins, noteVars
  <2>3. calls' = <<>> /\ log'.messages = s
    BY <2>2 DEF TurnTyped, TalkTyped
  <2>4. Pending(s, <<>>)
    BY <1>1, <2>1, <2>2, RepairedPending DEF TurnsPaired
  <2> QED BY <2>2, <2>3, <2>4 DEF TurnsPaired, Pending
<1>8. CASE StartTask
  <2>1. /\ memory' = <<User>> /\ calls' = calls /\ at = "idle" /\ mode' = "task"
        /\ log' = log /\ interposed' = interposed
    BY <1>8 DEF StartTask, Begins, noteVars
  <2>2. calls' = <<>>
    BY <2>1 DEF TurnTyped, TalkTyped
  <2>3. <<User>> \in Seq(TurnMessages) /\ \A i \in 1..Len(<<User>>) : Quiet(<<User>>[i])
    BY MessagesMade
  <2>4. Pending(<<User>>, <<>>)
    BY <2>3, QuietFinished DEF Pending
  <2> QED BY <2>1, <2>2, <2>4 DEF TurnsPaired
<1>9. CASE TakeMail
  <2>1. /\ at = "mail" /\ UNCHANGED <<mode, calls, interposed>>
    BY <1>9 DEF TakeMail, postVars, noteVars
  <2>2. CASE taken < mail
    <3>1. <<Mail(taken + 1)>> \in QuietTalk
      BY MessagesMade, QuietTalks DEF TurnTyped, MailTyped
    <3>2. Says(<<Mail(taken + 1)>>)
      BY <1>9, <2>2 DEF TakeMail
    <3>3. calls' = <<>>
      BY <2>1 DEF TurnTyped, TalkTyped
    <3> QED BY <2>1, <3>1, <3>2, <3>3, QuietSaysPaired
  <2>3. CASE ~(taken < mail)
    <3>1. UNCHANGED <<memory, log>>
      BY <1>9, <2>3 DEF TakeMail, Silent
    <3> QED BY <2>1, <3>1, SameTurns
  <2> QED BY <2>2, <2>3
<1>10. CASE Step
  <2>1. at = "step" /\ UNCHANGED <<mode, calls, interposed>>
    BY <1>10 DEF Step, postVars, noteVars
  <2>2. PICK t \in QuietTalk : Says(t)
    BY <1>10, StepTalk
  <2>3. calls' = <<>>
    BY <2>1 DEF TurnTyped, TalkTyped
  <2> QED BY <2>1, <2>2, <2>3, QuietSaysPaired
<1>11. CASE CompactDone
  <2>1. /\ at = "compact" /\ at' = "request" /\ UNCHANGED <<mode, memory, calls, interposed>>
    BY <1>11 DEF CompactDone, postVars
  <2>2. log' = log \/ log' = [messages |-> memory, summary |-> summary]
    BY <1>11 DEF CompactDone
  <2>3. CASE log' = log
    BY <2>1, <2>3, SameTurns
  <2>4. CASE log' = [messages |-> memory, summary |-> summary]
    BY <2>1, <2>4 DEF TurnsPaired, Pending
  <2> QED BY <2>2, <2>3, <2>4
<1>12. CASE Summarised
  <2>1. /\ at = "summarise" /\ memory' = WithoutUsage(Plan.kept)
        /\ UNCHANGED <<mode, log, calls, interposed>>
    BY <1>12 DEF Summarised, postVars, noteVars
  <2>2. calls = <<>>
    BY <2>1 DEF TurnTyped, TalkTyped
  <2>3. Pending(memory', <<>>)
    BY <1>1, <2>1, <2>2, KeptIsTyped, TurnBounds DEF TurnsPaired, Plan
  <2> QED BY <2>1, <2>2, <2>3 DEF TurnsPaired
<1>13. CASE AnswerText
  <2>1. PICK t \in QuietTalk : Says(t)
    BY <1>13, TextTalk DEF TurnTyped, TalkTyped
  <2>2. at = "call" /\ calls' = <<>> /\ UNCHANGED <<mode, interposed>>
    BY <1>13 DEF AnswerText, Ends, postVars, noteVars
  <2> QED BY <2>1, <2>2, QuietSaysPaired
<1>14. CASE AnswerCalls
  <2>1. PICK n \in 1..2 : \E a \in Answer(1..n) : Says(<<a>>) /\ calls' = [i \in 1..n |-> i]
    BY <1>14 DEF AnswerCalls
  <2>2. PICK a \in Answer(1..n) : Says(<<a>>) /\ calls' = [i \in 1..n |-> i]
    BY <2>1
  <2>3. at = "call" /\ UNCHANGED <<mode, interposed>>
    BY <1>14 DEF AnswerCalls, postVars, noteVars
  <2> QED BY <1>1, <2>2, <2>3, AnswerPaired
<1>15. CASE AnswerTask
  <2>1. at = "call" /\ mode' = mode /\ ~interposed
    BY <1>15 DEF AnswerTask, postVars, TurnTyped, FlagsTyped
  <2>2. PICK n \in 0..2, t \in Seq(TurnMessages) :
          /\ Says(t) /\ calls' = [i \in 1..n |-> i]
          /\ n = 0 => t \in QuietTalk
          /\ n > 0 => \E a \in Answer(1..n) : t = <<a>>
    BY <1>15, TaskTalk
  <2>3. CASE n = 0
    <3>1. calls' = <<>>
      BY <2>2, <2>3, CallsTyped
    <3> QED BY <2>1, <2>2, <2>3, <3>1, QuietSaysPaired
  <2>4. CASE n > 0
    <3>1. PICK a \in Answer(1..n) : t = <<a>>
      BY <2>2, <2>4
    <3>2. n \in 1..2
      BY <2>4
    <3> QED BY <1>1, <2>1, <2>2, <3>1, <3>2, AnswerPaired
  <2> QED BY <2>3, <2>4
<1>16. CASE ToolResultSaid
  <2>1. /\ at = "tools" /\ calls # <<>> /\ calls' = Tail(calls) /\ Says(<<ToolResult(Head(calls))>>)
        /\ UNCHANGED <<mode, interposed>>
    BY <1>16 DEF ToolResultSaid, ToolGives, postVars
  <2>2. <<ToolResult(Head(calls))>> \in Seq(TurnMessages)
    BY <1>1, <2>1, CallsLeft, MessagesMade
  <2>3. ASSUME NEW s \in Seq(TurnMessages), Pending(s, calls)
        PROVE  Pending(s \o <<ToolResult(Head(calls))>>, Tail(calls))
    BY <1>1, <2>1, <2>3, ResultContinues
  <2> QED BY <2>1, <2>2, <2>3, SaysPaired
<1>17. CASE ToolImage
  <2>1. /\ at = "tools" /\ calls # <<>> /\ calls' = Tail(calls) /\ mode' = mode
        /\ Says(<<ToolResult(Head(calls)), User>>)
        /\ interposed' = (interposed \/ Len(calls) > 1)
    BY <1>17 DEF ToolImage, ToolGives, postVars
  <2>2. ~interposed /\ Tail(calls) = <<>>
    <3>1. ~interposed /\ ~(Len(calls) > 1)
      BY <2>1 DEF TurnTyped, FlagsTyped
    <3>2. Len(calls) \in Nat /\ Len(calls) >= 1
      BY <1>1, <2>1, EmptySeq, LenProperties
    <3>3. Len(Tail(calls)) = 0 /\ Tail(calls) \in Seq(Nat)
      <4>1. Tail(calls) \in Seq(Nat) /\ Len(Tail(calls)) = Len(calls) - 1
        BY <1>1, <2>1, HeadTailProperties
      <4> QED BY <3>1, <3>2, <4>1
    <3> QED BY <3>1, <3>3, EmptySeq
  <2>3. PICK m : m = ToolResult(Head(calls))
    OBVIOUS
  <2>4. m \in TurnMessages /\ User \in TurnMessages
    BY <1>1, <2>1, <2>3, CallsLeft, MessagesMade
  <2>5. <<m, User>> \in Seq(TurnMessages) /\ <<m, User>> = <<m>> \o <<User>>
    BY <2>4
  <2>6. ASSUME NEW s \in Seq(TurnMessages), Pending(s, calls)
        PROVE  Pending(s \o <<m, User>>, <<>>)
    <3>1. PICK u : u = s \o <<m>>
      OBVIOUS
    <3>2. u \in Seq(TurnMessages) /\ Pending(u, <<>>)
      BY <1>1, <2>1, <2>2, <2>3, <2>6, <3>1, ResultContinues
    <3>3. <<User>> \in Seq(TurnMessages) /\ \A i \in 1..Len(<<User>>) : Quiet(<<User>>[i])
      BY MessagesMade
    <3>4. Pending(u \o <<User>>, <<>>)
      BY <3>2, <3>3, QuietJoined
    <3>5. s \o <<m, User>> = u \o <<User>>
      BY <2>4, <2>5, <3>1, ConcatAssociative
    <3> QED BY <3>4, <3>5
  <2> QED BY <2>1, <2>2, <2>3, <2>5, <2>6, SaysPaired
<1>18. CASE UNCHANGED turnVars
  BY <1>18 DEF turnVars, TurnsPaired
<1> QED BY <1>2, <1>3, <1>4, <1>5, <1>6, <1>7, <1>8, <1>9, <1>10, <1>11, <1>12, <1>13, <1>14,
           <1>15, <1>16, <1>17, <1>18 DEF TurnNext, Call, Tools

\* Every request has the results of a turn right after its calls, one for each,
\* and no result without its call, through compaction, repair, crashes and errors
\* between two tools (sanitize_replayable_messages, find_valid_cut_points).
THEOREM RequestsAreWellFormed == TurnSpec => []RequestIsWellFormed
<1>1. TurnInit => TurnTyped /\ TurnsPaired
  <2>1. ASSUME TurnInit PROVE TurnsPaired
    <3>1. log.messages = <<>> /\ at = "idle"
      BY <2>1 DEF TurnInit, NewLog
    <3>2. Paired(<<>>)
      BY DEF Paired
    <3> QED BY <3>1, <3>2 DEF TurnsPaired
  <2> QED BY <2>1, TurnInitTyped
<1>2. TurnTyped /\ TurnsPaired /\ [TurnNext]_turnVars => (TurnTyped /\ TurnsPaired)'
  BY TurnNextTyped, TurnNextPaired
<1>3. TurnTyped /\ TurnsPaired => RequestIsWellFormed
  <2> SUFFICES ASSUME TurnTyped, TurnsPaired, at = "call", ~interposed
               PROVE  WellFormed(Request(summary, memory))
    BY DEF RequestIsWellFormed
  <2>1. memory \in Seq(TurnMessages) /\ Pending(memory, <<>>)
    BY DEF TurnTyped, TalkTyped, TurnsPaired
  <2> QED BY <2>1, RequestIsFinished
<1> QED BY <1>1, <1>2, <1>3, PTL DEF TurnSpec

\* Every variable keeps its type; a run never calls the model more often than the
\* cap on retries and one switch for each of its steps allow.
THEOREM TurnTypeCorrect == TurnSpec => []TurnTypeOK
BY TurnInitTyped, TurnNextTyped, TurnTypedGivesType, PTL DEF TurnSpec

-----------------------------------------------------------------------------
(* No mail is lost                                                          *)

\* Mail that is summarised, or that stands before whatever a repair would cut.
Kept(i, messages, gone) ==
  i \in gone \/ \E j \in 1..Len(messages) :
                  messages[j] = Mail(i) /\ \A b \in Unanswered(messages) : j < b

MailSafe ==
  /\ at = "mail" => Unanswered(log.messages) = {}
  /\ \A i \in 1..offset : Kept(i, log.messages, digested)
  /\ at # "idle" => \A i \in 1..taken : Kept(i, log.messages, digested)

\* What is said later gives an earlier turn results at most.
LEMMA NoNewBreaks ==
  ASSUME NEW s \in Seq(TurnMessages), NEW t \in Seq(TurnMessages),
         NEW b \in Unanswered(s \o t), b <= Len(s)
  PROVE  b \in Unanswered(s)
<1>0. PICK u : u = s \o t
  OBVIOUS
<1>1. PICK l \in Nat, n \in Nat : l = Len(s) /\ n = Len(t) /\ u = s \o t
  BY <1>0, LenProperties
<1>2. /\ Len(u) = l + n
      /\ \A i \in 1..l : u[i] = s[i]
  BY <1>1, ConcatProperties
<1>3. b \in 1..l /\ u[b].role = "assistant" /\ ~(u[b].calls \subseteq Results(u, b))
  BY <1>1, <1>2 DEF Unanswered
<1>4. PICK c \in u[b].calls : c \notin Results(u, b)
  BY <1>3
<1>5. c \notin Results(s, b)
  <2> SUFFICES ASSUME c \in Results(s, b) PROVE FALSE
    OBVIOUS
  <2>1. PICK j \in b+1..l : s[j].call = c /\ \A k \in b+1..j : s[k].role = "tool"
    BY <1>1 DEF Results
  <2>2. j \in b+1..Len(u) /\ u[j] = s[j]
    BY <1>2, <1>3, <2>1
  <2>3. \A k \in b+1..j : u[k].role = "tool"
    BY <1>2, <1>3, <2>1
  <2>4. c \in Results(u, b)
    BY <2>1, <2>2, <2>3 DEF Results
  <2> QED BY <1>4, <2>4
<1> QED BY <1>1, <1>2, <1>3, <1>4, <1>5 DEF Unanswered

LEMMA StaysKept ==
  ASSUME NEW s \in Seq(TurnMessages), NEW t \in Seq(TurnMessages), NEW i, NEW gone, Kept(i, s, gone)
  PROVE  Kept(i, s \o t, gone)
<1>0. PICK u : u = s \o t
  OBVIOUS
<1>1. PICK l \in Nat, n \in Nat : l = Len(s) /\ n = Len(t) /\ u = s \o t
  BY <1>0, LenProperties
<1>2. Len(u) = l + n /\ \A k \in 1..l : u[k] = s[k]
  BY <1>1, ConcatProperties
<1>3. CASE i \in gone
  BY <1>3 DEF Kept
<1>4. CASE i \notin gone
  <2>1. PICK j \in 1..l : s[j] = Mail(i) /\ \A b \in Unanswered(s) : j < b
    BY <1>1, <1>4 DEF Kept
  <2>2. j \in 1..Len(u) /\ u[j] = Mail(i)
    BY <1>2, <2>1
  <2>3. ASSUME NEW b \in Unanswered(u) PROVE j < b
    <3>1. b \in Nat
      BY <2>3 DEF Unanswered
    <3>2. CASE b <= l
      BY <1>1, <2>1, <2>3, <3>2, NoNewBreaks
    <3>3. CASE ~(b <= l)
      BY <1>1, <2>1, <3>1, <3>3
    <3> QED BY <3>2, <3>3
  <2> QED BY <1>1, <2>2, <2>3 DEF Kept
<1> QED BY <1>3, <1>4

\* A repair keeps what stands before the turn it cuts.
LEMMA RepairKeeps ==
  ASSUME NEW s \in Seq(TurnMessages), NEW i, NEW gone, Kept(i, s, gone)
  PROVE  Kept(i, Sanitized(s), gone)
<1>1. PICK u : u = Sanitized(s)
  OBVIOUS
<1>2. u \in Seq(TurnMessages) /\ Unanswered(u) = {}
  BY <1>1, RepairedWhole
<1>3. CASE i \in gone
  BY <1>3 DEF Kept
<1>4. CASE i \notin gone
  <2>1. PICK j \in 1..Len(s) : s[j] = Mail(i) /\ \A b \in Unanswered(s) : j < b
    BY <1>4 DEF Kept
  <2>2. j \in 1..Len(u) /\ u[j] = s[j]
    <3>1. CASE u = s
      BY <3>1
    <3>2. CASE u # s
      <4>1. PICK b \in Unanswered(s) : b \in 1..Len(s) /\ u = SubSeq(s, 1, b - 1)
        BY <1>1, <3>2, WhereCut
      <4>2. j \in 1..b - 1
        BY <2>1, <4>1, LenProperties
      <4> QED BY <4>1, <4>2, Beginning
    <3> QED BY <3>1, <3>2
  <2> QED BY <1>1, <1>2, <2>1, <2>2 DEF Kept
<1> QED BY <1>3, <1>4

\* A step that leaves the log and takes no mail.
LEMMA SameKept ==
  ASSUME MailSafe, UNCHANGED <<log, digested, taken>>, at' # "mail" \/ at = "mail",
         at' = "idle" \/ at # "idle",
         offset' = offset \/ (offset' = taken /\ at # "idle")
  PROVE  MailSafe'
BY DEF MailSafe

\* A step that says something.
LEMMA SaysKept ==
  ASSUME TurnTyped, MailSafe, NEW t \in Seq(TurnMessages), Says(t),
         UNCHANGED <<digested, taken>>, at # "idle", at' # "mail",
         offset' = offset \/ offset' = taken
  PROVE  MailSafe'
<1>1. log.messages \in Seq(TurnMessages)
  BY DEF TurnTyped, TalkTyped
<1>2. CASE mode = "quantum"
  <2>1. log' = [log EXCEPT !.messages = log.messages \o t]
    BY <1>2 DEF Says
  <2>2. log'.messages = log.messages \o t
    BY <2>1 DEF TurnTyped, TalkTyped
  <2>3. \A i : Kept(i, log.messages, digested) => Kept(i, log'.messages, digested)
    BY <1>1, <2>2, StaysKept
  <2> QED BY <2>3 DEF MailSafe
<1>3. CASE mode # "quantum"
  <2>1. log' = log
    BY <1>3 DEF Says
  <2> QED BY <2>1, SameKept
<1> QED BY <1>2, <1>3

LEMMA FailsKept == ASSUME MailSafe, Fails, at # "idle" PROVE MailSafe'
<1>1. UNCHANGED <<log, digested, taken>> /\ at' = "idle" /\ (offset' = offset \/ offset' = taken)
  BY DEF Fails, Ends, Silent, noteVars
<1> QED BY <1>1, SameKept

LEMMA TurnNextKept ==
  TurnTyped /\ MailSafe /\ [TurnNext]_turnVars => MailSafe'
<1> SUFFICES ASSUME TurnTyped, MailSafe, [TurnNext]_turnVars PROVE MailSafe'
  OBVIOUS
<1>1. /\ memory \in Seq(TurnMessages) /\ log.messages \in Seq(TurnMessages)
      /\ calls \in Seq(Nat)
  BY DEF TurnTyped, TalkTyped
<1>2. CASE Post \/ Interrupt \/ CompactStart \/ Summarised \/ BuildRequest \/ Crash
  <2>1. /\ UNCHANGED <<log, digested, taken, offset>>
        /\ at' = at \/ (at # "idle" /\ at' # "mail")
    BY <1>2 DEF Post, Interrupt, CompactStart, Summarised, BuildRequest, Crash, noteVars
  <2>2. UNCHANGED <<log, digested, taken>> /\ offset' = offset
    BY <2>1
  <2> QED BY <2>1, <2>2, SameKept
<1>3. CASE SwitchOnQuota \/ Retry \/ SwitchOnErrors
  <2>1. UNCHANGED <<log, digested, taken, at>> /\ offset' = offset
    BY <1>3 DEF SwitchOnQuota, Retry, SwitchOnErrors, CallAgain, noteVars
  <2> QED BY <2>1, SameKept
<1>4. CASE StopTask \/ CompactStuck \/ SummaryFails \/ RequestCancelled \/ CallFails \/ ToolEndsRun
  BY <1>4, FailsKept
     DEF StopTask, CompactStuck, SummaryFails, RequestCancelled, CallFails, ToolEndsRun
<1>5. CASE AnswerControl \/ TurnDone
  <2>1. /\ UNCHANGED <<log, digested, taken>> /\ at # "idle" /\ at' # "mail"
        /\ offset' = offset \/ offset' = taken
    BY <1>5 DEF AnswerControl, TurnDone, Ends, Silent, noteVars
  <2> QED BY <2>1, SameKept
<1>6. CASE StartQuantum
  <2>1. PICK s : s = Sanitized(log.messages)
    OBVIOUS
  <2>2. /\ log' = [log EXCEPT !.messages = s]
        /\ digested' = digested /\ offset' = offset /\ taken' = offset
    BY <1>6, <2>1 DEF StartQuantum, Begins, noteVars
  <2>3. log'.messages = s
    BY <2>2 DEF TurnTyped, TalkTyped
  <2>4. Unanswered(s) = {}
    BY <1>1, <2>1, RepairedWhole
  <2>5. \A i \in 1..offset : Kept(i, s, digested)
    BY <1>1, <2>1, RepairKeeps DEF MailSafe
  <2> QED BY <2>2, <2>3, <2>4, <2>5 DEF MailSafe
<1>7. CASE StartTask
  <2>1. /\ at' = "step" /\ at = "idle" /\ mode = "task"
        /\ UNCHANGED <<log, digested, taken, offset>>
    BY <1>7 DEF StartTask, Begins, noteVars
  <2>2. taken = 0
    BY <2>1 DEF TurnTyped, MailTyped
  <2> QED BY <2>1, <2>2 DEF MailSafe
<1>8. CASE TakeMail
  <2>1. at = "mail" /\ mode = "quantum" /\ digested' = digested /\ offset' = offset
    BY <1>8 DEF TakeMail, TurnTyped, TalkTyped, noteVars
  <2>2. CASE taken < mail
    <3>1. PICK m : m = Mail(taken + 1)
      OBVIOUS
    <3>2. m \in TurnMessages /\ Quiet(m) /\ taken \in Nat /\ taken' = taken + 1 /\ at' = at
      BY <1>8, <2>2, <3>1, MessagesMade DEF TurnTyped, MailTyped, TakeMail
    <3>3. log' = [log EXCEPT !.messages = log.messages \o <<m>>]
      BY <1>8, <2>1, <2>2, <3>1 DEF TakeMail, Says
    <3>0. PICK u : u = log.messages \o <<m>>
      OBVIOUS
    <3>4. PICK l \in Nat : l = Len(log.messages) /\ u = log.messages \o <<m>>
      BY <1>1, <3>0, LenProperties
    <3>5. <<m>> \in Seq(TurnMessages) /\ Len(<<m>>) = 1 /\ <<m>>[1] = m
      BY <3>2
    <3>6. Len(u) = l + 1 /\ u[l + 1] = m /\ log'.messages = u
      BY <1>1, <3>3, <3>4, <3>5, ConcatProperties, SMTT(30) DEF TurnTyped, TalkTyped
    <3>7. Unanswered(u) = {}
      <4>1. ASSUME NEW b \in Unanswered(u) PROVE FALSE
        <5>1. b \in 1..l + 1
          BY <3>6 DEF Unanswered
        <5>2. CASE b <= l
          BY <1>1, <2>1, <3>4, <3>5, <5>2, NoNewBreaks DEF MailSafe
        <5>3. CASE ~(b <= l)
          BY <3>2, <3>6, <5>1, <5>3 DEF Unanswered, Quiet
        <5> QED BY <5>2, <5>3
      <4> QED BY <4>1
    <3>8. Kept(taken + 1, u, digested)
      <4>1. l + 1 \in 1..Len(u) /\ u[l + 1] = Mail(taken + 1)
        BY <3>1, <3>6
      <4> QED BY <3>7, <4>1 DEF Kept
    <3>9. \A i : Kept(i, log.messages, digested) => Kept(i, u, digested)
      BY <1>1, <3>4, <3>5, StaysKept
    <3>10. \A i \in 1..offset : Kept(i, u, digested)
      BY <3>9 DEF MailSafe
    <3>11. ASSUME NEW i \in 1..taken + 1 PROVE Kept(i, u, digested)
      <4>1. i \in 1..taken \/ i = taken + 1
        BY <3>2
      <4> QED BY <2>1, <3>8, <3>9, <4>1 DEF MailSafe
    <3> QED BY <2>1, <3>2, <3>6, <3>7, <3>10, <3>11 DEF MailSafe
  <2>3. CASE ~(taken < mail)
    <3>1. UNCHANGED <<log, taken>> /\ at' = "compact"
      BY <1>8, <2>3 DEF TakeMail, Silent
    <3> QED BY <2>1, <3>1, SameKept
  <2> QED BY <2>2, <2>3
<1>9. CASE Step
  <2>1. PICK t \in Seq(TurnMessages) : Says(t)
    BY <1>9, StepTalk DEF QuietTalk
  <2>2. at = "step" /\ at' = "compact" /\ UNCHANGED <<digested, taken>> /\ offset' = offset
    BY <1>9 DEF Step, noteVars
  <2> QED BY <2>1, <2>2, SaysKept
<1>10. CASE CompactDone
  <2>1. at = "compact" /\ at' = "request" /\ UNCHANGED <<taken, offset>>
    BY <1>10 DEF CompactDone
  <2>2. CASE UNCHANGED <<log, digested>>
    BY <2>1, <2>2, SameKept
  <2>3. CASE ~UNCHANGED <<log, digested>>
    <3>1. digested' = digested \cup {i \in 1..MaxMail : \E j \in 1..Len(log.messages) :
                                       log.messages[j] = Mail(i)}
      BY <1>10, <2>3 DEF CompactDone
    <3>2. ASSUME NEW i \in 1..MaxMail, Kept(i, log.messages, digested)
          PROVE  Kept(i, log'.messages, digested')
      BY <3>1, <3>2 DEF Kept
    <3>3. \A i \in 1..offset : i \in 1..MaxMail
      BY TurnBounds DEF TurnTyped, MailTyped
    <3>4. \A i \in 1..taken : i \in 1..MaxMail
      BY TurnBounds DEF TurnTyped, MailTyped
    <3> QED BY <2>1, <3>2, <3>3, <3>4 DEF MailSafe
  <2> QED BY <2>2, <2>3
<1>11. CASE AnswerText
  <2>1. PICK t \in Seq(TurnMessages) : Says(t)
    BY <1>11, TextTalk DEF TurnTyped, TalkTyped, QuietTalk
  <2>2. /\ at = "call" /\ at' = "idle" /\ UNCHANGED <<digested, taken>>
        /\ offset' = offset \/ offset' = taken
    BY <1>11 DEF AnswerText, Ends, noteVars
  <2> QED BY <2>1, <2>2, SaysKept
<1>12. CASE AnswerCalls
  <2>1. PICK n \in 1..2 : \E a \in Answer(1..n) : Says(<<a>>)
    BY <1>12 DEF AnswerCalls
  <2>2. PICK a \in Answer(1..n) : Says(<<a>>)
    BY <2>1
  <2>3. <<a>> \in Seq(TurnMessages)
    BY <1>1, <2>2, AnswerMade, LenProperties DEF TurnTyped, TalkTyped
  <2>4. at = "call" /\ at' = "tools" /\ UNCHANGED <<digested, taken>> /\ offset' = offset
    BY <1>12 DEF AnswerCalls, noteVars
  <2> QED BY <2>2, <2>3, <2>4, SaysKept
<1>13. CASE AnswerTask
  <2>1. PICK t \in Seq(TurnMessages) : Says(t) /\ at' \in {"tools", "step", "idle"}
    BY <1>13, TaskTalk
  <2>2. at = "call" /\ UNCHANGED <<digested, taken>> /\ offset' = offset
    BY <1>13 DEF AnswerTask
  <2> QED BY <2>1, <2>2, SaysKept
<1>14. CASE ToolResultSaid \/ ToolImage
  <2>1. /\ at = "tools" /\ at' = at /\ calls # <<>>
        /\ UNCHANGED <<digested, taken>> /\ offset' = offset
    BY <1>14 DEF ToolResultSaid, ToolImage, ToolGives
  <2>2. Head(calls) \in Nat
    BY <1>1, <2>1, CallsLeft
  <2>3. /\ <<ToolResult(Head(calls))>> \in Seq(TurnMessages)
        /\ <<ToolResult(Head(calls)), User>> \in Seq(TurnMessages)
    BY <2>2, MessagesMade
  <2>4. \/ Says(<<ToolResult(Head(calls))>>)
        \/ Says(<<ToolResult(Head(calls)), User>>)
    BY <1>14 DEF ToolResultSaid, ToolImage, ToolGives
  <2> QED BY <2>1, <2>3, <2>4, SaysKept
<1>15. CASE UNCHANGED turnVars
  BY <1>15 DEF turnVars, MailSafe
<1> QED BY <1>2, <1>3, <1>4, <1>5, <1>6, <1>7, <1>8, <1>9, <1>10, <1>11, <1>12, <1>13, <1>14,
           <1>15 DEF TurnNext, Call, Tools

\* Mail the hub will not deliver again is in the session or in its summary, through
\* failed quanta, crashes, repairs and compactions (run_durable_actor_quantum).
THEOREM MailStaysKept == TurnSpec => []MailIsKept
<1>1. TurnInit => TurnTyped /\ MailSafe
  <2>1. ASSUME TurnInit PROVE MailSafe
    <3>1. at = "idle" /\ offset = 0 /\ taken = 0
      BY <2>1 DEF TurnInit
    <3> QED BY <3>1 DEF MailSafe
  <2> QED BY <2>1, TurnInitTyped
<1>2. TurnTyped /\ MailSafe /\ [TurnNext]_turnVars => (TurnTyped /\ MailSafe)'
  BY TurnNextTyped, TurnNextKept
<1>3. MailSafe => MailIsKept
  BY DEF MailSafe, MailIsKept, Kept
<1> QED BY <1>1, <1>2, <1>3, PTL DEF TurnSpec


-----------------------------------------------------------------------------
(* The client of a model provider: histories                                *)

Roles == {"system", "user", "assistant", "tool"}
ItemKinds == {"text", "call", "reasoning"}
BlockKinds == {"text", "call", "result", "reasoning"}

ReplayItems == [kind : ItemKinds, id : Nat]
WireCalls == [id : Nat]
WireMessages ==
  [role : Roles, text : {"none", "blank", "some", "image"}, calls : Seq(WireCalls),
   result : Nat, items : Seq(ReplayItems)]
WireBlocks == [role : Roles, kind : BlockKinds, id : Nat]

\* The items of a turn name the calls of the turn.
ItemsMatch(asked, items) ==
  /\ \A k \in DOMAIN items : items[k].kind = "call" =>
       \E c \in DOMAIN asked : items[k].id = asked[c].id
  /\ items # <<>> => \A c \in DOMAIN asked :
       \E k \in DOMAIN items : items[k].kind = "call" /\ items[k].id = asked[c].id

\* Calls and items are those of a turn, and a result is one with an id and a text.
MessageSound(m) ==
  /\ m.calls # <<>> \/ m.items # <<>> => m.role = "assistant"
  /\ m.role = "tool" => m.text # "none" /\ m.result # 0
  /\ ItemsMatch(m.calls, m.items)

\* Every turn is followed by its results, and every result is one of these.
TurnsAnswered(seq) ==
  /\ \A i \in DOMAIN seq : \A c \in DOMAIN seq[i].calls :
       /\ i + c \in DOMAIN seq /\ seq[i + c].role = "tool"
       /\ seq[i + c].result = seq[i].calls[c].id
  /\ \A j \in DOMAIN seq : seq[j].role = "tool" =>
       \E i \in DOMAIN seq : i < j /\ j - i \in DOMAIN seq[i].calls

\* No id is that of two calls.
IdsDiffer(seq) ==
  \A i, j \in DOMAIN seq : \A c \in DOMAIN seq[i].calls, d \in DOMAIN seq[j].calls :
    seq[i].calls[c].id = seq[j].calls[d].id => i = j /\ c = d

IdsUpTo(seq, bound) ==
  \A i \in DOMAIN seq : \A c \in DOMAIN seq[i].calls : seq[i].calls[c].id \in 1..bound

HistorySound(seq) ==
  /\ seq \in Seq(WireMessages)
  /\ \A i \in DOMAIN seq : MessageSound(seq[i])
  /\ TurnsAnswered(seq)
  /\ IdsDiffer(seq)

-----------------------------------------------------------------------------
(* What a message becomes on a wire                                         *)

\* OnWire, of one message.
Sent(w, m) ==
  CASE ~Sendable(m) -> <<>>
    [] Sendable(m) /\ w = "chat_completions" -> ToChat(m)
    [] Sendable(m) /\ w = "anthropic_messages" -> ToAnthropic(m)
    [] Sendable(m) /\ w = "responses" -> ToResponses(m)

\* The blocks of a message: a result is one block, calls are those of the turn.
SentSound(m, blocks) ==
  /\ blocks \in Seq(WireBlocks)
  /\ m.role = "tool" =>
       Len(blocks) = 1 /\ blocks[1].kind = "result" /\ blocks[1].id = m.result
  /\ \A k \in DOMAIN blocks :
       /\ blocks[k].kind = "result" => m.role = "tool"
       /\ blocks[k].kind = "call" =>
            m.role = "assistant" /\ \E c \in DOMAIN m.calls : blocks[k].id = m.calls[c].id
       /\ m.role = "assistant" => blocks[k].role = "assistant"
  /\ \A c \in DOMAIN m.calls :
       \E k \in DOMAIN blocks : blocks[k].kind = "call" /\ blocks[k].id = m.calls[c].id

LEMMA WireMessageFields ==
  ASSUME NEW m \in WireMessages
  PROVE  /\ m.role \in Roles /\ m.text \in {"none", "blank", "some", "image"}
         /\ m.calls \in Seq(WireCalls) /\ m.result \in Nat /\ m.items \in Seq(ReplayItems)
BY DEF WireMessages

LEMMA WireCallAt ==
  ASSUME NEW asked \in Seq(WireCalls), NEW c \in DOMAIN asked
  PROVE  asked[c] \in WireCalls /\ asked[c].id \in Nat
<1>1. c \in 1..Len(asked)
  BY LenProperties
<1>2. asked[c] \in WireCalls
  BY <1>1, ElementOfSeq
<1> QED BY <1>2 DEF WireCalls

LEMMA BlocksMade ==
  /\ \A role \in Roles, kind \in BlockKinds, id \in Nat : Block(role, kind, id) \in WireBlocks
  /\ \A role, kind, id : /\ Block(role, kind, id).role = role /\ Block(role, kind, id).kind = kind
                         /\ Block(role, kind, id).id = id
BY DEF Block, WireBlocks

\* One block.
LEMMA OneBlock ==
  ASSUME NEW b \in WireBlocks
  PROVE  <<b>> \in Seq(WireBlocks) /\ Len(<<b>>) = 1 /\ DOMAIN <<b>> = 1..1 /\ <<b>>[1] = b
OBVIOUS

\* The text of a turn and its calls.
LEMMA TurnBlocks ==
  ASSUME NEW m \in WireMessages, m.role = "assistant",
         NEW blocks, blocks = TextBlock(m, "assistant") \o CallBlocks(m)
  PROVE  SentSound(m, blocks)
<1>1. PICK n \in Nat : n = Len(m.calls) /\ DOMAIN m.calls = 1..n
  BY WireMessageFields, LenProperties
<1>2. PICK t : t = TextBlock(m, "assistant")
  OBVIOUS
<1>3. PICK s : s = CallBlocks(m)
  OBVIOUS
<1>4. /\ t \in Seq(WireBlocks) /\ Len(t) \in Nat
      /\ \A k \in 1..Len(t) : t[k].kind = "text" /\ t[k].role = "assistant"
  <2>1. CASE m.text \in BlankText
    <3>1. t = <<>>
      BY <1>2, <2>1 DEF TextBlock
    <3> QED BY <3>1
  <2>2. CASE m.text \notin BlankText
    <3>1. t = <<Block("assistant", "text", 0)>>
      BY <1>2, <2>2 DEF TextBlock
    <3>2. PICK b \in WireBlocks : b = Block("assistant", "text", 0)
      BY BlocksMade DEF Roles, BlockKinds
    <3>3. b.kind = "text" /\ b.role = "assistant"
      BY <3>2, BlocksMade
    <3>4. t \in Seq(WireBlocks) /\ Len(t) = 1 /\ t[1] = b
      BY <3>1, <3>2, OneBlock
    <3> QED BY <3>3, <3>4
  <2> QED BY <2>1, <2>2
<1>5. ASSUME NEW c \in 1..n
      PROVE  /\ Block("assistant", "call", m.calls[c].id) \in WireBlocks
             /\ m.calls[c].id \in Nat
  <2>1. m.calls[c].id \in Nat
    BY <1>1, WireMessageFields, WireCallAt
  <2> QED BY <2>1, BlocksMade DEF Roles, BlockKinds
<1>6. /\ s \in Seq(WireBlocks) /\ Len(s) = n
      /\ \A c \in 1..n : /\ s[c].kind = "call" /\ s[c].role = "assistant"
                         /\ s[c].id = m.calls[c].id
  <2>1. s = [c \in 1..n |-> Block("assistant", "call", m.calls[c].id)]
    BY <1>1, <1>3 DEF CallBlocks
  <2>2. s \in Seq(WireBlocks) /\ Len(s) = n
    <3>1. s \in [1..n -> WireBlocks]
      BY <1>5, <2>1
    <3>2. s \in Seq(WireBlocks) /\ DOMAIN s = 1..n
      BY <3>1
    <3> QED BY <3>2, LenProperties
  <2> QED BY <2>1, <2>2, BlocksMade
<1>7. PICK l \in Nat : l = Len(t)
  BY <1>4
<1>8. /\ blocks \in Seq(WireBlocks) /\ Len(blocks) = l + n
      /\ \A k \in 1..l + n : blocks[k] = IF k <= l THEN t[k] ELSE s[k - l]
  <2>1. blocks = t \o s
    BY <1>2, <1>3
  <2>2. t \in Seq(WireBlocks) /\ s \in Seq(WireBlocks)
    BY <1>4, <1>6
  <2>3. /\ t \o s \in Seq(WireBlocks) /\ Len(t \o s) = Len(t) + Len(s)
        /\ \A k \in 1..Len(t) + Len(s) : (t \o s)[k] = IF k <= Len(t) THEN t[k] ELSE s[k - Len(t)]
    BY <2>2, ConcatProperties
  <2>4. Len(t) = l /\ Len(s) = n
    BY <1>6, <1>7
  <2> QED BY <2>1, <2>3, <2>4
<1>9. DOMAIN blocks = 1..l + n
  BY <1>8, LenProperties
<1>10. ASSUME NEW k \in DOMAIN blocks
       PROVE  /\ blocks[k].kind # "result"
              /\ blocks[k].kind = "call" => \E c \in DOMAIN m.calls : blocks[k].id = m.calls[c].id
              /\ blocks[k].role = "assistant"
  <2>1. k \in 1..l + n
    BY <1>9
  <2>2. CASE k <= l
    <3>1. blocks[k] = t[k] /\ k \in 1..Len(t)
      BY <1>7, <1>8, <2>1, <2>2
    <3> QED BY <1>4, <3>1
  <2>3. CASE ~(k <= l)
    <3>1. PICK c \in 1..n : c = k - l
      BY <2>1, <2>3
    <3>2. blocks[k] = s[c]
      BY <1>8, <2>1, <2>3, <3>1
    <3> QED BY <1>1, <1>6, <3>2
  <2> QED BY <2>2, <2>3
<1>11. ASSUME NEW c \in DOMAIN m.calls
       PROVE  \E k \in DOMAIN blocks : blocks[k].kind = "call" /\ blocks[k].id = m.calls[c].id
  <2>1. PICK k \in 1..l + n : k = l + c
    BY <1>1
  <2>2. c \in 1..n /\ ~(k <= l) /\ k - l = c
    BY <1>1, <2>1
  <2>3. blocks[k] = s[c]
    BY <1>8, <2>2
  <2> QED BY <1>6, <1>9, <2>2, <2>3
<1> QED BY <1>8, <1>10, <1>11 DEF SentSound

\* The items of a turn.
LEMMA ItemBlocks ==
  ASSUME NEW m \in WireMessages, m.role = "assistant", m.items # <<>>,
         ItemsMatch(m.calls, m.items),
         NEW blocks,
         blocks = [i \in DOMAIN m.items |-> Block("assistant", m.items[i].kind, m.items[i].id)]
  PROVE  SentSound(m, blocks)
<1>1. PICK n \in Nat : n = Len(m.items) /\ DOMAIN m.items = 1..n
  BY WireMessageFields, LenProperties
<1>2. ASSUME NEW i \in 1..n
      PROVE  /\ m.items[i].kind \in ItemKinds /\ m.items[i].id \in Nat
             /\ Block("assistant", m.items[i].kind, m.items[i].id) \in WireBlocks
  <2>1. m.items[i] \in ReplayItems
    BY <1>1, WireMessageFields, ElementOfSeq
  <2>2. m.items[i].kind \in ItemKinds /\ m.items[i].id \in Nat
    BY <2>1 DEF ReplayItems
  <2> QED BY <2>2, BlocksMade DEF Roles, BlockKinds, ItemKinds
<1>3. blocks = [i \in 1..n |-> Block("assistant", m.items[i].kind, m.items[i].id)]
  BY <1>1
<1>4. blocks \in Seq(WireBlocks) /\ DOMAIN blocks = 1..n
  <2>1. blocks \in [1..n -> WireBlocks]
    BY <1>2, <1>3
  <2> QED BY <2>1
<1>5. \A i \in 1..n : /\ blocks[i].kind = m.items[i].kind /\ blocks[i].id = m.items[i].id
                      /\ blocks[i].role = "assistant" /\ blocks[i].kind # "result"
  <2>1. ASSUME NEW i \in 1..n
        PROVE  /\ blocks[i].kind = m.items[i].kind /\ blocks[i].id = m.items[i].id
               /\ blocks[i].role = "assistant" /\ blocks[i].kind # "result"
    <3>1. blocks[i] = Block("assistant", m.items[i].kind, m.items[i].id)
      BY <1>3
    <3>2. m.items[i].kind # "result"
      BY <1>2 DEF ItemKinds
    <3> QED BY <3>1, <3>2, BlocksMade
  <2> QED BY <2>1
<1>6. ASSUME NEW k \in DOMAIN blocks, blocks[k].kind = "call"
      PROVE  \E c \in DOMAIN m.calls : blocks[k].id = m.calls[c].id
  <2>1. k \in DOMAIN m.items /\ m.items[k].kind = "call" /\ blocks[k].id = m.items[k].id
    BY <1>1, <1>4, <1>5, <1>6
  <2>2. PICK c \in DOMAIN m.calls : m.items[k].id = m.calls[c].id
    BY <2>1 DEF ItemsMatch
  <2> QED BY <2>1, <2>2
<1>7. ASSUME NEW c \in DOMAIN m.calls
      PROVE  \E k \in DOMAIN blocks : blocks[k].kind = "call" /\ blocks[k].id = m.calls[c].id
  <2>1. PICK k \in DOMAIN m.items : m.items[k].kind = "call" /\ m.items[k].id = m.calls[c].id
    BY DEF ItemsMatch
  <2>2. k \in DOMAIN blocks /\ blocks[k].kind = m.items[k].kind /\ blocks[k].id = m.items[k].id
    BY <1>1, <1>4, <1>5, <2>1
  <2> QED BY <2>1, <2>2
<1>8. \A k \in DOMAIN blocks : blocks[k].kind # "result" /\ blocks[k].role = "assistant"
  BY <1>4, <1>5
<1> QED BY <1>4, <1>6, <1>7, <1>8 DEF SentSound

\* A message that is neither a turn nor a result has text, or nothing.
LEMMA QuietBlocks ==
  ASSUME NEW m \in WireMessages, m.role \notin {"assistant", "tool"}, m.calls = <<>>,
         NEW blocks,
         blocks = <<>> \/ \E role \in Roles : blocks = <<Block(role, "text", 0)>>
  PROVE  SentSound(m, blocks)
<1>1. DOMAIN m.calls = {}
  OBVIOUS
<1>2. CASE blocks = <<>>
  <2>1. blocks \in Seq(WireBlocks) /\ DOMAIN blocks = {}
    BY <1>2
  <2> QED BY <1>1, <2>1 DEF SentSound
<1>3. CASE blocks # <<>>
  <2>1. PICK role \in Roles : blocks = <<Block(role, "text", 0)>>
    BY <1>3
  <2>2. PICK b \in WireBlocks : b = Block(role, "text", 0)
    BY BlocksMade DEF BlockKinds
  <2>3. b.kind = "text"
    BY <2>2, BlocksMade
  <2>4. blocks \in Seq(WireBlocks) /\ DOMAIN blocks = 1..1 /\ blocks[1] = b
    BY <2>1, <2>2, OneBlock
  <2>5. \A k \in DOMAIN blocks : blocks[k].kind = "text"
    BY <2>3, <2>4
  <2> QED BY <1>1, <2>4, <2>5 DEF SentSound
<1> QED BY <1>2, <1>3

\* A result is one block.
LEMMA ResultBlocks ==
  ASSUME NEW m \in WireMessages, m.role = "tool", m.calls = <<>>, NEW role \in Roles,
         NEW blocks, blocks = <<Block(role, "result", m.result)>>
  PROVE  SentSound(m, blocks)
<1>1. DOMAIN m.calls = {}
  OBVIOUS
<1>2. PICK b \in WireBlocks : b = Block(role, "result", m.result)
  BY WireMessageFields, BlocksMade DEF BlockKinds
<1>3. b.kind = "result" /\ b.id = m.result
  BY <1>2, BlocksMade
<1>4. blocks \in Seq(WireBlocks) /\ Len(blocks) = 1 /\ DOMAIN blocks = 1..1 /\ blocks[1] = b
  BY <1>2, OneBlock
<1>5. \A k \in DOMAIN blocks : blocks[k].kind = "result"
  BY <1>3, <1>4
<1> QED BY <1>1, <1>3, <1>4, <1>5 DEF SentSound

LEMMA SentIsSound ==
  ASSUME NEW m \in WireMessages, MessageSound(m), NEW w \in WireApis
  PROVE  SentSound(m, Sent(w, m))
<1>0. m.role \in Roles /\ w \in {"chat_completions", "responses", "anthropic_messages"}
  BY WireMessageFields DEF WireApis
<1>1. CASE m.role = "assistant"
  <2>1. CASE ~Sendable(m)
    <3>1. Sent(w, m) = <<>>
      BY <2>1 DEF Sent
    <3>2. m.calls = <<>>
      BY <1>1, <2>1 DEF Sendable
    <3>3. DOMAIN m.calls = {} /\ <<>> \in Seq(WireBlocks) /\ DOMAIN <<>> = {}
      BY <3>2
    <3>4. m.role # "tool"
      BY <1>1
    <3> QED BY <3>1, <3>3, <3>4 DEF SentSound
  <2>2. CASE Sendable(m) /\ w = "responses" /\ m.items # <<>>
    <3>1. Sent(w, m) = ToResponses(m)
      BY <2>2 DEF Sent
    <3>2. ToResponses(m) =
            [i \in DOMAIN m.items |-> Block("assistant", m.items[i].kind, m.items[i].id)]
      BY <1>1, <2>2 DEF ToResponses
    <3>3. ItemsMatch(m.calls, m.items)
      BY DEF MessageSound
    <3> QED BY <1>1, <2>2, <3>1, <3>2, <3>3, ItemBlocks
  <2>3. CASE Sendable(m) /\ ~(w = "responses" /\ m.items # <<>>)
    <3>1. Sent(w, m) = TextBlock(m, "assistant") \o CallBlocks(m)
      <4>1. w = "chat_completions" => Sent(w, m) = ToChat(m)
        BY <2>3 DEF Sent
      <4>2. w = "anthropic_messages" => Sent(w, m) = ToAnthropic(m)
        BY <2>3 DEF Sent
      <4>3. w = "responses" => Sent(w, m) = ToResponses(m)
        BY <2>3 DEF Sent
      <4>4. /\ ToChat(m) = TextBlock(m, "assistant") \o CallBlocks(m)
            /\ ToAnthropic(m) = TextBlock(m, "assistant") \o CallBlocks(m)
        BY <1>1 DEF ToChat, ToAnthropic
      <4>5. w = "responses" => ToResponses(m) = TextBlock(m, "assistant") \o CallBlocks(m)
        BY <1>1, <2>3 DEF ToResponses, ResponsesAssistant
      <4> QED BY <1>0, <4>1, <4>2, <4>3, <4>4, <4>5
    <3> QED BY <1>1, <3>1, TurnBlocks
  <2> QED BY <2>1, <2>2, <2>3
<1>2. CASE m.role = "tool"
  <2>1. m.text # "none" /\ m.result # 0 /\ m.calls = <<>> /\ Sendable(m)
    BY <1>2 DEF MessageSound, Sendable
  <2>2. \E role \in Roles : Sent(w, m) = <<Block(role, "result", m.result)>>
    <3>1. CASE w = "chat_completions"
      <4>1. Sent(w, m) = <<Block("tool", "result", m.result)>>
        BY <1>2, <2>1, <3>1 DEF Sent, ToChat
      <4> QED BY <4>1 DEF Roles
    <3>2. CASE w = "anthropic_messages"
      <4>1. AnthropicResult(m) = <<Block("user", "result", m.result)>>
        BY <2>1 DEF AnthropicResult
      <4>2. AnthropicResult(m) # <<>>
        BY <4>1
      <4>3. Sent(w, m) = <<Block("user", "result", m.result)>>
        BY <1>2, <2>1, <3>2, <4>1, <4>2 DEF Sent, ToAnthropic
      <4> QED BY <4>3 DEF Roles
    <3>3. CASE w = "responses"
      <4>1. ResponsesResult(m) = <<Block("tool", "result", m.result)>>
        BY <2>1 DEF ResponsesResult
      <4>2. ResponsesResult(m) # <<>>
        BY <4>1
      <4>3. Sent(w, m) = <<Block("tool", "result", m.result)>>
        BY <1>2, <2>1, <3>3, <4>1, <4>2 DEF Sent, ToResponses
      <4> QED BY <4>3 DEF Roles
    <3> QED BY <1>0, <3>1, <3>2, <3>3
  <2>3. PICK role \in Roles : Sent(w, m) = <<Block(role, "result", m.result)>>
    BY <2>2
  <2> QED BY <1>2, <2>1, <2>3, ResultBlocks
<1>3. CASE m.role \notin {"assistant", "tool"}
  <2>1. m.calls = <<>> /\ Sendable(m)
    BY <1>3 DEF MessageSound, Sendable
  <2>2. Sent(w, m) = <<>> \/ \E role \in Roles : Sent(w, m) = <<Block(role, "text", 0)>>
    <3>1. CASE w = "chat_completions"
      <4>1. Sent(w, m) = <<Block(m.role, "text", 0)>>
        BY <1>3, <2>1, <3>1 DEF Sent, ToChat
      <4> QED BY <1>0, <4>1
    <3>2. CASE w = "anthropic_messages"
      <4>1. Sent(w, m) = ToAnthropic(m)
        BY <2>1, <3>2 DEF Sent
      <4>2. ToAnthropic(m) = <<>> \/ ToAnthropic(m) = <<Block("user", "text", 0)>>
        BY <1>0, <1>3 DEF ToAnthropic, AnthropicUser, TextBlock, Roles
      <4> QED BY <4>1, <4>2 DEF Roles
    <3>3. CASE w = "responses"
      <4>1. Sent(w, m) = ToResponses(m)
        BY <2>1, <3>3 DEF Sent
      <4>2. ToResponses(m) = <<>> \/ ToResponses(m) = <<Block("user", "text", 0)>>
        BY <1>0, <1>3 DEF ToResponses, Roles
      <4> QED BY <4>1, <4>2 DEF Roles
    <3> QED BY <1>0, <3>1, <3>2, <3>3
  <2> QED BY <1>3, <2>1, <2>2, QuietBlocks
<1> QED BY <1>1, <1>2, <1>3

\* Every call of a wire has one result behind it, and every result answers a call
\* with nothing but the turn and its results between.
WirePaired(blocks) ==
  LET OfKind(kind) == {p \in Positions(blocks) : BlockAt(blocks, p).kind = kind}
      Answers(q, p) == Before(p, q) /\ BlockAt(blocks, q).id = BlockAt(blocks, p).id IN
  /\ \A p \in OfKind("call") : Cardinality({q \in OfKind("result") : Answers(q, p)}) = 1
  /\ \A q \in OfKind("result") : \E p \in OfKind("call") :
       /\ Answers(q, p)
       /\ \A r \in Positions(blocks) :
            Before(p, r) /\ Before(r, q) =>
              BlockAt(blocks, r).role = "assistant" \/ BlockAt(blocks, r).kind = "result"

LEMMA PositionOf ==
  ASSUME NEW blocks, NEW p \in Positions(blocks)
  PROVE  /\ p = <<p[1], p[2]>> /\ p[1] \in DOMAIN blocks /\ p[2] \in DOMAIN blocks[p[1]]
         /\ BlockAt(blocks, p) = blocks[p[1]][p[2]]
<1>1. PICK i \in DOMAIN blocks : p \in {<<i, k>> : k \in DOMAIN blocks[i]}
  BY DEF Positions
<1>2. PICK k \in DOMAIN blocks[i] : p = <<i, k>>
  BY <1>1
<1>3. p[1] = i /\ p[2] = k
  BY <1>2
<1> QED BY <1>2, <1>3 DEF BlockAt

LEMMA PositionIn ==
  ASSUME NEW blocks, NEW i \in DOMAIN blocks, NEW k \in DOMAIN blocks[i]
  PROVE  /\ <<i, k>> \in Positions(blocks) /\ <<i, k>>[1] = i /\ <<i, k>>[2] = k
         /\ BlockAt(blocks, <<i, k>>) = blocks[i][k]
<1>1. <<i, k>> \in {<<i, j>> : j \in DOMAIN blocks[i]}
  OBVIOUS
<1>2. <<i, k>> \in Positions(blocks)
  BY <1>1 DEF Positions
<1> QED BY <1>2 DEF BlockAt

\* A history that is sound, its places and the blocks of its messages.
LEMMA WireOf ==
  ASSUME NEW seq, HistorySound(seq), NEW w \in WireApis
  PROVE  /\ Len(seq) \in Nat /\ DOMAIN seq = 1..Len(seq) /\ DOMAIN OnWire(w, seq) = DOMAIN seq
         /\ \A i \in DOMAIN seq :
              /\ seq[i] \in WireMessages /\ MessageSound(seq[i])
              /\ Len(seq[i].calls) \in Nat /\ DOMAIN seq[i].calls = 1..Len(seq[i].calls)
              /\ SentSound(seq[i], OnWire(w, seq)[i])
              /\ Len(OnWire(w, seq)[i]) \in Nat
              /\ DOMAIN OnWire(w, seq)[i] = 1..Len(OnWire(w, seq)[i])
<1>1. seq \in Seq(WireMessages)
  BY DEF HistorySound
<1>2. Len(seq) \in Nat /\ DOMAIN seq = 1..Len(seq)
  BY <1>1, LenProperties
<1>3. OnWire(w, seq) = [i \in DOMAIN seq |-> Sent(w, seq[i])]
  BY DEF OnWire, Sent
<1>4. ASSUME NEW i \in DOMAIN seq
      PROVE  /\ seq[i] \in WireMessages /\ MessageSound(seq[i])
             /\ Len(seq[i].calls) \in Nat /\ DOMAIN seq[i].calls = 1..Len(seq[i].calls)
             /\ SentSound(seq[i], OnWire(w, seq)[i])
             /\ Len(OnWire(w, seq)[i]) \in Nat
             /\ DOMAIN OnWire(w, seq)[i] = 1..Len(OnWire(w, seq)[i])
  <2>1. seq[i] \in WireMessages
    BY <1>1, <1>2, ElementOfSeq
  <2>2. MessageSound(seq[i])
    BY DEF HistorySound
  <2>3. seq[i].calls \in Seq(WireCalls)
    BY <2>1, WireMessageFields
  <2>4. SentSound(seq[i], Sent(w, seq[i]))
    BY <2>1, <2>2, SentIsSound
  <2>5. SentSound(seq[i], OnWire(w, seq)[i])
    BY <1>3, <2>4
  <2>6. OnWire(w, seq)[i] \in Seq(WireBlocks)
    BY <2>5 DEF SentSound
  <2> QED BY <2>1, <2>2, <2>3, <2>5, <2>6, LenProperties
<1> QED BY <1>2, <1>3, <1>4

\* The turn a block of a result answers, and the place of the result behind it.
LEMMA ResultIsOf ==
  ASSUME NEW seq, HistorySound(seq), NEW w \in WireApis, NEW q \in Positions(OnWire(w, seq)),
         BlockAt(OnWire(w, seq), q).kind = "result"
  PROVE  /\ q[1] \in DOMAIN seq /\ seq[q[1]].role = "tool" /\ q = <<q[1], 1>>
         /\ \E i \in DOMAIN seq :
              /\ i < q[1] /\ q[1] - i \in DOMAIN seq[i].calls
              /\ BlockAt(OnWire(w, seq), q).id = seq[i].calls[q[1] - i].id
<1>1. PICK blocks : blocks = OnWire(w, seq)
  OBVIOUS
<1>2. PICK j : j = q[1]
  OBVIOUS
<1>3. /\ q = <<j, q[2]>> /\ j \in DOMAIN blocks /\ q[2] \in DOMAIN blocks[j]
      /\ BlockAt(blocks, q) = blocks[j][q[2]]
  BY <1>1, <1>2, PositionOf
<1>4. /\ j \in DOMAIN seq /\ SentSound(seq[j], blocks[j]) /\ DOMAIN blocks[j] = 1..Len(blocks[j])
  BY <1>1, <1>3, WireOf
<1>5. seq[j].role = "tool"
  BY <1>1, <1>3, <1>4 DEF SentSound
<1>6. Len(blocks[j]) = 1 /\ blocks[j][1].id = seq[j].result
  BY <1>4, <1>5 DEF SentSound
<1>7. q[2] = 1
  BY <1>3, <1>4, <1>6
<1>8. PICK i \in DOMAIN seq : i < j /\ j - i \in DOMAIN seq[i].calls
  BY <1>4, <1>5 DEF HistorySound, TurnsAnswered
<1>9. PICK c : c = j - i
  OBVIOUS
<1>10. seq[i + c].result = seq[i].calls[c].id
  BY <1>8, <1>9 DEF HistorySound, TurnsAnswered
<1>11. i + c = j
  BY <1>4, <1>8, <1>9, WireOf
<1> QED BY <1>1, <1>2, <1>3, <1>4, <1>5, <1>6, <1>7, <1>8, <1>9, <1>10, <1>11

LEMMA WireIsPaired ==
  ASSUME NEW seq, HistorySound(seq), NEW w \in WireApis
  PROVE  WirePaired(OnWire(w, seq))
<1>0. PICK blocks : blocks = OnWire(w, seq)
  OBVIOUS
<1> DEFINE OfKind(kind) == {p \in Positions(blocks) : BlockAt(blocks, p).kind = kind}
           Answers(q, p) == Before(p, q) /\ BlockAt(blocks, q).id = BlockAt(blocks, p).id
<1>1. ASSUME NEW p \in OfKind("call") PROVE Cardinality({q \in OfKind("result") : Answers(q, p)}) = 1
  <2>1. PICK i : i = p[1]
    OBVIOUS
  <2>2. /\ p = <<i, p[2]>> /\ i \in DOMAIN blocks /\ p[2] \in DOMAIN blocks[i]
        /\ BlockAt(blocks, p) = blocks[i][p[2]] /\ blocks[i][p[2]].kind = "call"
    BY <2>1, PositionOf
  <2>3. i \in DOMAIN seq /\ SentSound(seq[i], blocks[i])
    BY <1>0, <2>2, WireOf
  <2>4. PICK c \in DOMAIN seq[i].calls : blocks[i][p[2]].id = seq[i].calls[c].id
    BY <2>2, <2>3 DEF SentSound
  <2>5. PICK j : j = i + c
    OBVIOUS
  <2>6. j \in DOMAIN seq /\ seq[j].role = "tool" /\ seq[j].result = seq[i].calls[c].id
    BY <2>3, <2>4, <2>5 DEF HistorySound, TurnsAnswered
  <2>7. i \in Nat /\ j \in Nat /\ c \in Nat /\ i < j
    BY <2>3, <2>4, <2>5, WireOf
  <2>8. /\ j \in DOMAIN blocks /\ DOMAIN blocks[j] = 1..Len(blocks[j]) /\ Len(blocks[j]) = 1
        /\ blocks[j][1].kind = "result" /\ blocks[j][1].id = seq[j].result
    <3>1. SentSound(seq[j], blocks[j]) /\ j \in DOMAIN blocks /\ DOMAIN blocks[j] = 1..Len(blocks[j])
      BY <1>0, <2>6, WireOf
    <3> QED BY <2>6, <3>1 DEF SentSound
  <2>9. PICK r : r = <<j, 1>>
    OBVIOUS
  <2>10. r \in Positions(blocks) /\ r[1] = j /\ BlockAt(blocks, r) = blocks[j][1]
    <3>1. 1 \in DOMAIN blocks[j]
      BY <2>8
    <3> QED BY <2>8, <2>9, <3>1, PositionIn
  <2>11. r \in OfKind("result") /\ Answers(r, p)
    <3>1. Before(p, r)
      BY <2>1, <2>7, <2>10 DEF Before
    <3>2. BlockAt(blocks, r).id = BlockAt(blocks, p).id /\ BlockAt(blocks, r).kind = "result"
      BY <2>2, <2>4, <2>6, <2>8, <2>10
    <3> QED BY <2>10, <3>1, <3>2
  <2>12. ASSUME NEW q \in OfKind("result"), Answers(q, p) PROVE q = r
    <3>1. q \in Positions(blocks) /\ BlockAt(blocks, q).kind = "result"
      OBVIOUS
    <3>2. q = <<q[1], 1>> /\ q[1] \in DOMAIN seq
      BY <1>0, <3>1, ResultIsOf
    <3>3. PICK e \in DOMAIN seq :
            /\ e < q[1] /\ q[1] - e \in DOMAIN seq[e].calls
            /\ BlockAt(blocks, q).id = seq[e].calls[q[1] - e].id
      BY <1>0, <3>1, ResultIsOf
    <3>4. PICK d : d = q[1] - e
      OBVIOUS
    <3>5. seq[e].calls[d].id = seq[i].calls[c].id
      BY <2>2, <2>4, <2>12, <3>3, <3>4
    <3>6. e = i /\ d = c
      BY <2>3, <2>4, <3>3, <3>4, <3>5 DEF HistorySound, IdsDiffer
    <3>7. q[1] = j
      <4>1. q[1] \in Nat
        BY <3>2, WireOf
      <4> QED BY <2>5, <2>7, <3>4, <3>6, <4>1
    <3> QED BY <2>9, <3>2, <3>7
  <2>13. {q \in OfKind("result") : Answers(q, p)} = {r}
    BY <2>11, <2>12
  <2> QED BY <2>13, FS_Singleton
<1>2. ASSUME NEW q \in OfKind("result")
      PROVE  \E p \in OfKind("call") :
               /\ Answers(q, p)
               /\ \A r \in Positions(blocks) :
                    Before(p, r) /\ Before(r, q) =>
                      BlockAt(blocks, r).role = "assistant" \/ BlockAt(blocks, r).kind = "result"
  <2>1. q \in Positions(blocks) /\ BlockAt(blocks, q).kind = "result"
    OBVIOUS
  <2>2. PICK j : j = q[1]
    OBVIOUS
  <2>3. q = <<j, 1>> /\ j \in DOMAIN seq /\ seq[j].role = "tool"
    BY <1>0, <2>1, <2>2, ResultIsOf
  <2>4. PICK i \in DOMAIN seq :
          /\ i < j /\ j - i \in DOMAIN seq[i].calls
          /\ BlockAt(blocks, q).id = seq[i].calls[j - i].id
    BY <1>0, <2>1, <2>2, ResultIsOf
  <2>5. /\ i \in Nat /\ j \in Nat /\ i \in DOMAIN blocks /\ SentSound(seq[i], blocks[i])
        /\ MessageSound(seq[i])
        /\ DOMAIN seq = 1..Len(seq) /\ Len(seq) \in Nat
        /\ DOMAIN seq[i].calls = 1..Len(seq[i].calls) /\ Len(seq[i].calls) \in Nat
    BY <1>0, <2>3, <2>4, WireOf
  <2>6. seq[i].role = "assistant"
    BY <2>4, <2>5 DEF MessageSound
  <2>7. PICK k \in DOMAIN blocks[i] :
          blocks[i][k].kind = "call" /\ blocks[i][k].id = seq[i].calls[j - i].id
    BY <2>4, <2>5 DEF SentSound
  <2>8. PICK p : p = <<i, k>>
    OBVIOUS
  <2>9. p \in Positions(blocks) /\ p[1] = i /\ BlockAt(blocks, p) = blocks[i][k]
    BY <2>5, <2>7, <2>8, PositionIn
  <2>10. Before(p, q)
    BY <2>2, <2>4, <2>9 DEF Before
  <2>11. p \in OfKind("call") /\ Answers(q, p)
    BY <2>4, <2>7, <2>9, <2>10
  <2>12. ASSUME NEW r \in Positions(blocks), Before(p, r), Before(r, q)
         PROVE  BlockAt(blocks, r).role = "assistant" \/ BlockAt(blocks, r).kind = "result"
    <3>1. PICK e : e = r[1]
      OBVIOUS
    <3>2. e \in DOMAIN blocks /\ r[2] \in DOMAIN blocks[e] /\ BlockAt(blocks, r) = blocks[e][r[2]]
      BY <3>1, PositionOf
    <3>3. /\ e \in DOMAIN seq /\ SentSound(seq[e], blocks[e])
          /\ DOMAIN blocks[e] = 1..Len(blocks[e]) /\ e \in Nat
      BY <1>0, <3>2, WireOf
    <3>4. i <= e /\ e <= j
      BY <2>2, <2>5, <2>9, <2>12, <3>1, <3>3 DEF Before
    <3>5. CASE e = i
      <4>1. blocks[e][r[2]].role = "assistant"
        BY <2>6, <3>2, <3>3, <3>5 DEF SentSound
      <4> QED BY <3>2, <4>1
    <3>6. CASE e # i
      <4>1. PICK c : c = e - i
        OBVIOUS
      <4>2. c \in DOMAIN seq[i].calls /\ i + c = e
        BY <2>4, <2>5, <3>3, <3>4, <3>6, <4>1
      <4>3. seq[e].role = "tool"
        BY <2>4, <4>2 DEF HistorySound, TurnsAnswered
      <4>4. Len(blocks[e]) = 1 /\ blocks[e][1].kind = "result"
        BY <3>3, <4>3 DEF SentSound
      <4>5. r[2] = 1
        BY <3>2, <3>3, <4>4
      <4> QED BY <3>2, <4>4, <4>5
    <3> QED BY <3>5, <3>6
  <2> QED BY <2>11, <2>12
<1>3. WirePaired(blocks)
  BY <1>1, <1>2 DEF WirePaired
<1> QED BY <1>0, <1>3

LEMMA AtMostTwo ==
  ASSUME NEW set, NEW x, NEW y, set \subseteq {x, y}
  PROVE  Cardinality(set) \in Nat /\ Cardinality(set) <= 2
<1>1. IsFiniteSet({x}) /\ Cardinality({x}) = 1
  BY FS_Singleton
<1>2. {x, y} = {x} \cup {y}
  OBVIOUS
<1>3. /\ IsFiniteSet({x} \cup {y})
      /\ Cardinality({x} \cup {y}) = IF y \in {x} THEN Cardinality({x}) ELSE Cardinality({x}) + 1
  BY <1>1, FS_AddElement
<1>4. IsFiniteSet({x, y}) /\ Cardinality({x, y}) \in {1, 2}
  BY <1>1, <1>2, <1>3
<1>5. IsFiniteSet(set) /\ Cardinality(set) <= Cardinality({x, y})
  BY <1>4, FS_Subset
<1>6. Cardinality(set) \in Nat
  BY <1>5, FS_CardinalityType
<1> QED BY <1>4, <1>5, <1>6

LEMMA FewBreakpoints ==
  ASSUME NEW seq, HistorySound(seq)
  PROVE  Cardinality(Breakpoints(OnWire("anthropic_messages", seq))) <= 4
<1>0. PICK blocks : blocks = OnWire("anthropic_messages", seq)
  OBVIOUS
<1>1. "anthropic_messages" \in WireApis
  BY DEF WireApis
<1> DEFINE Latest(set) == {i \in set : \A j \in set : j <= i}
           users == {i \in DOMAIN blocks : \E k \in DOMAIN blocks[i] : blocks[i][k].role = "user"}
           withResult == {i \in users : \E k \in DOMAIN blocks[i] : blocks[i][k].kind = "result"}
           result == Latest(withResult)
           others == Latest(users \ result)
<1>2. users \subseteq Nat
  BY <1>0, <1>1, WireOf
<1>3. \E x \in Nat : result \subseteq {x}
  <2>1. \A i, j \in result : i = j
    BY <1>2
  <2> QED BY <1>2, <2>1
<1>4. \E y \in Nat : others \subseteq {y}
  <2>1. \A i, j \in others : i = j
    BY <1>2
  <2>2. others \subseteq Nat
    BY <1>2
  <2>3. CASE others = {}
    BY <2>3
  <2>4. CASE others # {}
    <3>1. PICK y \in others : TRUE
      BY <2>4
    <3> QED BY <2>1, <2>2, <3>1
  <2> QED BY <2>3, <2>4
<1>5. PICK x \in Nat : result \subseteq {x}
  BY <1>3
<1>6. PICK y \in Nat : others \subseteq {y}
  BY <1>4
<1>7. Breakpoints(blocks) =
        {p \in Positions(blocks) :
           \/ p[1] \in result /\ BlockAt(blocks, p).kind = "result"
           \/ p[1] \in others /\ p[2] = Len(blocks[p[1]]) /\ BlockAt(blocks, p).kind = "text"}
  BY DEF Breakpoints
<1>8. ASSUME NEW p \in Breakpoints(blocks) PROVE p \in {<<x, 1>>, <<y, Len(blocks[y])>>}
  <2>1. p \in Positions(blocks)
    BY <1>7
  <2>2. CASE p[1] \in result /\ BlockAt(blocks, p).kind = "result"
    <3>1. p = <<p[1], 1>>
      BY <1>0, <1>1, <2>1, <2>2, ResultIsOf
    <3>2. p[1] = x
      BY <1>5, <2>2
    <3> QED BY <3>1, <3>2
  <2>3. CASE p[1] \in others /\ p[2] = Len(blocks[p[1]])
    <3>1. p = <<p[1], p[2]>>
      BY <2>1, PositionOf
    <3>2. p[1] = y
      BY <1>6, <2>3
    <3> QED BY <2>3, <3>1, <3>2
  <2> QED BY <1>7, <2>2, <2>3
<1>9. Cardinality(Breakpoints(blocks)) \in Nat /\ Cardinality(Breakpoints(blocks)) <= 2
  BY <1>8, AtMostTwo
<1> QED BY <1>0, <1>9

-----------------------------------------------------------------------------
(* What is at some of the places of a sequence                              *)

\* The places up to p.
UpTo(places, p) == {q \in places : q <= p}

LEMMA UpToFinite ==
  ASSUME NEW n \in Nat, NEW places \in SUBSET (1..n), NEW p
  PROVE  /\ IsFiniteSet(places) /\ Cardinality(places) \in Nat
         /\ IsFiniteSet(UpTo(places, p)) /\ Cardinality(UpTo(places, p)) \in Nat
         /\ Cardinality(UpTo(places, p)) <= Cardinality(places)
<1>1. IsFiniteSet(1..n)
  BY FS_Interval
<1>2. IsFiniteSet(places)
  BY <1>1, FS_Subset
<1>3. UpTo(places, p) \in SUBSET places
  BY DEF UpTo
<1> QED BY <1>2, <1>3, FS_Subset, FS_CardinalityType

\* There is a k-th place for every k, and one only.
LEMMA NthPlace ==
  ASSUME NEW n \in Nat, NEW places \in SUBSET (1..n), NEW k \in 1..Cardinality(places)
  PROVE  /\ Nth(places, k) \in places
         /\ Cardinality(UpTo(places, Nth(places, k))) = k
<1>1. Cardinality(places) \in Nat /\ k \in Nat /\ k >= 1 /\ k <= Cardinality(places)
  BY UpToFinite
<1>2. PICK enough : enough = {p \in 1..n : Cardinality(UpTo(places, p)) >= k}
  OBVIOUS
<1>3. enough \in SUBSET (1..n) /\ enough # {}
  <2>1. places # {}
    BY <1>1, FS_EmptySet
  <2>2. n \in 1..n
    <3>1. PICK q \in places : TRUE
      BY <2>1
    <3>2. q \in 1..n
      BY <3>1
    <3> QED BY <3>2
  <2>3. UpTo(places, n) = places
    <3>1. \A q \in places : q <= n
      OBVIOUS
    <3> QED BY <3>1 DEF UpTo
  <2> QED BY <1>1, <1>2, <2>2, <2>3
<1>4. PICK p \in enough : \A q \in enough : p <= q
  BY <1>3, FirstPlace
<1>5. p \in 1..n /\ Cardinality(UpTo(places, p)) >= k
  BY <1>2, <1>4
<1>6. Cardinality(UpTo(places, p - 1)) < k
  <2>1. CASE p = 1
    <3>1. UpTo(places, p - 1) = {}
      <4>1. ASSUME NEW q \in UpTo(places, p - 1) PROVE FALSE
        <5>1. q \in 1..n /\ q <= p - 1
          BY DEF UpTo
        <5> QED BY <2>1, <5>1
      <4> QED BY <4>1
    <3> QED BY <1>1, <3>1, FS_EmptySet
  <2>2. CASE p # 1
    <3>1. p - 1 \in 1..n /\ p - 1 \notin enough
      BY <1>4, <1>5, <2>2
    <3>2. Cardinality(UpTo(places, p - 1)) \in Nat
      BY UpToFinite
    <3> QED BY <1>1, <1>2, <3>1, <3>2
  <2> QED BY <2>1, <2>2
<1>7. p \in places
  <2> SUFFICES ASSUME p \notin places PROVE FALSE
    OBVIOUS
  <2>1. UpTo(places, p) = UpTo(places, p - 1)
    <3>1. ASSUME NEW q \in places PROVE q <= p <=> q <= p - 1
      <4>1. q \in 1..n /\ q # p /\ p \in 1..n
        BY <1>5
      <4> QED BY <4>1
    <3> QED BY <3>1 DEF UpTo
  <2>2. Cardinality(UpTo(places, p - 1)) \in Nat
    BY UpToFinite
  <2> QED BY <1>1, <1>5, <1>6, <2>1, <2>2
<1>8. Cardinality(UpTo(places, p)) = k
  <2>1. UpTo(places, p) = UpTo(places, p - 1) \cup {p}
    <3>1. ASSUME NEW q \in places PROVE q <= p <=> q <= p - 1 \/ q = p
      <4>1. q \in 1..n /\ p \in 1..n
        BY <1>5
      <4> QED BY <4>1
    <3> QED BY <1>7, <3>1 DEF UpTo
  <2>2. p \notin UpTo(places, p - 1)
    BY <1>5 DEF UpTo
  <2>3. Cardinality(UpTo(places, p)) = Cardinality(UpTo(places, p - 1)) + 1
    BY <2>1, <2>2, UpToFinite, FS_AddElement
  <2>4. Cardinality(UpTo(places, p - 1)) \in Nat
    BY UpToFinite
  <2> QED BY <1>1, <1>5, <1>6, <2>3, <2>4
<1>9. Nth(places, k) = CHOOSE q \in places : Cardinality(UpTo(places, q)) = k
  BY DEF Nth, UpTo
<1> QED BY <1>7, <1>8, <1>9

LEMMA NthOnly ==
  ASSUME NEW n \in Nat, NEW places \in SUBSET (1..n), NEW p \in places, NEW q \in places,
         Cardinality(UpTo(places, p)) = Cardinality(UpTo(places, q))
  PROVE  p = q
<1>1. ASSUME NEW a \in places, NEW b \in places, a < b
      PROVE  Cardinality(UpTo(places, a)) # Cardinality(UpTo(places, b))
  <2>1. UpTo(places, a) \in SUBSET UpTo(places, b)
    <3>1. ASSUME NEW r \in places, r <= a PROVE r <= b
      <4>1. r \in 1..n /\ a \in 1..n /\ b \in 1..n
        OBVIOUS
      <4> QED BY <1>1, <3>1, <4>1
    <3> QED BY <3>1 DEF UpTo
  <2>2. b \in UpTo(places, b) /\ b \notin UpTo(places, a)
    <3>1. a \in Int /\ b \in Int
      OBVIOUS
    <3> QED BY <1>1, <3>1 DEF UpTo
  <2>3. IsFiniteSet(UpTo(places, b))
    BY UpToFinite
  <2> QED BY <2>1, <2>2, <2>3, FS_Subset
<1>2. p \in Int /\ q \in Int
  OBVIOUS
<1>3. ~(p < q) /\ ~(q < p)
  BY <1>1
<1> QED BY <1>2, <1>3

\* Every place is the k-th for some k.
LEMMA NthOnto ==
  ASSUME NEW n \in Nat, NEW places \in SUBSET (1..n), NEW p \in places
  PROVE  \E k \in 1..Cardinality(places) : Nth(places, k) = p
<1>1. PICK k : k = Cardinality(UpTo(places, p))
  OBVIOUS
<1>2. k \in Nat /\ k <= Cardinality(places) /\ Cardinality(places) \in Nat
  BY <1>1, UpToFinite
<1>3. k # 0
  <2>1. p \in UpTo(places, p)
    <3>1. p \in Int
      OBVIOUS
    <3> QED BY <3>1 DEF UpTo
  <2>2. IsFiniteSet(UpTo(places, p))
    BY UpToFinite
  <2> QED BY <1>1, <2>1, <2>2, FS_EmptySet
<1>4. k \in 1..Cardinality(places)
  BY <1>2, <1>3
<1>5. Nth(places, k) \in places /\ Cardinality(UpTo(places, Nth(places, k))) = k
  BY <1>4, NthPlace
<1>6. Nth(places, k) = p
  BY <1>1, <1>5, NthOnly
<1> QED BY <1>4, <1>6

\* The places of one set that go to those of another, in the same order.
Matches(g, from, to) ==
  /\ \E n, m \in Nat : from \in SUBSET (1..n) /\ to \in SUBSET (1..m)
  /\ g \in [from -> to]
  /\ \A q \in to : \E p \in from : g[p] = q
  /\ \A p, q \in from : p < q => g[p] < g[q]

LEMMA SameRank ==
  ASSUME NEW from, NEW to, NEW g, Matches(g, from, to), NEW p \in from
  PROVE  Cardinality(UpTo(to, g[p])) = Cardinality(UpTo(from, p))
<1>0. PICK n \in Nat, m \in Nat : from \in SUBSET (1..n) /\ to \in SUBSET (1..m)
  BY DEF Matches
<1>9. from \subseteq Int /\ to \subseteq Int
  BY <1>0
<1>1. PICK h : h = [q \in UpTo(from, p) |-> g[q]]
  OBVIOUS
<1>2. ASSUME NEW q \in from PROVE q \in UpTo(from, p) <=> g[q] \in UpTo(to, g[p])
  <2>1. q \in Int /\ p \in Int /\ g[q] \in to /\ g[p] \in to
    BY <1>9 DEF Matches
  <2>2. g[q] \in Int /\ g[p] \in Int
    BY <1>9, <2>1
  <2>3. (p < q => g[p] < g[q]) /\ (q < p => g[q] < g[p])
    BY DEF Matches
  <2> QED BY <2>1, <2>2, <2>3 DEF UpTo
<1>3. UpTo(from, p) \subseteq from /\ UpTo(to, g[p]) \subseteq to
  BY DEF UpTo
<1>4. h \in [UpTo(from, p) -> UpTo(to, g[p])]
  BY <1>1, <1>2, <1>3
<1>5. \A a, b \in UpTo(from, p) : h[a] = h[b] => a = b
  <2>1. ASSUME NEW a \in UpTo(from, p), NEW b \in UpTo(from, p), h[a] = h[b], a # b PROVE FALSE
    <3>1. a \in from /\ b \in from /\ g[a] = g[b]
      BY <1>1, <1>3, <2>1
    <3>2. a \in Int /\ b \in Int /\ g[a] \in to
      BY <1>9, <3>1 DEF Matches
    <3>3. a < b \/ b < a
      BY <2>1, <3>2
    <3>4. g[a] < g[b] \/ g[b] < g[a]
      BY <3>1, <3>3 DEF Matches
    <3>5. g[a] \in Int
      BY <1>9, <3>2
    <3> QED BY <3>1, <3>4, <3>5
  <2> QED BY <2>1
<1>6. \A r \in UpTo(to, g[p]) : \E q \in UpTo(from, p) : h[q] = r
  <2>1. ASSUME NEW r \in UpTo(to, g[p]) PROVE \E q \in UpTo(from, p) : h[q] = r
    <3>1. PICK q \in from : g[q] = r
      BY <1>3 DEF Matches
    <3>2. q \in UpTo(from, p)
      BY <1>2, <3>1
    <3> QED BY <1>1, <3>1, <3>2
  <2> QED BY <2>1
<1>7. ExistsBijection(UpTo(from, p), UpTo(to, g[p]))
  BY <1>4, <1>5, <1>6 DEF ExistsBijection, Bijection, Injection, Surjection, IsInjective
<1>8. IsFiniteSet(UpTo(from, p))
  BY <1>0, UpToFinite
<1> QED BY <1>7, <1>8, FS_Bijection

LEMMA SameCount ==
  ASSUME NEW from, NEW to, NEW g, Matches(g, from, to)
  PROVE  Cardinality(to) = Cardinality(from)
<1>0. PICK n \in Nat, m \in Nat : from \in SUBSET (1..n) /\ to \in SUBSET (1..m)
  BY DEF Matches
<1>9. from \subseteq Int /\ to \subseteq Int
  BY <1>0
<1>1. \A a, b \in from : g[a] = g[b] => a = b
  <2>1. ASSUME NEW a \in from, NEW b \in from, g[a] = g[b], a # b PROVE FALSE
    <3>1. a \in Int /\ b \in Int /\ g[a] \in to
      BY <1>9 DEF Matches
    <3>2. a < b \/ b < a
      BY <2>1, <3>1
    <3>3. g[a] < g[b] \/ g[b] < g[a]
      BY <3>2 DEF Matches
    <3>4. g[a] \in Int
      BY <1>9, <3>1
    <3> QED BY <2>1, <3>3, <3>4
  <2> QED BY <2>1
<1>2. ExistsBijection(from, to)
  BY <1>1 DEF Matches, ExistsBijection, Bijection, Injection, Surjection, IsInjective
<1>3. IsFiniteSet(from)
  BY <1>0, UpToFinite
<1> QED BY <1>2, <1>3, FS_Bijection

LEMMA SameOrder ==
  ASSUME NEW from, NEW to, NEW g, Matches(g, from, to)
  PROVE  /\ Cardinality(to) = Cardinality(from)
         /\ \A k \in 1..Cardinality(from) : Nth(from, k) \in from /\ Nth(to, k) = g[Nth(from, k)]
<1>0. PICK n \in Nat, m \in Nat : from \in SUBSET (1..n) /\ to \in SUBSET (1..m)
  BY DEF Matches
<1>1. Cardinality(to) = Cardinality(from)
  BY SameCount
<1>3. \A p \in from : Cardinality(UpTo(to, g[p])) = Cardinality(UpTo(from, p))
  <2>1. ASSUME NEW p \in from PROVE Cardinality(UpTo(to, g[p])) = Cardinality(UpTo(from, p))
    BY SameRank
  <2> QED BY <2>1
<1>2. ASSUME NEW k \in 1..Cardinality(from)
      PROVE  Nth(from, k) \in from /\ Nth(to, k) = g[Nth(from, k)]
  <2>1. PICK p : p = Nth(from, k)
    OBVIOUS
  <2>2. p \in from /\ Cardinality(UpTo(from, p)) = k
    BY <1>0, <2>1, NthPlace
  <2>3. Cardinality(UpTo(to, g[p])) = k /\ g[p] \in to
    <3>1. Cardinality(UpTo(to, g[p])) = Cardinality(UpTo(from, p))
      BY <1>3, <2>2
    <3> QED BY <2>2, <3>1 DEF Matches
  <2>4. PICK q : q = Nth(to, k)
    OBVIOUS
  <2>5. q \in to /\ Cardinality(UpTo(to, q)) = k
    <3>1. k \in 1..Cardinality(to)
      BY <1>1
    <3> QED BY <1>0, <2>4, <3>1, NthPlace
  <2>6. q = g[p]
    BY <1>0, <2>3, <2>5, NthOnly
  <2> QED BY <2>1, <2>2, <2>4, <2>6
<1> QED BY <1>1, <1>2

-----------------------------------------------------------------------------
(* Outputs and the answers they become                                      *)

\* What a provider generates.
ProviderItems == [kind : ItemKinds, pieces : Nat]

\* An item of a response.
Outputs == [kind : ItemKinds, id : Nat, call : Nat, pieces : Seq(Nat)]

CallPlaces(output) == {i \in DOMAIN output : output[i].kind = "call"}
TextPlaces(output) == {i \in DOMAIN output : output[i].kind = "text" /\ output[i].pieces # <<>>}
CallsIn(output) ==
  [k \in 1..Cardinality(CallPlaces(output)) |->
     CallOf(output[Nth(CallPlaces(output), k)].call, output[Nth(CallPlaces(output), k)].pieces)]
TextIn(output, otherwise) ==
  IF TextPlaces(output) = {} THEN otherwise ELSE output[Nth(TextPlaces(output), 1)].pieces

LEMMA PickedDomain ==
  ASSUME NEW seq, NEW places
  PROVE  /\ DOMAIN Picked(seq, places) = 1..Cardinality(places)
         /\ \A k \in 1..Cardinality(places) : Picked(seq, places)[k] = seq[Nth(places, k)]
BY DEF Picked

LEMMA CallsPicked ==
  ASSUME NEW output, NEW asked, asked = Picked(output, CallPlaces(output))
  PROVE  [k \in DOMAIN asked |-> CallOf(asked[k].call, asked[k].pieces)] = CallsIn(output)
<1>1. DOMAIN asked = 1..Cardinality(CallPlaces(output))
  BY PickedDomain
<1>2. ASSUME NEW k \in 1..Cardinality(CallPlaces(output))
      PROVE  asked[k] = output[Nth(CallPlaces(output), k)]
  BY PickedDomain
<1> QED BY <1>1, <1>2 DEF CallsIn

LEMMA NormalizedParts ==
  ASSUME NEW output, NEW text
  PROVE  /\ Normalized(output, text).calls = CallsIn(output)
         /\ Normalized(output, text).text = TextIn(output, text)
<1> DEFINE kept == {i \in DOMAIN output : output[i].kind = "call" \/ output[i].pieces # <<>>}
           texts == {i \in kept : output[i].kind = "text"}
           asked == Picked(output, {i \in kept : output[i].kind = "call"})
<1>1. {i \in kept : output[i].kind = "call"} = CallPlaces(output)
  BY DEF CallPlaces
<1>2. texts = TextPlaces(output)
  BY DEF TextPlaces
<1>3. [k \in DOMAIN asked |-> CallOf(asked[k].call, asked[k].pieces)] = CallsIn(output)
  BY <1>1, CallsPicked
<1>4. /\ Normalized(output, text).calls = [k \in DOMAIN asked |-> CallOf(asked[k].call, asked[k].pieces)]
      /\ Normalized(output, text).text =
           IF texts # {} THEN output[Nth(texts, 1)].pieces ELSE text
  BY DEF Normalized, AnswerOf
<1> HIDE DEF kept, texts, asked
<1>5. Normalized(output, text).text = TextIn(output, text)
  BY <1>2, <1>4 DEF TextIn
<1> QED BY <1>3, <1>4, <1>5

LEMMA GeneratedParts ==
  /\ Generated.calls = CallsIn(WholeOutput)
  /\ Generated.text = TextIn(WholeOutput, <<>>)
<1> DEFINE asked == Picked(WholeOutput, {i \in DOMAIN WholeOutput : WholeOutput[i].kind = "call"})
<1>1. {i \in DOMAIN WholeOutput : WholeOutput[i].kind = "call"} = CallPlaces(WholeOutput)
  BY DEF CallPlaces
<1>2. [k \in DOMAIN asked |-> CallOf(asked[k].call, asked[k].pieces)] = CallsIn(WholeOutput)
  BY <1>1, CallsPicked
<1>3. Generated.calls = [k \in DOMAIN asked |-> CallOf(asked[k].call, asked[k].pieces)]
  BY DEF Generated
<1>4. Generated.text = TextIn(WholeOutput, <<>>)
  BY DEF Generated, TextIn, TextPlaces
<1> QED BY <1>2, <1>3, <1>4

LEMMA PlacesOfOutput ==
  ASSUME NEW output \in Seq(Outputs)
  PROVE  \E n \in Nat : /\ DOMAIN output = 1..n /\ CallPlaces(output) \in SUBSET (1..n)
                        /\ TextPlaces(output) \in SUBSET (1..n)
                        /\ \A i \in 1..n : output[i] \in Outputs
<1>1. PICK n \in Nat : n = Len(output) /\ DOMAIN output = 1..n
  BY LenProperties
<1>2. \A i \in 1..n : output[i] \in Outputs
  BY <1>1, ElementOfSeq
<1> QED BY <1>1, <1>2 DEF CallPlaces, TextPlaces

\* Outputs with the same calls in the same order.
LEMMA SameCalls ==
  ASSUME NEW a, NEW b, NEW g, Matches(g, CallPlaces(a), CallPlaces(b)),
         \A p \in CallPlaces(a) : a[p].call = b[g[p]].call /\ a[p].pieces = b[g[p]].pieces
  PROVE  CallsIn(a) = CallsIn(b)
<1>1. /\ Cardinality(CallPlaces(b)) = Cardinality(CallPlaces(a))
      /\ \A k \in 1..Cardinality(CallPlaces(a)) :
           /\ Nth(CallPlaces(a), k) \in CallPlaces(a)
           /\ Nth(CallPlaces(b), k) = g[Nth(CallPlaces(a), k)]
  BY SameOrder
<1>2. ASSUME NEW k \in 1..Cardinality(CallPlaces(a))
      PROVE  CallOf(a[Nth(CallPlaces(a), k)].call, a[Nth(CallPlaces(a), k)].pieces)
             = CallOf(b[Nth(CallPlaces(b), k)].call, b[Nth(CallPlaces(b), k)].pieces)
  BY <1>1
<1> QED BY <1>1, <1>2 DEF CallsIn

\* What a turn replays: its calls, with their ids.
LEMMA NormalizedItems ==
  ASSUME NEW output \in Seq(Outputs), NEW text
  PROVE  /\ Normalized(output, text).items \in Seq(ReplayItems)
         /\ ItemsMatch(Normalized(output, text).calls, Normalized(output, text).items)
<1>0. PICK n \in Nat : /\ DOMAIN output = 1..n /\ CallPlaces(output) \in SUBSET (1..n)
                       /\ \A i \in 1..n : output[i] \in Outputs
  BY PlacesOfOutput
<1>1. PICK kept : kept = {i \in DOMAIN output : output[i].kind = "call" \/ output[i].pieces # <<>>}
  OBVIOUS
<1>2. kept \in SUBSET (1..n) /\ CallPlaces(output) \subseteq kept
  BY <1>0, <1>1 DEF CallPlaces
<1>3. PICK c \in Nat : c = Cardinality(kept)
  BY <1>2, UpToFinite
<1>4. PICK items : items = [k \in 1..c |->
         [kind |-> output[Nth(kept, k)].kind,
          id |-> IF output[Nth(kept, k)].kind = "call" THEN output[Nth(kept, k)].call ELSE 0]]
  OBVIOUS
<1>5. Normalized(output, text).items \in {items, Append(items, [kind |-> "text", id |-> 0])}
  <2> DEFINE replayed == Picked(output, kept)
             texts == {i \in kept : output[i].kind = "text"}
             its == [k \in DOMAIN replayed |->
                       [kind |-> replayed[k].kind,
                        id |-> IF replayed[k].kind = "call" THEN CallId(replayed[k]) ELSE 0]]
  <2>1. its = items
    BY <1>3, <1>4, PickedDomain DEF CallId
  <2>2. Normalized(output, text).items =
          IF texts = {} /\ text # <<>> THEN Append(its, [kind |-> "text", id |-> 0]) ELSE its
    BY <1>1 DEF Normalized, AnswerOf
  <2> HIDE DEF replayed, texts, its
  <2> QED BY <2>1, <2>2
<1>6. ASSUME NEW k \in 1..c
      PROVE  /\ Nth(kept, k) \in 1..n /\ items[k] \in ReplayItems
             /\ items[k].kind = output[Nth(kept, k)].kind
             /\ items[k].kind = "call" => items[k].id = output[Nth(kept, k)].call
  <2>1. PICK p : p = Nth(kept, k)
    OBVIOUS
  <2>2. p \in 1..n
    BY <1>2, <1>3, <2>1, NthPlace
  <2>3. output[p].kind \in ItemKinds /\ output[p].call \in Nat
    BY <1>0, <2>2 DEF Outputs
  <2>4. items[k] = [kind |-> output[p].kind,
                    id |-> IF output[p].kind = "call" THEN output[p].call ELSE 0]
    BY <1>4, <2>1
  <2> QED BY <2>1, <2>2, <2>3, <2>4 DEF ReplayItems
<1>7. items \in Seq(ReplayItems) /\ Len(items) = c /\ DOMAIN items = 1..c
  <2>1. items \in [1..c -> ReplayItems]
    BY <1>4, <1>6
  <2>2. items \in Seq(ReplayItems) /\ DOMAIN items = 1..c
    BY <2>1
  <2> QED BY <2>2, LenProperties
<1>8. PICK asked : asked = CallsIn(output)
  OBVIOUS
<1>9. ASSUME NEW k \in 1..c, items[k].kind = "call"
      PROVE  \E d \in DOMAIN asked : items[k].id = asked[d].id
  <2>1. PICK p : p = Nth(kept, k)
    OBVIOUS
  <2>2. p \in CallPlaces(output) /\ items[k].id = output[p].call
    BY <1>0, <1>6, <1>9, <2>1 DEF CallPlaces
  <2>3. PICK d \in 1..Cardinality(CallPlaces(output)) : Nth(CallPlaces(output), d) = p
    BY <1>0, <2>2, NthOnto
  <2>4. d \in DOMAIN asked /\ asked[d].id = output[p].call
    BY <1>8, <2>3 DEF CallsIn, CallOf
  <2> QED BY <2>2, <2>4
<1>10. ASSUME NEW d \in DOMAIN asked
       PROVE  \E k \in 1..c : items[k].kind = "call" /\ items[k].id = asked[d].id
  <2>1. PICK p : p = Nth(CallPlaces(output), d)
    OBVIOUS
  <2>2. d \in 1..Cardinality(CallPlaces(output)) /\ asked[d].id = output[p].call
    BY <1>8, <2>1 DEF CallsIn, CallOf
  <2>3. p \in CallPlaces(output)
    BY <1>0, <2>1, <2>2, NthPlace
  <2>4. PICK k \in 1..c : Nth(kept, k) = p
    BY <1>2, <1>3, <2>3, NthOnto
  <2>5. output[p].kind = "call"
    BY <2>3 DEF CallPlaces
  <2> QED BY <1>6, <2>2, <2>4, <2>5
<1>11. Normalized(output, text).calls = asked
  BY <1>8, NormalizedParts
<1>12. CASE Normalized(output, text).items = items
  <2>1. ItemsMatch(asked, items)
    BY <1>7, <1>9, <1>10 DEF ItemsMatch
  <2> QED BY <1>7, <1>11, <1>12, <2>1
<1>13. CASE Normalized(output, text).items = Append(items, [kind |-> "text", id |-> 0])
  <2>1. PICK e \in ReplayItems : e = [kind |-> "text", id |-> 0]
    BY DEF ReplayItems, ItemKinds
  <2>2. PICK more : more = Append(items, e)
    OBVIOUS
  <2>3. /\ more \in Seq(ReplayItems) /\ Len(more) = c + 1
        /\ \A i \in 1..c : more[i] = items[i]
        /\ more[c + 1] = e
    BY <1>7, <2>2, AppendProperties
  <2>4. DOMAIN more = 1..c + 1
    BY <2>3, LenProperties
  <2>5. ASSUME NEW k \in DOMAIN more, more[k].kind = "call"
        PROVE  \E d \in DOMAIN asked : more[k].id = asked[d].id
    <3>1. k # c + 1
      BY <2>1, <2>3, <2>5
    <3>2. k \in 1..c
      BY <2>4, <3>1
    <3> QED BY <1>9, <2>3, <2>5, <3>2
  <2>6. ASSUME NEW d \in DOMAIN asked
        PROVE  \E k \in DOMAIN more : more[k].kind = "call" /\ more[k].id = asked[d].id
    <3>1. PICK k \in 1..c : items[k].kind = "call" /\ items[k].id = asked[d].id
      BY <1>10
    <3> QED BY <2>3, <2>4, <3>1
  <2>7. ItemsMatch(asked, more)
    BY <2>5, <2>6 DEF ItemsMatch
  <2> QED BY <1>11, <1>13, <2>1, <2>2, <2>3, <2>7
<1> QED BY <1>5, <1>12, <1>13

-----------------------------------------------------------------------------
(* What is being generated                                                  *)

Slots == [named : BOOLEAN, id : Nat, pieces : Seq(Nat)]
Accums == [text : Seq(Nat), slots : Seq(Slots), items : Seq(Outputs), reasoned : BOOLEAN]

ProviderTyped ==
  /\ phase \in {"idle", "sent", "streaming", "body"} /\ wire \in WireApis
  /\ stream \in BOOLEAN /\ posts \in Nat
  /\ made.items \in Seq(ProviderItems) /\ Len(made.items) <= MaxItems /\ made.how \in Manners
  /\ progress \in [DOMAIN made.items -> Nat]
  /\ accum \in Accums

\* An item of the response, complete.
Full(i) == Output(i, Pieces(Item(i).pieces))

LEMMA MadeItems ==
  ASSUME ProviderTyped
  PROVE  \E n \in Nat :
           /\ n <= MaxItems /\ DOMAIN made.items = 1..n /\ DOMAIN progress = 1..n
           /\ \A i \in 1..n : /\ Item(i) \in ProviderItems /\ Item(i).kind \in ItemKinds
                              /\ Item(i).pieces \in Nat /\ progress[i] \in Nat
<1>1. PICK n \in Nat : n = Len(made.items) /\ DOMAIN made.items = 1..n /\ n <= MaxItems
  BY LenProperties DEF ProviderTyped
<1>2. ASSUME NEW i \in 1..n
      PROVE  /\ Item(i) \in ProviderItems /\ Item(i).kind \in ItemKinds
             /\ Item(i).pieces \in Nat /\ progress[i] \in Nat
  <2>1. made.items[i] \in ProviderItems
    BY <1>1, ElementOfSeq DEF ProviderTyped
  <2> QED BY <1>1, <2>1 DEF ProviderTyped, Item, ProviderItems
<1> QED BY <1>1, <1>2 DEF ProviderTyped

LEMMA PiecesInOrder ==
  ASSUME NEW n \in Nat
  PROVE  /\ Pieces(n) \in Seq(Nat) /\ Len(Pieces(n)) = n /\ (Pieces(n) = <<>> <=> n = 0)
         /\ Append(Pieces(n), n + 1) = Pieces(n + 1)
<1>1. ASSUME NEW m \in Nat PROVE Pieces(m) \in Seq(Nat) /\ Len(Pieces(m)) = m
  <2>1. Pieces(m) \in [1..m -> Nat]
    BY DEF Pieces
  <2>2. Pieces(m) \in Seq(Nat) /\ DOMAIN Pieces(m) = 1..m
    BY <2>1
  <2> QED BY <2>2, LenProperties
<1>2. Pieces(n) = <<>> <=> n = 0
  <2>1. n = 0 => Pieces(n) = <<>>
    BY DEF Pieces
  <2>2. Pieces(n) = <<>> => n = 0
    BY <1>1, EmptySeq
  <2> QED BY <2>1, <2>2
<1>3. Append(Pieces(n), n + 1) = Pieces(n + 1)
  <2>1. PICK t : t = Append(Pieces(n), n + 1)
    OBVIOUS
  <2>2. n + 1 \in Nat
    OBVIOUS
  <2>3. /\ t \in Seq(Nat) /\ Len(t) = n + 1 /\ \A i \in 1..n : t[i] = Pieces(n)[i]
        /\ t[n + 1] = n + 1
    <3>1. PICK p \in Seq(Nat) : p = Pieces(n) /\ Len(p) = n
      BY <1>1
    <3>2. t = Append(p, n + 1)
      BY <2>1, <3>1
    <3>3. /\ t \in Seq(Nat) /\ Len(t) = Len(p) + 1 /\ \A i \in 1..Len(p) : t[i] = p[i]
          /\ t[Len(p) + 1] = n + 1
      BY <2>2, <3>2, AppendProperties
    <3> QED BY <3>1, <3>3
  <2>4. ASSUME NEW i \in 1..n + 1 PROVE t[i] = Pieces(n + 1)[i]
    <3>1. Pieces(n + 1)[i] = i
      BY DEF Pieces
    <3>2. CASE i = n + 1
      BY <2>3, <3>1, <3>2
    <3>3. CASE i # n + 1
      <4>1. i \in 1..n
        BY <3>3
      <4>2. Pieces(n)[i] = i
        BY <4>1 DEF Pieces
      <4> QED BY <2>3, <3>1, <4>1, <4>2
    <3> QED BY <3>2, <3>3
  <2>5. Pieces(n + 1) \in Seq(Nat) /\ Len(Pieces(n + 1)) = n + 1
    BY <1>1, <2>2
  <2> QED BY <2>1, <2>3, <2>4, <2>5, SeqEqual
<1> QED BY <1>1, <1>2, <1>3

\* The ids of the items of a request come after these.
IdBase(p) == (MaxItems + 1) * p

LEMMA IdBases ==
  /\ MaxItems \in Nat /\ IdBase(0) = 0
  /\ \A p \in Nat : IdBase(p) \in Nat /\ IdBase(p + 1) = IdBase(p) + MaxItems + 1
<1>1. MaxItems \in Nat
  BY ProviderBoundsAssumption
<1>2. PICK n \in Nat : n = MaxItems + 1
  BY <1>1
<1>3. \A p \in Nat : n * p \in Nat /\ n * (p + 1) = n * p + n
  OBVIOUS
<1> QED BY <1>1, <1>2, <1>3 DEF IdBase

LEMMA IdsOfItems ==
  ASSUME posts \in Nat
  PROVE  \A i \in 1..MaxItems : /\ IdOf(i) = IdBase(posts) + i /\ IdOf(i) \in Nat /\ IdOf(i) # 0
                         /\ IdOf(i) \in IdBase(posts) + 1..IdBase(posts) + MaxItems
                         /\ \A j \in 1..MaxItems : IdOf(i) = IdOf(j) => i = j
BY IdBases DEF IdOf, IdBase

LEMMA OutputFields ==
  /\ \A i, pieces :
       /\ Output(i, pieces).kind = Item(i).kind /\ Output(i, pieces).pieces = pieces
       /\ Output(i, pieces).id = IF made.how.named THEN i ELSE 0
       /\ Output(i, pieces).call = IF Item(i).kind = "call" THEN IdOf(i) ELSE 0
BY DEF Output

LEMMA OutputTyped ==
  ASSUME ProviderTyped, NEW i \in DOMAIN made.items, NEW pieces \in Seq(Nat)
  PROVE  Output(i, pieces) \in Outputs
<1>1. PICK n \in Nat : n <= MaxItems /\ DOMAIN made.items = 1..n /\ Item(i).kind \in ItemKinds
  BY MadeItems
<1>2. i \in 1..n
  BY <1>1
<1>3. i \in 1..MaxItems /\ i \in Nat
  <2>1. PICK j \in 1..n : j = i
    BY <1>2
  <2>2. j \in 1..MaxItems /\ j \in Nat
    BY <1>1, IdBases
  <2> QED BY <2>1, <2>2
<1>4. IdOf(i) \in Nat
  BY <1>3, IdsOfItems DEF ProviderTyped
<1> QED BY <1>1, <1>3, <1>4 DEF Output, Outputs

LEMMA WholeOutputItems ==
  ASSUME ProviderTyped
  PROVE  /\ WholeOutput \in Seq(Outputs) /\ DOMAIN WholeOutput = DOMAIN made.items
         /\ \A i \in DOMAIN made.items : WholeOutput[i] = Full(i) /\ Full(i) \in Outputs
<1>1. PICK n \in Nat : DOMAIN made.items = 1..n /\ \A i \in 1..n : Item(i).pieces \in Nat
  BY MadeItems
<1>2. WholeOutput = [i \in 1..n |-> Full(i)]
  BY <1>1 DEF WholeOutput, Full
<1>3. ASSUME NEW i \in 1..n PROVE Full(i) \in Outputs
  BY <1>1, PiecesInOrder, OutputTyped DEF Full
<1>4. WholeOutput \in [1..n -> Outputs]
  BY <1>2, <1>3
<1>5. WholeOutput \in Seq(Outputs)
  BY <1>4
<1> QED BY <1>1, <1>2, <1>3, <1>5

\* The ids of the calls of a generation are new, and differ.
FreshCalls(asked) ==
  /\ \E n \in Nat : DOMAIN asked = 1..n
  /\ \A c \in DOMAIN asked : asked[c].id \in IdBase(posts) + 1..IdBase(posts) + MaxItems
  /\ \A c, d \in DOMAIN asked : asked[c].id = asked[d].id => c = d

LEMMA GeneratedIsFresh == ProviderTyped => FreshCalls(Generated.calls)
<1> SUFFICES ASSUME ProviderTyped PROVE FreshCalls(Generated.calls)
  OBVIOUS
<1>1. PICK n \in Nat : n <= MaxItems /\ DOMAIN made.items = 1..n
  BY MadeItems
<1>2. PICK places : places = CallPlaces(WholeOutput)
  OBVIOUS
<1>3. places \in SUBSET (1..n) /\ \A p \in places : WholeOutput[p].kind = "call"
  BY <1>1, <1>2, WholeOutputItems DEF CallPlaces
<1>4. PICK m \in Nat : m = Cardinality(places)
  BY <1>3, UpToFinite
<1>5. PICK asked : asked = Generated.calls
  OBVIOUS
<1>6. ASSUME NEW c \in 1..m
      PROVE  /\ Nth(places, c) \in places
             /\ Cardinality(UpTo(places, Nth(places, c))) = c
             /\ asked[c].id = IdOf(Nth(places, c)) /\ Nth(places, c) \in 1..MaxItems
  <2>1. PICK p : p = Nth(places, c)
    OBVIOUS
  <2>2. p \in places /\ Cardinality(UpTo(places, p)) = c
    BY <1>3, <1>4, <2>1, NthPlace
  <2>3. asked[c].id = WholeOutput[p].call
    BY <1>2, <1>4, <1>5, <2>1, GeneratedParts DEF CallsIn, CallOf
  <2>4. p \in 1..n /\ p \in 1..MaxItems
    BY <1>1, <1>3, <2>2, IdBases
  <2>5. WholeOutput[p] = Full(p) /\ WholeOutput[p].kind = "call"
    BY <1>1, <1>3, <2>2, <2>4, WholeOutputItems
  <2>6. WholeOutput[p].call = IdOf(p)
    BY <2>5, OutputFields DEF Full
  <2> QED BY <2>1, <2>2, <2>3, <2>4, <2>6
<1>7. DOMAIN asked = 1..m
  BY <1>2, <1>4, <1>5, GeneratedParts DEF CallsIn
<1>8. ASSUME NEW c \in 1..m PROVE asked[c].id \in IdBase(posts) + 1..IdBase(posts) + MaxItems
  BY <1>6, IdsOfItems DEF ProviderTyped
<1>9. ASSUME NEW c \in 1..m, NEW d \in 1..m, asked[c].id = asked[d].id PROVE c = d
  <2>1. Nth(places, c) = Nth(places, d)
    <3>1. PICK p \in 1..MaxItems : p = Nth(places, c)
      BY <1>6
    <3>2. PICK q \in 1..MaxItems : q = Nth(places, d)
      BY <1>6
    <3>3. IdOf(p) = IdOf(q)
      BY <1>6, <1>9, <3>1, <3>2
    <3> QED BY <3>1, <3>2, <3>3, IdsOfItems DEF ProviderTyped
  <2> QED BY <1>6, <2>1
<1> QED BY <1>5, <1>7, <1>8, <1>9 DEF FreshCalls

-----------------------------------------------------------------------------
(* Histories that grow                                                      *)

LEMMA MessagesSaid ==
  /\ \A role \in Roles : \A text \in {"none", "blank", "some", "image"} :
       ChatMessage(role, text) \in WireMessages
  /\ \A role, text :
       /\ ChatMessage(role, text).role = role /\ ChatMessage(role, text).text = text
       /\ ChatMessage(role, text).calls = <<>> /\ ChatMessage(role, text).items = <<>>
  /\ \A text \in {"blank", "some"} : \A id \in Nat :
       /\ ResultTurn(id, text) \in WireMessages
       /\ ResultTurn(id, text).role = "tool" /\ ResultTurn(id, text).text = text
       /\ ResultTurn(id, text).calls = <<>> /\ ResultTurn(id, text).items = <<>>
       /\ ResultTurn(id, text).result = id
<1>1. <<>> \in Seq(WireCalls) /\ <<>> \in Seq(ReplayItems)
  OBVIOUS
<1> QED BY <1>1 DEF ChatMessage, ResultTurn, WireMessages, Roles

\* A message without calls that is no result.
LEMMA SaidIsSound ==
  ASSUME NEW seq, HistorySound(seq), NEW m \in WireMessages, m.role # "tool",
         m.calls = <<>>, m.items = <<>>, NEW bound, IdsUpTo(seq, bound)
  PROVE  HistorySound(Append(seq, m)) /\ IdsUpTo(Append(seq, m), bound)
<1>1. PICK u : u = Append(seq, m)
  OBVIOUS
<1>2. PICK l \in Nat : l = Len(seq) /\ DOMAIN seq = 1..l
  BY LenProperties DEF HistorySound
<1>3. /\ u \in Seq(WireMessages) /\ Len(u) = l + 1 /\ \A i \in 1..l : u[i] = seq[i]
      /\ u[l + 1] = m
  BY <1>1, <1>2, AppendProperties DEF HistorySound
<1>4. DOMAIN u = 1..l + 1
  BY <1>3, LenProperties
<1>5. ASSUME NEW i \in 1..l + 1
      PROVE  (i \in 1..l /\ u[i] = seq[i]) \/ (i = l + 1 /\ u[i] = m)
  <2>1. i \in 1..l \/ i = l + 1
    OBVIOUS
  <2> QED BY <1>3, <2>1
<1>6. DOMAIN m.calls = {} /\ DOMAIN m.items = {} /\ MessageSound(m)
  BY DEF MessageSound, ItemsMatch
<1>7. \A i \in DOMAIN u : MessageSound(u[i])
  BY <1>2, <1>4, <1>5, <1>6 DEF HistorySound
<1>8. ASSUME NEW i \in DOMAIN u, NEW c \in DOMAIN u[i].calls
      PROVE  i \in DOMAIN seq /\ u[i] = seq[i] /\ c \in DOMAIN seq[i].calls
  BY <1>2, <1>4, <1>5, <1>6
<1>9. ASSUME NEW i \in DOMAIN u, NEW c \in DOMAIN u[i].calls
      PROVE  /\ i + c \in DOMAIN u /\ u[i + c].role = "tool"
             /\ u[i + c].result = u[i].calls[c].id
  <2>1. i \in DOMAIN seq /\ u[i] = seq[i] /\ c \in DOMAIN seq[i].calls
    BY <1>8
  <2>2. /\ i + c \in DOMAIN seq /\ seq[i + c].role = "tool"
        /\ seq[i + c].result = seq[i].calls[c].id
    BY <2>1 DEF HistorySound, TurnsAnswered
  <2>3. i + c \in DOMAIN u /\ u[i + c] = seq[i + c]
    BY <1>2, <1>3, <1>4, <2>2
  <2> QED BY <2>1, <2>2, <2>3
<1>10. ASSUME NEW j \in DOMAIN u, u[j].role = "tool"
       PROVE  \E i \in DOMAIN u : i < j /\ j - i \in DOMAIN u[i].calls
  <2>1. j \in DOMAIN seq /\ seq[j].role = "tool"
    BY <1>2, <1>4, <1>5, <1>10
  <2>2. PICK i \in DOMAIN seq : i < j /\ j - i \in DOMAIN seq[i].calls
    BY <2>1 DEF HistorySound, TurnsAnswered
  <2>3. i \in DOMAIN u /\ u[i] = seq[i]
    BY <1>2, <1>3, <1>4
  <2> QED BY <2>2, <2>3
<1>11. TurnsAnswered(u)
  BY <1>9, <1>10 DEF TurnsAnswered
<1>12. IdsDiffer(u)
  <2>1. ASSUME NEW i \in DOMAIN u, NEW j \in DOMAIN u, NEW c \in DOMAIN u[i].calls,
               NEW d \in DOMAIN u[j].calls, u[i].calls[c].id = u[j].calls[d].id
        PROVE  i = j /\ c = d
    <3>1. i \in DOMAIN seq /\ u[i] = seq[i] /\ c \in DOMAIN seq[i].calls
      BY <1>8
    <3>2. j \in DOMAIN seq /\ u[j] = seq[j] /\ d \in DOMAIN seq[j].calls
      BY <1>8
    <3> QED BY <2>1, <3>1, <3>2 DEF HistorySound, IdsDiffer
  <2> QED BY <2>1 DEF IdsDiffer
<1>13. IdsUpTo(u, bound)
  <2>1. ASSUME NEW i \in DOMAIN u, NEW c \in DOMAIN u[i].calls
        PROVE  u[i].calls[c].id \in 1..bound
    <3>1. i \in DOMAIN seq /\ u[i] = seq[i] /\ c \in DOMAIN seq[i].calls
      BY <1>8
    <3> QED BY <3>1 DEF IdsUpTo
  <2> QED BY <2>1 DEF IdsUpTo
<1> QED BY <1>1, <1>3, <1>7, <1>11, <1>12, <1>13 DEF HistorySound

\* A turn with these calls, and their results.
TurnFor(turn, results, asked) ==
  /\ turn \in WireMessages /\ turn.role = "assistant" /\ MessageSound(turn)
  /\ DOMAIN turn.calls = DOMAIN asked
  /\ results \in Seq(WireMessages) /\ DOMAIN results = DOMAIN asked
  /\ \A c \in DOMAIN asked :
       /\ turn.calls[c].id = asked[c].id
       /\ results[c].role = "tool" /\ results[c].calls = <<>>
       /\ results[c].result = asked[c].id /\ MessageSound(results[c])

LEMMA TurnJoined ==
  ASSUME NEW seq, HistorySound(seq), posts \in Nat, IdsUpTo(seq, IdBase(posts)),
         NEW asked, FreshCalls(asked), NEW turn, NEW results, TurnFor(turn, results, asked)
  PROVE  /\ HistorySound(Append(seq, turn) \o results)
         /\ IdsUpTo(Append(seq, turn) \o results, IdBase(posts) + MaxItems)
<1>1. PICK n \in Nat : DOMAIN asked = 1..n
  BY DEF FreshCalls
<1>2. PICK l \in Nat : l = Len(seq) /\ DOMAIN seq = 1..l
  BY LenProperties DEF HistorySound
<1>3. PICK first \in Nat : first = IdBase(posts)
  BY IdBases
<1>4. ASSUME NEW c \in 1..n PROVE asked[c].id \in first + 1..first + MaxItems
  BY <1>1, <1>3 DEF FreshCalls
<1>5. /\ turn \in WireMessages /\ turn.role = "assistant" /\ MessageSound(turn)
      /\ DOMAIN turn.calls = 1..n /\ \A c \in 1..n : turn.calls[c].id = asked[c].id
  BY <1>1 DEF TurnFor
<1>6. ASSUME NEW c \in 1..n
       PROVE  /\ results[c].role = "tool" /\ results[c].calls = <<>>
              /\ results[c].result = asked[c].id /\ MessageSound(results[c])
  BY <1>1 DEF TurnFor
<1>7. results \in Seq(WireMessages) /\ Len(results) = n
  <2>1. results \in Seq(WireMessages) /\ DOMAIN results = 1..n
    BY <1>1 DEF TurnFor
  <2> QED BY <2>1, LenProperties
<1>8. PICK u : u = Append(seq, turn)
  OBVIOUS
<1>9. /\ u \in Seq(WireMessages) /\ Len(u) = l + 1 /\ \A i \in 1..l : u[i] = seq[i]
      /\ u[l + 1] = turn
  BY <1>2, <1>5, <1>8, AppendProperties DEF HistorySound
<1>10. PICK grown : grown = u \o results
  OBVIOUS
<1>11. /\ u \o results \in Seq(WireMessages) /\ Len(u \o results) = Len(u) + Len(results)
       /\ \A i \in 1..Len(u) + Len(results) :
            (u \o results)[i] = IF i <= Len(u) THEN u[i] ELSE results[i - Len(u)]
  BY <1>7, <1>9, ConcatProperties
<1>12. /\ grown \in Seq(WireMessages) /\ Len(grown) = l + 1 + n
       /\ \A i \in 1..l + 1 + n : grown[i] = IF i <= l + 1 THEN u[i] ELSE results[i - (l + 1)]
  BY <1>7, <1>9, <1>10, <1>11
<1>13. DOMAIN grown = 1..l + 1 + n
  BY <1>12, LenProperties
<1>14. /\ \A i \in 1..l : i \in DOMAIN grown /\ grown[i] = seq[i]
       /\ l + 1 \in DOMAIN grown /\ grown[l + 1] = turn
  BY <1>9, <1>12, <1>13
<1>15. ASSUME NEW c \in 1..n
       PROVE  l + 1 + c \in DOMAIN grown /\ grown[l + 1 + c] = results[c]
  <2>1. PICK i \in 1..l + 1 + n : i = l + 1 + c
    OBVIOUS
  <2>2. ~(i <= l + 1) /\ i - (l + 1) = c
    BY <2>1
  <2> QED BY <1>12, <1>13, <2>1, <2>2
<1>16. ASSUME NEW i \in DOMAIN grown
       PROVE  i \in 1..l \/ i = l + 1 \/ \E c \in 1..n : i = l + 1 + c
  <2>1. ASSUME ~(i \in 1..l), i # l + 1 PROVE \E c \in 1..n : i = l + 1 + c
    <3>1. i - (l + 1) \in 1..n /\ i = l + 1 + (i - (l + 1))
      BY <1>13, <2>1
    <3> QED BY <3>1
  <2> QED BY <2>1
<1>17. \A i \in DOMAIN grown : MessageSound(grown[i])
  <2>1. ASSUME NEW i \in DOMAIN grown PROVE MessageSound(grown[i])
    <3>1. CASE i \in 1..l
      BY <1>2, <1>14, <3>1 DEF HistorySound
    <3>2. CASE i = l + 1
      BY <1>5, <1>14, <3>2
    <3>3. CASE \E c \in 1..n : i = l + 1 + c
      <4>1. PICK c \in 1..n : i = l + 1 + c
        BY <3>3
      <4> QED BY <1>6, <1>15, <4>1
    <3> QED BY <1>16, <3>1, <3>2, <3>3
  <2> QED BY <2>1
<1> DEFINE Earlier(i, c) == i \in DOMAIN seq /\ grown[i] = seq[i] /\ c \in DOMAIN seq[i].calls
           Added(i, c) == i = l + 1 /\ c \in 1..n /\ grown[i].calls[c].id = asked[c].id
<1>18. ASSUME NEW i \in DOMAIN grown, NEW c \in DOMAIN grown[i].calls
       PROVE  Earlier(i, c) \/ Added(i, c)
  <2>1. CASE i \in 1..l
    <3>1. i \in DOMAIN seq /\ grown[i] = seq[i]
      BY <1>2, <1>14, <2>1
    <3> QED BY <3>1
  <2>2. CASE i = l + 1
    <3>1. grown[i] = turn
      BY <1>14, <2>2
    <3>2. c \in 1..n /\ grown[i].calls[c].id = asked[c].id
      BY <1>5, <3>1
    <3> QED BY <2>2, <3>2
  <2>3. CASE \E d \in 1..n : i = l + 1 + d
    <3>1. grown[i].calls = <<>>
      BY <1>6, <1>15, <2>3
    <3>2. DOMAIN grown[i].calls = {}
      BY <3>1
    <3> QED BY <3>2
  <2> QED BY <1>16, <2>1, <2>2, <2>3
<1>19. ASSUME NEW i \in DOMAIN grown, NEW c \in DOMAIN grown[i].calls, Earlier(i, c)
       PROVE  /\ i + c \in DOMAIN grown /\ grown[i + c].role = "tool"
              /\ grown[i + c].result = grown[i].calls[c].id
              /\ grown[i].calls[c].id \in 1..first
  <2>1. i \in DOMAIN seq /\ grown[i] = seq[i] /\ c \in DOMAIN seq[i].calls
    BY <1>19
  <2>2. /\ i + c \in DOMAIN seq /\ seq[i + c].role = "tool"
        /\ seq[i + c].result = seq[i].calls[c].id
    BY <2>1 DEF HistorySound, TurnsAnswered
  <2>3. i + c \in DOMAIN grown /\ grown[i + c] = seq[i + c]
    BY <1>2, <1>14, <2>2
  <2>4. seq[i].calls[c].id \in 1..first
    BY <1>3, <2>1 DEF IdsUpTo
  <2> QED BY <2>1, <2>2, <2>3, <2>4
<1>20. ASSUME NEW i \in DOMAIN grown, NEW c \in DOMAIN grown[i].calls, Added(i, c)
       PROVE  /\ i + c \in DOMAIN grown /\ grown[i + c].role = "tool"
              /\ grown[i + c].result = grown[i].calls[c].id
              /\ grown[i].calls[c].id \in first + 1..first + MaxItems
  <2>1. i = l + 1 /\ c \in 1..n /\ grown[i].calls[c].id = asked[c].id
    BY <1>20
  <2>2. i + c \in DOMAIN grown /\ grown[i + c] = results[c]
    BY <1>15, <2>1
  <2>3. asked[c].id \in first + 1..first + MaxItems
    BY <1>4, <2>1
  <2> QED BY <1>6, <2>1, <2>2, <2>3
<1>21. ASSUME NEW j \in DOMAIN grown, grown[j].role = "tool"
       PROVE  \E i \in DOMAIN grown : i < j /\ j - i \in DOMAIN grown[i].calls
  <2>1. CASE j \in 1..l
    <3>1. j \in DOMAIN seq /\ seq[j].role = "tool"
      BY <1>2, <1>14, <1>21, <2>1
    <3>2. PICK i \in DOMAIN seq : i < j /\ j - i \in DOMAIN seq[i].calls
      BY <3>1 DEF HistorySound, TurnsAnswered
    <3>3. i \in DOMAIN grown /\ grown[i] = seq[i]
      BY <1>2, <1>14
    <3> QED BY <3>2, <3>3
  <2>2. CASE j = l + 1
    BY <1>5, <1>14, <1>21, <2>2
  <2>3. CASE \E c \in 1..n : j = l + 1 + c
    <3>1. PICK c \in 1..n : j = l + 1 + c
      BY <2>3
    <3>2. l + 1 < j /\ j - (l + 1) = c
      BY <3>1
    <3>3. c \in DOMAIN grown[l + 1].calls
      BY <1>5, <1>14
    <3> QED BY <1>14, <3>2, <3>3
  <2> QED BY <1>16, <2>1, <2>2, <2>3
<1> HIDE DEF Earlier, Added
<1>22. TurnsAnswered(grown)
  <2>1. ASSUME NEW i \in DOMAIN grown, NEW c \in DOMAIN grown[i].calls
        PROVE  /\ i + c \in DOMAIN grown /\ grown[i + c].role = "tool"
               /\ grown[i + c].result = grown[i].calls[c].id
    BY <1>18, <1>19, <1>20
  <2> QED BY <1>21, <2>1 DEF TurnsAnswered
<1>23. IdsUpTo(grown, first + MaxItems)
  <2>1. ASSUME NEW i \in DOMAIN grown, NEW c \in DOMAIN grown[i].calls
        PROVE  grown[i].calls[c].id \in 1..first + MaxItems
    <3>1. PICK id : id = grown[i].calls[c].id
      OBVIOUS
    <3>2. id \in 1..first \/ id \in first + 1..first + MaxItems
      BY <1>18, <1>19, <1>20, <3>1
    <3>3. id \in 1..first + MaxItems
      BY <3>2, IdBases
    <3> QED BY <3>1, <3>3
  <2> QED BY <2>1 DEF IdsUpTo
<1>24. ASSUME NEW i \in DOMAIN grown, NEW j \in DOMAIN grown,
              NEW c \in DOMAIN grown[i].calls, NEW d \in DOMAIN grown[j].calls,
              grown[i].calls[c].id = grown[j].calls[d].id
       PROVE  i = j /\ c = d
  <2>1. PICK id : id = grown[i].calls[c].id /\ id = grown[j].calls[d].id
    BY <1>24
  <2>2. ~(id \in 1..first /\ id \in first + 1..first + MaxItems)
    OBVIOUS
  <2>3. CASE Earlier(i, c) /\ Earlier(j, d)
    <3>1. /\ i \in DOMAIN seq /\ c \in DOMAIN seq[i].calls /\ seq[i].calls[c].id = id
          /\ j \in DOMAIN seq /\ d \in DOMAIN seq[j].calls /\ seq[j].calls[d].id = id
      BY <2>1, <2>3 DEF Earlier
    <3> QED BY <3>1 DEF HistorySound, IdsDiffer
  <2>4. CASE Added(i, c) /\ Added(j, d)
    <3>1. /\ i = l + 1 /\ c \in 1..n /\ asked[c].id = id
          /\ j = l + 1 /\ d \in 1..n /\ asked[d].id = id
      BY <2>1, <2>4 DEF Added
    <3> QED BY <1>1, <3>1 DEF FreshCalls
  <2>5. Earlier(i, c) => id \in 1..first
    BY <1>19, <2>1
  <2>6. Earlier(j, d) => id \in 1..first
    BY <1>19, <2>1
  <2>7. Added(i, c) => id \in first + 1..first + MaxItems
    BY <1>20, <2>1
  <2>8. Added(j, d) => id \in first + 1..first + MaxItems
    BY <1>20, <2>1
  <2> QED BY <1>18, <2>2, <2>3, <2>4, <2>5, <2>6, <2>7, <2>8
<1>25. IdsDiffer(grown)
  BY <1>24 DEF IdsDiffer
<1> QED BY <1>3, <1>8, <1>10, <1>12, <1>17, <1>22, <1>23, <1>25 DEF HistorySound

\* What the agent appends of an answer.
LEMMA TurnIsSound ==
  ASSUME posts \in Nat, NEW asked, FreshCalls(asked),
         NEW items \in Seq(ReplayItems), ItemsMatch(asked, items),
         NEW said \in {"none", "some"}, NEW text \in {"blank", "some"}
  PROVE  TurnFor([ChatMessage("assistant", said) EXCEPT
                    !.calls = [k \in DOMAIN asked |-> [id |-> asked[k].id]], !.items = items],
                 [k \in DOMAIN asked |-> ResultTurn(asked[k].id, text)], asked)
<1>1. PICK n \in Nat : DOMAIN asked = 1..n
  BY DEF FreshCalls
<1>2. PICK ids : ids = [k \in 1..n |-> [id |-> asked[k].id]]
  OBVIOUS
<1>3. PICK results : results = [k \in 1..n |-> ResultTurn(asked[k].id, text)]
  OBVIOUS
<1>4. PICK turn : turn = [ChatMessage("assistant", said) EXCEPT !.calls = ids, !.items = items]
  OBVIOUS
<1>5. PICK first \in Nat : first = IdBase(posts)
  BY IdBases
<1>6. ASSUME NEW c \in 1..n
      PROVE  /\ asked[c].id \in first + 1..first + MaxItems /\ asked[c].id \in Nat /\ asked[c].id # 0
             /\ asked[c].id \in 1..first + MaxItems
  <2>1. asked[c].id \in first + 1..first + MaxItems
    BY <1>1, <1>5 DEF FreshCalls
  <2> QED BY <2>1
<1>7. ids \in Seq(WireCalls) /\ DOMAIN ids = 1..n /\ \A c \in 1..n : ids[c].id = asked[c].id
  <2>1. ids \in [1..n -> WireCalls]
    BY <1>2, <1>6 DEF WireCalls
  <2> QED BY <1>2, <2>1
<1>8. /\ turn \in WireMessages /\ turn.role = "assistant" /\ turn.calls = ids
      /\ turn.items = items
  BY <1>4, <1>7 DEF ChatMessage, WireMessages, Roles
<1>9. ItemsMatch(ids, items)
  <2>1. ASSUME NEW k \in DOMAIN items, items[k].kind = "call"
        PROVE  \E c \in DOMAIN ids : items[k].id = ids[c].id
    <3>1. PICK c \in DOMAIN asked : items[k].id = asked[c].id
      BY <2>1 DEF ItemsMatch
    <3> QED BY <1>1, <1>7, <3>1
  <2>2. ASSUME items # <<>>, NEW c \in DOMAIN ids
        PROVE  \E k \in DOMAIN items : items[k].kind = "call" /\ items[k].id = ids[c].id
    <3>1. c \in DOMAIN asked /\ ids[c].id = asked[c].id
      BY <1>1, <1>7
    <3>2. PICK k \in DOMAIN items : items[k].kind = "call" /\ items[k].id = asked[c].id
      BY <2>2, <3>1 DEF ItemsMatch
    <3> QED BY <3>1, <3>2
  <2> QED BY <2>1, <2>2 DEF ItemsMatch
<1>10. MessageSound(turn)
  BY <1>8, <1>9 DEF MessageSound
<1>11. ASSUME NEW c \in 1..n
       PROVE  /\ results[c] \in WireMessages /\ results[c].role = "tool"
              /\ results[c].calls = <<>> /\ results[c].result = asked[c].id
              /\ MessageSound(results[c])
  <2>1. PICK r : r = ResultTurn(asked[c].id, text)
    OBVIOUS
  <2>2. /\ r \in WireMessages /\ r.role = "tool" /\ r.text = text /\ r.calls = <<>>
        /\ r.items = <<>> /\ r.result = asked[c].id
    BY <1>6, <2>1, MessagesSaid
  <2>3. MessageSound(r)
    <3>1. r.text # "none" /\ r.result # 0
      BY <1>6, <2>2
    <3>2. ItemsMatch(r.calls, r.items)
      BY <2>2 DEF ItemsMatch
    <3> QED BY <2>2, <3>1, <3>2 DEF MessageSound
  <2> QED BY <1>3, <2>1, <2>2, <2>3
<1>12. results \in Seq(WireMessages) /\ DOMAIN results = 1..n
  <2>1. results \in [1..n -> WireMessages]
    BY <1>3, <1>11
  <2> QED BY <2>1
<1>13. TurnFor(turn, results, asked)
  BY <1>1, <1>7, <1>8, <1>10, <1>11, <1>12 DEF TurnFor
<1> QED BY <1>1, <1>2, <1>3, <1>4, <1>13

-----------------------------------------------------------------------------
(* The stream of Responses                                                  *)

\* Its items name each other: by their ids, or by those of calls.
Identified(i) == made.how.named \/ Item(i).kind = "call"

LEMMA UpsertAppends ==
  ASSUME NEW items, NEW item, \A k \in DOMAIN items : ~SameItem(items[k], item)
  PROVE  Upsert(items, item) = Append(items, item)
<1> DEFINE same == {k \in DOMAIN items : SameItem(items[k], item)}
<1>1. same = {}
  OBVIOUS
<1> HIDE DEF SameItem
<1> QED BY <1>1 DEF Upsert

LEMMA UpsertReplaces ==
  ASSUME NEW items, NEW item, DOMAIN items \subseteq Int, NEW k \in DOMAIN items,
         SameItem(items[k], item),
         \A l \in DOMAIN items : SameItem(items[l], item) => l = k
  PROVE  Upsert(items, item) = [items EXCEPT ![k] = item]
<1> DEFINE same == {l \in DOMAIN items : SameItem(items[l], item)}
           first == CHOOSE m \in same : \A l \in same : m <= l
<1>1. same = {k}
  OBVIOUS
<1>2. first = k
  <2>1. \E m \in same : \A l \in same : m <= l
    <3>1. k <= k
      OBVIOUS
    <3> QED BY <1>1, <3>1
  <2>2. first \in same
    BY <2>1
  <2> QED BY <1>1, <2>2
<1>3. Upsert(items, item) = IF same = {} THEN Append(items, item) ELSE [items EXCEPT ![first] = item]
  BY DEF Upsert
<1> HIDE DEF same, first
<1> QED BY <1>1, <1>2, <1>3

LEMMA SameOutput ==
  ASSUME posts \in Nat, NEW i \in 1..MaxItems, NEW j \in 1..MaxItems, NEW p, NEW q
  PROVE  SameItem(Output(i, p), Output(j, q)) <=> i = j /\ Identified(j)
<1>1. /\ IdOf(i) # 0 /\ IdOf(j) # 0 /\ (IdOf(i) = IdOf(j) => i = j)
  BY IdsOfItems
<1>2. i # 0 /\ j # 0
  OBVIOUS
<1>3. PICK a : a = Output(i, p)
  OBVIOUS
<1>4. PICK b : b = Output(j, q)
  OBVIOUS
<1>5. /\ a.id = (IF made.how.named THEN i ELSE 0) /\ b.id = (IF made.how.named THEN j ELSE 0)
      /\ a.call = (IF Item(i).kind = "call" THEN IdOf(i) ELSE 0)
      /\ b.call = (IF Item(j).kind = "call" THEN IdOf(j) ELSE 0)
  BY <1>3, <1>4, OutputFields
<1>6. CASE made.how.named
  <2>1. a.id = i /\ b.id = j
    BY <1>5, <1>6
  <2>2. SameItem(a, b) <=> i = j
    BY <1>2, <2>1 DEF SameItem
  <2> QED BY <1>3, <1>4, <1>6, <2>2 DEF Identified
<1>7. CASE ~made.how.named
  <2>1. a.id = 0 /\ b.id = 0
    BY <1>5, <1>7
  <2>2. SameItem(a, b) <=> a.call # 0 /\ a.call = b.call
    BY <2>1 DEF SameItem
  <2>3. a.call # 0 /\ a.call = b.call <=> i = j /\ Item(j).kind = "call"
    BY <1>1, <1>5
  <2> QED BY <1>3, <1>4, <1>7, <2>2, <2>3 DEF Identified
<1> QED BY <1>6, <1>7

\* src: what is generated that each item of the accumulator is of.
ItemsFrom(items, sent, src) ==
  /\ DOMAIN src = DOMAIN items
  /\ \A k \in DOMAIN src :
       /\ src[k] \in DOMAIN made.items /\ sent[src[k]] > 0
       /\ items[k] \in {Output(src[k], <<>>), Full(src[k])}
       /\ Identified(src[k]) /\ sent[src[k]] = ResponsesEvents(src[k]) => items[k] = Full(src[k])
  /\ \A k, l \in DOMAIN src : k < l =>
       src[k] <= src[l] /\ (Identified(src[k]) => src[k] # src[l])
  /\ \A i \in DOMAIN made.items : sent[i] > 0 =>
       \E k \in DOMAIN src :
         src[k] = i /\ (sent[i] = ResponsesEvents(i) => items[k] = Full(i))

\* The items come one after the other, and are put in as they come.
ItemsSound(acc, sent) ==
  /\ \A i, j \in DOMAIN made.items : j < i /\ sent[i] > 0 => sent[j] = ResponsesEvents(j)
  /\ IF made.how.announced THEN \E src : ItemsFrom(acc.items, sent, src) ELSE acc.items = <<>>
  /\ acc.text # <<>> =>
       \E i \in DOMAIN made.items : Item(i).kind = "text" /\ Item(i).pieces > 0

\* Item i with one event more.
OneMore(sent, i) == [sent EXCEPT ![i] = @ + 1]

LEMMA OneMoreSent ==
  ASSUME ProviderTyped, NEW i \in DOMAIN made.items
  PROVE  /\ OneMore(progress, i) \in [DOMAIN made.items -> Nat]
         /\ OneMore(progress, i)[i] = progress[i] + 1
         /\ \A j \in DOMAIN made.items : j # i => OneMore(progress, i)[j] = progress[j]
BY DEF ProviderTyped, OneMore

LEMMA EventCounts ==
  ASSUME ProviderTyped, NEW i \in DOMAIN made.items
  PROVE  /\ ResponsesEvents(i) \in Nat /\ progress[i] \in Nat /\ Item(i).pieces \in Nat
         /\ made.how.announced => ResponsesEvents(i) >= 2
         /\ made.how.announced => ResponsesEvents(i) =
              IF Item(i).kind = "call" THEN 2 ELSE 2 + Item(i).pieces
         /\ ~made.how.announced => ResponsesEvents(i) =
              IF Item(i).kind = "call" THEN 0 ELSE Item(i).pieces
<1>1. PICK p \in Nat : p = Item(i).pieces
  BY MadeItems
<1>2. progress[i] \in Nat
  BY MadeItems
<1>3. ResponsesEvents(i) = (IF made.how.announced THEN 2 ELSE 0) + (IF Item(i).kind = "call" THEN 0 ELSE p)
  BY <1>1 DEF ResponsesEvents
<1> QED BY <1>1, <1>2, <1>3

\* The order of the items of a stream.
LEMMA ItemsInTurn ==
  ASSUME ProviderTyped, NEW i \in DOMAIN made.items,
         \A k, j \in DOMAIN made.items : j < k /\ progress[k] > 0 => progress[j] = ResponsesEvents(j),
         \A j \in DOMAIN made.items : j < i => progress[j] = ResponsesEvents(j),
         progress[i] < ResponsesEvents(i)
  PROVE  /\ \A k, j \in DOMAIN made.items :
              j < k /\ OneMore(progress, i)[k] > 0 => OneMore(progress, i)[j] = ResponsesEvents(j)
         /\ \A k \in DOMAIN made.items : progress[k] > 0 => k <= i
<1>1. PICK n \in Nat : DOMAIN made.items = 1..n
  BY MadeItems
<1>2. progress[i] \in Nat /\ ResponsesEvents(i) \in Nat
  BY EventCounts
<1>3. ASSUME NEW k \in DOMAIN made.items, progress[k] > 0 PROVE k <= i
  <2>1. i < k => progress[i] = ResponsesEvents(i)
    BY <1>3
  <2> QED BY <1>1, <1>2, <2>1
<1>4. ASSUME NEW k \in DOMAIN made.items, NEW j \in DOMAIN made.items, j < k,
             OneMore(progress, i)[k] > 0
      PROVE  OneMore(progress, i)[j] = ResponsesEvents(j)
  <2>1. k <= i
    <3>1. CASE k = i
      BY <1>1, <3>1
    <3>2. CASE k # i
      BY <1>3, <1>4, <3>2, OneMoreSent
    <3> QED BY <3>1, <3>2
  <2>2. j # i /\ j < i
    BY <1>1, <1>4, <2>1
  <2> QED BY <2>2, OneMoreSent
<1> QED BY <1>3, <1>4

\* An item is added to those of the accumulator.
LEMMA ItemAdded ==
  ASSUME ProviderTyped, NEW items \in Seq(Outputs), NEW src, ItemsFrom(items, progress, src),
         NEW i \in DOMAIN made.items, NEW x, x \in {Output(i, <<>>), Full(i)},
         \A k \in DOMAIN items : src[k] <= i /\ (Identified(i) => src[k] # i),
         OneMore(progress, i)[i] = ResponsesEvents(i) => x = Full(i)
  PROVE  \E s : ItemsFrom(Append(items, x), OneMore(progress, i), s)
<1> DEFINE sent == OneMore(progress, i)
<1>1. PICK n \in Nat : DOMAIN made.items = 1..n
  BY MadeItems
<1>2. PICK m \in Nat : m = Len(items) /\ DOMAIN items = 1..m
  BY LenProperties
<1>3. PICK grown : grown = Append(items, x)
  OBVIOUS
<1>4. x \in Outputs
  <2>1. <<>> \in Seq(Nat) /\ Pieces(Item(i).pieces) \in Seq(Nat)
    BY MadeItems, PiecesInOrder
  <2> QED BY <2>1, OutputTyped DEF Full
<1>5. Len(grown) = m + 1 /\ grown \in Seq(Outputs) /\ grown[m + 1] = x
      /\ \A k \in 1..m : grown[k] = items[k]
  BY <1>2, <1>3, <1>4, AppendProperties
<1>6. DOMAIN grown = 1..m + 1
  BY <1>5, LenProperties
<1>7. PICK s : s = [k \in 1..m + 1 |-> IF k = m + 1 THEN i ELSE src[k]]
  OBVIOUS
<1>8. DOMAIN s = 1..m + 1 /\ s[m + 1] = i /\ \A k \in 1..m : s[k] = src[k]
  BY <1>7
<1>9. \A k \in 1..m + 1 : k \in 1..m \/ k = m + 1
  OBVIOUS
<1>10. sent[i] = progress[i] + 1 /\ progress[i] \in Nat
       /\ \A j \in DOMAIN made.items : j # i => sent[j] = progress[j]
  BY OneMoreSent, EventCounts
<1> HIDE DEF sent
<1>11. ASSUME NEW k \in 1..m
       PROVE  /\ src[k] \in DOMAIN made.items /\ progress[src[k]] > 0
              /\ items[k] \in {Output(src[k], <<>>), Full(src[k])}
              /\ Identified(src[k]) /\ progress[src[k]] = ResponsesEvents(src[k])
                   => items[k] = Full(src[k])
              /\ src[k] <= i /\ (Identified(i) => src[k] # i)
  BY <1>2 DEF ItemsFrom
<1>12. ASSUME NEW k \in 1..m + 1
       PROVE  /\ s[k] \in DOMAIN made.items /\ sent[s[k]] > 0
              /\ grown[k] \in {Output(s[k], <<>>), Full(s[k])}
              /\ Identified(s[k]) /\ sent[s[k]] = ResponsesEvents(s[k]) => grown[k] = Full(s[k])
  <2>1. CASE k = m + 1
    <3>1. s[k] = i /\ grown[k] = x /\ sent[i] > 0
      BY <1>5, <1>8, <1>10, <2>1
    <3> QED BY <3>1 DEF sent
  <2>2. CASE k # m + 1
    <3>1. k \in 1..m
      BY <2>2
    <3>2. s[k] = src[k] /\ grown[k] = items[k]
      BY <1>5, <1>8, <3>1
    <3>3. PICK j \in DOMAIN made.items : j = src[k]
      BY <1>11, <3>1
    <3>4. CASE j = i
      <4>1. ~Identified(j)
        BY <1>11, <3>1, <3>3, <3>4
      <4>2. sent[j] > 0
        BY <1>10, <3>4
      <4> QED BY <1>11, <3>1, <3>2, <3>3, <4>1, <4>2
    <3>5. CASE j # i
      <4>1. sent[j] = progress[j]
        BY <1>10, <3>5
      <4> QED BY <1>11, <3>1, <3>2, <3>3, <4>1
    <3> QED BY <3>4, <3>5
  <2> QED BY <2>1, <2>2
<1>13. ASSUME NEW k \in 1..m + 1, NEW l \in 1..m + 1, k < l
       PROVE  s[k] <= s[l] /\ (Identified(s[k]) => s[k] # s[l])
  <2>1. k \in 1..m
    BY <1>13
  <2>2. CASE l = m + 1
    <3>1. s[k] = src[k] /\ s[l] = i
      BY <1>8, <2>1, <2>2
    <3> QED BY <1>11, <2>1, <3>1
  <2>3. CASE l # m + 1
    <3>1. l \in 1..m
      BY <2>3
    <3>2. s[k] = src[k] /\ s[l] = src[l]
      BY <1>8, <2>1, <3>1
    <3>3. k \in DOMAIN src /\ l \in DOMAIN src
      BY <1>2, <2>1, <3>1 DEF ItemsFrom
    <3> QED BY <1>13, <3>2, <3>3 DEF ItemsFrom
  <2> QED BY <2>2, <2>3
<1>14. ASSUME NEW j \in DOMAIN made.items, sent[j] > 0
       PROVE  \E k \in 1..m + 1 : s[k] = j /\ (sent[j] = ResponsesEvents(j) => grown[k] = Full(j))
  <2>1. CASE j = i
    <3>1. m + 1 \in 1..m + 1 /\ s[m + 1] = j /\ grown[m + 1] = x
      BY <1>5, <1>8, <2>1
    <3> QED BY <2>1, <3>1 DEF sent
  <2>2. CASE j # i
    <3>1. sent[j] = progress[j]
      BY <1>10, <2>2
    <3>2. PICK k \in DOMAIN src :
            src[k] = j /\ (progress[j] = ResponsesEvents(j) => items[k] = Full(j))
      BY <1>14, <3>1 DEF ItemsFrom
    <3>3. k \in 1..m
      BY <1>2 DEF ItemsFrom
    <3>4. s[k] = src[k] /\ grown[k] = items[k] /\ k \in 1..m + 1
      BY <1>5, <1>8, <3>3
    <3> QED BY <3>1, <3>2, <3>4
  <2> QED BY <2>1, <2>2
<1>15. ItemsFrom(grown, sent, s)
  BY <1>6, <1>8, <1>12, <1>13, <1>14 DEF ItemsFrom
<1> QED BY <1>3, <1>15 DEF sent

\* An item takes the place of the one announced.
LEMMA ItemReplaced ==
  ASSUME ProviderTyped, NEW items \in Seq(Outputs), NEW src, ItemsFrom(items, progress, src),
         NEW i \in DOMAIN made.items, NEW k0 \in DOMAIN items, src[k0] = i, Identified(i)
  PROVE  ItemsFrom([items EXCEPT ![k0] = Full(i)], OneMore(progress, i), src)
<1> DEFINE sent == OneMore(progress, i)
<1>1. PICK better : better = [items EXCEPT ![k0] = Full(i)]
  OBVIOUS
<1>2. DOMAIN better = DOMAIN items /\ better[k0] = Full(i)
      /\ \A k \in DOMAIN items : k # k0 => better[k] = items[k]
  BY <1>1
<1>3. sent[i] = progress[i] + 1 /\ progress[i] \in Nat
      /\ \A j \in DOMAIN made.items : j # i => sent[j] = progress[j]
  BY OneMoreSent, EventCounts
<1> HIDE DEF sent
<1>4. DOMAIN src = DOMAIN items
  BY DEF ItemsFrom
<1>5. ASSUME NEW k \in DOMAIN src, k # k0 PROVE src[k] # i
  <2>1. k \in Int /\ k0 \in Int
    <3>1. PICK m \in Nat : DOMAIN items = 1..m
      BY LenProperties
    <3> QED BY <1>4, <3>1
  <2>2. k < k0 \/ k0 < k
    BY <1>5, <2>1
  <2> QED BY <1>4, <2>2 DEF ItemsFrom
<1>6. ASSUME NEW k \in DOMAIN src
      PROVE  /\ src[k] \in DOMAIN made.items /\ sent[src[k]] > 0
             /\ better[k] \in {Output(src[k], <<>>), Full(src[k])}
             /\ Identified(src[k]) /\ sent[src[k]] = ResponsesEvents(src[k]) => better[k] = Full(src[k])
  <2>1. CASE k = k0
    BY <1>2, <1>3, <2>1
  <2>2. CASE k # k0
    <3>1. PICK j \in DOMAIN made.items : j = src[k]
      BY DEF ItemsFrom
    <3>2. sent[j] = progress[j] /\ better[k] = items[k]
      BY <1>2, <1>3, <1>4, <1>5, <2>2, <3>1
    <3> QED BY <3>1, <3>2 DEF ItemsFrom
  <2> QED BY <2>1, <2>2
<1>7. ASSUME NEW j \in DOMAIN made.items, sent[j] > 0
      PROVE  \E k \in DOMAIN src : src[k] = j /\ (sent[j] = ResponsesEvents(j) => better[k] = Full(j))
  <2>1. CASE j = i
    BY <1>2, <1>4, <2>1
  <2>2. CASE j # i
    <3>1. sent[j] = progress[j]
      BY <1>3, <2>2
    <3>2. PICK k \in DOMAIN src :
            src[k] = j /\ (progress[j] = ResponsesEvents(j) => items[k] = Full(j))
      BY <1>7, <3>1 DEF ItemsFrom
    <3>3. k # k0
      BY <2>2, <3>2
    <3> QED BY <1>2, <1>4, <3>1, <3>2, <3>3
  <2> QED BY <2>1, <2>2
<1>8. ItemsFrom(better, sent, src)
  BY <1>2, <1>4, <1>6, <1>7 DEF ItemsFrom
<1> QED BY <1>1, <1>8 DEF sent

\* A delta leaves the items alone.
LEMMA ItemsKept ==
  ASSUME ProviderTyped, NEW items, NEW src, ItemsFrom(items, progress, src),
         NEW i \in DOMAIN made.items, progress[i] > 0,
         OneMore(progress, i)[i] # ResponsesEvents(i)
  PROVE  ItemsFrom(items, OneMore(progress, i), src)
<1> DEFINE sent == OneMore(progress, i)
<1>1. sent[i] = progress[i] + 1 /\ progress[i] \in Nat /\ sent[i] # ResponsesEvents(i)
      /\ \A j \in DOMAIN made.items : j # i => sent[j] = progress[j]
  BY OneMoreSent, EventCounts
<1> HIDE DEF sent
<1>2. \A j \in DOMAIN made.items :
        /\ sent[j] > 0 <=> progress[j] > 0
        /\ sent[j] = ResponsesEvents(j) => sent[j] = progress[j]
  BY <1>1
<1>3. ASSUME NEW k \in DOMAIN src
      PROVE  /\ src[k] \in DOMAIN made.items /\ sent[src[k]] > 0
             /\ items[k] \in {Output(src[k], <<>>), Full(src[k])}
             /\ Identified(src[k]) /\ sent[src[k]] = ResponsesEvents(src[k]) => items[k] = Full(src[k])
  BY <1>2 DEF ItemsFrom
<1>4. ASSUME NEW j \in DOMAIN made.items, sent[j] > 0
      PROVE  \E k \in DOMAIN src : src[k] = j /\ (sent[j] = ResponsesEvents(j) => items[k] = Full(j))
  BY <1>2, <1>4 DEF ItemsFrom
<1>5. ItemsFrom(items, sent, src)
  BY <1>3, <1>4 DEF ItemsFrom
<1> QED BY <1>5 DEF sent

\* What an event makes of the accumulator.
LEMMA EventApplied ==
  ASSUME ProviderTyped, NEW i \in DOMAIN made.items, progress[i] < ResponsesEvents(i)
  PROVE  \/ /\ made.how.announced /\ progress[i] = 0
            /\ ApplyEvent(i) = [accum EXCEPT !.items = Upsert(@, Output(i, <<>>))]
         \/ /\ made.how.announced /\ progress[i] > 0 /\ progress[i] + 1 = ResponsesEvents(i)
            /\ ApplyEvent(i) = [accum EXCEPT !.items = Upsert(@, Full(i))]
         \/ /\ made.how.announced => progress[i] > 0 /\ progress[i] + 1 # ResponsesEvents(i)
            /\ Item(i).pieces > 0
            /\ \/ /\ Item(i).kind = "text"
                  /\ \E nth \in Nat : ApplyEvent(i) = [accum EXCEPT !.text = Append(@, nth)]
               \/ ApplyEvent(i) = [accum EXCEPT !.reasoned = TRUE]
<1>1. /\ ResponsesEvents(i) \in Nat /\ progress[i] \in Nat /\ Item(i).pieces \in Nat
      /\ made.how.announced => ResponsesEvents(i) >= 2
      /\ made.how.announced => ResponsesEvents(i) =
           IF Item(i).kind = "call" THEN 2 ELSE 2 + Item(i).pieces
      /\ ~made.how.announced => ResponsesEvents(i) =
           IF Item(i).kind = "call" THEN 0 ELSE Item(i).pieces
  BY EventCounts
<1>2. CASE made.how.announced /\ progress[i] = 0
  BY <1>2 DEF ApplyEvent
<1>3. CASE made.how.announced /\ progress[i] > 0 /\ progress[i] + 1 = ResponsesEvents(i)
  BY <1>1, <1>3 DEF ApplyEvent, Full
<1>4. CASE made.how.announced => progress[i] > 0 /\ progress[i] + 1 # ResponsesEvents(i)
  <2>1. Item(i).pieces > 0
    BY <1>1, <1>4
  <2>2. PICK nth \in Nat : nth = progress[i] + (IF made.how.announced THEN 0 ELSE 1)
    BY <1>1
  <2>3. ApplyEvent(i) = IF Item(i).kind = "text" THEN [accum EXCEPT !.text = Append(@, nth)]
                        ELSE [accum EXCEPT !.reasoned = TRUE]
    BY <1>1, <1>4, <2>2 DEF ApplyEvent
  <2>4. CASE Item(i).kind = "text"
    BY <1>4, <2>1, <2>3, <2>4
  <2>5. CASE Item(i).kind # "text"
    BY <1>4, <2>1, <2>3, <2>5
  <2> QED BY <2>4, <2>5
<1> QED BY <1>1, <1>2, <1>3, <1>4

LEMMA AccumFields ==
  ASSUME ProviderTyped
  PROVE  /\ accum.text \in Seq(Nat) /\ accum.slots \in Seq(Slots) /\ accum.items \in Seq(Outputs)
         /\ accum.reasoned \in BOOLEAN
         /\ \A items \in Seq(Outputs) :
              LET b == [accum EXCEPT !.items = items] IN
              b \in Accums /\ b.items = items /\ b.text = accum.text
         /\ \A text \in Seq(Nat) :
              LET b == [accum EXCEPT !.text = text] IN
              b \in Accums /\ b.items = accum.items /\ b.text = text /\ b.slots = accum.slots
         /\ \A slots \in Seq(Slots) :
              LET b == [accum EXCEPT !.slots = slots] IN
              b \in Accums /\ b.slots = slots /\ b.text = accum.text
         /\ LET b == [accum EXCEPT !.reasoned = TRUE] IN
            b \in Accums /\ b.items = accum.items /\ b.text = accum.text
BY DEF ProviderTyped, Accums

LEMMA EventKeepsItems ==
  ASSUME ProviderTyped, ItemsSound(accum, progress), NEW i \in DOMAIN made.items,
         progress[i] < ResponsesEvents(i),
         \A j \in DOMAIN made.items : j < i => progress[j] = ResponsesEvents(j)
  PROVE  ItemsSound(ApplyEvent(i), OneMore(progress, i)) /\ ApplyEvent(i) \in Accums
<1> DEFINE InTurn(sent) ==
             \A k, j \in DOMAIN made.items : j < k /\ sent[k] > 0 => sent[j] = ResponsesEvents(j)
           Said == \E t \in DOMAIN made.items : Item(t).kind = "text" /\ Item(t).pieces > 0
<1>0. PICK n \in Nat : n <= MaxItems /\ DOMAIN made.items = 1..n
  BY MadeItems
<1>1. InTurn(OneMore(progress, i)) /\ \A k \in DOMAIN made.items : progress[k] > 0 => k <= i
  BY ItemsInTurn DEF ItemsSound
<1>2. accum.text # <<>> => Said
  BY DEF ItemsSound
<1>3. OneMore(progress, i)[i] = progress[i] + 1 /\ progress[i] \in Nat
      /\ ResponsesEvents(i) \in Nat /\ (made.how.announced => ResponsesEvents(i) >= 2)
  BY OneMoreSent, EventCounts
<1>4. accum.items \in Seq(Outputs) /\ DOMAIN accum.items \subseteq Int
  <2>1. PICK m \in Nat : DOMAIN accum.items = 1..m
    BY AccumFields, LenProperties
  <2> QED BY <2>1, AccumFields
<1>5. Output(i, <<>>) \in Outputs /\ Full(i) \in Outputs
  <2>1. <<>> \in Seq(Nat) /\ Pieces(Item(i).pieces) \in Seq(Nat)
    BY MadeItems, PiecesInOrder
  <2> QED BY <2>1, OutputTyped DEF Full
<1>6. \A a, b \in DOMAIN made.items : \A p, q : SameItem(Output(a, p), Output(b, q)) <=> a = b /\ Identified(b)
  <2>1. ASSUME NEW a \in DOMAIN made.items, NEW b \in DOMAIN made.items, NEW p, NEW q
        PROVE  SameItem(Output(a, p), Output(b, q)) <=> a = b /\ Identified(b)
    <3>1. posts \in Nat
      BY DEF ProviderTyped
    <3>2. PICK c \in 1..n : c = a
      BY <1>0
    <3>3. PICK d \in 1..n : d = b
      BY <1>0
    <3>4. c \in 1..MaxItems /\ d \in 1..MaxItems
      BY <1>0, IdBases
    <3> QED BY <3>1, <3>2, <3>3, <3>4, SameOutput
  <2> QED BY <2>1
<1>7. ASSUME made.how.announced, NEW src, ItemsFrom(accum.items, progress, src)
      PROVE  /\ DOMAIN src = DOMAIN accum.items
             /\ \A k \in DOMAIN accum.items :
                  /\ src[k] <= i
                  /\ \A q : SameItem(accum.items[k], Output(i, q)) <=> src[k] = i /\ Identified(i)
  <2>1. ASSUME NEW k \in DOMAIN accum.items, NEW q
        PROVE  /\ src[k] <= i
               /\ SameItem(accum.items[k], Output(i, q)) <=> src[k] = i /\ Identified(i)
    <3>1. src[k] \in DOMAIN made.items /\ progress[src[k]] > 0
          /\ accum.items[k] \in {Output(src[k], <<>>), Full(src[k])}
      BY <1>7 DEF ItemsFrom
    <3>2. \E p : accum.items[k] = Output(src[k], p)
      BY <3>1 DEF Full
    <3> QED BY <1>1, <1>6, <3>1, <3>2
  <2> QED BY <1>7, <2>1 DEF ItemsFrom
<1> HIDE DEF InTurn, Said
<1>8. ASSUME made.how.announced, NEW items \in Seq(Outputs),
             ApplyEvent(i) = [accum EXCEPT !.items = items],
             \E s : ItemsFrom(items, OneMore(progress, i), s)
      PROVE  ItemsSound(ApplyEvent(i), OneMore(progress, i)) /\ ApplyEvent(i) \in Accums
  <2>1. PICK b : b = ApplyEvent(i)
    OBVIOUS
  <2>2. b \in Accums /\ b.items = items /\ b.text = accum.text
    BY <1>8, <2>1, AccumFields
  <2>3. ItemsSound(b, OneMore(progress, i))
    BY <1>1, <1>2, <1>8, <2>2 DEF ItemsSound, InTurn, Said
  <2> QED BY <2>1, <2>2, <2>3
<1>9. CASE /\ made.how.announced /\ progress[i] = 0
           /\ ApplyEvent(i) = [accum EXCEPT !.items = Upsert(@, Output(i, <<>>))]
  <2>1. PICK src : ItemsFrom(accum.items, progress, src)
    BY <1>9 DEF ItemsSound
  <2>2. ASSUME NEW k \in DOMAIN accum.items PROVE src[k] <= i /\ src[k] # i
    <3>1. progress[src[k]] > 0
      BY <2>1 DEF ItemsFrom
    <3> QED BY <1>7, <1>9, <2>1, <3>1
  <2>3. \A k \in DOMAIN accum.items : ~SameItem(accum.items[k], Output(i, <<>>))
    BY <1>7, <1>9, <2>1, <2>2
  <2>4. Upsert(accum.items, Output(i, <<>>)) = Append(accum.items, Output(i, <<>>))
    BY <2>3, UpsertAppends
  <2>5. OneMore(progress, i)[i] # ResponsesEvents(i)
    BY <1>3, <1>9
  <2>6. \E s : ItemsFrom(Append(accum.items, Output(i, <<>>)), OneMore(progress, i), s)
    BY <1>4, <2>1, <2>2, <2>5, ItemAdded
  <2>7. Append(accum.items, Output(i, <<>>)) \in Seq(Outputs)
    BY <1>4, <1>5, AppendProperties
  <2> QED BY <1>8, <1>9, <2>4, <2>6, <2>7
<1>10. CASE /\ made.how.announced /\ progress[i] > 0 /\ progress[i] + 1 = ResponsesEvents(i)
            /\ ApplyEvent(i) = [accum EXCEPT !.items = Upsert(@, Full(i))]
  <2>1. PICK src : ItemsFrom(accum.items, progress, src)
    BY <1>10 DEF ItemsSound
  <2>2. \A k \in DOMAIN accum.items :
          SameItem(accum.items[k], Full(i)) <=> src[k] = i /\ Identified(i)
    BY <1>7, <1>10, <2>1 DEF Full
  <2>3. CASE Identified(i)
    <3>1. PICK k \in DOMAIN accum.items : src[k] = i
      BY <1>10, <2>1 DEF ItemsFrom
    <3>2. ASSUME NEW l \in DOMAIN accum.items, SameItem(accum.items[l], Full(i)) PROVE l = k
      <4>1. src[l] = i
        BY <2>2, <3>2
      <4>2. ~(k < l) /\ ~(l < k)
        BY <2>1, <2>3, <3>1, <4>1 DEF ItemsFrom
      <4> QED BY <1>4, <4>2
    <3>3. SameItem(accum.items[k], Full(i))
      BY <2>2, <2>3, <3>1
    <3>4. Upsert(accum.items, Full(i)) = [accum.items EXCEPT ![k] = Full(i)]
      BY <1>4, <3>2, <3>3, UpsertReplaces
    <3>5. ItemsFrom([accum.items EXCEPT ![k] = Full(i)], OneMore(progress, i), src)
      BY <1>4, <2>1, <2>3, <3>1, ItemReplaced
    <3>6. [accum.items EXCEPT ![k] = Full(i)] \in Seq(Outputs)
      BY <1>4, <1>5, ExceptSeq
    <3> QED BY <1>8, <1>10, <3>4, <3>5, <3>6
  <2>4. CASE ~Identified(i)
    <3>1. Upsert(accum.items, Full(i)) = Append(accum.items, Full(i))
      BY <2>2, <2>4, UpsertAppends
    <3>2. \E s : ItemsFrom(Append(accum.items, Full(i)), OneMore(progress, i), s)
      BY <1>4, <1>7, <1>10, <2>1, <2>4, ItemAdded
    <3>3. Append(accum.items, Full(i)) \in Seq(Outputs)
      BY <1>4, <1>5, AppendProperties
    <3> QED BY <1>8, <1>10, <3>1, <3>2, <3>3
  <2> QED BY <2>3, <2>4
<1>11. CASE /\ made.how.announced => progress[i] > 0 /\ progress[i] + 1 # ResponsesEvents(i)
            /\ Item(i).pieces > 0
            /\ \/ /\ Item(i).kind = "text"
                  /\ \E nth \in Nat : ApplyEvent(i) = [accum EXCEPT !.text = Append(@, nth)]
               \/ ApplyEvent(i) = [accum EXCEPT !.reasoned = TRUE]
  <2>1. PICK b : b = ApplyEvent(i)
    OBVIOUS
  <2>2. b \in Accums /\ b.items = accum.items /\ (b.text # <<>> => Said)
    <3>1. CASE ApplyEvent(i) = [accum EXCEPT !.reasoned = TRUE]
      BY <1>2, <2>1, <3>1, AccumFields
    <3>2. CASE /\ Item(i).kind = "text"
               /\ \E nth \in Nat : ApplyEvent(i) = [accum EXCEPT !.text = Append(@, nth)]
      <4>1. PICK nth \in Nat : b = [accum EXCEPT !.text = Append(accum.text, nth)]
        BY <2>1, <3>2
      <4>2. Append(accum.text, nth) \in Seq(Nat)
        BY AccumFields, AppendProperties
      <4>3. b \in Accums /\ b.items = accum.items
        BY <4>1, <4>2, AccumFields
      <4>4. Said
        BY <1>11, <3>2 DEF Said
      <4> QED BY <4>3, <4>4
    <3> QED BY <1>11, <3>1, <3>2
  <2>3. IF made.how.announced THEN \E s : ItemsFrom(accum.items, OneMore(progress, i), s)
        ELSE accum.items = <<>>
    <3>1. CASE made.how.announced
      <4>1. PICK src : ItemsFrom(accum.items, progress, src)
        BY <3>1 DEF ItemsSound
      <4>2. ItemsFrom(accum.items, OneMore(progress, i), src)
        BY <1>3, <1>11, <3>1, <4>1, ItemsKept
      <4> QED BY <3>1, <4>2
    <3>2. CASE ~made.how.announced
      BY <3>2 DEF ItemsSound
    <3> QED BY <3>1, <3>2
  <2>4. ItemsSound(b, OneMore(progress, i))
    BY <1>1, <2>2, <2>3 DEF ItemsSound, InTurn, Said
  <2> QED BY <2>1, <2>2, <2>4
<1> QED BY <1>9, <1>10, <1>11, EventApplied

-----------------------------------------------------------------------------
(* The answer of a stream of Responses                                      *)

IsText(i) == i \in DOMAIN made.items /\ Item(i).kind = "text"

\* The calls of what is generated, in order, and no text but those.
Tells(output) ==
  /\ output \in Seq(Outputs)
  /\ CallsIn(output) = CallsIn(WholeOutput)
  /\ \A k \in TextPlaces(output) :
       \E i : IsText(i) /\ output[k].pieces = Pieces(Item(i).pieces)
  /\ \A i : IsText(i) /\ Item(i).pieces > 0 => TextPlaces(output) # {}

AllSent == \A i \in DOMAIN made.items : progress[i] = ResponsesEvents(i)

LEMMA TextOfFull ==
  ASSUME ProviderTyped, NEW i \in DOMAIN made.items
  PROVE  /\ Full(i).kind = Item(i).kind /\ Full(i).pieces = Pieces(Item(i).pieces)
         /\ Full(i).pieces # <<>> <=> Item(i).pieces > 0
         /\ Full(i).call = IF Item(i).kind = "call" THEN IdOf(i) ELSE 0
         /\ Full(i).id = IF made.how.named THEN i ELSE 0
<1>1. Item(i).pieces \in Nat
  BY MadeItems
<1>2. Pieces(Item(i).pieces) = <<>> <=> Item(i).pieces = 0
  BY <1>1, PiecesInOrder
<1> QED BY <1>1, <1>2, OutputFields DEF Full

LEMMA WholeOutputTells == ProviderTyped => Tells(WholeOutput)
<1> SUFFICES ASSUME ProviderTyped PROVE Tells(WholeOutput)
  OBVIOUS
<1>1. ASSUME NEW k \in TextPlaces(WholeOutput)
      PROVE  \E i : IsText(i) /\ WholeOutput[k].pieces = Pieces(Item(i).pieces)
  <2>1. k \in DOMAIN made.items /\ WholeOutput[k] = Full(k) /\ Full(k).kind = "text"
    BY WholeOutputItems DEF TextPlaces
  <2> QED BY <2>1, TextOfFull DEF IsText
<1>2. ASSUME NEW i, IsText(i), Item(i).pieces > 0 PROVE TextPlaces(WholeOutput) # {}
  <2>1. i \in DOMAIN WholeOutput /\ WholeOutput[i] = Full(i)
    BY <1>2, WholeOutputItems DEF IsText
  <2>2. Full(i).kind = "text" /\ Full(i).pieces # <<>>
    BY <1>2, TextOfFull DEF IsText
  <2> QED BY <2>1, <2>2 DEF TextPlaces
<1> QED BY <1>1, <1>2, WholeOutputItems DEF Tells

\* What a merge may add: no call, and no text that is not generated.
QuietItem(x) ==
  /\ x \in Outputs /\ x.kind # "call"
  /\ x.kind = "text" /\ x.pieces # <<>> => \E i : IsText(i) /\ x.pieces = Pieces(Item(i).pieces)

LEMMA TailTells ==
  ASSUME NEW a, Tells(a), NEW b \in Seq(Outputs), DOMAIN a \subseteq DOMAIN b,
         \A k \in DOMAIN a : b[k] = a[k],
         \A k \in DOMAIN b : k \notin DOMAIN a => QuietItem(b[k])
  PROVE  Tells(b)
<1>1. CallPlaces(b) = CallPlaces(a)
  BY DEF CallPlaces, QuietItem
<1>2. CallPlaces(a) \subseteq DOMAIN a
  BY DEF CallPlaces
<1>3. CallsIn(b) = CallsIn(a)
  <2>1. PICK n \in Nat : CallPlaces(a) \in SUBSET (1..n)
    BY PlacesOfOutput DEF Tells
  <2>2. ASSUME NEW k \in 1..Cardinality(CallPlaces(a))
        PROVE  b[Nth(CallPlaces(a), k)] = a[Nth(CallPlaces(a), k)]
    <3>1. Nth(CallPlaces(a), k) \in CallPlaces(a)
      BY <2>1, NthPlace
    <3> QED BY <1>2, <3>1
  <2> QED BY <1>1, <2>2 DEF CallsIn
<1>4. ASSUME NEW k \in TextPlaces(b)
      PROVE  \E i : IsText(i) /\ b[k].pieces = Pieces(Item(i).pieces)
  <2>1. CASE k \in DOMAIN a
    <3>1. k \in TextPlaces(a) /\ b[k] = a[k]
      BY <2>1 DEF TextPlaces
    <3> QED BY <3>1 DEF Tells
  <2>2. CASE k \notin DOMAIN a
    BY <2>2 DEF TextPlaces, QuietItem
  <2> QED BY <2>1, <2>2
<1>5. TextPlaces(a) \subseteq TextPlaces(b)
  BY DEF TextPlaces
<1> QED BY <1>3, <1>4, <1>5 DEF Tells

LEMMA OneQuietTells ==
  ASSUME NEW a, Tells(a), NEW x, QuietItem(x)
  PROVE  Tells(Append(a, x))
<1>1. PICK m \in Nat : m = Len(a) /\ DOMAIN a = 1..m
  BY LenProperties DEF Tells
<1>2. PICK b : b = Append(a, x)
  OBVIOUS
<1>3. b \in Seq(Outputs) /\ Len(b) = m + 1 /\ b[m + 1] = x /\ \A k \in 1..m : b[k] = a[k]
  BY <1>1, <1>2, AppendProperties DEF Tells, QuietItem
<1>4. DOMAIN b = 1..m + 1
  BY <1>3, LenProperties
<1>5. ASSUME NEW k \in DOMAIN b, k \notin DOMAIN a PROVE QuietItem(b[k])
  <2>1. k = m + 1
    BY <1>1, <1>4, <1>5
  <2> QED BY <1>3, <2>1
<1>6. DOMAIN a \subseteq DOMAIN b
  BY <1>1, <1>4
<1>7. \A k \in DOMAIN a : b[k] = a[k]
  BY <1>1, <1>3
<1> QED BY <1>2, <1>3, <1>5, <1>6, <1>7, TailTells

\* The items of the stream tell all when it is over.
LEMMA StreamedTells ==
  ASSUME ProviderTyped, made.how.announced, AllSent, NEW src,
         ItemsFrom(accum.items, progress, src)
  PROVE  Tells(accum.items)
<1>1. PICK items : items = accum.items
  OBVIOUS
<1>2. items \in Seq(Outputs)
  BY <1>1, AccumFields
<1>3. DOMAIN src = DOMAIN items
  BY <1>1 DEF ItemsFrom
<1>4. ASSUME NEW k \in DOMAIN items
      PROVE  /\ src[k] \in DOMAIN made.items
             /\ items[k] \in {Output(src[k], <<>>), Full(src[k])}
             /\ Identified(src[k]) => items[k] = Full(src[k])
  BY <1>1, <1>3 DEF ItemsFrom, AllSent
<1>5. ASSUME NEW i \in DOMAIN made.items
      PROVE  \E k \in DOMAIN items : src[k] = i /\ items[k] = Full(i)
  <2>1. progress[i] = ResponsesEvents(i)
    BY DEF AllSent
  <2>2. progress[i] > 0
    <3>1. ResponsesEvents(i) \in Nat /\ ResponsesEvents(i) >= 2
      BY EventCounts
    <3> QED BY <2>1, <3>1
  <2> QED BY <1>1, <1>3, <2>1, <2>2 DEF ItemsFrom
<1>6. PICK from : from = CallPlaces(items)
  OBVIOUS
<1>7. PICK to : to = CallPlaces(WholeOutput)
  OBVIOUS
<1>8. \A i \in to : i \in DOMAIN made.items /\ Item(i).kind = "call" /\ WholeOutput[i] = Full(i)
  BY <1>7, WholeOutputItems, TextOfFull DEF CallPlaces
<1>9. ASSUME NEW k \in from
      PROVE  k \in DOMAIN items /\ src[k] \in to /\ Identified(src[k]) /\ items[k] = Full(src[k])
  <2>1. k \in DOMAIN items /\ items[k].kind = "call"
    BY <1>6 DEF CallPlaces
  <2>2. items[k].kind = Item(src[k]).kind
    BY <1>4, <2>1, OutputFields, TextOfFull
  <2>3. Identified(src[k])
    BY <2>1, <2>2 DEF Identified
  <2>4. src[k] \in DOMAIN WholeOutput /\ WholeOutput[src[k]] = Full(src[k])
    BY <1>4, <2>1, WholeOutputItems
  <2>5. src[k] \in to
    BY <1>4, <1>7, <2>1, <2>2, <2>4, TextOfFull DEF CallPlaces
  <2> QED BY <1>4, <2>1, <2>3, <2>5
<1>10. PICK g : g = [k \in from |-> src[k]]
  OBVIOUS
<1>11. Matches(g, from, to)
  <2>1. \E n, m \in Nat : from \in SUBSET (1..n) /\ to \in SUBSET (1..m)
    <3>1. PICK n \in Nat : from \in SUBSET (1..n)
      BY <1>2, <1>6, PlacesOfOutput
    <3>2. PICK m \in Nat : to \in SUBSET (1..m)
      BY <1>7, WholeOutputItems, PlacesOfOutput
    <3> QED BY <3>1, <3>2
  <2>2. g \in [from -> to]
    BY <1>9, <1>10
  <2>3. ASSUME NEW i \in to PROVE \E k \in from : g[k] = i
    <3>1. PICK k \in DOMAIN items : src[k] = i /\ items[k] = Full(i)
      BY <1>5, <1>8
    <3>2. k \in from
      BY <1>6, <1>8, <3>1, TextOfFull DEF CallPlaces
    <3> QED BY <1>10, <3>1, <3>2
  <2>4. ASSUME NEW k \in from, NEW l \in from, k < l PROVE g[k] < g[l]
    <3>1. g[k] = src[k] /\ g[l] = src[l]
      BY <1>10
    <3>2. src[k] <= src[l] /\ src[k] # src[l]
      BY <1>1, <1>3, <1>9, <2>4 DEF ItemsFrom
    <3>3. PICK n \in Nat : DOMAIN made.items = 1..n
      BY MadeItems
    <3>4. PICK a \in 1..n : a = src[k]
      BY <1>4, <1>9, <3>3
    <3>5. PICK b \in 1..n : b = src[l]
      BY <1>4, <1>9, <3>3
    <3>6. a < b
      BY <3>2, <3>4, <3>5
    <3> QED BY <3>1, <3>4, <3>5, <3>6
  <2> QED BY <2>1, <2>2, <2>3, <2>4 DEF Matches
<1>12. CallsIn(items) = CallsIn(WholeOutput)
  <2>1. ASSUME NEW p \in CallPlaces(items)
        PROVE  items[p].call = WholeOutput[g[p]].call /\ items[p].pieces = WholeOutput[g[p]].pieces
    BY <1>6, <1>8, <1>9, <1>10
  <2>2. Matches(g, CallPlaces(items), CallPlaces(WholeOutput))
    BY <1>6, <1>7, <1>11
  <2> QED BY <2>1, <2>2, SameCalls
<1>13. ASSUME NEW k \in TextPlaces(items)
       PROVE  \E i : IsText(i) /\ items[k].pieces = Pieces(Item(i).pieces)
  <2>1. k \in DOMAIN items /\ items[k].kind = "text" /\ items[k].pieces # <<>>
    BY DEF TextPlaces
  <2>2. items[k] = Full(src[k])
    BY <1>4, <2>1, OutputFields
  <2> QED BY <1>4, <2>1, <2>2, TextOfFull DEF IsText
<1>14. ASSUME NEW i, IsText(i), Item(i).pieces > 0 PROVE TextPlaces(items) # {}
  <2>1. PICK k \in DOMAIN items : items[k] = Full(i)
    BY <1>5, <1>14 DEF IsText
  <2>2. Full(i).kind = "text" /\ Full(i).pieces # <<>>
    BY <1>14, TextOfFull DEF IsText
  <2> QED BY <2>1, <2>2 DEF TextPlaces
<1> QED BY <1>1, <1>2, <1>12, <1>13, <1>14 DEF Tells

\* An item without an identity is like no other.
Nameless(x) == QuietItem(x) /\ x.id = 0 /\ x.call = 0
Mergeable(x) == Nameless(x) \/ \E i \in DOMAIN made.items : Identified(i) /\ x = Full(i)

\* The whole response, with nameless items behind it.
Extended(b) ==
  /\ b \in Seq(Outputs) /\ DOMAIN made.items \subseteq DOMAIN b
  /\ \A i \in DOMAIN made.items : b[i] = Full(i)
  /\ \A k \in DOMAIN b : k \notin DOMAIN made.items => Nameless(b[k])

LEMMA ExtendedTells == ProviderTyped => \A b : Extended(b) => Tells(b)
<1> SUFFICES ASSUME ProviderTyped, NEW b, Extended(b) PROVE Tells(b)
  OBVIOUS
<1>1. PICK a : a = WholeOutput
  OBVIOUS
<1>2. Tells(a) /\ DOMAIN a = DOMAIN made.items /\ \A i \in DOMAIN made.items : a[i] = Full(i)
  BY <1>1, WholeOutputTells, WholeOutputItems
<1>3. /\ DOMAIN a \subseteq DOMAIN b /\ \A k \in DOMAIN a : b[k] = a[k]
      /\ \A k \in DOMAIN b : k \notin DOMAIN a => QuietItem(b[k])
      /\ b \in Seq(Outputs)
  BY <1>2 DEF Extended, Nameless
<1> QED BY <1>2, <1>3, TailTells

LEMMA UpsertExtends ==
  ASSUME ProviderTyped, NEW b, Extended(b), NEW x, Mergeable(x)
  PROVE  Extended(Upsert(b, x))
<1>1. PICK m \in Nat : m = Len(b) /\ DOMAIN b = 1..m
  BY LenProperties DEF Extended
<1>2. PICK n \in Nat : n <= MaxItems /\ DOMAIN made.items = 1..n
  BY MadeItems
<1>3. CASE Nameless(x)
  <2>1. ASSUME NEW k \in DOMAIN b PROVE ~SameItem(b[k], x)
    BY <1>3 DEF Nameless, SameItem
  <2>2. PICK c : c = Append(b, x)
    OBVIOUS
  <2>3. c \in Seq(Outputs) /\ Len(c) = m + 1 /\ c[m + 1] = x /\ \A k \in 1..m : c[k] = b[k]
    BY <1>1, <1>3, <2>2, AppendProperties DEF Extended, Nameless, QuietItem
  <2>4. DOMAIN c = 1..m + 1
    BY <2>3, LenProperties
  <2>5. ASSUME NEW k \in DOMAIN c, k \notin DOMAIN made.items PROVE Nameless(c[k])
    <3>1. CASE k = m + 1
      BY <1>3, <2>3, <3>1
    <3>2. CASE k # m + 1
      <4>1. k \in 1..m
        BY <2>4, <3>2
      <4> QED BY <1>1, <2>3, <2>5, <4>1 DEF Extended
    <3> QED BY <3>1, <3>2
  <2>6. DOMAIN made.items \subseteq DOMAIN c /\ \A i \in DOMAIN made.items : c[i] = Full(i)
    <3>1. ASSUME NEW i \in DOMAIN made.items PROVE i \in DOMAIN c /\ c[i] = Full(i)
      <4>1. i \in 1..m /\ b[i] = Full(i)
        BY <1>1 DEF Extended
      <4> QED BY <2>3, <2>4, <4>1
    <3> QED BY <3>1
  <2>7. Extended(c)
    BY <2>3, <2>5, <2>6 DEF Extended
  <2> QED BY <2>1, <2>2, <2>7, UpsertAppends
<1>4. CASE \E i \in DOMAIN made.items : Identified(i) /\ x = Full(i)
  <2>1. PICK j \in DOMAIN made.items : Identified(j) /\ x = Full(j)
    BY <1>4
  <2>2. PICK d \in 1..n : d = j
    BY <1>2, <2>1
  <2>3. d \in 1..MaxItems /\ posts \in Nat
    <3>1. posts \in Nat
      BY DEF ProviderTyped
    <3> QED BY <1>2, <2>2, <3>1, IdBases
  <2>4. x.id # 0 \/ x.call # 0
    <3>1. IdOf(d) # 0
      BY <2>3, IdsOfItems
    <3>2. /\ Full(d).id = (IF made.how.named THEN d ELSE 0)
          /\ Full(d).call = (IF Item(d).kind = "call" THEN IdOf(d) ELSE 0)
      BY <2>1, <2>2, TextOfFull
    <3> QED BY <2>1, <2>2, <2>3, <3>1, <3>2 DEF Identified
  <2>5. ASSUME NEW k \in DOMAIN b PROVE SameItem(b[k], x) <=> k = j
    <3>1. CASE k \in DOMAIN made.items
      <4>1. b[k] = Full(k)
        BY <3>1 DEF Extended
      <4>2. PICK c \in 1..n : c = k
        BY <1>2, <3>1
      <4>3. c \in 1..MaxItems
        BY <1>2, IdBases
      <4> QED BY <2>1, <2>2, <2>3, <4>1, <4>2, <4>3, SameOutput DEF Full
    <3>2. CASE k \notin DOMAIN made.items
      <4>1. b[k].id = 0 /\ b[k].call = 0
        BY <3>2 DEF Extended, Nameless
      <4>2. ~SameItem(b[k], x)
        BY <4>1 DEF SameItem
      <4> QED BY <2>1, <3>2, <4>2
    <3> QED BY <3>1, <3>2
  <2>6. j \in DOMAIN b /\ b[j] = x /\ DOMAIN b \subseteq Int
    BY <1>1, <2>1 DEF Extended
  <2>7. Upsert(b, x) = [b EXCEPT ![j] = x]
    BY <2>5, <2>6, UpsertReplaces
  <2>8. [b EXCEPT ![j] = x] = b
    <3>1. b = [k \in DOMAIN b |-> b[k]]
      BY <1>1 DEF Extended
    <3> QED BY <2>6, <3>1
  <2> QED BY <2>7, <2>8
<1> QED BY <1>3, <1>4 DEF Mergeable

\* A merge takes one item after the other.
MergeFrom(g, target, incoming, m) ==
  g = [n \in 0..m |-> IF n = 0 THEN target ELSE Upsert(g[n - 1], incoming[n])]

LEMMA MergeLonger ==
  ASSUME NEW m \in Nat, NEW target, NEW incoming, NEW g, MergeFrom(g, target, incoming, m)
  PROVE  \E h : MergeFrom(h, target, incoming, m + 1)
<1>1. PICK h : h = [n \in 0..m + 1 |-> IF n = m + 1 THEN Upsert(g[m], incoming[m + 1]) ELSE g[n]]
  OBVIOUS
<1>2. ASSUME NEW n \in 0..m + 1
      PROVE  h[n] = IF n = 0 THEN target ELSE Upsert(h[n - 1], incoming[n])
  <2>1. CASE n = m + 1
    <3>1. h[n] = Upsert(g[m], incoming[m + 1]) /\ n # 0 /\ n - 1 = m
      BY <1>1, <2>1
    <3>2. h[m] = g[m]
      <4>1. m \in 0..m + 1 /\ m # m + 1
        OBVIOUS
      <4> QED BY <1>1, <4>1
    <3> QED BY <2>1, <3>1, <3>2
  <2>2. CASE n # m + 1
    <3>1. n \in 0..m
      BY <2>2
    <3>2. h[n] = g[n]
      BY <1>1, <2>2
    <3>3. g[n] = IF n = 0 THEN target ELSE Upsert(g[n - 1], incoming[n])
      BY <3>1 DEF MergeFrom
    <3>4. n # 0 => h[n - 1] = g[n - 1]
      <4>1. n # 0 => n - 1 \in 0..m + 1 /\ n - 1 # m + 1
        BY <3>1
      <4> QED BY <1>1, <4>1
    <3> QED BY <3>2, <3>3, <3>4
  <2> QED BY <2>1, <2>2
<1>3. DOMAIN h = 0..m + 1 /\ h = [n \in 0..m + 1 |-> h[n]]
  BY <1>1
<1>4. h = [n \in 0..m + 1 |-> IF n = 0 THEN target ELSE Upsert(h[n - 1], incoming[n])]
  BY <1>2, <1>3
<1> QED BY <1>4 DEF MergeFrom

LEMMA MergeExists ==
  ASSUME NEW target, NEW incoming, NEW l \in Nat
  PROVE  \E g : MergeFrom(g, target, incoming, l)
<1> SUFFICES ASSUME ~\E g : MergeFrom(g, target, incoming, l) PROVE FALSE
  OBVIOUS
<1>1. \E g : MergeFrom(g, target, incoming, 0)
  <2>1. PICK g : g = [n \in 0..0 |-> target]
    OBVIOUS
  <2>2. g = [n \in 0..0 |-> IF n = 0 THEN target ELSE Upsert(g[n - 1], incoming[n])]
    BY <2>1
  <2> QED BY <2>2 DEF MergeFrom
<1>2. PICK bad : bad = {m \in 1..l : ~\E g : MergeFrom(g, target, incoming, m)}
  OBVIOUS
<1>3. l \in bad
  <2>1. l # 0
    BY <1>1
  <2> QED BY <1>2, <2>1
<1>4. bad \in SUBSET (1..l) /\ bad # {}
  BY <1>2, <1>3
<1>5. PICK m \in bad : \A k \in bad : m <= k
  BY <1>4, FirstPlace
<1>6. m \in 1..l /\ ~\E g : MergeFrom(g, target, incoming, m)
  BY <1>2
<1>7. \E g : MergeFrom(g, target, incoming, m - 1)
  <2>1. CASE m = 1
    BY <1>1, <2>1
  <2>2. CASE m # 1
    <3>1. m - 1 \in 1..l /\ m - 1 \notin bad
      BY <1>5, <1>6, <2>2
    <3> QED BY <1>2, <3>1
  <2> QED BY <2>1, <2>2
<1>8. PICK p \in Nat : p = m - 1 /\ p + 1 = m
  BY <1>6
<1> QED BY <1>6, <1>7, <1>8, MergeLonger

LEMMA MergeUnfolds ==
  ASSUME NEW target, NEW incoming, Len(incoming) \in Nat
  PROVE  \E g : MergeFrom(g, target, incoming, Len(incoming))
                /\ MergedItems(target, incoming) = g[Len(incoming)]
<1> DEFINE Is(g) == g = [n \in 0..Len(incoming) |->
                           IF n = 0 THEN target ELSE Upsert(g[n - 1], incoming[n])]
<1>1. MergedItems(target, incoming) = (CHOOSE g : Is(g))[Len(incoming)]
  BY DEF MergedItems
<1>2. PICK f : MergeFrom(f, target, incoming, Len(incoming))
  BY MergeExists
<1>3. Is(f)
  BY <1>2 DEF MergeFrom
<1>4. Is(CHOOSE g : Is(g))
  <2> HIDE DEF Is
  <2> QED BY <1>3
<1> QED BY <1>1, <1>4 DEF MergeFrom

LEMMA MergeExtends ==
  ASSUME ProviderTyped, NEW incoming, Len(incoming) \in Nat,
         \A k \in 1..Len(incoming) : Mergeable(incoming[k])
  PROVE  Extended(MergedItems(WholeOutput, incoming))
<1>1. PICK l \in Nat : l = Len(incoming)
  OBVIOUS
<1>2. PICK g : MergeFrom(g, WholeOutput, incoming, l) /\ MergedItems(WholeOutput, incoming) = g[l]
  BY <1>1, MergeUnfolds
<1>3. \A n \in 0..l : g[n] = IF n = 0 THEN WholeOutput ELSE Upsert(g[n - 1], incoming[n])
  BY <1>2 DEF MergeFrom
<1>4. Extended(g[0])
  <2>1. g[0] = WholeOutput
    BY <1>3
  <2> QED BY <2>1, WholeOutputItems DEF Extended
<1>5. SUFFICES ASSUME ~Extended(g[l]) PROVE FALSE
  BY <1>2
<1>6. PICK bad : bad = {n \in 1..l : ~Extended(g[n])}
  OBVIOUS
<1>7. bad \in SUBSET (1..l) /\ bad # {}
  <2>1. l # 0
    BY <1>4, <1>5
  <2>2. l \in bad
    BY <1>5, <1>6, <2>1
  <2> QED BY <1>6, <2>2
<1>8. PICK n \in bad : \A k \in bad : n <= k
  BY <1>7, FirstPlace
<1>9. n \in 1..l /\ ~Extended(g[n])
  BY <1>6
<1>10. Extended(g[n - 1])
  <2>1. CASE n = 1
    BY <1>4, <2>1
  <2>2. CASE n # 1
    <3>1. n - 1 \in 1..l /\ n - 1 \notin bad
      BY <1>8, <1>9, <2>2
    <3> QED BY <1>6, <3>1
  <2> QED BY <2>1, <2>2
<1>11. g[n] = Upsert(g[n - 1], incoming[n])
  <2>1. n \in 0..l /\ n # 0
    BY <1>9
  <2> QED BY <1>3, <2>1
<1>12. Mergeable(incoming[n])
  BY <1>1, <1>9
<1> QED BY <1>9, <1>10, <1>11, <1>12, UpsertExtends

\* Reasoning that only came as deltas.
Reasoned == [kind |-> "reasoning", id |-> 0, call |-> 0, pieces |-> <<1>>]

LEMMA SyntheticIs ==
  /\ Nameless(Reasoned)
  /\ Synthetic = accum.items \/ Synthetic = Append(accum.items, Reasoned)
<1>1. Reasoned.kind = "reasoning" /\ Reasoned.id = 0 /\ Reasoned.call = 0
  BY DEF Reasoned
<1>2. Reasoned \in Outputs
  <2>1. <<1>> \in Seq(Nat)
    OBVIOUS
  <2> QED BY <2>1 DEF Reasoned, Outputs, ItemKinds
<1>3. Nameless(Reasoned)
  BY <1>1, <1>2 DEF Nameless, QuietItem
<1> QED BY <1>3 DEF Synthetic, Reasoned

LEMMA StreamedMerges ==
  ASSUME ProviderTyped, made.how.announced, AllSent, NEW src,
         ItemsFrom(accum.items, progress, src), NEW k \in DOMAIN accum.items
  PROVE  Mergeable(accum.items[k])
<1>1. PICK i \in DOMAIN made.items :
        /\ accum.items[k] \in {Output(i, <<>>), Full(i)}
        /\ Identified(i) => accum.items[k] = Full(i)
  BY DEF ItemsFrom, AllSent
<1>2. CASE Identified(i)
  BY <1>1, <1>2 DEF Mergeable
<1>3. CASE ~Identified(i)
  <2>1. PICK x : x = accum.items[k]
    OBVIOUS
  <2>2. x \in Outputs
    <3>1. PICK m \in Nat : m = Len(accum.items) /\ DOMAIN accum.items = 1..m
      BY AccumFields, LenProperties
    <3> QED BY <2>1, <3>1, AccumFields, ElementOfSeq
  <2>3. x.kind = Item(i).kind /\ x.kind # "call" /\ x.id = 0 /\ x.call = 0
    BY <1>1, <1>3, <2>1, OutputFields DEF Full, Identified
  <2>4. ASSUME x.kind = "text", x.pieces # <<>>
        PROVE  \E t : IsText(t) /\ x.pieces = Pieces(Item(t).pieces)
    <3>1. x = Full(i)
      BY <1>1, <2>1, <2>4, OutputFields
    <3> QED BY <2>3, <2>4, <3>1, TextOfFull DEF IsText
  <2>5. Nameless(x)
    BY <2>2, <2>3, <2>4 DEF Nameless, QuietItem
  <2> QED BY <2>1, <2>5 DEF Mergeable
<1> QED BY <1>2, <1>3

LEMMA SyntheticMerges ==
  ASSUME ProviderTyped, ItemsSound(accum, progress), AllSent
  PROVE  /\ Len(Synthetic) \in Nat /\ \A k \in 1..Len(Synthetic) : Mergeable(Synthetic[k])
         /\ made.how.announced => Tells(Synthetic)
<1>1. PICK m \in Nat : m = Len(accum.items) /\ DOMAIN accum.items = 1..m
  BY AccumFields, LenProperties
<1>2. \A k \in 1..m : Mergeable(accum.items[k])
  <2>1. CASE made.how.announced
    <3>1. PICK src : ItemsFrom(accum.items, progress, src)
      BY <2>1 DEF ItemsSound
    <3>2. \A k \in DOMAIN accum.items : Mergeable(accum.items[k])
      BY <2>1, <3>1, StreamedMerges
    <3> QED BY <1>1, <3>2
  <2>2. CASE ~made.how.announced
    <3>1. accum.items = <<>>
      BY <2>2 DEF ItemsSound
    <3>2. m = 0
      BY <1>1, <3>1
    <3> QED BY <3>2
  <2> QED BY <2>1, <2>2
<1>3. ASSUME made.how.announced PROVE Tells(accum.items)
  <2>1. PICK src : ItemsFrom(accum.items, progress, src)
    BY <1>3 DEF ItemsSound
  <2> QED BY <1>3, <2>1, StreamedTells
<1>4. CASE Synthetic = accum.items
  BY <1>1, <1>2, <1>3, <1>4
<1>5. CASE Synthetic = Append(accum.items, Reasoned)
  <2>1. PICK s : s = Append(accum.items, Reasoned)
    OBVIOUS
  <2>2. Reasoned \in Outputs /\ QuietItem(Reasoned) /\ Mergeable(Reasoned)
    BY SyntheticIs DEF Nameless, QuietItem, Mergeable
  <2>3. Len(s) = m + 1 /\ s[m + 1] = Reasoned /\ \A k \in 1..m : s[k] = accum.items[k]
    BY <1>1, <2>1, <2>2, AccumFields, AppendProperties
  <2>4. ASSUME NEW k \in 1..m + 1 PROVE Mergeable(s[k])
    <3>1. CASE k = m + 1
      BY <2>2, <2>3, <3>1
    <3>2. CASE k # m + 1
      <4>1. k \in 1..m
        BY <3>2
      <4> QED BY <1>2, <2>3, <4>1
    <3> QED BY <3>1, <3>2
  <2>5. made.how.announced => Tells(s)
    BY <1>3, <2>1, <2>2, OneQuietTells
  <2> QED BY <1>5, <2>1, <2>3, <2>4, <2>5
<1> QED BY <1>4, <1>5, SyntheticIs

LEMMA FirstText ==
  ASSUME NEW b \in Seq(Outputs), TextPlaces(b) # {}
  PROVE  Nth(TextPlaces(b), 1) \in TextPlaces(b)
<1>1. PICK n \in Nat : TextPlaces(b) \in SUBSET (1..n)
  BY PlacesOfOutput
<1>2. Cardinality(TextPlaces(b)) \in Nat /\ IsFiniteSet(TextPlaces(b))
  BY <1>1, UpToFinite
<1>3. Cardinality(TextPlaces(b)) # 0
  BY <1>2, FS_EmptySet
<1>4. 1 \in 1..Cardinality(TextPlaces(b))
  BY <1>2, <1>3
<1> QED BY <1>1, <1>4, NthPlace

\* Items that tell all, and the text of the deltas, become the answer.
LEMMA TextsAgree ==
  ASSUME ProviderTyped, NEW output, Tells(output), NEW text,
         text # <<>> => \E i : IsText(i) /\ Item(i).pieces > 0,
         \A i, j : IsText(i) /\ IsText(j) => i = j
  PROVE  TextIn(output, text) = Generated.text
<1>1. PICK a : a = WholeOutput
  OBVIOUS
<1>2. Tells(a) /\ Generated.text = TextIn(a, <<>>)
  BY <1>1, WholeOutputTells, GeneratedParts
<1>3. ASSUME NEW b, Tells(b), TextPlaces(b) # {}
      PROVE  Nth(TextPlaces(b), 1) \in TextPlaces(b)
  BY <1>3, FirstText DEF Tells
<1>4. ASSUME NEW b, Tells(b), TextPlaces(b) # {}, NEW t
      PROVE  \E i : IsText(i) /\ Item(i).pieces > 0 /\ TextIn(b, t) = Pieces(Item(i).pieces)
  <2>1. PICK k \in TextPlaces(b) : k = Nth(TextPlaces(b), 1)
    BY <1>3, <1>4
  <2>2. TextIn(b, t) = b[k].pieces
    BY <1>4, <2>1 DEF TextIn
  <2>3. PICK i : IsText(i) /\ b[k].pieces = Pieces(Item(i).pieces)
    BY <1>4, <2>1 DEF Tells
  <2>4. b[k].pieces # <<>>
    BY <2>1 DEF TextPlaces
  <2>5. Item(i).pieces \in Nat
    BY <2>3, MadeItems DEF IsText
  <2>6. Item(i).pieces # 0
    BY <2>3, <2>4, <2>5, PiecesInOrder
  <2>7. Item(i).pieces > 0
    BY <2>5, <2>6
  <2> QED BY <2>2, <2>3, <2>7
<1>5. CASE \E i : IsText(i) /\ Item(i).pieces > 0
  <2>1. TextPlaces(output) # {} /\ TextPlaces(a) # {}
    BY <1>2, <1>5 DEF Tells
  <2>2. PICK i : IsText(i) /\ TextIn(output, text) = Pieces(Item(i).pieces)
    BY <1>4, <2>1
  <2>3. PICK j : IsText(j) /\ TextIn(a, <<>>) = Pieces(Item(j).pieces)
    BY <1>2, <1>4, <2>1
  <2> QED BY <1>2, <2>2, <2>3
<1>6. CASE ~\E i : IsText(i) /\ Item(i).pieces > 0
  <2>1. TextPlaces(output) = {} /\ TextPlaces(a) = {}
    BY <1>2, <1>4, <1>6
  <2>2. text = <<>>
    BY <1>6
  <2> QED BY <1>2, <2>1, <2>2 DEF TextIn
<1> QED BY <1>5, <1>6

\* What the answer of a stream of Responses is.
LEMMA ResponsesAnswered ==
  ASSUME ProviderTyped, ItemsSound(accum, progress), AllSent,
         made.how.announced \/ made.how.whole
  PROVE  /\ ResponsesAnswer.calls = Generated.calls
         /\ ResponsesAnswer.items \in Seq(ReplayItems)
         /\ ItemsMatch(ResponsesAnswer.calls, ResponsesAnswer.items)
         /\ (\A i, j : IsText(i) /\ IsText(j) => i = j) => ResponsesAnswer.text = Generated.text
<1>1. PICK output : output = IF made.how.whole THEN MergedItems(WholeOutput, Synthetic) ELSE Synthetic
  OBVIOUS
<1>2. Tells(output)
  <2>1. CASE made.how.whole
    <3>1. Extended(MergedItems(WholeOutput, Synthetic))
      BY SyntheticMerges, MergeExtends
    <3> QED BY <1>1, <2>1, <3>1, ExtendedTells
  <2>2. CASE ~made.how.whole
    BY <1>1, <2>2, SyntheticMerges
  <2> QED BY <2>1, <2>2
<1>3. ResponsesAnswer = Normalized(output, accum.text)
  BY <1>1 DEF ResponsesAnswer
<1>4. ResponsesAnswer.calls = CallsIn(output) /\ ResponsesAnswer.text = TextIn(output, accum.text)
  BY <1>3, NormalizedParts
<1>5. ResponsesAnswer.calls = Generated.calls
  BY <1>2, <1>4, GeneratedParts DEF Tells
<1>6. /\ ResponsesAnswer.items \in Seq(ReplayItems)
      /\ ItemsMatch(ResponsesAnswer.calls, ResponsesAnswer.items)
  BY <1>2, <1>3, NormalizedItems DEF Tells
<1>7. ASSUME \A i, j : IsText(i) /\ IsText(j) => i = j
      PROVE  ResponsesAnswer.text = Generated.text
  <2>1. accum.text # <<>> => \E i : IsText(i) /\ Item(i).pieces > 0
    BY DEF ItemsSound, IsText
  <2> QED BY <1>2, <1>4, <1>7, <2>1, TextsAgree
<1> QED BY <1>5, <1>6, <1>7

\* What the answer of a response read whole is.
LEMMA WholeAnswered ==
  ASSUME ProviderTyped
  PROVE  /\ WholeAnswer.calls = Generated.calls /\ WholeAnswer.text = Generated.text
         /\ WholeAnswer.items \in Seq(ReplayItems)
         /\ ItemsMatch(WholeAnswer.calls, WholeAnswer.items)
<1>1. CASE wire = "responses"
  <2>1. WholeAnswer = Normalized(WholeOutput, <<>>)
    BY <1>1 DEF WholeAnswer
  <2> QED BY <2>1, NormalizedParts, GeneratedParts, NormalizedItems, WholeOutputItems
<1>2. CASE wire # "responses"
  <2>1. WholeAnswer = AnswerOf(Generated.text, Generated.calls, <<>>)
    BY <1>2 DEF WholeAnswer
  <2>2. /\ WholeAnswer.calls = Generated.calls /\ WholeAnswer.text = Generated.text
        /\ WholeAnswer.items = <<>>
    BY <2>1 DEF AnswerOf
  <2>3. <<>> \in Seq(ReplayItems) /\ DOMAIN <<>> = {}
    OBVIOUS
  <2> QED BY <2>2, <2>3 DEF ItemsMatch
<1> QED BY <1>1, <1>2

-----------------------------------------------------------------------------
(* The stream of a chat                                                     *)

\* The slot of a call in the accumulator.
SlotOf(i) == Cardinality(UpTo(Made("call"), i)) + made.how.base

\* A call of which so many events were sent.
SlotFor(i, events) == [named |-> TRUE, id |-> IdOf(i), pieces |-> Pieces(events - 1)]

\* The slots are those of the calls begun; the text is that of the only text.
SlotsSound(acc, sent) ==
  /\ \A i \in Made("call") : sent[i] > 0 =>
       SlotOf(i) \in DOMAIN acc.slots /\ acc.slots[SlotOf(i)] = SlotFor(i, sent[i])
  /\ \A k \in DOMAIN acc.slots :
       acc.slots[k] = NoSlot \/ \E i \in Made("call") : sent[i] > 0 /\ SlotOf(i) = k
  /\ \A i : IsText(i) /\ (\A j : IsText(j) => j = i) => acc.text = Pieces(sent[i])
  /\ (\A i : ~IsText(i)) => acc.text = <<>>

LEMMA CallsMade ==
  ASSUME ProviderTyped
  PROVE  /\ \E n \in Nat : n <= MaxItems /\ Made("call") \in SUBSET (1..n)
         /\ Made("call") \subseteq DOMAIN made.items
         /\ \A i \in Made("call") : Item(i).kind = "call"
BY MadeItems DEF Made, Item

LEMMA SlotsInOrder ==
  ASSUME ProviderTyped
  PROVE  /\ \A i \in Made("call") : SlotOf(i) \in Nat /\ SlotOf(i) >= 1
         /\ \A i, j \in Made("call") : i < j => SlotOf(i) < SlotOf(j)
         /\ \A i, j \in Made("call") : SlotOf(i) = SlotOf(j) => i = j
<1>1. PICK n \in Nat : Made("call") \in SUBSET (1..n)
  BY CallsMade
<1>2. PICK asked : asked = Made("call")
  OBVIOUS
<1>3. asked \in SUBSET (1..n)
  BY <1>1, <1>2
<1>4. PICK b \in Nat : b = made.how.base
  BY DEF ProviderTyped, Manners
<1>5. ASSUME NEW i \in asked
      PROVE  /\ IsFiniteSet(UpTo(asked, i)) /\ Cardinality(UpTo(asked, i)) \in Nat
             /\ Cardinality(UpTo(asked, i)) >= 1 /\ i \in Int
  <2>1. IsFiniteSet(UpTo(asked, i)) /\ Cardinality(UpTo(asked, i)) \in Nat
    BY <1>3, UpToFinite
  <2>2. i \in Int
    BY <1>3
  <2>3. i \in UpTo(asked, i)
    BY <2>2 DEF UpTo
  <2>4. Cardinality(UpTo(asked, i)) # 0
    BY <2>1, <2>3, FS_EmptySet
  <2> QED BY <2>1, <2>2, <2>4
<1>6. ASSUME NEW i \in asked, NEW j \in asked, i < j
      PROVE  Cardinality(UpTo(asked, i)) < Cardinality(UpTo(asked, j))
  <2>1. UpTo(asked, i) \in SUBSET UpTo(asked, j)
    <3>1. ASSUME NEW r \in asked, r <= i PROVE r <= j
      <4>1. r \in 1..n /\ i \in 1..n /\ j \in 1..n
        BY <1>3
      <4> QED BY <1>6, <3>1, <4>1
    <3> QED BY <3>1 DEF UpTo
  <2>2. j \in UpTo(asked, j) /\ j \notin UpTo(asked, i)
    <3>1. i \in Int /\ j \in Int
      BY <1>5
    <3> QED BY <1>6, <3>1 DEF UpTo
  <2>3. IsFiniteSet(UpTo(asked, j))
    BY <1>5
  <2>4. /\ Cardinality(UpTo(asked, i)) <= Cardinality(UpTo(asked, j))
        /\ Cardinality(UpTo(asked, i)) # Cardinality(UpTo(asked, j))
    BY <2>1, <2>2, <2>3, FS_Subset
  <2> QED BY <1>5, <2>4
<1>7. \A i \in asked : SlotOf(i) = Cardinality(UpTo(asked, i)) + b
  BY <1>2, <1>4 DEF SlotOf
<1>8. ASSUME NEW i \in asked PROVE SlotOf(i) \in Nat /\ SlotOf(i) >= 1
  BY <1>5, <1>7
<1>9. ASSUME NEW i \in asked, NEW j \in asked, i < j PROVE SlotOf(i) < SlotOf(j)
  BY <1>5, <1>6, <1>7, <1>9
<1>10. ASSUME NEW i \in asked, NEW j \in asked, SlotOf(i) = SlotOf(j) PROVE i = j
  <2>1. ~(SlotOf(i) < SlotOf(j)) /\ ~(SlotOf(j) < SlotOf(i))
    BY <1>8, <1>10
  <2>2. ~(i < j) /\ ~(j < i)
    BY <1>9, <2>1
  <2> QED BY <1>5, <2>2
<1> QED BY <1>2, <1>8, <1>9, <1>10

LEMMA SlotsMadeUp ==
  ASSUME NEW slots \in Seq(Slots), NEW n \in Nat, n >= 1
  PROVE  /\ WithSlot(slots, n) \in Seq(Slots) /\ n \in DOMAIN WithSlot(slots, n)
         /\ DOMAIN slots \subseteq DOMAIN WithSlot(slots, n)
         /\ \A k \in DOMAIN slots : WithSlot(slots, n)[k] = slots[k]
         /\ \A k \in DOMAIN WithSlot(slots, n) : k \notin DOMAIN slots => WithSlot(slots, n)[k] = NoSlot
         /\ n \in DOMAIN slots => WithSlot(slots, n) = slots
<1>1. PICK l \in Nat : l = Len(slots) /\ DOMAIN slots = 1..l
  BY LenProperties
<1>2. NoSlot \in Slots
  BY DEF NoSlot, Slots
<1>3. PICK d \in Nat : d = IF n > l THEN n - l ELSE 0
  <2>1. (IF n > l THEN n - l ELSE 0) \in Nat
    OBVIOUS
  <2> QED BY <2>1
<1>4. 1..(n - l) = 1..d
  BY <1>3
<1>5. PICK tail : tail = [k \in 1..d |-> NoSlot]
  OBVIOUS
<1>6. tail \in Seq(Slots) /\ Len(tail) = d
  <2>1. tail \in [1..d -> Slots]
    BY <1>2, <1>5
  <2>2. tail \in Seq(Slots) /\ DOMAIN tail = 1..d
    BY <2>1
  <2> QED BY <2>2, LenProperties
<1>7. PICK w : w = WithSlot(slots, n)
  OBVIOUS
<1>8. w = slots \o tail
  BY <1>1, <1>4, <1>5, <1>7 DEF WithSlot
<1>9. /\ w \in Seq(Slots) /\ Len(w) = l + d
      /\ \A k \in 1..l + d : w[k] = IF k <= l THEN slots[k] ELSE tail[k - l]
  BY <1>1, <1>6, <1>8, ConcatProperties
<1>10. DOMAIN w = 1..l + d
  BY <1>9, LenProperties
<1>11. n \in DOMAIN w /\ DOMAIN slots \subseteq DOMAIN w
  BY <1>1, <1>3, <1>10
<1>12. ASSUME NEW k \in DOMAIN slots PROVE w[k] = slots[k]
  BY <1>1, <1>9
<1>13. ASSUME NEW k \in DOMAIN w, k \notin DOMAIN slots PROVE w[k] = NoSlot
  <2>1. k \in 1..l + d /\ ~(k <= l)
    BY <1>1, <1>10, <1>13
  <2>2. PICK e \in 1..d : e = k - l
    BY <2>1
  <2>3. w[k] = tail[e]
    BY <1>9, <2>1, <2>2
  <2> QED BY <1>5, <2>3
<1>14. ASSUME n \in DOMAIN slots PROVE w = slots
  <2>1. d = 0
    BY <1>1, <1>3, <1>14
  <2>2. \A k \in 1..l : w[k] = slots[k]
    BY <1>1, <1>12
  <2>3. Len(w) = Len(slots)
    BY <1>1, <1>9, <2>1
  <2> QED BY <1>1, <1>9, <2>2, <2>3, SeqEqual
<1> QED BY <1>7, <1>9, <1>11, <1>12, <1>13, <1>14

\* The slot of a call takes its next event.
LEMMA SlotGrows ==
  ASSUME ProviderTyped, NEW slots \in Seq(Slots), NEW i \in Made("call"),
         \A j \in Made("call") : progress[j] > 0 =>
           SlotOf(j) \in DOMAIN slots /\ slots[SlotOf(j)] = SlotFor(j, progress[j]),
         \A k \in DOMAIN slots :
           slots[k] = NoSlot \/ \E j \in Made("call") : progress[j] > 0 /\ SlotOf(j) = k,
         SlotOf(i) \in DOMAIN slots,
         NEW grown, grown = [slots EXCEPT ![SlotOf(i)] = SlotFor(i, OneMore(progress, i)[i])]
  PROVE  /\ grown \in Seq(Slots)
         /\ \A j \in Made("call") : OneMore(progress, i)[j] > 0 =>
              /\ SlotOf(j) \in DOMAIN grown
              /\ grown[SlotOf(j)] = SlotFor(j, OneMore(progress, i)[j])
         /\ \A k \in DOMAIN grown : \/ grown[k] = NoSlot
              \/ \E j \in Made("call") : OneMore(progress, i)[j] > 0 /\ SlotOf(j) = k
<1> DEFINE sent == OneMore(progress, i)
<1>1. i \in DOMAIN made.items /\ Made("call") \subseteq DOMAIN made.items
  BY CallsMade
<1>2. sent[i] = progress[i] + 1 /\ progress[i] \in Nat
      /\ \A j \in DOMAIN made.items : j # i => sent[j] = progress[j]
  BY <1>1, OneMoreSent, EventCounts
<1>3. SlotFor(i, sent[i]) \in Slots
  <2>1. PICK n \in Nat : n <= MaxItems /\ Made("call") \in SUBSET (1..n)
    BY CallsMade
  <2>2. PICK c \in 1..n : c = i
    BY <2>1
  <2>3. c \in 1..MaxItems
    BY <2>1, IdBases
  <2>4. IdOf(i) \in Nat
    BY <2>2, <2>3, IdsOfItems DEF ProviderTyped
  <2>5. sent[i] - 1 = progress[i]
    BY <1>2
  <2>6. Pieces(sent[i] - 1) \in Seq(Nat)
    BY <1>2, <2>5, PiecesInOrder
  <2> QED BY <2>4, <2>6 DEF SlotFor, Slots
<1>4. PICK s : s = SlotOf(i)
  OBVIOUS
<1>5. PICK better : better = [slots EXCEPT ![s] = SlotFor(i, sent[i])]
  OBVIOUS
<1> HIDE DEF sent
<1>6. better \in Seq(Slots)
  BY <1>3, <1>4, <1>5, ExceptSeq
<1>7. DOMAIN better = DOMAIN slots /\ better[s] = SlotFor(i, sent[i])
      /\ \A k \in DOMAIN slots : k # s => better[k] = slots[k]
  BY <1>4, <1>5
<1>8. ASSUME NEW j \in Made("call"), sent[j] > 0
      PROVE  SlotOf(j) \in DOMAIN better /\ better[SlotOf(j)] = SlotFor(j, sent[j])
  <2>1. CASE j = i
    BY <1>4, <1>7, <2>1
  <2>2. CASE j # i
    <3>1. sent[j] = progress[j] /\ progress[j] > 0
      BY <1>1, <1>2, <1>8, <2>2
    <3>2. SlotOf(j) # s
      BY <1>4, <2>2, SlotsInOrder
    <3> QED BY <1>7, <3>1, <3>2
  <2> QED BY <2>1, <2>2
<1>9. ASSUME NEW k \in DOMAIN better, better[k] # NoSlot
      PROVE  \E j \in Made("call") : sent[j] > 0 /\ SlotOf(j) = k
  <2>1. CASE k = s
    BY <1>2, <1>4, <2>1
  <2>2. CASE k # s
    <3>1. slots[k] # NoSlot /\ k \in DOMAIN slots
      BY <1>7, <1>9, <2>2
    <3>2. PICK j \in Made("call") : progress[j] > 0 /\ SlotOf(j) = k
      BY <3>1
    <3>3. j # i
      BY <1>4, <2>2, <3>2
    <3> QED BY <1>1, <1>2, <3>2, <3>3
  <2> QED BY <2>1, <2>2
<1>10. grown = better
  BY <1>4, <1>5 DEF sent
<1> QED BY <1>6, <1>8, <1>9, <1>10 DEF sent

LEMMA SlotBegun ==
  ASSUME NEW id \in Nat
  PROVE  [NoSlot EXCEPT !.named = TRUE, !.id = id] = [named |-> TRUE, id |-> id, pieces |-> <<>>]
<1>1. PICK a : a = [NoSlot EXCEPT !.named = TRUE, !.id = id]
  OBVIOUS
<1>2. PICK b : b = [named |-> TRUE, id |-> id, pieces |-> <<>>]
  OBVIOUS
<1>3. a \in Slots /\ a.named = TRUE /\ a.id = id /\ a.pieces = <<>>
  <2>1. NoSlot \in Slots /\ NoSlot.pieces = <<>>
    BY DEF NoSlot, Slots
  <2> QED BY <1>1, <2>1 DEF Slots
<1>4. b \in Slots /\ b.named = TRUE /\ b.id = id /\ b.pieces = <<>>
  BY <1>2 DEF Slots
<1>5. a = b
  BY <1>3, <1>4 DEF Slots
<1> QED BY <1>1, <1>2, <1>5

LEMMA SlotExtended ==
  ASSUME NEW slot \in Slots, NEW pieces \in Seq(Nat)
  PROVE  [slot EXCEPT !.pieces = pieces] = [named |-> slot.named, id |-> slot.id, pieces |-> pieces]
BY DEF Slots

LEMMA ChunkKeepsSlots ==
  ASSUME ProviderTyped, SlotsSound(accum, progress), NEW i \in DOMAIN made.items,
         progress[i] < ChatEvents(i)
  PROVE  SlotsSound(ApplyChunk(i), OneMore(progress, i)) /\ ApplyChunk(i) \in Accums
<1> DEFINE sent == OneMore(progress, i)
<1>1. PICK b : b = ApplyChunk(i)
  OBVIOUS
<1>2. sent[i] = progress[i] + 1 /\ progress[i] \in Nat
      /\ \A j \in DOMAIN made.items : j # i => sent[j] = progress[j]
  BY OneMoreSent, EventCounts
<1>3. Item(i).kind \in {"text", "call"}
  <2>1. Item(i).kind \in ItemKinds
    BY MadeItems
  <2>2. Item(i).kind = "reasoning" => ChatEvents(i) = 0
    BY DEF ChatEvents
  <2> QED BY <1>2, <2>1, <2>2 DEF ItemKinds
<1>4. CASE Item(i).kind = "text"
  <2>1. i \notin Made("call") /\ IsText(i)
    BY <1>4 DEF Made, Item, IsText
  <2>2. PICK text : text = Append(accum.text, progress[i] + 1)
    OBVIOUS
  <2>3. text \in Seq(Nat)
    <3>1. progress[i] + 1 \in Nat
      BY <1>2
    <3> QED BY <2>2, <3>1, AccumFields, AppendProperties
  <2>4. b = [accum EXCEPT !.text = text]
    BY <1>1, <1>4, <2>2 DEF ApplyChunk
  <2>5. b \in Accums /\ b.text = text /\ b.slots = accum.slots
    BY <2>3, <2>4, AccumFields
  <2>6. \A j \in Made("call") : sent[j] = progress[j]
    BY <1>2, <2>1, CallsMade
  <2> HIDE DEF sent
  <2>7. /\ \A j \in Made("call") : sent[j] > 0 =>
             SlotOf(j) \in DOMAIN b.slots /\ b.slots[SlotOf(j)] = SlotFor(j, sent[j])
        /\ \A k \in DOMAIN b.slots :
             b.slots[k] = NoSlot \/ \E j \in Made("call") : sent[j] > 0 /\ SlotOf(j) = k
    BY <2>5, <2>6 DEF SlotsSound
  <2>8. ASSUME NEW t, IsText(t), \A j : IsText(j) => j = t PROVE b.text = Pieces(sent[t])
    <3>1. t = i
      BY <2>1, <2>8
    <3>2. accum.text = Pieces(progress[i])
      BY <2>8, <3>1 DEF SlotsSound
    <3> QED BY <1>2, <2>2, <2>5, <3>1, <3>2, PiecesInOrder
  <2>9. SlotsSound(b, sent)
    BY <2>1, <2>7, <2>8 DEF SlotsSound
  <2> QED BY <1>1, <2>5, <2>9 DEF sent
<1>5. CASE Item(i).kind = "call"
  <2>1. i \in Made("call") /\ ~IsText(i)
    BY <1>5 DEF Made, Item, IsText
  <2>2. PICK nth \in Nat : nth = SlotOf(i) /\ nth >= 1
    BY <2>1, SlotsInOrder
  <2>3. PICK slots : slots = WithSlot(accum.slots, nth)
    OBVIOUS
  <2>4. /\ slots \in Seq(Slots) /\ nth \in DOMAIN slots
        /\ DOMAIN accum.slots \subseteq DOMAIN slots
        /\ \A k \in DOMAIN accum.slots : slots[k] = accum.slots[k]
        /\ \A k \in DOMAIN slots : k \notin DOMAIN accum.slots => slots[k] = NoSlot
    BY <2>2, <2>3, AccumFields, SlotsMadeUp, SMTT(20)
  <2>5. b = IF progress[i] = 0
            THEN [accum EXCEPT !.slots =
                    [slots EXCEPT ![nth] = [@ EXCEPT !.named = TRUE, !.id = IdOf(i)]]]
            ELSE [accum EXCEPT !.slots = [slots EXCEPT ![nth].pieces = Append(@, progress[i])]]
    BY <1>1, <1>5, <2>2, <2>3 DEF ApplyChunk, SlotOf, UpTo
  <2>6. /\ \A j \in Made("call") : progress[j] > 0 =>
             SlotOf(j) \in DOMAIN slots /\ slots[SlotOf(j)] = SlotFor(j, progress[j])
        /\ \A k \in DOMAIN slots :
             slots[k] = NoSlot \/ \E j \in Made("call") : progress[j] > 0 /\ SlotOf(j) = k
    BY <2>4 DEF SlotsSound
  <2>7. PICK grown : grown = [slots EXCEPT ![nth] = SlotFor(i, sent[i])]
    OBVIOUS
  <2>8. IdOf(i) \in Nat
    <3>1. PICK n \in Nat : n <= MaxItems /\ Made("call") \in SUBSET (1..n)
      BY CallsMade
    <3>2. PICK c \in 1..n : c = i
      BY <2>1, <3>1
    <3>3. c \in 1..MaxItems /\ posts \in Nat
      BY <3>1, IdBases DEF ProviderTyped
    <3> QED BY <3>2, <3>3, IdsOfItems
  <2>9. b = [accum EXCEPT !.slots = grown]
    <3>1. CASE progress[i] = 0
      <4>1. slots[nth] = NoSlot
        <5>1. ASSUME NEW j \in Made("call"), SlotOf(j) = nth PROVE ~(progress[j] > 0)
          BY <2>1, <2>2, <3>1, <5>1, SlotsInOrder
        <5> QED BY <2>4, <2>6, <5>1
      <4>2. [slots[nth] EXCEPT !.named = TRUE, !.id = IdOf(i)] = SlotFor(i, sent[i])
        <5>1. PICK e \in Nat : e = sent[i] /\ e - 1 = 0
          BY <1>2, <3>1
        <5>2. Pieces(e - 1) = <<>>
          BY <5>1, PiecesInOrder
        <5>3. SlotFor(i, e) = [named |-> TRUE, id |-> IdOf(i), pieces |-> <<>>]
          BY <5>2 DEF SlotFor
        <5>4. [slots[nth] EXCEPT !.named = TRUE, !.id = IdOf(i)] =
                [named |-> TRUE, id |-> IdOf(i), pieces |-> <<>>]
          BY <2>8, <4>1, SlotBegun
        <5> QED BY <5>1, <5>3, <5>4
      <4> QED BY <2>5, <2>7, <3>1, <4>2
    <3>2. CASE progress[i] # 0
      <4>1. slots[nth] = SlotFor(i, progress[i])
        BY <1>2, <2>1, <2>2, <2>6, <3>2
      <4>2. PICK e : e = Pieces(progress[i] - 1)
        OBVIOUS
      <4>3. PICK f : f = Append(e, progress[i])
        OBVIOUS
      <4>4. f = Pieces(sent[i] - 1)
        <5>1. PICK p \in Nat : p = progress[i] - 1 /\ p + 1 = progress[i]
          BY <1>2, <3>2
        <5>2. sent[i] - 1 = p + 1
          BY <1>2, <5>1
        <5> QED BY <4>2, <4>3, <5>1, <5>2, PiecesInOrder
      <4>5. slots[nth] = [named |-> TRUE, id |-> IdOf(i), pieces |-> e]
        BY <4>1, <4>2 DEF SlotFor
      <4>6. SlotFor(i, sent[i]) = [named |-> TRUE, id |-> IdOf(i), pieces |-> f]
        BY <4>4 DEF SlotFor
      <4>7. [slots[nth] EXCEPT !.pieces = Append(@, progress[i])] = SlotFor(i, sent[i])
        <5>1. slots[nth] \in Slots
          BY <2>4, ElementOfSeq, LenProperties
        <5>2. f \in Seq(Nat)
          <6>1. sent[i] - 1 \in Nat
            BY <1>2
          <6> QED BY <4>4, <6>1, PiecesInOrder
        <5>3. slots[nth].named = TRUE /\ slots[nth].id = IdOf(i) /\ slots[nth].pieces = e
          BY <4>5
        <5>4. [slots[nth] EXCEPT !.pieces = f] = [named |-> TRUE, id |-> IdOf(i), pieces |-> f]
          BY <5>1, <5>2, <5>3, SlotExtended
        <5> QED BY <4>3, <4>6, <5>3, <5>4
      <4> QED BY <2>5, <2>7, <3>2, <4>7
    <3> QED BY <3>1, <3>2
  <2>10. /\ grown \in Seq(Slots)
         /\ \A j \in Made("call") : sent[j] > 0 =>
              SlotOf(j) \in DOMAIN grown /\ grown[SlotOf(j)] = SlotFor(j, sent[j])
         /\ \A k \in DOMAIN grown :
              grown[k] = NoSlot \/ \E j \in Made("call") : sent[j] > 0 /\ SlotOf(j) = k
    BY <2>1, <2>2, <2>4, <2>6, <2>7, SlotGrows
  <2>11. b \in Accums /\ b.slots = grown /\ b.text = accum.text
    BY <2>9, <2>10, AccumFields
  <2>12. \A t : IsText(t) => sent[t] = progress[t]
    BY <1>2, <2>1 DEF IsText
  <2> HIDE DEF sent
  <2>13. SlotsSound(b, sent)
    BY <2>10, <2>11, <2>12 DEF SlotsSound
  <2> QED BY <1>1, <2>11, <2>13 DEF sent
<1> QED BY <1>3, <1>4, <1>5

\* What the answer of a stream of a chat is.
LEMMA ChatAnswered ==
  ASSUME ProviderTyped, SlotsSound(accum, progress),
         \A i \in DOMAIN made.items : progress[i] = ChatEvents(i)
  PROVE  /\ ChatAnswer.calls = Generated.calls
         /\ ChatAnswer.items \in Seq(ReplayItems)
         /\ ItemsMatch(ChatAnswer.calls, ChatAnswer.items)
         /\ (\A i, j : IsText(i) /\ IsText(j) => i = j) => ChatAnswer.text = Generated.text
<1>1. PICK from : from = CallPlaces(WholeOutput)
  OBVIOUS
<1>2. from = Made("call") /\ from \subseteq DOMAIN made.items
  <2>1. \A i \in DOMAIN made.items : WholeOutput[i].kind = made.items[i].kind
    BY WholeOutputItems, TextOfFull DEF Item
  <2> QED BY <1>1, <2>1, WholeOutputItems DEF CallPlaces, Made
<1>3. PICK slots : slots = accum.slots
  OBVIOUS
<1>4. PICK to : to = {k \in DOMAIN slots : slots[k].named}
  OBVIOUS
<1>5. ASSUME NEW i \in from
      PROVE  /\ SlotOf(i) \in to /\ slots[SlotOf(i)].id = IdOf(i)
             /\ slots[SlotOf(i)].pieces = Pieces(Item(i).pieces)
  <2>1. Item(i).pieces \in Nat /\ progress[i] = 1 + Item(i).pieces
    <3>1. Item(i).kind = "call" /\ i \in DOMAIN made.items
      BY <1>2, CallsMade
    <3>2. progress[i] = 1 + Item(i).pieces
      BY <3>1 DEF ChatEvents
    <3> QED BY <3>1, <3>2, EventCounts
  <2>2. progress[i] > 0 /\ progress[i] - 1 = Item(i).pieces
    BY <2>1
  <2>3. SlotOf(i) \in DOMAIN slots /\ slots[SlotOf(i)] = SlotFor(i, progress[i])
    BY <1>2, <1>3, <2>2 DEF SlotsSound
  <2> QED BY <1>4, <2>2, <2>3 DEF SlotFor
<1>6. PICK g : g = [i \in from |-> SlotOf(i)]
  OBVIOUS
<1>7. Matches(g, from, to)
  <2>1. \E n, m \in Nat : from \in SUBSET (1..n) /\ to \in SUBSET (1..m)
    <3>1. PICK n \in Nat : from \in SUBSET (1..n)
      BY <1>2, CallsMade
    <3>2. PICK m \in Nat : m = Len(slots) /\ DOMAIN slots = 1..m
      BY <1>3, AccumFields, LenProperties
    <3> QED BY <1>4, <3>1, <3>2
  <2>2. g \in [from -> to]
    BY <1>5, <1>6
  <2>3. ASSUME NEW k \in to PROVE \E i \in from : g[i] = k
    <3>1. slots[k] # NoSlot /\ k \in DOMAIN slots
      BY <1>4 DEF NoSlot
    <3>2. PICK i \in from : SlotOf(i) = k
      BY <1>2, <1>3, <3>1 DEF SlotsSound
    <3> QED BY <1>6, <3>2
  <2>4. \A i, j \in from : i < j => g[i] < g[j]
    BY <1>2, <1>6, SlotsInOrder
  <2> QED BY <2>1, <2>2, <2>3, <2>4 DEF Matches
<1>8. PICK c : c = Cardinality(from)
  OBVIOUS
<1>9. Cardinality(to) = c /\ \A k \in 1..c : Nth(from, k) \in from /\ Nth(to, k) = g[Nth(from, k)]
  BY <1>7, <1>8, SameOrder
<1>10. PICK asked : asked = Picked(slots, to)
  OBVIOUS
<1>11. DOMAIN asked = 1..c /\ \A k \in 1..c : asked[k] = slots[Nth(to, k)]
  BY <1>9, <1>10, PickedDomain
<1>12. /\ ChatAnswer.calls = [k \in DOMAIN asked |-> CallOf(asked[k].id, asked[k].pieces)]
       /\ ChatAnswer.text = accum.text /\ ChatAnswer.items = <<>>
  BY <1>3, <1>4, <1>10 DEF ChatAnswer, AnswerOf
<1>13. ASSUME NEW k \in 1..c
       PROVE  CallOf(asked[k].id, asked[k].pieces)
              = CallOf(WholeOutput[Nth(from, k)].call, WholeOutput[Nth(from, k)].pieces)
  <2>1. PICK i \in from : i = Nth(from, k)
    BY <1>9
  <2>2. asked[k] = slots[SlotOf(i)]
    BY <1>6, <1>9, <1>11, <2>1
  <2>3. asked[k].id = IdOf(i) /\ asked[k].pieces = Pieces(Item(i).pieces)
    BY <1>5, <2>2
  <2>4. WholeOutput[i].call = IdOf(i) /\ WholeOutput[i].pieces = Pieces(Item(i).pieces)
    <3>1. i \in DOMAIN made.items /\ Item(i).kind = "call"
      BY <1>2, CallsMade
    <3> QED BY <3>1, WholeOutputItems, TextOfFull
  <2> QED BY <2>1, <2>3, <2>4
<1>14. ChatAnswer.calls = CallsIn(WholeOutput)
  <2>1. [k \in DOMAIN asked |-> CallOf(asked[k].id, asked[k].pieces)] =
        [k \in 1..c |-> CallOf(WholeOutput[Nth(from, k)].call, WholeOutput[Nth(from, k)].pieces)]
    BY <1>11, <1>13
  <2>2. CallsIn(WholeOutput) =
        [k \in 1..c |-> CallOf(WholeOutput[Nth(from, k)].call, WholeOutput[Nth(from, k)].pieces)]
    BY <1>1, <1>8 DEF CallsIn
  <2> QED BY <1>12, <2>1, <2>2
<1>15. ASSUME \A i, j : IsText(i) /\ IsText(j) => i = j
       PROVE  ChatAnswer.text = Generated.text
  <2>1. CASE \E i : IsText(i)
    <3>1. PICK i : IsText(i)
      BY <2>1
    <3>2. \A j : IsText(j) => j = i
      BY <1>15, <3>1
    <3>3. accum.text = Pieces(progress[i])
      BY <3>1, <3>2 DEF SlotsSound
    <3>4. progress[i] = Item(i).pieces /\ i \in DOMAIN made.items
      BY <3>1 DEF IsText, ChatEvents
    <3>5. accum.text # <<>> => \E j : IsText(j) /\ Item(j).pieces > 0
      <4>1. Item(i).pieces \in Nat
        BY <3>4, EventCounts
      <4>2. Pieces(Item(i).pieces) # <<>> => Item(i).pieces > 0
        BY <4>1, PiecesInOrder
      <4> QED BY <3>1, <3>3, <3>4, <4>2
    <3>6. TextIn(WholeOutput, accum.text) = Generated.text
      BY <1>15, <3>5, WholeOutputTells, TextsAgree
    <3>7. TextIn(WholeOutput, accum.text) = accum.text
      <4>1. CASE TextPlaces(WholeOutput) = {}
        BY <4>1 DEF TextIn
      <4>2. CASE TextPlaces(WholeOutput) # {}
        <5>1. PICK p : p = Nth(TextPlaces(WholeOutput), 1)
          OBVIOUS
        <5>2. p \in TextPlaces(WholeOutput)
          BY <4>2, <5>1, FirstText, WholeOutputItems
        <5>3. PICK j : IsText(j) /\ WholeOutput[p].pieces = Pieces(Item(j).pieces)
          BY <5>2, WholeOutputTells DEF Tells
        <5>4. j = i
          BY <3>2, <5>3
        <5> QED BY <3>3, <3>4, <4>2, <5>1, <5>3, <5>4 DEF TextIn
      <4> QED BY <4>1, <4>2
    <3> QED BY <1>12, <3>6, <3>7
  <2>2. CASE ~\E i : IsText(i)
    <3>1. accum.text = <<>>
      BY <2>2 DEF SlotsSound
    <3>2. TextIn(WholeOutput, <<>>) = Generated.text
      BY GeneratedParts
    <3>3. TextPlaces(WholeOutput) = {}
      <4>1. ASSUME NEW k \in TextPlaces(WholeOutput) PROVE FALSE
        BY <2>2, WholeOutputTells DEF Tells
      <4> QED BY <4>1
    <3> QED BY <1>12, <3>1, <3>2, <3>3 DEF TextIn
  <2> QED BY <2>1, <2>2
<1>16. <<>> \in Seq(ReplayItems) /\ DOMAIN <<>> = {}
  OBVIOUS
<1>17. ItemsMatch(ChatAnswer.calls, ChatAnswer.items)
  BY <1>12, <1>16 DEF ItemsMatch
<1> QED BY <1>12, <1>14, <1>15, <1>16, <1>17, GeneratedParts

-----------------------------------------------------------------------------
(* The invariant of a client                                                *)

\* What the stream under way has brought; a stream brings its items, or the response.
StreamSound ==
  /\ phase \in {"streaming", "body"} => made.how.announced \/ made.how.whole
  /\ phase = "streaming" =>
       IF wire = "responses" THEN ItemsSound(accum, progress) ELSE SlotsSound(accum, progress)

\* The ids of the history; a request may bring as many as its items.
IdsBound == IF phase = "idle" THEN IdBase(posts) + MaxItems ELSE IdBase(posts)

ProviderInv ==
  /\ ProviderTyped
  /\ HistorySound(history) /\ IdsUpTo(history, IdsBound)
  /\ StreamSound

LEMMA IdsUpToMore ==
  ASSUME NEW seq, NEW a \in Int, NEW b \in Int, a <= b, IdsUpTo(seq, a)
  PROVE  IdsUpTo(seq, b)
<1>1. ASSUME NEW i \in DOMAIN seq, NEW c \in DOMAIN seq[i].calls
      PROVE  seq[i].calls[c].id \in 1..b
  <2>1. seq[i].calls[c].id \in 1..a
    BY DEF IdsUpTo
  <2> QED BY <2>1
<1> QED BY <1>1 DEF IdsUpTo

LEMMA NothingTyped ==
  /\ NothingMade.items = <<>> /\ <<>> \in Seq(ProviderItems) /\ Len(<<>>) <= MaxItems
  /\ NothingMade.how \in Manners /\ DOMAIN <<>> = {} /\ <<>> \in [DOMAIN <<>> -> Nat]
  /\ NoAccum \in Accums
<1>1. <<>> \in Seq(Nat) /\ <<>> \in Seq(Slots) /\ <<>> \in Seq(Outputs)
  OBVIOUS
<1>2. NoAccum \in Accums
  BY <1>1 DEF NoAccum, Accums
<1>3. NothingMade.items = <<>> /\ NothingMade.how \in Manners
  BY DEF NothingMade, Manners
<1>4. <<>> \in Seq(ProviderItems) /\ Len(<<>>) <= MaxItems
  BY IdBases
<1> QED BY <1>2, <1>3, <1>4

\* Nothing is left of a stream that is over.
LEMMA ForgottenTyped ==
  ASSUME ProviderTyped, Forget, phase' \in {"idle", "sent"}, wire' \in WireApis,
         stream' \in BOOLEAN, posts' \in Nat
  PROVE  ProviderTyped' /\ StreamSound'
<1>1. made' = NothingMade /\ progress' = <<>> /\ accum' = NoAccum
  BY DEF Forget
<1>2. /\ made'.items \in Seq(ProviderItems) /\ Len(made'.items) <= MaxItems
      /\ made'.how \in Manners /\ progress' \in [DOMAIN made'.items -> Nat] /\ accum' \in Accums
  BY <1>1, NothingTyped
<1>3. ProviderTyped'
  BY <1>2 DEF ProviderTyped
<1> QED BY <1>3 DEF StreamSound

LEMMA ProviderStarts == ProviderInit => ProviderInv
<1> SUFFICES ASSUME ProviderInit PROVE ProviderInv
  OBVIOUS
<1>1. PICK m \in WireMessages : m = ChatMessage("system", "some")
  BY MessagesSaid DEF Roles
<1>2. m.role = "system" /\ m.calls = <<>> /\ m.items = <<>>
  BY <1>1 DEF ChatMessage
<1>3. history = <<m>> /\ phase = "idle" /\ wire = "chat_completions" /\ stream = FALSE
      /\ made = NothingMade /\ progress = <<>> /\ accum = NoAccum /\ posts = 0
  BY <1>1 DEF ProviderInit
<1>4. ProviderTyped
  <2>1. /\ made.items \in Seq(ProviderItems) /\ Len(made.items) <= MaxItems
        /\ made.how \in Manners /\ progress \in [DOMAIN made.items -> Nat] /\ accum \in Accums
    BY <1>3, NothingTyped
  <2> QED BY <1>3, <2>1 DEF ProviderTyped, WireApis
<1>5. PICK none : none = <<>>
  OBVIOUS
<1>6. none \in Seq(WireMessages) /\ DOMAIN none = {} /\ history = Append(none, m)
  <2>1. none \in Seq(WireMessages) /\ DOMAIN none = {}
    BY <1>5
  <2>2. Append(<<>>, m) = <<m>>
    OBVIOUS
  <2> QED BY <1>3, <1>5, <2>1, <2>2
<1>7. HistorySound(none) /\ IdsUpTo(none, MaxItems)
  BY <1>6 DEF HistorySound, TurnsAnswered, IdsDiffer, IdsUpTo
<1>8. HistorySound(history) /\ IdsUpTo(history, MaxItems)
  <2>1. m.role # "tool"
    BY <1>2
  <2> QED BY <1>2, <1>6, <1>7, <2>1, SaidIsSound
<1>9. IdsBound = MaxItems
  BY <1>3, IdBases DEF IdsBound
<1>10. StreamSound
  BY <1>3 DEF StreamSound
<1> QED BY <1>4, <1>8, <1>9, <1>10 DEF ProviderInv

LEMMA AddMessageKeeps ==
  ASSUME ProviderInv, NEW text \in {"blank", "some", "image"}, AddMessage(text)
  PROVE  ProviderInv'
<1>1. PICK m \in WireMessages : m = ChatMessage("user", text)
  BY MessagesSaid DEF Roles
<1>2. m.role = "user" /\ m.calls = <<>> /\ m.items = <<>>
  BY <1>1 DEF ChatMessage
<1>3. /\ history' = Append(history, m)
      /\ UNCHANGED <<phase, wire, stream, made, progress, accum, posts>> /\ phase = "idle"
  BY <1>1 DEF AddMessage
<1>4. HistorySound(history') /\ IdsUpTo(history', IdsBound)
  <2>1. m.role # "tool"
    BY <1>2
  <2> QED BY <1>2, <1>3, <2>1, SaidIsSound DEF ProviderInv
<1>5. IdsBound' = IdsBound
  BY <1>3 DEF IdsBound
<1>6. ProviderTyped' /\ StreamSound'
  BY <1>3 DEF ProviderInv, ProviderTyped, StreamSound
<1>7. HistorySound(history)' /\ IdsUpTo(history, IdsBound)'
  BY <1>4, <1>5 DEF HistorySound, TurnsAnswered, IdsDiffer, IdsUpTo
<1> QED BY <1>6, <1>7 DEF ProviderInv

\* The history stays when the ids may go further.
LEMMA HistoryStays ==
  ASSUME ProviderInv, history' = history, IdsBound' \in Nat, IdsBound <= IdsBound'
  PROVE  HistorySound(history)' /\ IdsUpTo(history, IdsBound)'
<1>1. IdsBound \in Int /\ IdsBound' \in Int
  <2>1. posts \in Nat
    BY DEF ProviderInv, ProviderTyped
  <2>2. IdBase(posts) + MaxItems \in Nat /\ IdBase(posts) \in Nat
    BY <2>1, IdBases
  <2> QED BY <2>2 DEF IdsBound
<1>2. PICK a \in Int : a = IdsBound
  BY <1>1
<1>3. PICK b \in Int : b = IdsBound'
  BY <1>1
<1>4. a <= b
  BY <1>2, <1>3
<1>5. HistorySound(history) /\ IdsUpTo(history, a)
  BY <1>2 DEF ProviderInv
<1>6. IdsUpTo(history, b)
  BY <1>4, <1>5, IdsUpToMore
<1> QED BY <1>3, <1>5, <1>6

LEMMA SendRequestKeeps ==
  ASSUME ProviderInv, NEW w \in WireApis, NEW s \in BOOLEAN, SendRequest(w, s)
  PROVE  ProviderInv'
<1>1. /\ phase = "idle" /\ posts' = posts + 1 /\ phase' = "sent" /\ wire' = w
      /\ stream' = (s /\ w # "anthropic_messages")
      /\ history' = history /\ made' = made /\ progress' = progress /\ accum' = accum
  BY DEF SendRequest
<1>2. posts \in Nat
  BY DEF ProviderInv, ProviderTyped
<1>3. IdsBound = IdBase(posts) + MaxItems /\ IdsBound' = IdBase(posts + 1)
  BY <1>1 DEF IdsBound
<1>4. HistorySound(history)' /\ IdsUpTo(history, IdsBound)'
  <2>1. IdsBound' \in Nat /\ IdsBound <= IdsBound'
    BY <1>2, <1>3, IdBases
  <2> QED BY <1>1, <2>1, HistoryStays
<1>5. ProviderTyped'
  <2>1. stream' \in BOOLEAN
    BY <1>1
  <2> QED BY <1>1, <1>2, <2>1 DEF ProviderInv, ProviderTyped
<1>6. StreamSound'
  BY <1>1 DEF StreamSound
<1> QED BY <1>4, <1>5, <1>6 DEF ProviderInv

LEMMA AbandonKeeps ==
  ASSUME ProviderInv, phase # "idle", Abandon
  PROVE  ProviderInv'
<1>1. /\ phase' = "idle" /\ Forget /\ UNCHANGED <<history, wire, stream, posts>>
  BY DEF Abandon
<1>2. posts \in Nat
  BY DEF ProviderInv, ProviderTyped
<1>3. IdsBound = IdBase(posts) /\ IdsBound' = IdBase(posts) + MaxItems
  BY <1>1 DEF IdsBound
<1>4. HistorySound(history)' /\ IdsUpTo(history, IdsBound)'
  <2>1. IdsBound' \in Nat /\ IdsBound <= IdsBound'
    BY <1>2, <1>3, IdBases
  <2> QED BY <1>1, <2>1, HistoryStays
<1>5. ProviderTyped' /\ StreamSound'
  BY <1>1, ForgottenTyped DEF ProviderInv, ProviderTyped
<1> QED BY <1>4, <1>5 DEF ProviderInv

LEMMA FallBackKeeps ==
  ASSUME ProviderInv, phase # "idle", FallBack
  PROVE  ProviderInv'
<1>1. /\ phase' = "sent" /\ stream' = FALSE /\ Forget /\ posts' = posts + 1
      /\ UNCHANGED <<history, wire>>
  BY DEF FallBack
<1>2. posts \in Nat
  BY DEF ProviderInv, ProviderTyped
<1>3. IdsBound = IdBase(posts) /\ IdsBound' = IdBase(posts + 1)
  BY <1>1 DEF IdsBound
<1>4. HistorySound(history)' /\ IdsUpTo(history, IdsBound)'
  <2>1. IdsBound' \in Nat /\ IdsBound <= IdsBound'
    BY <1>2, <1>3, IdBases
  <2> QED BY <1>1, <2>1, HistoryStays
<1>5. ProviderTyped' /\ StreamSound'
  <2>1. wire' \in WireApis /\ stream' \in BOOLEAN /\ posts' \in Nat /\ phase' \in {"idle", "sent"}
    <3>1. wire \in WireApis
      BY DEF ProviderInv, ProviderTyped
    <3>2. wire' \in WireApis /\ posts' \in Nat /\ phase' \in {"idle", "sent"}
      BY <1>1, <1>2, <3>1
    <3>3. stream' \in BOOLEAN
      BY <1>1
    <3> QED BY <3>2, <3>3
  <2> QED BY <1>1, <2>1, ForgottenTyped DEF ProviderInv
<1> QED BY <1>4, <1>5 DEF ProviderInv

\* Before its first event a stream has brought nothing.
LEMMA StreamOpens ==
  ASSUME ProviderTyped, progress = [i \in DOMAIN made.items |-> 0], accum = NoAccum
  PROVE  ItemsSound(accum, progress) /\ SlotsSound(accum, progress)
<1>1. accum.text = <<>> /\ accum.slots = <<>> /\ accum.items = <<>>
  BY DEF NoAccum
<1>2. PICK none : none = <<>>
  OBVIOUS
<1>3. DOMAIN none = {}
  BY <1>2
<1>4. \A i \in DOMAIN made.items : progress[i] = 0 /\ ~(progress[i] > 0)
  OBVIOUS
<1>5. ItemsFrom(none, progress, none)
  BY <1>3, <1>4 DEF ItemsFrom
<1>6. ItemsSound(accum, progress)
  BY <1>1, <1>2, <1>4, <1>5 DEF ItemsSound
<1>7. SlotsSound(accum, progress)
  <2>1. Made("call") \subseteq DOMAIN made.items
    BY CallsMade
  <2>2. DOMAIN accum.slots = {}
    BY <1>1
  <2>3. ASSUME NEW i, IsText(i) PROVE accum.text = Pieces(progress[i])
    <3>1. progress[i] = 0
      BY <1>4, <2>3 DEF IsText
    <3>2. Pieces(0) = <<>>
      BY PiecesInOrder
    <3> QED BY <1>1, <3>1, <3>2
  <2> QED BY <1>1, <1>4, <2>1, <2>2, <2>3 DEF SlotsSound
<1> QED BY <1>6, <1>7

LEMMA GenerateKeeps ==
  ASSUME ProviderInv, NEW items \in Generations, NEW how \in MannersOf(wire), Generate(items, how)
  PROVE  ProviderInv'
<1>1. /\ phase = "sent" /\ made' = [items |-> items, how |-> how]
      /\ phase' = IF stream THEN "streaming" ELSE "body"
      /\ progress' = [i \in DOMAIN items |-> 0] /\ accum' = NoAccum
      /\ UNCHANGED <<history, wire, stream, posts>>
  BY DEF Generate
<1>2. made'.items = items /\ made'.how = how
  BY <1>1
<1>3. items \in Seq(ProviderItems) /\ Len(items) <= MaxItems
  BY GenerationsAssumption DEF ProviderItems, ItemKinds
<1>4. how \in Manners /\ (how.announced \/ how.whole)
  BY DEF MannersOf
<1>5. progress' \in [DOMAIN items -> Nat]
  BY <1>1
<1>6. ProviderTyped'
  <2>1. phase' \in {"idle", "sent", "streaming", "body"}
    BY <1>1
  <2>2. wire' \in WireApis /\ stream' \in BOOLEAN /\ posts' \in Nat
    BY <1>1 DEF ProviderInv, ProviderTyped
  <2>3. accum' \in Accums
    BY <1>1, NothingTyped
  <2> QED BY <1>2, <1>3, <1>4, <1>5, <2>1, <2>2, <2>3 DEF ProviderTyped
<1>7. HistorySound(history)' /\ IdsUpTo(history, IdsBound)'
  <2>1. IdsBound = IdBase(posts) /\ IdsBound' = IdBase(posts) /\ posts \in Nat
    BY <1>1 DEF IdsBound, ProviderInv, ProviderTyped
  <2>2. IdsBound' \in Nat /\ IdsBound <= IdsBound'
    BY <2>1, IdBases
  <2> QED BY <1>1, <2>2, HistoryStays
<1>8. (ItemsSound(accum, progress) /\ SlotsSound(accum, progress))'
  <2>1. (progress = [i \in DOMAIN made.items |-> 0] /\ accum = NoAccum)'
    BY <1>1, <1>2
  <2> QED BY <1>6, <2>1, StreamOpens, PTL
<1>9. StreamSound'
  BY <1>2, <1>4, <1>8 DEF StreamSound
<1> QED BY <1>6, <1>7, <1>9 DEF ProviderInv

\* What is generated stays the same while it is sent.
LEMMA SameMade ==
  ASSUME made' = made, posts' = posts
  PROVE  /\ \A i : /\ Item(i)' = Item(i) /\ ResponsesEvents(i)' = ResponsesEvents(i)
                  /\ Full(i)' = Full(i) /\ (Identified(i)' <=> Identified(i))
                  /\ SlotOf(i)' = SlotOf(i) /\ (IsText(i)' <=> IsText(i))
         /\ \A i, p : Output(i, p)' = Output(i, p) /\ SlotFor(i, p)' = SlotFor(i, p)
         /\ Made("call")' = Made("call")
<1>1. ASSUME NEW i PROVE Item(i)' = Item(i) /\ IdOf(i)' = IdOf(i)
  BY DEF Item, IdOf
<1>2. ASSUME NEW i, NEW p PROVE Output(i, p)' = Output(i, p) /\ SlotFor(i, p)' = SlotFor(i, p)
  BY <1>1 DEF Output, SlotFor
<1>3. Made("call")' = Made("call")
  BY DEF Made
<1>4. ASSUME NEW i
      PROVE  /\ ResponsesEvents(i)' = ResponsesEvents(i)
             /\ Full(i)' = Full(i) /\ (Identified(i)' <=> Identified(i))
             /\ SlotOf(i)' = SlotOf(i) /\ (IsText(i)' <=> IsText(i))
  <2>1. ResponsesEvents(i)' = ResponsesEvents(i)
    BY <1>1 DEF ResponsesEvents
  <2>2. Full(i)' = Full(i)
    BY <1>1, <1>2 DEF Full
  <2>3. Identified(i)' <=> Identified(i)
    BY <1>1 DEF Identified
  <2>4. SlotOf(i)' = SlotOf(i)
    BY <1>3 DEF SlotOf
  <2>5. IsText(i)' <=> IsText(i)
    BY <1>1 DEF IsText
  <2> QED BY <2>1, <2>2, <2>3, <2>4, <2>5
<1> QED BY <1>1, <1>2, <1>3, <1>4

LEMMA ItemsSoundThen ==
  ASSUME made' = made, posts' = posts, ItemsSound(accum', progress')
  PROVE  ItemsSound(accum, progress)'
<1>1. ASSUME NEW src, ItemsFrom(accum'.items, progress', src)
      PROVE  ItemsFrom(accum.items, progress, src)'
  BY <1>1, SameMade DEF ItemsFrom
<1>2. IF made.how.announced THEN \E src : ItemsFrom(accum'.items, progress', src)
      ELSE accum'.items = <<>>
  BY DEF ItemsSound
<1>3. IF made'.how.announced THEN \E src : ItemsFrom(accum.items, progress, src)'
      ELSE accum'.items = <<>>
  BY <1>1, <1>2
<1>4. /\ \A i, j \in DOMAIN made'.items :
           j < i /\ progress'[i] > 0 => progress'[j] = ResponsesEvents(j)'
      /\ accum'.text # <<>> =>
           \E i \in DOMAIN made'.items : Item(i)'.kind = "text" /\ Item(i)'.pieces > 0
  BY SameMade DEF ItemsSound
<1> QED BY <1>3, <1>4 DEF ItemsSound

LEMMA SlotsSoundThen ==
  ASSUME made' = made, posts' = posts, SlotsSound(accum', progress')
  PROVE  SlotsSound(accum, progress)'
BY SameMade DEF SlotsSound

LEMMA StreamEventKeeps ==
  ASSUME ProviderInv, NEW i \in DOMAIN progress, StreamEvent(i)
  PROVE  ProviderInv'
<1>1. /\ phase = "streaming" /\ progress[i] < EventsOf(i)
      /\ wire = "responses" => \A j \in 1..(i - 1) : progress[j] = EventsOf(j)
      /\ progress' = OneMore(progress, i)
      /\ accum' = IF wire = "responses" THEN ApplyEvent(i) ELSE ApplyChunk(i)
      /\ UNCHANGED <<history, phase, wire, stream, made, posts>>
  BY DEF StreamEvent, OneMore
<1>2. ProviderTyped /\ i \in DOMAIN made.items
  BY DEF ProviderInv, ProviderTyped
<1>3. ASSUME wire = "responses"
      PROVE  ItemsSound(accum, progress)' /\ accum' \in Accums
  <2>1. progress[i] < ResponsesEvents(i) /\ accum' = ApplyEvent(i)
    BY <1>1, <1>3 DEF EventsOf
  <2>2. \A j \in DOMAIN made.items : j < i => progress[j] = ResponsesEvents(j)
    <3>1. PICK n \in Nat : DOMAIN made.items = 1..n
      BY <1>2, MadeItems
    <3>2. ASSUME NEW j \in DOMAIN made.items, j < i PROVE progress[j] = ResponsesEvents(j)
      <4>1. j \in 1..(i - 1)
        BY <1>2, <3>1, <3>2
      <4> QED BY <1>1, <1>3, <4>1 DEF EventsOf
    <3> QED BY <3>2
  <2>3. ItemsSound(accum, progress)
    BY <1>1, <1>3 DEF ProviderInv, StreamSound
  <2>4. ItemsSound(accum', progress') /\ accum' \in Accums
    BY <1>1, <1>2, <2>1, <2>2, <2>3, EventKeepsItems
  <2> QED BY <1>1, <2>4, ItemsSoundThen
<1>4. ASSUME wire # "responses"
      PROVE  SlotsSound(accum, progress)' /\ accum' \in Accums
  <2>1. progress[i] < ChatEvents(i) /\ accum' = ApplyChunk(i)
    BY <1>1, <1>4 DEF EventsOf
  <2>2. SlotsSound(accum, progress)
    BY <1>1, <1>4 DEF ProviderInv, StreamSound
  <2>3. SlotsSound(accum', progress') /\ accum' \in Accums
    BY <1>1, <1>2, <2>1, <2>2, ChunkKeepsSlots
  <2> QED BY <1>1, <2>3, SlotsSoundThen
<1>5. ProviderTyped'
  <2>1. progress' \in [DOMAIN made'.items -> Nat]
    <3>1. OneMore(progress, i) \in [DOMAIN made.items -> Nat]
      BY <1>2, OneMoreSent
    <3> QED BY <1>1, <3>1
  <2>2. accum' \in Accums
    BY <1>3, <1>4
  <2> QED BY <1>1, <1>2, <2>1, <2>2 DEF ProviderTyped
<1>6. StreamSound'
  <2>1. made'.how.announced \/ made'.how.whole
    BY <1>1 DEF ProviderInv, StreamSound
  <2>2. IF wire' = "responses" THEN ItemsSound(accum, progress)' ELSE SlotsSound(accum, progress)'
    BY <1>1, <1>3, <1>4
  <2> QED BY <2>1, <2>2 DEF StreamSound
<1>7. HistorySound(history)' /\ IdsUpTo(history, IdsBound)'
  <2>1. IdsBound = IdBase(posts) /\ IdsBound' = IdBase(posts) /\ posts \in Nat
    BY <1>1, <1>2 DEF IdsBound, ProviderTyped
  <2>2. IdsBound' \in Nat /\ IdsBound <= IdsBound'
    BY <2>1, IdBases
  <2> QED BY <1>1, <2>2, HistoryStays
<1> QED BY <1>5, <1>6, <1>7 DEF ProviderInv

\* The answers an agent may take.
AnswerSound(a) ==
  /\ a.calls = Generated.calls /\ a.items \in Seq(ReplayItems) /\ ItemsMatch(a.calls, a.items)
  /\ (\A i, j : IsText(i) /\ IsText(j) => i = j) => a.text = Generated.text

LEMMA AnswerIsFresh ==
  ASSUME ProviderTyped, NEW a, AnswerSound(a)
  PROVE  FreshCalls(a.calls) /\ a.items \in Seq(ReplayItems) /\ ItemsMatch(a.calls, a.items)
<1>1. FreshCalls(Generated.calls)
  BY GeneratedIsFresh
<1> QED BY <1>1 DEF AnswerSound

LEMMA ReturnKeeps ==
  ASSUME ProviderInv, phase # "idle", NEW a, AnswerSound(a), Return(a)
  PROVE  ProviderInv'
<1>1. /\ phase' = "idle" /\ Forget /\ UNCHANGED <<wire, stream, posts>>
  BY DEF Return
<1>2. PICK said \in {"none", "some"} : said = IF a.text = <<>> THEN "none" ELSE "some"
  <2>1. CASE a.text = <<>>
    BY <2>1, Zenon
  <2>2. CASE a.text # <<>>
    BY <2>2, Zenon
  <2> QED BY <2>1, <2>2
<1>3. PICK text \in {"blank", "some"} :
        history' = Append(history,
            [ChatMessage("assistant", IF a.text = <<>> THEN "none" ELSE "some") EXCEPT
               !.calls = [k \in DOMAIN a.calls |-> [id |-> a.calls[k].id]], !.items = a.items])
          \o [k \in DOMAIN a.calls |-> ResultTurn(a.calls[k].id, text)]
  BY Zenon DEF Return
<1>4. PICK asked : asked = a.calls
  OBVIOUS
<1>5. PICK items : items = a.items
  OBVIOUS
<1>6. PICK turn : turn = [ChatMessage("assistant", said) EXCEPT
                            !.calls = [k \in DOMAIN asked |-> [id |-> asked[k].id]], !.items = items]
  OBVIOUS
<1>7. PICK results : results = [k \in DOMAIN asked |-> ResultTurn(asked[k].id, text)]
  OBVIOUS
<1>8. history' = Append(history, turn) \o results
  BY <1>2, <1>3, <1>4, <1>5, <1>6, <1>7
<1>9. posts \in Nat /\ ProviderTyped
  BY DEF ProviderInv, ProviderTyped
<1>10. FreshCalls(asked) /\ items \in Seq(ReplayItems) /\ ItemsMatch(asked, items)
  BY <1>4, <1>5, <1>9, AnswerIsFresh, SMTT(30)
<1>11. TurnFor(turn, results, asked)
  BY <1>6, <1>7, <1>9, <1>10, TurnIsSound
<1>12. HistorySound(history) /\ IdsUpTo(history, IdBase(posts))
  <2>1. IdsBound = IdBase(posts)
    BY DEF IdsBound
  <2> QED BY <2>1 DEF ProviderInv
<1>13. HistorySound(history') /\ IdsUpTo(history', IdBase(posts) + MaxItems)
  BY <1>8, <1>9, <1>10, <1>11, <1>12, TurnJoined
<1>14. IdsBound' = IdBase(posts) + MaxItems
  BY <1>1 DEF IdsBound
<1>15. HistorySound(history)' /\ IdsUpTo(history, IdsBound)'
  BY <1>13, <1>14 DEF HistorySound, TurnsAnswered, IdsDiffer, IdsUpTo
<1>16. ProviderTyped' /\ StreamSound'
  BY <1>1, <1>9, ForgottenTyped DEF ProviderTyped
<1> QED BY <1>15, <1>16 DEF ProviderInv

LEMMA ReadBodyAnswers == ProviderInv => AnswerSound(WholeAnswer)
BY WholeAnswered DEF ProviderInv, AnswerSound

LEMMA StreamAnswers ==
  ASSUME ProviderInv, phase = "streaming", \A i \in DOMAIN progress : progress[i] = EventsOf(i)
  PROVE  AnswerSound(IF wire = "responses" THEN ResponsesAnswer ELSE ChatAnswer)
<1>1. ProviderTyped /\ DOMAIN progress = DOMAIN made.items
  BY DEF ProviderInv, ProviderTyped
<1>2. CASE wire = "responses"
  <2>1. ItemsSound(accum, progress) /\ (made.how.announced \/ made.how.whole)
    BY <1>2 DEF ProviderInv, StreamSound
  <2>2. AllSent
    BY <1>1, <1>2 DEF AllSent, EventsOf
  <2>3. AnswerSound(ResponsesAnswer)
    BY <1>1, <2>1, <2>2, ResponsesAnswered DEF AnswerSound
  <2> QED BY <1>2, <2>3
<1>3. CASE wire # "responses"
  <2>1. SlotsSound(accum, progress)
    BY <1>3 DEF ProviderInv, StreamSound
  <2>2. \A i \in DOMAIN made.items : progress[i] = ChatEvents(i)
    BY <1>1, <1>3 DEF EventsOf
  <2>3. AnswerSound(ChatAnswer)
    BY <1>1, <2>1, <2>2, ChatAnswered DEF AnswerSound
  <2> QED BY <1>3, <2>3
<1> QED BY <1>2, <1>3

\* A step returns an answer that is sound, or none.
LEMMA ProviderSteps ==
  ASSUME ProviderInv, [ProviderNext]_providerVars
  PROVE  /\ ProviderInv'
         /\ answer' = answer \/ \E a : AnswerSound(a) /\ Return(a) /\ phase # "idle"
<1> DEFINE Answered == \E a : AnswerSound(a) /\ Return(a) /\ phase # "idle"
<1>1. CASE \E text \in {"blank", "some", "image"} : AddMessage(text)
  BY <1>1, AddMessageKeeps DEF AddMessage
<1>2. CASE \E w \in WireApis, s \in BOOLEAN : SendRequest(w, s)
  BY <1>2, SendRequestKeeps DEF SendRequest
<1>3. CASE \E items \in Generations : \E how \in MannersOf(wire) : Generate(items, how)
  BY <1>3, GenerateKeeps DEF Generate
<1>4. ASSUME phase # "idle", Abandon \/ FallBack PROVE ProviderInv' /\ answer' = answer
  <2>1. ProviderInv'
    BY <1>4, AbandonKeeps, FallBackKeeps
  <2> QED BY <1>4, <2>1 DEF Abandon, FallBack
<1>5. CASE \E ofStreaming \in BOOLEAN : Refused(ofStreaming)
  <2>1. phase # "idle" /\ (Abandon \/ FallBack)
    BY <1>5 DEF Refused
  <2> QED BY <1>4, <2>1
<1>6. CASE Broken
  <2>1. phase # "idle" /\ Abandon
    BY <1>6 DEF Broken
  <2> QED BY <1>4, <2>1
<1>7. CASE ReadBody
  <2>1. phase # "idle" /\ Return(WholeAnswer) /\ AnswerSound(WholeAnswer)
    BY <1>7, ReadBodyAnswers DEF ReadBody
  <2> QED BY <2>1, ReturnKeeps
<1>8. CASE StreamDone
  <2>1. PICK a : a = IF wire = "responses" THEN ResponsesAnswer ELSE ChatAnswer
    OBVIOUS
  <2>2. phase = "streaming" /\ Return(a) /\ AnswerSound(a)
    BY <1>8, <2>1, StreamAnswers DEF StreamDone
  <2>3. phase # "idle"
    BY <2>2
  <2> QED BY <2>2, <2>3, ReturnKeeps
<1>9. CASE StreamBreaks
  <2>1. phase # "idle" /\ FallBack
    BY <1>9 DEF StreamBreaks
  <2> QED BY <1>4, <2>1
<1>10. CASE \E i \in DOMAIN progress : StreamEvent(i)
  BY <1>10, StreamEventKeeps DEF StreamEvent
<1>11. CASE UNCHANGED providerVars
  <2>1. UNCHANGED <<history, phase, wire, stream, made, progress, accum, answer, posts>>
    BY <1>11 DEF providerVars
  <2>2. ProviderTyped' /\ IdsBound' = IdsBound
    BY <2>1 DEF ProviderInv, ProviderTyped, IdsBound
  <2>3. HistorySound(history)' /\ IdsUpTo(history, IdsBound)'
    BY <2>1, <2>2 DEF ProviderInv, HistorySound, TurnsAnswered, IdsDiffer, IdsUpTo
  <2>4. ItemsSound(accum, progress) => ItemsSound(accum, progress)'
    BY <2>1, ItemsSoundThen
  <2>5. SlotsSound(accum, progress) => SlotsSound(accum, progress)'
    BY <2>1, SlotsSoundThen
  <2>6. StreamSound'
    BY <2>1, <2>4, <2>5 DEF ProviderInv, StreamSound
  <2> QED BY <2>1, <2>2, <2>3, <2>6 DEF ProviderInv
<1> QED BY <1>1, <1>2, <1>3, <1>5, <1>6, <1>7, <1>8, <1>9, <1>10, <1>11 DEF ProviderNext

\* Every wire pairs the calls and the results of a sound history, and marks few blocks.
LEMMA SoundIsPaired == ProviderInv => EveryWireIsPaired
<1> SUFFICES ASSUME ProviderInv PROVE EveryWireIsPaired
  OBVIOUS
<1>1. ASSUME NEW w \in WireApis PROVE WirePaired(OnWire(w, history))
  BY WireIsPaired DEF ProviderInv
<1>2. Cardinality(Breakpoints(OnWire("anthropic_messages", history))) <= 4
  BY FewBreakpoints DEF ProviderInv
<1> QED BY <1>1, <1>2 DEF EveryWireIsPaired, WirePaired

LEMMA EveryWireInvariant == ProviderSpec => []ProviderInv
<1>1. ProviderInit => ProviderInv
  BY ProviderStarts
<1>2. ProviderInv /\ [ProviderNext]_providerVars => ProviderInv'
  BY ProviderSteps
<1> QED BY <1>1, <1>2, PTL DEF ProviderSpec

\* The history can always go to any provider: on each wire a call has one result, a
\* result has its call before it and no user in between, and at most four blocks are
\* marked for the cache (convert_messages_to_anthropic, from_chat_request,
\* normalize_responses_output_items, inject_anthropic_cache_breakpoints).
THEOREM EveryWireStaysPaired == ProviderSpec => []EveryWireIsPaired
<1>1. ProviderSpec => []ProviderInv
  BY EveryWireInvariant
<1>2. ProviderInv => EveryWireIsPaired
  BY SoundIsPaired
<1> QED BY <1>1, <1>2, PTL

\* A generation has one text at most; of several, the protocols make different answers.
OneText ==
  \A items \in Generations : \A i, j \in DOMAIN items :
    items[i].kind = "text" /\ items[j].kind = "text" => i = j

\* What is sent is what the provider may generate, or nothing.
AnswerInv ==
  /\ ProviderInv /\ AnswerIsGeneration
  /\ made.items = <<>> \/ made.items \in Generations

LEMMA AnswerInvSteps ==
  ASSUME OneText, AnswerInv, [ProviderNext]_providerVars
  PROVE  AnswerInv'
<1>1. /\ ProviderInv'
      /\ answer' = answer \/ \E a : AnswerSound(a) /\ Return(a) /\ phase # "idle"
  BY ProviderSteps DEF AnswerInv
<1>2. AnswerIsGeneration'
  <2>1. CASE answer' = answer
    BY <2>1 DEF AnswerInv, AnswerIsGeneration
  <2>2. CASE \E a : AnswerSound(a) /\ Return(a) /\ phase # "idle"
    <3>1. PICK a : AnswerSound(a) /\ Return(a)
      BY <2>2
    <3>2. ASSUME NEW i, NEW j, IsText(i), IsText(j) PROVE i = j
      <4>1. made.items # <<>>
        BY <3>2 DEF IsText
      <4>2. made.items \in Generations
        BY <4>1 DEF AnswerInv
      <4> QED BY <3>2, <4>2 DEF OneText, IsText, Item
    <3>3. a.text = Generated.text /\ a.calls = Generated.calls
      BY <3>1, <3>2 DEF AnswerSound
    <3>4. answer' = [got |-> [text |-> a.text, calls |-> a.calls], meant |-> Generated]
      BY <3>1, Zenon DEF Return
    <3>5. [text |-> Generated.text, calls |-> Generated.calls] = Generated
      BY DEF Generated
    <3> QED BY <3>3, <3>4, <3>5 DEF AnswerIsGeneration
  <2> QED BY <1>1, <2>1, <2>2
<1>3. (made.items = <<>> \/ made.items \in Generations)'
  <2>1. CASE \E items \in Generations : \E how \in MannersOf(wire) : Generate(items, how)
    BY <2>1 DEF Generate
  <2>2. CASE Forget
    BY <2>2, NothingTyped DEF Forget
  <2>3. CASE made' = made
    BY <2>3 DEF AnswerInv
  <2>4. \/ \E items \in Generations : \E how \in MannersOf(wire) : Generate(items, how)
        \/ Forget \/ made' = made
    <3>1. ASSUME \E text \in {"blank", "some", "image"} : AddMessage(text) PROVE made' = made
      BY <3>1 DEF AddMessage
    <3>2. ASSUME \E w \in WireApis, s \in BOOLEAN : SendRequest(w, s) PROVE made' = made
      BY <3>2 DEF SendRequest
    <3>3. ASSUME \E i \in DOMAIN progress : StreamEvent(i) PROVE made' = made
      BY <3>3, Zenon DEF StreamEvent
    <3>4. Abandon \/ FallBack \/ (\E a : Return(a)) => Forget
      BY Zenon DEF Abandon, FallBack, Return
    <3>5. ASSUME \E s \in BOOLEAN : Refused(s) PROVE Forget
      BY <3>4, <3>5 DEF Refused
    <3>6. Broken \/ StreamBreaks => Forget
      BY <3>4 DEF Broken, StreamBreaks
    <3>7. ReadBody \/ StreamDone => Forget
      BY <3>4 DEF ReadBody, StreamDone
    <3>8. ASSUME UNCHANGED providerVars PROVE made' = made
      BY <3>8 DEF providerVars
    <3> QED BY <3>1, <3>2, <3>3, <3>5, <3>6, <3>7, <3>8 DEF ProviderNext
  <2> QED BY <2>1, <2>2, <2>3, <2>4
<1> QED BY <1>1, <1>2, <1>3 DEF AnswerInv

\* Where a generation has one text at most, an answer is what was generated in full,
\* whatever the manner, the order and the breaks of its stream
\* (ChatCompletionsStreamAccumulator, ResponsesStreamAccumulator, read_sse_response).
THEOREM AnswersAreGenerations == OneText => (ProviderSpec => []AnswerIsGeneration)
<1> SUFFICES ASSUME OneText PROVE ProviderSpec => []AnswerIsGeneration
  OBVIOUS
<1>1. ProviderInit => AnswerInv
  <2>1. ProviderInit => made.items = <<>> /\ AnswerIsGeneration
    BY NothingTyped DEF ProviderInit, AnswerIsGeneration
  <2> QED BY <2>1, ProviderStarts DEF AnswerInv
<1>2. AnswerInv /\ [ProviderNext]_providerVars => AnswerInv'
  BY AnswerInvSteps
<1>3. AnswerInv => AnswerIsGeneration
  BY DEF AnswerInv
<1> QED BY <1>1, <1>2, <1>3, PTL DEF ProviderSpec
=============================================================================
