----------------------- MODULE ControlCheckpointProofs -----------------------
(***************************************************************************)
(* For any clients and bounds, the control checkpoint keeps its types, an  *)
(* agent's active work is open in the work index, a call is asked again    *)
(* only because the process died, and until then a question on file can be *)
(* answered.  With one client, a call has one result.                      *)
(***************************************************************************)
EXTENDS ControlCheckpoint, FiniteSetTheorems, TLAPS

\* The quantum is on the work it loaded ...
OnWork == {"run", "decide", "append", "ask", "askSave", "finish", "finishSave"}
\* ... after an assignment of the checkpoint and before its end ...
OnControl == {"append", "ask", "askSave", "finish", "finishSave"}
\* ... or is completing a Finish.
Ending == {"terminal", "report"}

\* A checkpoint in a state file, or in a loaded state, names its call and
\* belongs to a work.
ControlHasWork(s) ==
  /\ s.control # "none" <=> s.call # None
  /\ s.control # "none" => s.work # None

\* What the quantum loaded says of the state file: the work is the same, since
\* only a submit to an agent without work and a Finish change it.
CopyAgrees ==
  /\ ControlHasWork(state) /\ ControlHasWork(copy)
  /\ pc \in {"save", "examine"} /\ copy.work # None => state.work = copy.work
  /\ pc \in OnWork => copy.work # None /\ state.work = copy.work
  /\ pc \in {"examine", "run", "decide"} => copy.control = "none"
  /\ pc \in OnControl => copy.control # "none"
  /\ pc \in Ending => /\ copy.work # None /\ state.work # copy.work
                      /\ workStatus[copy.work] # "none" /\ copy.call # None

\* Whoever answers has a question, and dies with the process.
AnswersOK ==
  \A c \in Clients : answer[c].pc # "idle" =>
    answer[c].question \in Question /\ process # "down"

\* A call whose checkpoint a crash left behind may be asked again.
AskedSoFar ==
  /\ \A n \in Calls : asked[n] <= 1 + crashes
  /\ \A n \in Calls : n >= nextCall => asked[n] = 0
  /\ state.control # "none" => state.call < nextCall
  /\ copy.control # "none" => copy.call < nextCall
  /\ pc \in {"idle", "save"} /\ state.control # "none" => asked[state.call] <= crashes
  /\ pc \in {"save", "append", "ask"} /\ copy.control # "none" => asked[copy.call] <= crashes
  /\ pc \in {"examine", "run", "decide"} => state.control = "none"

IInv == TypeOK /\ CopyAgrees /\ AnswersOK /\ ActiveWorkIsOpen /\ AskedSoFar
-----------------------------------------------------------------------------
\* The bounds are naturals.
LEMMA Bounds == MaxCalls \in Nat /\ MaxWorks \in Nat /\ MaxCrashes \in Nat
BY BoundsAssumption

\* The repair of a session is a session.
LEMMA RepairedType ==
  ASSUME NEW s \in Seq(Message)
  PROVE  Repaired(s) \in Seq(Message)
<1>1. IsFiniteSet(1..Len(s)) /\ Cardinality(1..Len(s)) = Len(s)
  <2>1. ASSUME NEW n \in Nat PROVE IsFiniteSet(1..n) /\ Cardinality(1..n) = n
    BY FS_Interval
  <2>2. Len(s) \in Nat
    OBVIOUS
  <2> QED BY <2>1, <2>2
<1>2. BeforeIncomplete(s) \subseteq 1..Len(s)
  BY DEF BeforeIncomplete
<1>3. Cardinality(BeforeIncomplete(s)) \in 0..Len(s)
  BY <1>1, <1>2, FS_Subset, FS_CardinalityType
<1> DEFINE k == Cardinality(BeforeIncomplete(s))
<1> HIDE DEF k
<1>4. k \in 0..Len(s) => SubSeq(s, 1, k) \in Seq(Message)
  OBVIOUS
<1> QED BY <1>3, <1>4 DEF Repaired, k

\* What is appended to a session is a message.
LEMMA SessionTypes ==
  ASSUME NEW s \in Seq(Message)
  PROVE  /\ WithOther(s) \in Seq(Message)
         /\ \A n \in Calls : WithControl(s, n) \in Seq(Message)
         /\ \A n \in Calls : Append(s, Result(n)) \in Seq(Message)
<1>1. Other \in Message /\ \A n \in Calls : Call(n) \in Message /\ Result(n) \in Message
  BY DEF Message
<1> QED BY <1>1, RepairedType DEF WithOther, WithControl

\* A fresh agent has no checkpoint and no work.
LEMMA FreshState ==
  Fresh \in AgentState /\ Fresh.work = None /\ Fresh.control = "none" /\ Fresh.call = None
BY DEF Fresh, AgentState

\* The initial state.
LEMMA InitInv == Init => IInv
<1> SUFFICES ASSUME Init PROVE IInv
  OBVIOUS
<1>1. FilesOK
  <2>1. <<>> \in Seq(Message)
    OBVIOUS
  <2> QED BY <2>1, FreshState DEF Init, FilesOK
<1>2. NoAnswer \in AnswerState
  BY DEF NoAnswer, AnswerState, AnswerPcs
<1>3. ProcessOK
  <2>1. answer \in [Clients -> AnswerState]
    BY <1>2 DEF Init
  <2>2. nextCall \in 1..MaxCalls + 1 /\ crashes \in 0..MaxCrashes
    BY Bounds DEF Init
  <2>3. pc \in QuantumPcs /\ copy \in AgentState
    BY FreshState DEF Init, QuantumPcs
  <2> QED BY <2>1, <2>2, <2>3 DEF Init, ProcessOK
<1>4. HistoryOK
  BY DEF Init, HistoryOK
<1>5. TypeOK
  BY <1>1, <1>3, <1>4, FreshState DEF Init, TypeOK
<1>6. CopyAgrees /\ AnswersOK /\ ActiveWorkIsOpen /\ AskedSoFar
  BY FreshState, Bounds
     DEF Init, CopyAgrees, ControlHasWork, OnWork, OnControl, Ending, AnswersOK, NoAnswer,
         ActiveWorkIsOpen, AskedSoFar, Calls
<1> QED BY <1>5, <1>6 DEF IInv
-----------------------------------------------------------------------------
\* A change of a state that leaves its work and its checkpoint alone.
SameDecision(r, s) == r.work = s.work /\ r.control = s.control /\ r.call = s.call

\* Changing the status, the checkpoint or the work of a state gives a state.
LEMMA StateUpdates ==
  ASSUME NEW s \in AgentState
  PROVE  /\ \A st \in {"Idle", "Running", "WaitingUser", "WaitingDependency"} :
              /\ [s EXCEPT !.status = st] \in AgentState
              /\ SameDecision([s EXCEPT !.status = st], s)
         /\ \A k \in Kinds, n \in Calls :
              /\ [s EXCEPT !.control = k, !.call = n] \in AgentState
              /\ [s EXCEPT !.control = k, !.call = n].work = s.work
              /\ [s EXCEPT !.control = k, !.call = n].control = k
              /\ [s EXCEPT !.control = k, !.call = n].call = n
         /\ [s EXCEPT !.control = "none", !.call = None] \in AgentState
         /\ [s EXCEPT !.control = "none", !.call = None].work = s.work
         /\ [s EXCEPT !.control = "none", !.call = None].control = "none"
         /\ [s EXCEPT !.control = "none", !.call = None].call = None
         /\ s.work \in Works \cup {None} /\ s.call \in Calls \cup {None}
         /\ s.control \in Kinds \cup {"none"}
BY DEF AgentState, SameDecision

\* What IInv says of the types, at hand.
LEMMA Types ==
  ASSUME IInv
  PROVE  /\ FilesOK /\ ProcessOK /\ HistoryOK
         /\ CopyAgrees /\ AnswersOK /\ ActiveWorkIsOpen /\ AskedSoFar
         /\ state \in AgentState /\ copy \in AgentState
         /\ crashes \in Nat /\ nextCall \in Nat /\ asked \in [Calls -> Nat]
         /\ \A n \in Calls : n \in Nat /\ n # None
         /\ \A w \in Works : w \in Nat /\ w # None
         /\ "none" \notin Kinds
         /\ session \in Seq(Message)
BY Bounds DEF IInv, TypeOK, FilesOK, ProcessOK, HistoryOK, Calls, Works, None, Kinds

\* The quantum forgets what it loaded.
Returned == /\ pc' = "idle" /\ copy' = Fresh /\ rerun' = FALSE /\ wake' \in BOOLEAN

\* How a quantum returns.
LEMMA ReturnFacts ==
  ASSUME IInv, NEW again \in BOOLEAN, Return(again)
  PROVE  Returned
<1>1. wake \in BOOLEAN
  BY Types, FreshState DEF ProcessOK
<1>2. (wake \/ again) \in BOOLEAN
  BY <1>1
<1> QED BY <1>2 DEF Return, Returned

\* A submit starts a work nobody was on; the quantum, if any, is between works.
LEMMA SubmitInv ==
  ASSUME IInv, Submit
  PROVE  IInv'
<1>1. UNCHANGED <<session, question, reported, process, pending, restored, pc,
                copy, rerun, answer, nextCall, crashes, answered, asked, ended>>
  BY DEF Submit, runtime, counters, history
<1>2. PICK w \in Works :
  /\ process = "up" /\ state.work = None /\ wake' = TRUE
  /\ workStatus[w] = "none"
  /\ workStatus' = [workStatus EXCEPT ![w] = "Running"]
  /\ state' = [Fresh EXCEPT !.work = w]
  BY DEF Submit
<1>3. /\ state' \in AgentState /\ state'.work = w /\ state'.control = "none"
      /\ state'.call = None
  BY <1>2 DEF AgentState, Fresh
<1>4. /\ workStatus' \in [Works -> {"none", "Running", "Finished"}]
      /\ workStatus'[w] = "Running" /\ \A v \in Works : v # w => workStatus'[v] = workStatus[v]
  BY <1>2, Types DEF FilesOK
<1>5. FilesOK'
  BY <1>1, <1>2, <1>3, <1>4, Types, FreshState DEF FilesOK
<1>6. ProcessOK'
  BY <1>1, <1>2, Types, FreshState DEF ProcessOK
<1>7. HistoryOK'
  BY <1>1, Types DEF HistoryOK
<1>8. TypeOK'
  BY <1>1, <1>2, <1>3, <1>5, <1>6, <1>7, Types, FreshState
     DEF IInv, TypeOK, CopyAgrees, OnControl, Ending, ControlHasWork
<1>9. CopyAgrees'
  BY <1>1, <1>2, <1>3, <1>4, Types, FreshState
     DEF CopyAgrees, ControlHasWork, OnWork, OnControl, Ending
<1>10. AnswersOK'
  BY <1>1, Types DEF AnswersOK
<1>11. ActiveWorkIsOpen'
  BY <1>1, <1>2, <1>3, <1>4, Types, FreshState
     DEF ActiveWorkIsOpen, CopyAgrees, OnWork, Ending
<1>12. AskedSoFar'
  BY <1>1, <1>2, <1>3, Types, FreshState
     DEF AskedSoFar, CopyAgrees, ControlHasWork, OnControl
<1> QED BY <1>8, <1>9, <1>10, <1>11, <1>12 DEF IInv

\* Mail changes nothing but the wake-up.
LEMMA MailInv ==
  ASSUME IInv, Mail
  PROVE  IInv'
<1>1. UNCHANGED <<state, session, question, workStatus, reported, process,
                pending, restored, pc, copy, rerun, answer, nextCall, crashes,
                answered, asked, ended>>
  BY DEF Mail, durable, runtime, counters, history
<1>2. wake' = TRUE /\ process = "up"
  BY DEF Mail
<1>3. FilesOK'
  BY <1>1, Types DEF FilesOK
<1>4. ProcessOK'
  BY <1>1, <1>2, Types DEF ProcessOK
<1>5. HistoryOK'
  BY <1>1, Types DEF HistoryOK
<1>6. TypeOK'
  BY <1>1, <1>2, <1>3, <1>4, <1>5, Types DEF IInv, TypeOK
<1>7. CopyAgrees'
  BY <1>1, Types DEF CopyAgrees
<1>8. AnswersOK'
  BY <1>1, Types DEF AnswersOK
<1>9. ActiveWorkIsOpen'
  BY <1>1, Types DEF ActiveWorkIsOpen
<1>10. AskedSoFar'
  BY <1>1, Types DEF AskedSoFar
<1> QED BY <1>6, <1>7, <1>8, <1>9, <1>10 DEF IInv

\* The end of a wait changes the status only.
LEMMA WaitOverInv ==
  ASSUME IInv, WaitOver
  PROVE  IInv'
<1>1. UNCHANGED <<session, question, workStatus, reported, process, pending,
                restored, pc, copy, rerun, answer, nextCall, crashes,
                answered, asked, ended>>
  BY DEF WaitOver, runtime, counters, history
<1>2. state' \in AgentState /\ SameDecision(state', state)
  BY Types, StateUpdates DEF WaitOver
<1>3. wake' \in BOOLEAN /\ process # "down"
  BY Types DEF WaitOver
<1>4. FilesOK'
  BY <1>1, <1>2, Types DEF FilesOK
<1>5. ProcessOK'
  BY <1>1, <1>3, Types DEF ProcessOK
<1>6. HistoryOK'
  BY <1>1, Types DEF HistoryOK
<1>7. TypeOK'
  BY <1>1, <1>2, <1>3, <1>4, <1>5, <1>6, Types
     DEF IInv, TypeOK, SameDecision, CopyAgrees, OnControl, Ending, ControlHasWork
<1>8. CopyAgrees'
  BY <1>1, <1>2, <1>3, Types
     DEF CopyAgrees, SameDecision, ControlHasWork, OnWork, OnControl, Ending
<1>9. AnswersOK'
  BY <1>1, Types DEF AnswersOK
<1>10. ActiveWorkIsOpen'
  BY <1>1, <1>2, <1>3, Types DEF ActiveWorkIsOpen, SameDecision, CopyAgrees, OnWork, Ending
<1>11. AskedSoFar'
  BY <1>1, <1>2, <1>3, Types
     DEF AskedSoFar, SameDecision, CopyAgrees, ControlHasWork, OnControl
<1> QED BY <1>7, <1>8, <1>9, <1>10, <1>11 DEF IInv

\* What the quantum loads agrees with the file.
LEMMA BeginInv ==
  ASSUME IInv, Begin
  PROVE  IInv'
<1>1. UNCHANGED <<state, question, workStatus, reported, process, pending,
                restored, rerun, answer, nextCall, crashes, answered, asked,
                ended>>
  BY DEF Begin, runtime, Elsewhere, NoHistory
<1>2. wake /\ wake' = FALSE /\ pc = "idle" /\ pc' = "save" /\ copy' = state
  BY DEF Begin
<1>3. session' \in Seq(Message)
  BY Types, RepairedType DEF Begin
<1>4. FilesOK'
  BY <1>1, <1>3, Types DEF FilesOK
<1>5. ProcessOK'
  BY <1>1, <1>2, Types DEF ProcessOK, QuantumPcs
<1>6. HistoryOK'
  BY <1>1, Types DEF HistoryOK
<1>7. TypeOK'
  BY <1>1, <1>2, <1>4, <1>5, <1>6, Types
     DEF IInv, TypeOK, CopyAgrees, OnControl, Ending, ControlHasWork
<1>8. CopyAgrees'
  BY <1>1, <1>2, Types DEF CopyAgrees, ControlHasWork, OnWork, OnControl, Ending
<1>9. AnswersOK'
  BY <1>1, Types DEF AnswersOK
<1>10. ActiveWorkIsOpen'
  BY <1>1, Types DEF ActiveWorkIsOpen
<1>11. AskedSoFar'
  BY <1>1, <1>2, Types DEF AskedSoFar, CopyAgrees, ControlHasWork, OnControl
<1> QED BY <1>7, <1>8, <1>9, <1>10, <1>11 DEF IInv

\* The save writes back what is on file: only the status may differ.
LEMMA SaveInv ==
  ASSUME IInv, Save
  PROVE  IInv'
<1>1. UNCHANGED <<session, question, workStatus, reported, process, wake,
                pending, restored, copy, rerun, answer, nextCall, crashes,
                answered, asked, ended>>
  BY DEF Save, runtime, Elsewhere, NoHistory
<1>2. /\ pc = "save" /\ state' = copy
      /\ pc' = IF copy.control # "none" THEN "append" ELSE "examine"
  BY DEF Save
<1>3. FilesOK'
  BY <1>1, <1>2, Types DEF FilesOK
<1>4. ProcessOK'
  BY <1>1, <1>2, Types DEF ProcessOK, QuantumPcs
<1>5. HistoryOK'
  BY <1>1, Types DEF HistoryOK
<1>6. TypeOK'
  BY <1>1, <1>2, <1>3, <1>4, <1>5, Types
     DEF IInv, TypeOK, CopyAgrees, OnControl, Ending, ControlHasWork
<1>7. CopyAgrees'
  BY <1>1, <1>2, Types DEF CopyAgrees, ControlHasWork, OnWork, OnControl, Ending
<1>8. AnswersOK'
  BY <1>1, Types DEF AnswersOK
<1>9. ActiveWorkIsOpen'
  BY <1>1, <1>2, Types DEF ActiveWorkIsOpen, CopyAgrees, OnWork, Ending
<1>10. AskedSoFar'
  BY <1>1, <1>2, Types DEF AskedSoFar, CopyAgrees, ControlHasWork, OnControl
<1> QED BY <1>6, <1>7, <1>8, <1>9, <1>10 DEF IInv

\* The quantum returns, or goes on with the work it loaded.
LEMMA ExamineInv ==
  ASSUME IInv, Examine
  PROVE  IInv'
<1>1. UNCHANGED <<question, workStatus, reported, process, pending, restored,
                answer, nextCall, crashes, answered, asked, ended>>
  BY DEF Examine, runtime, Elsewhere, NoHistory
<1>2. pc = "examine"
  BY DEF Examine
<1>3. /\ [copy EXCEPT !.status = "Running"] \in AgentState
      /\ SameDecision([copy EXCEPT !.status = "Running"], copy)
  BY Types, StateUpdates
<1>4. \/ UNCHANGED <<state, session>> /\ Returned
      \/ /\ UNCHANGED <<wake, rerun>> /\ pc' = "run" /\ copy.work # None
         /\ state' \in AgentState /\ SameDecision(state', copy) /\ copy' = state'
         /\ session' \in Seq(Message)
  <2>1. CASE Return(FALSE) /\ UNCHANGED <<state, session>>
    BY <2>1, ReturnFacts
  <2>2. CASE /\ copy.work # None /\ pc' = "run" /\ UNCHANGED <<wake, rerun>>
             /\ state' = [copy EXCEPT !.status = "Running"]
             /\ copy' = [copy EXCEPT !.status = "Running"]
             /\ session' = WithOther(session)
    <3>1. session' \in Seq(Message)
      BY <2>2, Types, SessionTypes
    <3> QED BY <2>2, <3>1, <1>3
  <2> QED BY <2>1, <2>2 DEF Examine
<1>5. FilesOK'
  BY <1>1, <1>2, <1>3, <1>4, Types, FreshState DEF FilesOK
<1>6. ProcessOK'
  BY <1>1, <1>2, <1>3, <1>4, Types, FreshState DEF ProcessOK, QuantumPcs, Returned
<1>7. HistoryOK'
  BY <1>1, Types DEF HistoryOK
<1>8. TypeOK'
  BY <1>1, <1>2, <1>3, <1>4, <1>5, <1>6, <1>7, Types, FreshState
     DEF IInv, TypeOK, Returned, SameDecision, CopyAgrees, OnControl, Ending, ControlHasWork
<1>9. CopyAgrees'
  BY <1>1, <1>2, <1>3, <1>4, Types, FreshState
     DEF CopyAgrees, Returned, SameDecision, ControlHasWork, OnWork, OnControl, Ending
<1>10. AnswersOK'
  BY <1>1, Types DEF AnswersOK
<1>11. ActiveWorkIsOpen'
  BY <1>1, <1>2, <1>3, <1>4, Types, FreshState
     DEF ActiveWorkIsOpen, Returned, SameDecision, CopyAgrees, OnWork, Ending
<1>12. AskedSoFar'
  BY <1>1, <1>2, <1>3, <1>4, Types, FreshState
     DEF AskedSoFar, Returned, SameDecision, CopyAgrees, ControlHasWork, OnControl
<1> QED BY <1>8, <1>9, <1>10, <1>11, <1>12 DEF IInv

\* The model ran; the state is loaded again.
LEMMA RunInv ==
  ASSUME IInv, Run
  PROVE  IInv'
<1>1. UNCHANGED <<state, question, workStatus, reported, process, wake, pending,
                restored, rerun, answer, nextCall, crashes, answered, asked,
                ended>>
  BY DEF Run, runtime, Elsewhere, NoHistory
<1>2. pc = "run" /\ pc' = "decide" /\ copy' = state
  BY DEF Run
<1>3. session' \in Seq(Message)
  BY Types, RepairedType DEF Run
<1>4. state.control = "none"
  BY <1>2, Types DEF AskedSoFar
<1>5. FilesOK'
  BY <1>1, <1>3, <1>4, Types DEF FilesOK
<1>6. ProcessOK'
  BY <1>1, <1>2, <1>4, Types DEF ProcessOK, QuantumPcs
<1>7. HistoryOK'
  BY <1>1, Types DEF HistoryOK
<1>8. TypeOK'
  BY <1>1, <1>2, <1>4, <1>5, <1>6, <1>7, Types
     DEF IInv, TypeOK, CopyAgrees, OnControl, Ending, ControlHasWork
<1>9. CopyAgrees'
  BY <1>1, <1>2, <1>4, Types DEF CopyAgrees, ControlHasWork, OnWork, OnControl, Ending
<1>10. AnswersOK'
  BY <1>1, Types DEF AnswersOK
<1>11. ActiveWorkIsOpen'
  BY <1>1, Types DEF ActiveWorkIsOpen
<1>12. AskedSoFar'
  BY <1>1, <1>2, <1>4, Types DEF AskedSoFar, CopyAgrees, ControlHasWork, OnControl
<1> QED BY <1>8, <1>9, <1>10, <1>11, <1>12 DEF IInv

\* A new decision takes a call nobody was asked about.
LEMMA DecideInv ==
  ASSUME IInv, Decide
  PROVE  IInv'
<1>1. UNCHANGED <<session, question, workStatus, reported, process, pending,
                restored, answer, crashes, answered, asked, ended>>
  BY DEF Decide, runtime, Elsewhere, NoHistory
<1>2. pc = "decide"
  BY DEF Decide
<1>3. /\ [copy EXCEPT !.status = "Idle"] \in AgentState
      /\ SameDecision([copy EXCEPT !.status = "Idle"], copy)
  BY Types, StateUpdates
<1>4. /\ \/ state' \in AgentState /\ SameDecision(state', copy) /\ Returned
      /\ UNCHANGED nextCall
      \/ /\ nextCall \in Calls /\ nextCall' = nextCall + 1 /\ nextCall' \in 1..MaxCalls + 1
         /\ state' \in AgentState /\ state'.work = copy.work
         /\ state'.control \in Kinds /\ state'.call = nextCall
         /\ copy' = state' /\ pc' = "append" /\ UNCHANGED <<wake, rerun>>
  <2>1. CASE /\ state' = [copy EXCEPT !.status = "Idle"]
             /\ \E again \in BOOLEAN : Return(again)
             /\ UNCHANGED nextCall
    BY <2>1, <1>3, ReturnFacts
  <2>2. CASE /\ nextCall <= MaxCalls
             /\ \E kind \in Kinds :
                  /\ state' = [copy EXCEPT !.control = kind, !.call = nextCall]
                  /\ copy' = state'
             /\ nextCall' = nextCall + 1
             /\ pc' = "append"
             /\ UNCHANGED <<wake, rerun>>
    <3>1. nextCall \in Calls /\ nextCall' \in 1..MaxCalls + 1
      BY <2>2, Types, Bounds DEF ProcessOK, Calls
    <3>2. PICK kind \in Kinds : state' = [copy EXCEPT !.control = kind, !.call = nextCall]
      BY <2>2
    <3>3. /\ state' \in AgentState /\ state'.work = copy.work
          /\ state'.control = kind /\ state'.call = nextCall
      BY <3>1, <3>2, Types DEF AgentState
    <3> QED BY <2>2, <3>1, <3>3
  <2> QED BY <2>1, <2>2 DEF Decide
<1>5. FilesOK'
  BY <1>1, <1>2, <1>3, <1>4, Types, FreshState DEF FilesOK
<1>6. ProcessOK'
  BY <1>1, <1>2, <1>3, <1>4, Types, FreshState DEF ProcessOK, QuantumPcs, Returned
<1>7. HistoryOK'
  BY <1>1, Types DEF HistoryOK
<1>8. TypeOK'
  BY <1>1, <1>2, <1>3, <1>4, <1>5, <1>6, <1>7, Types, FreshState
     DEF IInv, TypeOK, Returned, SameDecision, CopyAgrees, OnControl, Ending, ControlHasWork
<1>9. CopyAgrees'
  BY <1>1, <1>2, <1>3, <1>4, Types, FreshState
     DEF CopyAgrees, Returned, SameDecision, ControlHasWork, OnWork, OnControl, Ending
<1>10. AnswersOK'
  BY <1>1, Types DEF AnswersOK
<1>11. ActiveWorkIsOpen'
  BY <1>1, <1>2, <1>3, <1>4, Types, FreshState
     DEF ActiveWorkIsOpen, Returned, SameDecision, CopyAgrees, OnWork, Ending
<1>12. AskedSoFar'
  BY <1>1, <1>2, <1>3, <1>4, Types, FreshState
     DEF AskedSoFar, Returned, SameDecision, CopyAgrees, ControlHasWork, OnControl
<1> QED BY <1>8, <1>9, <1>10, <1>11, <1>12 DEF IInv

\* The assistant message with the decision is on record.
LEMMA AppendControlInv ==
  ASSUME IInv, AppendControl
  PROVE  IInv'
<1>1. UNCHANGED <<state, question, workStatus, reported, process, wake, pending,
                restored, copy, rerun, answer, nextCall, crashes, answered,
                asked, ended>>
  BY DEF AppendControl, runtime, Elsewhere, NoHistory
<1>2. pc = "append"
  BY DEF AppendControl
<1>3. session' \in Seq(Message)
  BY <1>2, Types, SessionTypes, StateUpdates DEF AppendControl, TypeOK, IInv
<1>4. pc' \in {"ask", "clear", "finish"} /\ copy.call # None
  BY <1>2, Types, StateUpdates DEF AppendControl, Kinds, IInv, TypeOK, CopyAgrees, OnControl
<1>5. FilesOK'
  BY <1>1, <1>2, <1>3, Types DEF FilesOK
<1>6. ProcessOK'
  BY <1>1, <1>2, <1>4, Types DEF ProcessOK, QuantumPcs
<1>7. HistoryOK'
  BY <1>1, Types DEF HistoryOK
<1>8. TypeOK'
  BY <1>1, <1>2, <1>4, <1>5, <1>6, <1>7, Types
     DEF IInv, TypeOK, CopyAgrees, OnControl, Ending
<1>9. CopyAgrees'
  BY <1>1, <1>2, <1>4, Types DEF CopyAgrees, ControlHasWork, OnWork, OnControl, Ending
<1>10. AnswersOK'
  BY <1>1, Types DEF AnswersOK
<1>11. ActiveWorkIsOpen'
  BY <1>1, Types DEF ActiveWorkIsOpen
<1>12. AskedSoFar'
  BY <1>1, <1>2, <1>4, Types DEF AskedSoFar, CopyAgrees, ControlHasWork, OnControl
<1> QED BY <1>8, <1>9, <1>10, <1>11, <1>12 DEF IInv

\* The question is saved; the call was asked about once per incarnation.
LEMMA AskInv ==
  ASSUME IInv, Ask
  PROVE  IInv'
<1>1. UNCHANGED <<state, session, workStatus, reported, process, wake, pending,
                restored, copy, rerun, answer, nextCall, crashes, answered,
                ended>>
  BY DEF Ask, runtime, Elsewhere
<1>2. pc = "ask" /\ pc' \in {"clear", "askSave"}
  BY Types DEF Ask
<1>3. copy.call \in Calls /\ copy.work \in Works
  BY <1>2, Types, StateUpdates DEF IInv, TypeOK, CopyAgrees, OnWork
<1>4. question' \in Question \cup {NoQuestion}
  BY <1>1, <1>3, Types DEF Ask, Asking, Question, FilesOK, ProcessOK
<1>5. \/ UNCHANGED asked
      \/ asked' = [asked EXCEPT ![copy.call] = asked[copy.call] + 1] /\ pc' = "askSave"
  BY DEF Ask
<1>6. FilesOK'
  BY <1>1, <1>3, <1>4, Types DEF FilesOK
<1>7. ProcessOK'
  BY <1>1, <1>2, <1>3, <1>5, Types DEF ProcessOK, QuantumPcs
<1>8. HistoryOK'
  BY <1>1, <1>3, <1>5, Types DEF HistoryOK
<1>9. TypeOK'
  BY <1>1, <1>2, <1>3, <1>5, <1>6, <1>7, <1>8, Types
     DEF IInv, TypeOK, CopyAgrees, OnControl, Ending
<1>10. CopyAgrees'
  BY <1>1, <1>2, <1>3, <1>5, Types DEF CopyAgrees, ControlHasWork, OnWork, OnControl, Ending
<1>11. AnswersOK'
  BY <1>1, Types DEF AnswersOK
<1>12. ActiveWorkIsOpen'
  BY <1>1, Types DEF ActiveWorkIsOpen
<1>13. AskedSoFar'
  BY <1>1, <1>2, <1>3, <1>5, Types DEF AskedSoFar, CopyAgrees, ControlHasWork, OnControl
<1> QED BY <1>9, <1>10, <1>11, <1>12, <1>13 DEF IInv

\* The agent waits for the user.
LEMMA AskSaveInv ==
  ASSUME IInv, AskSave
  PROVE  IInv'
<1>1. UNCHANGED <<session, question, workStatus, reported, process, wake,
                restored, rerun, answer, nextCall, crashes, answered, asked,
                ended>>
  BY DEF AskSave, runtime, Elsewhere, NoHistory
<1>2. pc = "askSave" /\ pc' = "clear" /\ pending' = pending \cup {Asking}
  BY DEF AskSave
<1>3. state' \in AgentState /\ SameDecision(state', copy) /\ copy' = state'
  BY Types, StateUpdates DEF AskSave
<1>4. Asking \in Question
  <2>1. copy.call \in Calls /\ copy.work \in Works
    BY <1>2, Types, StateUpdates DEF IInv, TypeOK, CopyAgrees, OnWork
  <2> QED BY <2>1, Types DEF Asking, Question, ProcessOK
<1>5. FilesOK'
  BY <1>1, <1>3, <1>4, Types DEF FilesOK
<1>6. ProcessOK'
  BY <1>1, <1>2, <1>3, <1>4, Types DEF ProcessOK, QuantumPcs
<1>7. HistoryOK'
  BY <1>1, Types DEF HistoryOK
<1>8. TypeOK'
  BY <1>1, <1>2, <1>3, <1>4, <1>5, <1>6, <1>7, Types
     DEF IInv, TypeOK, SameDecision, CopyAgrees, OnControl, Ending, ControlHasWork
<1>9. CopyAgrees'
  BY <1>1, <1>2, <1>3, <1>4, Types
     DEF CopyAgrees, SameDecision, ControlHasWork, OnWork, OnControl, Ending
<1>10. AnswersOK'
  BY <1>1, Types DEF AnswersOK
<1>11. ActiveWorkIsOpen'
  BY <1>1, <1>2, <1>3, <1>4, Types
     DEF ActiveWorkIsOpen, SameDecision, CopyAgrees, OnWork, Ending
<1>12. AskedSoFar'
  BY <1>1, <1>2, <1>3, <1>4, Types
     DEF AskedSoFar, SameDecision, CopyAgrees, ControlHasWork, OnControl
<1> QED BY <1>8, <1>9, <1>10, <1>11, <1>12 DEF IInv

\* The checkpoint is cleared; what was loaded is of no use any more.
LEMMA ClearInv ==
  ASSUME IInv, Clear
  PROVE  IInv'
<1>1. UNCHANGED <<session, question, workStatus, reported, process, pending,
                restored, answer, nextCall, crashes, answered, asked, ended>>
  BY DEF Clear, runtime, Elsewhere, NoHistory
<1>2. pc = "clear"
  BY DEF Clear
<1>3. /\ Cleared \in AgentState /\ Cleared.work = state.work
      /\ Cleared.control = "none" /\ Cleared.call = None
  BY Types, StateUpdates DEF Cleared
<1>4. /\ state' \in AgentState /\ state'.work = state.work
      /\ state'.control = "none" /\ state'.call = None
  <2>1. \A st \in {"Idle", "WaitingDependency"} :
          /\ [Cleared EXCEPT !.status = st] \in AgentState
          /\ SameDecision([Cleared EXCEPT !.status = st], Cleared)
    BY <1>3, StateUpdates
  <2>2. CASE copy.control = "Wait"
    BY <1>3, <2>1, <2>2 DEF Clear, SameDecision
  <2>3. CASE copy.control # "Wait"
    BY <1>3, <2>3 DEF Clear
  <2> QED BY <2>2, <2>3
<1>5. Returned
  <2>1. rerun \in BOOLEAN
    BY Types DEF ProcessOK
  <2> QED BY <2>1, ReturnFacts DEF Clear
<1>6. FilesOK'
  BY <1>1, <1>2, <1>3, <1>4, Types DEF FilesOK
<1>7. ProcessOK'
  BY <1>1, <1>2, <1>3, <1>5, Types, FreshState DEF ProcessOK, QuantumPcs, Returned
<1>8. HistoryOK'
  BY <1>1, Types DEF HistoryOK
<1>9. TypeOK'
  BY <1>1, <1>2, <1>3, <1>4, <1>5, <1>6, <1>7, <1>8, Types, FreshState
     DEF IInv, TypeOK, Returned, CopyAgrees, OnControl, Ending, ControlHasWork
<1>10. CopyAgrees'
  BY <1>1, <1>2, <1>3, <1>4, <1>5, Types, FreshState
     DEF CopyAgrees, Returned, ControlHasWork, OnWork, OnControl, Ending
<1>11. AnswersOK'
  BY <1>1, Types DEF AnswersOK
<1>12. ActiveWorkIsOpen'
  BY <1>1, <1>2, <1>3, <1>4, Types DEF ActiveWorkIsOpen, CopyAgrees, OnWork, Ending
<1>13. AskedSoFar'
  BY <1>1, <1>2, <1>3, <1>4, <1>5, Types, FreshState
     DEF AskedSoFar, Returned, CopyAgrees, ControlHasWork, OnControl
<1> QED BY <1>9, <1>10, <1>11, <1>12, <1>13 DEF IInv

\* A Finish asks for confirmation or ends the work.
LEMMA FinishInv ==
  ASSUME IInv, Finish
  PROVE  IInv'
<1>1. UNCHANGED <<session, workStatus, reported, process, wake, pending,
                restored, answer, nextCall, crashes, answered, asked, ended>>
  BY DEF Finish, runtime, Elsewhere, NoHistory
<1>2. pc = "finish"
  BY DEF Finish
<1>3. /\ [copy EXCEPT !.status = "Idle"] \in AgentState
      /\ SameDecision([copy EXCEPT !.status = "Idle"], copy)
  BY Types, StateUpdates
<1>4. \/ /\ state' \in AgentState /\ SameDecision(state', copy) /\ copy' = state'
         /\ rerun' \in BOOLEAN /\ pc' = "clear" /\ UNCHANGED question
      \/ question' = NoQuestion /\ pc' = "finishSave" /\ UNCHANGED <<state, copy, rerun>>
  BY <1>3 DEF Finish
<1>5. FilesOK'
  BY <1>1, <1>2, <1>3, <1>4, Types DEF FilesOK
<1>6. ProcessOK'
  BY <1>1, <1>2, <1>3, <1>4, Types DEF ProcessOK, QuantumPcs
<1>7. HistoryOK'
  BY <1>1, Types DEF HistoryOK
<1>8. TypeOK'
  BY <1>1, <1>2, <1>3, <1>4, <1>5, <1>6, <1>7, Types
     DEF IInv, TypeOK, SameDecision, CopyAgrees, OnControl, Ending, ControlHasWork
<1>9. CopyAgrees'
  BY <1>1, <1>2, <1>3, <1>4, Types
     DEF CopyAgrees, SameDecision, ControlHasWork, OnWork, OnControl, Ending
<1>10. AnswersOK'
  BY <1>1, Types DEF AnswersOK
<1>11. ActiveWorkIsOpen'
  BY <1>1, <1>2, <1>3, <1>4, Types
     DEF ActiveWorkIsOpen, SameDecision, CopyAgrees, OnWork, Ending
<1>12. AskedSoFar'
  BY <1>1, <1>2, <1>3, <1>4, Types
     DEF AskedSoFar, SameDecision, CopyAgrees, ControlHasWork, OnControl
<1> QED BY <1>8, <1>9, <1>10, <1>11, <1>12 DEF IInv

\* The work leaves the state file while it is still open.
LEMMA FinishSaveInv ==
  ASSUME IInv, FinishSave
  PROVE  IInv'
<1>1. UNCHANGED <<session, question, workStatus, reported, process, wake,
                pending, restored, copy, rerun, answer, nextCall, crashes,
                answered, asked>>
  BY DEF FinishSave, runtime, Elsewhere
<1>2. /\ pc = "finishSave" /\ pc' = "terminal" /\ state' = Fresh
      /\ state' \in AgentState /\ ended' = ended \cup {copy.work}
  BY Types, StateUpdates, FreshState DEF FinishSave
<1>3. copy.work \in Works /\ copy.call # None /\ workStatus[copy.work] = "Running"
  BY <1>2, Types, StateUpdates
     DEF IInv, TypeOK, CopyAgrees, OnWork, OnControl, ControlHasWork, ActiveWorkIsOpen
<1>4. FilesOK'
  BY <1>1, <1>2, <1>3, Types, FreshState DEF FilesOK
<1>5. ProcessOK'
  BY <1>1, <1>2, <1>3, Types, FreshState DEF ProcessOK, QuantumPcs
<1>6. HistoryOK'
  BY <1>1, <1>2, <1>3, Types, FreshState DEF HistoryOK
<1>7. TypeOK'
  BY <1>1, <1>2, <1>3, <1>4, <1>5, <1>6, Types, FreshState
     DEF IInv, TypeOK, CopyAgrees, OnControl, Ending, ControlHasWork
<1>8. CopyAgrees'
  BY <1>1, <1>2, <1>3, Types, FreshState
     DEF CopyAgrees, ControlHasWork, OnWork, OnControl, Ending
<1>9. AnswersOK'
  BY <1>1, Types DEF AnswersOK
<1>10. ActiveWorkIsOpen'
  BY <1>1, <1>2, <1>3, Types, FreshState DEF ActiveWorkIsOpen, CopyAgrees, OnWork, Ending
<1>11. AskedSoFar'
  BY <1>1, <1>2, <1>3, Types, FreshState
     DEF AskedSoFar, CopyAgrees, ControlHasWork, OnControl
<1> QED BY <1>7, <1>8, <1>9, <1>10, <1>11 DEF IInv

\* The terminal record is of a work the agent is no longer on.
LEMMA TerminalInv ==
  ASSUME IInv, Terminal
  PROVE  IInv'
<1>1. UNCHANGED <<state, session, question, reported, process, wake, pending,
                restored, copy, rerun, answer, nextCall, crashes, answered,
                asked, ended>>
  BY DEF Terminal, runtime, Elsewhere, NoHistory
<1>2. pc = "terminal" /\ pc' = "report"
  BY DEF Terminal
<1>3. copy.work \in Works /\ state.work # copy.work
  BY <1>2, Types, StateUpdates DEF CopyAgrees, Ending
<1>4. /\ /\ workStatus' \in [Works -> {"none", "Running", "Finished"}]
      /\ workStatus'[copy.work] = "Finished"
      /\ \A v \in Works : v # copy.work => workStatus'[v] = workStatus[v]
  BY <1>3, Types DEF Terminal, FilesOK
<1>5. state.work # None => state.work \in Works
  BY Types, StateUpdates
<1>6. FilesOK'
  BY <1>1, <1>3, <1>4, <1>5, Types DEF FilesOK
<1>7. ProcessOK'
  BY <1>1, <1>2, <1>3, <1>5, Types DEF ProcessOK, QuantumPcs
<1>8. HistoryOK'
  BY <1>1, Types DEF HistoryOK
<1>9. TypeOK'
  BY <1>1, <1>2, <1>3, <1>5, <1>6, <1>7, <1>8, Types
     DEF IInv, TypeOK, CopyAgrees, OnControl, Ending
<1>10. CopyAgrees'
  BY <1>1, <1>2, <1>3, <1>4, <1>5, Types
     DEF CopyAgrees, ControlHasWork, OnWork, OnControl, Ending
<1>11. AnswersOK'
  BY <1>1, Types DEF AnswersOK
<1>12. ActiveWorkIsOpen'
  BY <1>1, <1>2, <1>3, <1>4, <1>5, Types DEF ActiveWorkIsOpen, CopyAgrees, OnWork, Ending
<1>13. AskedSoFar'
  BY <1>1, <1>2, <1>3, <1>5, Types DEF AskedSoFar, CopyAgrees, ControlHasWork, OnControl
<1> QED BY <1>9, <1>10, <1>11, <1>12, <1>13 DEF IInv

\* The end is reported.
LEMMA ReportInv ==
  ASSUME IInv, Report
  PROVE  IInv'
<1>1. UNCHANGED <<state, session, question, workStatus, process, wake, pending,
                restored, copy, rerun, answer, nextCall, crashes, answered,
                asked, ended>>
  BY DEF Report, runtime, Elsewhere, NoHistory
<1>2. pc = "report" /\ pc' = "clear" /\ reported' = reported \cup {copy.work}
  BY DEF Report
<1>3. copy.work \in Works /\ copy.call # None
  BY <1>2, Types, StateUpdates DEF CopyAgrees, Ending
<1>4. FilesOK'
  BY <1>1, <1>2, <1>3, Types DEF FilesOK
<1>5. ProcessOK'
  BY <1>1, <1>2, <1>3, Types DEF ProcessOK, QuantumPcs
<1>6. HistoryOK'
  BY <1>1, Types DEF HistoryOK
<1>7. TypeOK'
  BY <1>1, <1>2, <1>3, <1>4, <1>5, <1>6, Types
     DEF IInv, TypeOK, CopyAgrees, OnControl, Ending
<1>8. CopyAgrees'
  BY <1>1, <1>2, <1>3, Types DEF CopyAgrees, ControlHasWork, OnWork, OnControl, Ending
<1>9. AnswersOK'
  BY <1>1, Types DEF AnswersOK
<1>10. ActiveWorkIsOpen'
  BY <1>1, Types DEF ActiveWorkIsOpen
<1>11. AskedSoFar'
  BY <1>1, <1>2, <1>3, Types DEF AskedSoFar, CopyAgrees, ControlHasWork, OnControl
<1> QED BY <1>7, <1>8, <1>9, <1>10, <1>11 DEF IInv

\* A crash leaves the files, and a call that may be asked about again.
LEMMA CrashInv ==
  ASSUME IInv, Crash
  PROVE  IInv'
<1>1. UNCHANGED <<state, session, question, workStatus, reported, nextCall,
                answered, asked, ended>>
  BY DEF Crash, durable, history
<1>2. process' = "down" /\ wake' = FALSE /\ pending' = {} /\ restored' = {} /\ pc' = "idle"
  BY DEF Crash
<1>3. copy' = Fresh /\ copy' \in AgentState /\ rerun' = FALSE
  BY Types, StateUpdates, FreshState DEF Crash
<1>4. state.control # "none" =>
        state.call \in Calls /\ asked[state.call] <= 1 + crashes /\ state.call < nextCall
  <2>1. state.control # "none" => state.call \in Calls
    BY Types, StateUpdates DEF IInv, TypeOK
  <2> QED BY <2>1, Types DEF AskedSoFar
<1>5. crashes' = crashes + 1 /\ crashes' \in 0..MaxCrashes
  BY Types, Bounds DEF Crash, ProcessOK
<1>6. answer' \in [Clients -> AnswerState] /\ \A c \in Clients : answer'[c].pc = "idle"
  BY DEF Crash, NoAnswer, AnswerState, AnswerPcs
<1>7. FilesOK'
  BY <1>1, Types DEF FilesOK
<1>8. ProcessOK'
  BY <1>1, <1>2, <1>3, <1>4, <1>5, <1>6, Types, FreshState DEF ProcessOK, QuantumPcs
<1>9. HistoryOK'
  BY <1>1, Types DEF HistoryOK
<1>10. TypeOK'
  BY <1>1, <1>2, <1>3, <1>4, <1>6, <1>7, <1>8, <1>9, Types, FreshState
     DEF IInv, TypeOK, CopyAgrees, OnControl, Ending, ControlHasWork
<1>11. CopyAgrees'
  BY <1>1, <1>2, <1>3, <1>4, <1>6, Types, FreshState
     DEF CopyAgrees, ControlHasWork, OnWork, OnControl, Ending
<1>12. AnswersOK'
  BY <1>1, <1>2, <1>4, <1>6, Types DEF AnswersOK
<1>13. ActiveWorkIsOpen'
  BY <1>1, Types DEF ActiveWorkIsOpen
<1>14. AskedSoFar'
  <2>1. \A n \in Calls : /\ asked[n] \in Nat /\ asked[n] <= 1 + crashes
                         /\ n >= nextCall => asked[n] = 0
    BY Types DEF AskedSoFar
  <2>2. crashes \in Nat
    BY Types
  <2>3. \A n \in Calls : asked[n] <= 1 + (crashes + 1)
    BY <2>1, <2>2
  <2>4. state.control # "none" => asked[state.call] <= crashes + 1
    BY <1>4, <2>1, <2>2
  <2> QED BY <1>1, <1>2, <1>3, <1>4, <1>5, <2>1, <2>3, <2>4, FreshState DEF AskedSoFar
<1> QED BY <1>10, <1>11, <1>12, <1>13, <1>14 DEF IInv

\* Recovery changes the status only.
LEMMA RecoverInv ==
  ASSUME IInv, Recover
  PROVE  IInv'
<1>1. UNCHANGED <<session, question, workStatus, reported, pending, pc, copy,
                rerun, answer, nextCall, crashes, answered, asked, ended>>
  BY DEF Recover, counters, history
<1>2. process = "down" /\ process' = "recovering"
  BY DEF Recover, Resumable
<1>3. state' \in AgentState /\ SameDecision(state', state)
  <2>1. \A st \in {"Idle", "WaitingUser"} :
          /\ [state EXCEPT !.status = st] \in AgentState
          /\ SameDecision([state EXCEPT !.status = st], state)
    BY Types, StateUpdates
  <2>2. state \in AgentState /\ SameDecision(state, state)
    BY Types DEF SameDecision
  <2>3. \/ state' = state
        \/ \E st \in {"Idle", "WaitingUser"} : state' = [state EXCEPT !.status = st]
    BY DEF Recover
  <2> QED BY <2>1, <2>2, <2>3
<1>4. wake' \in BOOLEAN /\ restored' \subseteq Question
  BY Types DEF Recover, FilesOK, ProcessOK
<1>5. FilesOK'
  BY <1>1, <1>3, Types DEF FilesOK
<1>6. ProcessOK'
  BY <1>1, <1>2, <1>4, Types DEF ProcessOK
<1>7. HistoryOK'
  BY <1>1, Types DEF HistoryOK
<1>8. TypeOK'
  BY <1>1, <1>2, <1>3, <1>4, <1>5, <1>6, <1>7, Types
     DEF IInv, TypeOK, SameDecision, CopyAgrees, OnControl, Ending, ControlHasWork
<1>9. CopyAgrees'
  BY <1>1, <1>2, <1>3, Types
     DEF CopyAgrees, SameDecision, ControlHasWork, OnWork, OnControl, Ending
<1>10. AnswersOK'
  BY <1>1, <1>2, Types DEF AnswersOK
<1>11. ActiveWorkIsOpen'
  BY <1>1, <1>2, <1>3, Types DEF ActiveWorkIsOpen, SameDecision, CopyAgrees, OnWork, Ending
<1>12. AskedSoFar'
  BY <1>1, <1>2, <1>3, Types
     DEF AskedSoFar, SameDecision, CopyAgrees, ControlHasWork, OnControl
<1> QED BY <1>8, <1>9, <1>10, <1>11, <1>12 DEF IInv

\* The questions that were found can be answered.
LEMMA RecoverDoneInv ==
  ASSUME IInv, RecoverDone
  PROVE  IInv'
<1>1. UNCHANGED <<state, session, question, workStatus, reported, wake, pc,
                copy, rerun, answer, nextCall, crashes, answered, asked, ended>>
  BY DEF RecoverDone, durable, counters, history
<1>2. process = "recovering" /\ process' = "up" /\ pending' = restored /\ restored' = {}
  BY DEF RecoverDone
<1>3. FilesOK'
  BY <1>1, Types DEF FilesOK
<1>4. ProcessOK'
  BY <1>1, <1>2, Types DEF ProcessOK
<1>5. HistoryOK'
  BY <1>1, Types DEF HistoryOK
<1>6. TypeOK'
  BY <1>1, <1>2, <1>3, <1>4, <1>5, Types DEF IInv, TypeOK
<1>7. CopyAgrees'
  BY <1>1, Types DEF CopyAgrees
<1>8. AnswersOK'
  BY <1>1, <1>2, Types DEF AnswersOK
<1>9. ActiveWorkIsOpen'
  BY <1>1, Types DEF ActiveWorkIsOpen
<1>10. AskedSoFar'
  BY <1>1, Types DEF AskedSoFar
<1> QED BY <1>6, <1>7, <1>8, <1>9, <1>10 DEF IInv

\* The result of a call is a message.
LEMMA AnswerAppendInv ==
  ASSUME IInv, NEW c \in Clients, AnswerAppend(c)
  PROVE  IInv'
<1>1. UNCHANGED <<state, question, workStatus, reported, process, wake, pending,
                restored, pc, copy, rerun, nextCall, crashes, answered, asked,
                ended>>
  BY DEF AnswerAppend, runtime, counters, AnswerOnly
<1>2. answer[c] \in AnswerState /\ answer[c].question \in Question /\ process # "down"
  BY Types DEF AnswerAppend, ProcessOK, AnswersOK
<1>3. answer' = [answer EXCEPT ![c].pc = "clear"]
  BY DEF AnswerAppend, AnswerGoes
<1>4. /\ [answer[c] EXCEPT !.pc = "clear"] \in AnswerState
      /\ [answer[c] EXCEPT !.pc = "clear"].question \in Question
  BY <1>2 DEF AnswerState, AnswerPcs
<1>5. answer' = [answer EXCEPT ![c] = [answer[c] EXCEPT !.pc = "clear"]]
  BY <1>3
<1>6. /\ answer' \in [Clients -> AnswerState]
      /\ \A d \in Clients : answer'[d].pc # "idle" =>
           answer'[d].question \in Question
  BY <1>2, <1>4, <1>5, Types DEF ProcessOK, AnswersOK
<1>7. session' \in Seq(Message)
  <2>1. answer[c].question.call \in Calls
    BY <1>2 DEF Question
  <2> QED BY <2>1, Types, SessionTypes DEF AnswerAppend
<1>8. FilesOK'
  BY <1>1, <1>2, <1>4, <1>7, Types DEF FilesOK
<1>9. ProcessOK'
  BY <1>1, <1>2, <1>3, <1>4, <1>5, <1>6, Types DEF ProcessOK
<1>10. HistoryOK'
  BY <1>1, Types DEF HistoryOK
<1>11. TypeOK'
  BY <1>1, <1>8, <1>9, <1>10, Types DEF IInv, TypeOK
<1>12. CopyAgrees'
  BY <1>1, Types DEF CopyAgrees
<1>13. AnswersOK'
  BY <1>1, <1>2, <1>3, <1>4, <1>5, <1>6, Types DEF AnswersOK
<1>14. ActiveWorkIsOpen'
  BY <1>1, Types DEF ActiveWorkIsOpen
<1>15. AskedSoFar'
  BY <1>1, Types DEF AskedSoFar
<1> QED BY <1>11, <1>12, <1>13, <1>14, <1>15 DEF IInv

\* The question file goes.
LEMMA AnswerClearInv ==
  ASSUME IInv, NEW c \in Clients, AnswerClear(c)
  PROVE  IInv'
<1>1. UNCHANGED <<state, session, workStatus, reported, process, wake, pending,
                restored, pc, copy, rerun, nextCall, crashes, asked, ended>>
  BY DEF AnswerClear, runtime, counters, AnswerOnly
<1>2. answer[c] \in AnswerState /\ answer[c].question \in Question /\ process # "down"
  BY Types DEF AnswerClear, ProcessOK, AnswersOK
<1>3. answer' = [answer EXCEPT ![c].pc = "resume"]
  BY DEF AnswerClear, AnswerGoes
<1>4. /\ [answer[c] EXCEPT !.pc = "resume"] \in AnswerState
      /\ [answer[c] EXCEPT !.pc = "resume"].question \in Question
  BY <1>2 DEF AnswerState, AnswerPcs
<1>5. answer' = [answer EXCEPT ![c] = [answer[c] EXCEPT !.pc = "resume"]]
  BY <1>3
<1>6. /\ answer' \in [Clients -> AnswerState]
      /\ \A d \in Clients : answer'[d].pc # "idle" =>
           answer'[d].question \in Question
  BY <1>2, <1>4, <1>5, Types DEF ProcessOK, AnswersOK
<1>7. question' = NoQuestion /\ answered' \subseteq Calls
  BY <1>2, Types DEF AnswerClear, Question, HistoryOK
<1>8. FilesOK'
  BY <1>1, <1>2, <1>4, <1>7, Types DEF FilesOK
<1>9. ProcessOK'
  BY <1>1, <1>2, <1>3, <1>4, <1>5, <1>6, Types DEF ProcessOK
<1>10. HistoryOK'
  BY <1>1, <1>2, <1>4, <1>7, Types DEF HistoryOK
<1>11. TypeOK'
  BY <1>1, <1>8, <1>9, <1>10, Types DEF IInv, TypeOK
<1>12. CopyAgrees'
  BY <1>1, Types DEF CopyAgrees
<1>13. AnswersOK'
  BY <1>1, <1>2, <1>3, <1>4, <1>5, <1>6, Types DEF AnswersOK
<1>14. ActiveWorkIsOpen'
  BY <1>1, Types DEF ActiveWorkIsOpen
<1>15. AskedSoFar'
  BY <1>1, Types DEF AskedSoFar
<1> QED BY <1>11, <1>12, <1>13, <1>14, <1>15 DEF IInv

\* The agent is set going; its work and checkpoint stay.
LEMMA AnswerResumeInv ==
  ASSUME IInv, NEW c \in Clients, AnswerResume(c)
  PROVE  IInv'
<1>1. UNCHANGED <<session, question, workStatus, reported, process, pending,
                restored, pc, copy, rerun, nextCall, crashes, answered, asked,
                ended>>
  BY DEF AnswerResume, runtime, counters, AnswerOnly
<1>2. answer[c] \in AnswerState /\ answer[c].question \in Question /\ process # "down"
  BY Types DEF AnswerResume, ProcessOK, AnswersOK
<1>3. answer' = [answer EXCEPT ![c].pc = "forget"]
  BY DEF AnswerResume, AnswerGoes
<1>4. /\ [answer[c] EXCEPT !.pc = "forget"] \in AnswerState
      /\ [answer[c] EXCEPT !.pc = "forget"].question \in Question
  BY <1>2 DEF AnswerState, AnswerPcs
<1>5. answer' = [answer EXCEPT ![c] = [answer[c] EXCEPT !.pc = "forget"]]
  BY <1>3
<1>6. /\ answer' \in [Clients -> AnswerState]
      /\ \A d \in Clients : answer'[d].pc # "idle" =>
           answer'[d].question \in Question
  BY <1>2, <1>4, <1>5, Types DEF ProcessOK, AnswersOK
<1>7. state' \in AgentState /\ SameDecision(state', state)
  <2>1. /\ [state EXCEPT !.status = "Idle"] \in AgentState
        /\ SameDecision([state EXCEPT !.status = "Idle"], state)
    BY Types, StateUpdates
  <2>2. SameDecision(state, state)
    BY DEF SameDecision
  <2>3. state' = state \/ state' = [state EXCEPT !.status = "Idle"]
    BY DEF AnswerResume
  <2> QED BY <2>1, <2>2, <2>3, Types
<1>8. wake' \in BOOLEAN
  BY Types DEF AnswerResume, ProcessOK
<1>9. FilesOK'
  BY <1>1, <1>2, <1>4, <1>7, Types DEF FilesOK
<1>10. ProcessOK'
  BY <1>1, <1>2, <1>3, <1>4, <1>5, <1>6, <1>8, Types DEF ProcessOK
<1>11. HistoryOK'
  BY <1>1, Types DEF HistoryOK
<1>12. TypeOK'
  BY <1>1, <1>2, <1>3, <1>4, <1>5, <1>6, <1>7, <1>8, <1>9, <1>10, <1>11, Types
     DEF IInv, TypeOK, SameDecision, CopyAgrees, OnControl, Ending, ControlHasWork
<1>13. CopyAgrees'
  BY <1>1, <1>2, <1>3, <1>4, <1>5, <1>6, <1>7, Types
     DEF CopyAgrees, SameDecision, ControlHasWork, OnWork, OnControl, Ending
<1>14. AnswersOK'
  BY <1>1, <1>2, <1>3, <1>4, <1>5, <1>6, Types DEF AnswersOK
<1>15. ActiveWorkIsOpen'
  BY <1>1, <1>2, <1>3, <1>4, <1>5, <1>6, <1>7, Types
     DEF ActiveWorkIsOpen, SameDecision, CopyAgrees, OnWork, Ending
<1>16. AskedSoFar'
  BY <1>1, <1>2, <1>3, <1>4, <1>5, <1>6, <1>7, Types
     DEF AskedSoFar, SameDecision, CopyAgrees, ControlHasWork, OnControl
<1> QED BY <1>12, <1>13, <1>14, <1>15, <1>16 DEF IInv

\* An answer starts from a question on the list.
LEMMA AnswerStartsInv ==
  ASSUME IInv, NEW c \in Clients, AnswerStarts(c)
  PROVE  IInv'
<1>1. UNCHANGED <<state, session, question, workStatus, reported, process, wake,
                pending, restored, pc, copy, rerun, nextCall, crashes,
                answered, asked, ended>>
  BY DEF AnswerStarts, runtime, counters, AnswerOnly
<1>2. PICK q \in pending : answer' = [answer EXCEPT ![c] =
        [pc |-> "append", question |-> q, applied |-> HasResult(session, q.call)]]
  BY DEF AnswerStarts
<1>3. q \in Question /\ process = "up"
  BY Types DEF AnswerStarts, ProcessOK
<1>4. [pc |-> "append", question |-> q, applied |-> HasResult(session, q.call)] \in AnswerState
  <2>1. HasResult(session, q.call) \in BOOLEAN
    BY DEF HasResult
  <2> QED BY <1>3, <2>1 DEF AnswerState, AnswerPcs
<1>5. /\ answer' \in [Clients -> AnswerState]
      /\ \A d \in Clients : answer'[d].pc # "idle" =>
           answer'[d].question \in Question /\ process # "down"
  BY <1>2, <1>3, <1>4, Types DEF ProcessOK, AnswersOK
<1>6. FilesOK'
  BY <1>1, Types DEF FilesOK
<1>7. ProcessOK'
  BY <1>1, <1>2, <1>3, <1>4, <1>5, Types DEF ProcessOK
<1>8. HistoryOK'
  BY <1>1, Types DEF HistoryOK
<1>9. TypeOK'
  BY <1>1, <1>6, <1>7, <1>8, Types DEF IInv, TypeOK
<1>10. CopyAgrees'
  BY <1>1, Types DEF CopyAgrees
<1>11. AnswersOK'
  BY <1>1, <1>2, <1>3, <1>4, <1>5, Types DEF AnswersOK
<1>12. ActiveWorkIsOpen'
  BY <1>1, Types DEF ActiveWorkIsOpen
<1>13. AskedSoFar'
  BY <1>1, Types DEF AskedSoFar
<1> QED BY <1>9, <1>10, <1>11, <1>12, <1>13 DEF IInv

\* The question leaves the list.
LEMMA AnswerForgetInv ==
  ASSUME IInv, NEW c \in Clients, AnswerForget(c)
  PROVE  IInv'
<1>1. UNCHANGED <<state, session, question, workStatus, reported, process, wake,
                restored, pc, copy, rerun, nextCall, crashes, answered, asked,
                ended>>
  BY DEF AnswerForget, runtime, counters, AnswerOnly
<1>2. answer' = [answer EXCEPT ![c] = NoAnswer] /\ pending' \subseteq pending
  BY Types DEF AnswerForget, AnswerOnly
<1>3. NoAnswer \in AnswerState /\ NoAnswer.pc = "idle"
  BY DEF NoAnswer, AnswerState, AnswerPcs
<1>4. /\ answer' \in [Clients -> AnswerState]
      /\ \A d \in Clients : answer'[d].pc # "idle" =>
           answer'[d].question \in Question /\ process # "down"
  BY <1>2, <1>3, Types DEF ProcessOK, AnswersOK
<1>5. FilesOK'
  BY <1>1, Types DEF FilesOK
<1>6. ProcessOK'
  BY <1>1, <1>2, <1>3, <1>4, Types DEF ProcessOK
<1>7. HistoryOK'
  BY <1>1, Types DEF HistoryOK
<1>8. TypeOK'
  BY <1>1, <1>2, <1>3, <1>4, <1>5, <1>6, <1>7, Types DEF IInv, TypeOK
<1>9. CopyAgrees'
  BY <1>1, Types DEF CopyAgrees
<1>10. AnswersOK'
  BY <1>1, <1>2, <1>3, <1>4, Types DEF AnswersOK
<1>11. ActiveWorkIsOpen'
  BY <1>1, Types DEF ActiveWorkIsOpen
<1>12. AskedSoFar'
  BY <1>1, Types DEF AskedSoFar
<1> QED BY <1>8, <1>9, <1>10, <1>11, <1>12 DEF IInv
-----------------------------------------------------------------------------
\* Every step of the quantum preserves the invariant.
LEMMA QuantumInv ==
  ASSUME IInv, Quantum
  PROVE  IInv'
BY BeginInv, SaveInv, ExamineInv, RunInv, DecideInv, AppendControlInv,
   AskInv, AskSaveInv, ClearInv, FinishInv, FinishSaveInv, TerminalInv,
   ReportInv DEF Quantum

\* So does every step of an answer.
LEMMA AnswerInv ==
  ASSUME IInv, NEW c \in Clients, AnswerStarts(c) \/ AnswerStep(c)
  PROVE  IInv'
BY AnswerStartsInv, AnswerAppendInv, AnswerClearInv, AnswerResumeInv, AnswerForgetInv
   DEF AnswerStep

\* Every step and every stutter preserves the invariant.
LEMMA NextInv ==
  ASSUME IInv, [Next]_vars
  PROVE  IInv'
<1>1. CASE Submit \/ Mail \/ WaitOver
  BY <1>1, SubmitInv, MailInv, WaitOverInv
<1>2. CASE Quantum
  BY <1>2, QuantumInv
<1>3. CASE \E c \in Clients : AnswerStarts(c) \/ AnswerStep(c)
  BY <1>3, AnswerInv
<1>4. CASE Crash \/ Recover \/ RecoverDone
  BY <1>4, CrashInv, RecoverInv, RecoverDoneInv
<1>5. CASE UNCHANGED vars
  <2>1. UNCHANGED <<state, session, question, workStatus, reported, process, wake, pending,
                    restored, pc, copy, rerun, answer, nextCall, crashes, answered, asked,
                    ended>>
    BY <1>5 DEF vars, durable, runtime, counters, history
  <2>2. FilesOK' /\ ProcessOK' /\ HistoryOK'
    BY <2>1, Types DEF FilesOK, ProcessOK, HistoryOK
  <2>3. TypeOK'
    BY <2>1, <2>2 DEF IInv, TypeOK
  <2>4. CopyAgrees' /\ AnswersOK' /\ ActiveWorkIsOpen' /\ AskedSoFar'
    BY <2>1, Types DEF CopyAgrees, ControlHasWork, AnswersOK, ActiveWorkIsOpen, AskedSoFar
  <2> QED BY <2>3, <2>4 DEF IInv
<1> QED BY <1>1, <1>2, <1>3, <1>4, <1>5 DEF Next

\* The invariant holds in every reachable state, through every crash.
THEOREM Inductive == Spec => []IInv
<1>1. IInv /\ [Next]_vars => IInv'
  BY NextInv
<1> QED BY InitInv, <1>1, PTL DEF Spec

\* Every variable has its type, a checkpoint names its tool call, a dead process
\* remembers nothing, and apply_pending_control has a decision to carry out.
THEOREM TypeCorrect == Spec => []TypeOK
<1>1. IInv => TypeOK
  BY DEF IInv
<1> QED BY Inductive, <1>1, PTL

\* Whatever dies between which writes, an agent is on no work whose end is on
\* record: handle_finish_outcome saves the state before the terminal record.
THEOREM ActiveWorkStaysOpen == Spec => []ActiveWorkIsOpen
<1>1. IInv => ActiveWorkIsOpen
  BY DEF IInv
<1> QED BY Inductive, <1>1, PTL

\* A call is asked about once per incarnation of the process at most: only a
\* checkpoint that outlived a crash makes apply_pending_control ask again.
THEOREM AskedAgain == Spec => []AskedAgainOnlyAfterCrash
<1>1. IInv => AskedAgainOnlyAfterCrash
  BY DEF IInv, AskedSoFar, AskedAgainOnlyAfterCrash
<1> QED BY Inductive, <1>1, PTL
-----------------------------------------------------------------------------
(***************************************************************************)
(* Before the first crash, a question on file can be answered.             *)
(***************************************************************************)
\* Only one question is ever on its way to the list, a call is asked once, and
\* so an answer, which forgets its own question, forgets no later one.
Answerable ==
  crashes = 0 =>
    /\ process = "up"
    /\ \A q \in pending : asked[q.call] > 0
    /\ \A c \in Clients : answer[c].pc # "idle" => asked[answer[c].question.call] > 0
    /\ \A c \in Clients : answer[c].pc \in {"resume", "forget"} =>
                            answer[c].question # question
    /\ question # NoQuestion =>
         /\ asked[question.call] > 0
         /\ IF pc = "askSave" THEN question = Asking ELSE question \in pending
    /\ pc = "askSave" => asked[copy.call] > 0

\* Steps that touch neither questions nor answers.
AsksNothing ==
  /\ UNCHANGED <<crashes, process, pending, answer, asked, question>>
  /\ (pc # "askSave" /\ pc' # "askSave") \/ UNCHANGED <<pc, copy>>

\* Most steps are such.
LEMMA AsksNothingSteps ==
  ASSUME IInv,
         Submit \/ Mail \/ WaitOver \/ Begin \/ Save \/ Examine \/ Run \/ Decide
         \/ AppendControl \/ Clear \/ FinishSave \/ Terminal \/ Report \/ UNCHANGED vars
  PROVE  AsksNothing
<1>1. CASE Submit \/ Mail \/ WaitOver
  BY <1>1 DEF Submit, Mail, WaitOver, AsksNothing, counters, history, durable, runtime
<1>2. CASE Begin \/ Save \/ Examine \/ Run \/ Decide \/ Clear
  BY <1>2 DEF Begin, Save, Examine, Run, Decide, Clear, Return, NoHistory, Elsewhere,
              AsksNothing, runtime
<1>3. CASE AppendControl
  <2>1. copy.control \in Kinds
    BY <1>3, Types, StateUpdates DEF AppendControl, CopyAgrees, OnControl
  <2>2. copy.control = "Ask" \/ copy.control = "Wait" \/ copy.control = "Finish"
    BY <2>1 DEF Kinds
  <2> QED BY <1>3, <2>2 DEF AppendControl, NoHistory, Elsewhere, AsksNothing, runtime
<1>4. CASE FinishSave \/ Terminal \/ Report
  BY <1>4 DEF FinishSave, Terminal, Report, NoHistory, Elsewhere, AsksNothing, runtime
<1>5. CASE UNCHANGED vars
  BY <1>5 DEF vars, durable, runtime, counters, history, AsksNothing
<1> QED BY <1>1, <1>2, <1>3, <1>4, <1>5

\* The fields of the question of the decision at hand.
LEMMA AskingFields == Asking.call = copy.call
BY DEF Asking

\* They preserve it; so does every other step of the quantum.
LEMMA QuantumAnswerable ==
  ASSUME IInv, Answerable, AsksNothing \/ Ask \/ AskSave \/ Finish
  PROVE  Answerable'
<1> SUFFICES ASSUME crashes' = 0 PROVE Answerable'
  BY DEF Answerable
<1>1. CASE AsksNothing
  BY <1>1 DEF AsksNothing, Answerable, Asking
<1>2. CASE Ask
  <2>1. /\ UNCHANGED <<process, crashes, pending, answer, copy>> /\ pc = "ask"
    BY <1>2 DEF Ask, Elsewhere, runtime
  <2>2. CASE pc' = "clear" /\ UNCHANGED <<question, asked>>
    BY <2>1, <2>2 DEF Answerable
  <2>3. CASE /\ pc' = "askSave" /\ question' = Asking
             /\ asked' = [asked EXCEPT ![copy.call] = @ + 1]
    <3>1. asked[copy.call] = 0 /\ copy.call \in Calls
      <4>1. copy.control # "none" /\ copy.call \in Calls
        BY <2>1, Types, StateUpdates DEF CopyAgrees, OnControl, ControlHasWork
      <4>2. asked[copy.call] <= 0 /\ asked[copy.call] \in Nat
        BY <2>1, <4>1, Types DEF AskedSoFar
      <4> QED BY <4>1, <4>2
    <3>2. asked'[copy.call] > 0 /\ \A n \in Calls : asked[n] > 0 => asked'[n] > 0
      BY <2>3, <3>1, Types
    <3>3. question'.call = copy.call /\ Asking' = Asking
      BY <2>1, <2>3 DEF Asking
    <3>4. \A c \in Clients : answer[c].pc # "idle" =>
            answer[c].question.call \in Calls /\ answer[c].question # question'
      BY <2>1, <3>1, <3>3, Types DEF Answerable, AnswersOK, Question
    <3>5. \A q \in pending : q.call \in Calls
      BY Types DEF ProcessOK, Question
    <3> QED BY <2>1, <2>3, <3>2, <3>3, <3>4, <3>5 DEF Answerable
  <2> QED BY <1>2, <2>2, <2>3 DEF Ask
<1>3. CASE AskSave
  <2>1. /\ UNCHANGED <<process, crashes, answer, asked, question>> /\ pc = "askSave"
        /\ pending' = pending \cup {Asking} /\ pc' = "clear"
    BY <1>3 DEF AskSave, NoHistory, Elsewhere, runtime
  <2>2. asked[Asking.call] > 0
    BY <2>1, AskingFields DEF Answerable
  <2> QED BY <2>1, <2>2 DEF Answerable
<1>4. CASE Finish
  <2>1. /\ UNCHANGED <<process, crashes, pending, answer, asked>>
        /\ pc = "finish" /\ pc' # "askSave" /\ question' \in {question, NoQuestion}
    BY <1>4 DEF Finish, NoHistory, Elsewhere, runtime
  <2>2. \A c \in Clients : answer[c].pc # "idle" => answer[c].question # NoQuestion
    BY Types DEF AnswersOK, Question, NoQuestion
  <2> QED BY <2>1, <2>2 DEF Answerable
<1> QED BY <1>1, <1>2, <1>3, <1>4

\* An answer takes a question from the list, and when it forgets the question
\* the file holds another or none.
LEMMA AnswerAnswerable ==
  ASSUME IInv, Answerable, NEW c \in Clients, AnswerStarts(c) \/ AnswerStep(c)
  PROVE  Answerable'
<1> SUFFICES ASSUME crashes' = 0 PROVE Answerable'
  BY DEF Answerable
<1>1. UNCHANGED <<process, crashes, asked, pc, copy>>
  BY DEF AnswerStarts, AnswerStep, AnswerAppend, AnswerClear, AnswerResume, AnswerForget,
         AnswerOnly, runtime, counters
<1>2. Asking' = Asking /\ answer \in [Clients -> AnswerState]
  BY <1>1, Types DEF Asking, ProcessOK
<1>3. CASE AnswerStarts(c)
  <2>1. PICK q \in pending : answer' = [answer EXCEPT ![c] =
          [pc |-> "append", question |-> q, applied |-> HasResult(session, q.call)]]
    BY <1>3 DEF AnswerStarts
  <2>2. UNCHANGED <<question, pending>>
    BY <1>3 DEF AnswerStarts
  <2>3. answer'[c].pc = "append" /\ answer'[c].question = q
        /\ \A d \in Clients : d # c => answer'[d] = answer[d]
    BY <1>2, <2>1
  <2> QED BY <1>1, <1>2, <2>2, <2>3 DEF Answerable
<1>4. CASE AnswerAppend(c) \/ AnswerResume(c)
  <2>1. PICK to \in {"clear", "forget"} :
          /\ answer' = [answer EXCEPT ![c].pc = to]
          /\ answer[c].pc = IF to = "clear" THEN "append" ELSE "resume"
    BY <1>4 DEF AnswerAppend, AnswerResume, AnswerGoes
  <2>2. UNCHANGED <<question, pending>>
    BY <1>4 DEF AnswerAppend, AnswerResume
  <2>3. answer'[c].pc = to /\ answer'[c].question = answer[c].question
        /\ \A d \in Clients : d # c => answer'[d] = answer[d]
    BY <1>2, <2>1 DEF AnswerState
  <2> QED BY <1>1, <1>2, <2>1, <2>2, <2>3 DEF Answerable
<1>5. CASE AnswerClear(c)
  <2>1. /\ answer' = [answer EXCEPT ![c].pc = "resume"] /\ answer[c].pc = "clear"
        /\ question' = NoQuestion /\ pending' = pending
    BY <1>5 DEF AnswerClear, AnswerGoes
  <2>2. answer'[c].pc = "resume" /\ answer'[c].question = answer[c].question
        /\ \A d \in Clients : d # c => answer'[d] = answer[d]
    BY <1>2, <2>1 DEF AnswerState
  <2>3. \A d \in Clients : answer[d].pc # "idle" => answer[d].question # NoQuestion
    BY Types DEF AnswersOK, Question, NoQuestion
  <2> QED BY <1>1, <1>2, <2>1, <2>2, <2>3 DEF Answerable
<1>6. CASE AnswerForget(c)
  <2>1. /\ answer' = [answer EXCEPT ![c] = NoAnswer] /\ answer[c].pc = "forget"
        /\ question' = question /\ pending' = pending \ {answer[c].question}
    BY <1>6 DEF AnswerForget
  <2>2. answer'[c].pc = "idle" /\ \A d \in Clients : d # c => answer'[d] = answer[d]
    BY <1>2, <2>1 DEF NoAnswer
  <2>3. answer[c].question # question
    BY <1>1, <2>1 DEF Answerable
  <2> QED BY <1>1, <1>2, <2>1, <2>2, <2>3 DEF Answerable
<1> QED BY <1>3, <1>4, <1>5, <1>6 DEF AnswerStep

\* It holds in the initial state and is preserved by every step.
LEMMA AlwaysAnswerable == Spec => []Answerable
<1>1. Init => Answerable
  BY DEF Init, Answerable, NoAnswer
<1>2. ASSUME IInv, Answerable, [Next]_vars PROVE Answerable'
  <2>1. CASE Crash
    <3>1. crashes' = crashes + 1 /\ crashes \in Nat
      BY <1>2, <2>1, Types DEF Crash
    <3> QED BY <3>1 DEF Answerable
  <2>2. CASE Recover \/ RecoverDone
    <3>1. process # "up" /\ crashes' = crashes
      BY <2>2 DEF Recover, RecoverDone, counters
    <3> QED BY <1>2, <3>1 DEF Answerable
  <2>3. CASE \E c \in Clients : AnswerStarts(c) \/ AnswerStep(c)
    BY <1>2, <2>3, AnswerAnswerable
  <2>4. CASE Submit \/ Mail \/ WaitOver \/ Quantum \/ UNCHANGED vars
    BY <1>2, <2>4, AsksNothingSteps, QuantumAnswerable DEF Quantum
  <2> QED BY <1>2, <2>1, <2>2, <2>3, <2>4 DEF Next
<1>3. IInv /\ Answerable /\ [Next]_vars => Answerable'
  BY <1>2
<1> QED BY <1>1, <1>3, Inductive, PTL DEF Spec

\* Until a crash, a question in the agent's directory is one that
\* answer_question finds, however many clients answer at once and however late.
THEOREM QuestionsCanBeAnswered == Spec => []QuestionIsAnswerable
<1>1. Answerable => QuestionIsAnswerable
  BY DEF Answerable, QuestionIsAnswerable
<1> QED BY AlwaysAnswerable, <1>1, PTL
-----------------------------------------------------------------------------
(***************************************************************************)
(* With one client, a call has one result.                                 *)
(***************************************************************************)
\* has_raw_tool_result is looked up before the append, so two clients may both
\* find no result.
OneClient == \A c, d \in Clients : c = d

\* What an answer found missing is missing when it appends.
StillMissing ==
  \A c \in Clients : answer[c].pc = "append" /\ ~answer[c].applied =>
                        ~HasResult(session, answer[c].question.call)

\* t has no result that s has not, and none twice.
NoMoreResults(t, s) ==
  /\ \A n \in Calls : HasResult(t, n) => HasResult(s, n)
  /\ (\A i, j \in DOMAIN s : s[i].type = "result" /\ s[i] = s[j] => i = j)
       => (\A i, j \in DOMAIN t : t[i].type = "result" /\ t[i] = t[j] => i = j)

\* Repairing a session cuts it off.
LEMMA RepairedResults ==
  ASSUME NEW s \in Seq(Message)
  PROVE  NoMoreResults(Repaired(s), s)
<1>1. IsFiniteSet(1..Len(s)) /\ Cardinality(1..Len(s)) = Len(s)
  <2>1. ASSUME NEW n \in Nat PROVE IsFiniteSet(1..n) /\ Cardinality(1..n) = n
    BY FS_Interval
  <2>2. Len(s) \in Nat
    OBVIOUS
  <2> QED BY <2>1, <2>2
<1>2. BeforeIncomplete(s) \subseteq 1..Len(s)
  BY DEF BeforeIncomplete
<1>3. Cardinality(BeforeIncomplete(s)) \in 0..Len(s)
  BY <1>1, <1>2, FS_Subset, FS_CardinalityType
<1> DEFINE k == Cardinality(BeforeIncomplete(s))
           t == SubSeq(s, 1, k)
<1> HIDE DEF k
<1>4. k \in 0..Len(s)
  BY <1>3 DEF k
<1>5. DOMAIN t = 1..k /\ 1..k \subseteq DOMAIN s /\ \A i \in 1..k : t[i] = s[i]
  BY <1>4
<1> HIDE DEF t
<1>6. NoMoreResults(t, s)
  BY <1>5 DEF NoMoreResults, HasResult
<1> QED BY <1>6 DEF Repaired, k, t

\* What the quantum writes to a session is no result.
LEMMA QuantumResults ==
  ASSUME NEW s \in Seq(Message)
  PROVE  /\ NoMoreResults(WithOther(s), s)
         /\ \A n \in Calls : NoMoreResults(WithControl(s, n), s)
<1>1. ASSUME NEW r \in Seq(Message), NEW m \in Message, m.type # "result"
      PROVE  NoMoreResults(Append(r, m), r)
  <2>1. /\ DOMAIN Append(r, m) = 1..Len(r) + 1 /\ DOMAIN r = 1..Len(r) /\ Len(r) \in Nat
        /\ \A i \in 1..Len(r) : Append(r, m)[i] = r[i]
        /\ Append(r, m)[Len(r) + 1] = m
    OBVIOUS
  <2>2. \A n \in Calls : Result(n).type = "result" /\ Result(n) # m
    BY <1>1 DEF Result
  <2> QED BY <1>1, <2>1, <2>2 DEF NoMoreResults, HasResult
<1>2. Other \in Message /\ Other.type # "result"
  BY DEF Message, Other
<1>3. NoMoreResults(s, s)
  BY DEF NoMoreResults
<1>4. \A n \in Calls : Call(n) \in Message /\ Call(n).type # "result"
  BY DEF Message, Call
<1>5. Repaired(s) \in Seq(Message) /\ NoMoreResults(Repaired(s), s)
  BY RepairedType, RepairedResults
<1>6. ASSUME NEW n \in Calls PROVE NoMoreResults(WithControl(s, n), s)
  <2>1. NoMoreResults(Append(Repaired(s), Call(n)), Repaired(s))
    BY <1>1, <1>4, <1>5
  <2>2. NoMoreResults(Append(Repaired(s), Call(n)), s)
    BY <1>5, <2>1 DEF NoMoreResults
  <2> QED BY <1>5, <2>2 DEF WithControl
<1> QED BY <1>1, <1>2, <1>3, <1>6 DEF WithOther

\* A missing result is appended once.
LEMMA AppendedResult ==
  ASSUME NEW s \in Seq(Message), NEW n \in Calls, ~HasResult(s, n),
         \A i, j \in DOMAIN s : s[i].type = "result" /\ s[i] = s[j] => i = j
  PROVE  LET t == Append(s, Result(n))
         IN  \A i, j \in DOMAIN t : t[i].type = "result" /\ t[i] = t[j] => i = j
<1>1. /\ DOMAIN Append(s, Result(n)) = 1..Len(s) + 1 /\ DOMAIN s = 1..Len(s)
      /\ Len(s) \in Nat
      /\ \A i \in 1..Len(s) : Append(s, Result(n))[i] = s[i]
      /\ Append(s, Result(n))[Len(s) + 1] = Result(n)
  BY DEF Message
<1>2. \A i \in DOMAIN s : s[i] # Result(n)
  BY DEF HasResult
<1> QED BY <1>1, <1>2

\* The sessions of two consecutive states of a step that is not an answer's.
LEMMA QuantumStillMissing ==
  ASSUME IInv,
         Submit \/ Mail \/ WaitOver \/ Quantum \/ Recover \/ RecoverDone \/ UNCHANGED vars
  PROVE  NoMoreResults(session', session) /\ answer' = answer
<1>1. session \in Seq(Message) /\ NoMoreResults(session, session)
  BY Types DEF NoMoreResults
<1>2. CASE Submit \/ Mail \/ WaitOver \/ Recover \/ RecoverDone \/ UNCHANGED vars
  BY <1>1, <1>2 DEF Submit, Mail, WaitOver, Recover, RecoverDone, vars, durable
<1>3. CASE Begin \/ Run
  BY <1>1, <1>3, RepairedResults DEF Begin, Run, NoHistory, Elsewhere
<1>4. CASE Examine
  BY <1>1, <1>4, QuantumResults DEF Examine, NoHistory, Elsewhere
<1>5. CASE AppendControl
  <2>1. copy.call \in Calls
    BY <1>5, Types, StateUpdates DEF AppendControl, IInv, TypeOK
  <2> QED BY <1>1, <1>5, <2>1, QuantumResults DEF AppendControl, NoHistory, Elsewhere
<1>6. CASE Save \/ Decide \/ Ask \/ AskSave \/ Clear \/ Finish \/ FinishSave \/ Terminal \/ Report
  BY <1>1, <1>6 DEF Save, Decide, Ask, AskSave, Clear, Finish, FinishSave, Terminal, Report,
                    NoHistory, Elsewhere
<1> QED BY <1>2, <1>3, <1>4, <1>5, <1>6 DEF Quantum

\* The only client answers one question after the other.
LEMMA AnswerOneResult ==
  ASSUME OneClient, IInv, StillMissing, OneResultPerCall,
         NEW c \in Clients, AnswerStarts(c) \/ AnswerStep(c)
  PROVE  StillMissing' /\ OneResultPerCall'
<1>1. \A d \in Clients : d = c
  BY DEF OneClient
<1>2. answer \in [Clients -> AnswerState]
  BY Types DEF ProcessOK
<1>3. CASE AnswerStarts(c)
  <2>1. PICK q \in pending : answer' = [answer EXCEPT ![c] =
          [pc |-> "append", question |-> q, applied |-> HasResult(session, q.call)]]
    BY <1>3 DEF AnswerStarts
  <2>2. /\ session' = session /\ answer'[c].question = q
        /\ answer'[c].applied = HasResult(session, q.call)
    BY <1>2, <1>3, <2>1 DEF AnswerStarts
  <2>3. HasResult(session', answer'[c].question.call) = HasResult(session, q.call)
    BY <2>2
  <2> QED BY <1>1, <2>2, <2>3 DEF StillMissing, OneResultPerCall
<1>4. CASE AnswerStep(c)
  <2>1. answer'[c].pc # "append"
    BY <1>2, <1>4 DEF AnswerStep, AnswerAppend, AnswerClear, AnswerResume, AnswerForget,
                      AnswerGoes, NoAnswer, AnswerState
  <2>2. CASE AnswerAppend(c)
    <3>1. answer[c].question.call \in Calls
      BY <2>2, Types DEF AnswerAppend, AnswersOK, Question
    <3>2. CASE answer[c].applied
      BY <1>1, <2>1, <2>2, <3>2 DEF AnswerAppend, StillMissing, OneResultPerCall
    <3>3. CASE ~answer[c].applied
      <4>1. /\ session' = Append(session, Result(answer[c].question.call))
            /\ ~HasResult(session, answer[c].question.call)
        BY <2>2, <3>3 DEF AnswerAppend, StillMissing
      <4>2. OneResultPerCall'
        BY <3>1, <4>1, Types, AppendedResult DEF OneResultPerCall
      <4> QED BY <1>1, <2>1, <4>2 DEF StillMissing
    <3> QED BY <3>2, <3>3
  <2>3. CASE ~AnswerAppend(c)
    <3>1. session' = session
      BY <1>4, <2>3 DEF AnswerStep, AnswerClear, AnswerResume, AnswerForget
    <3> QED BY <1>1, <2>1, <3>1 DEF StillMissing, OneResultPerCall
  <2> QED BY <2>2, <2>3
<1> QED BY <1>3, <1>4

\* However often the process dies between the append of a result and the removal
\* of the question, a client that answers again appends no second result; the
\* repair of a session and the appends of a quantum bring none back.
THEOREM OneClientOneResult == OneClient => (Spec => []OneResultPerCall)
<1> SUFFICES ASSUME OneClient PROVE Spec => []OneResultPerCall
  OBVIOUS
<1>1. Init => StillMissing /\ OneResultPerCall
  BY DEF Init, StillMissing, OneResultPerCall, NoAnswer
<1>2. ASSUME IInv, StillMissing, OneResultPerCall, [Next]_vars
      PROVE  StillMissing' /\ OneResultPerCall'
  <2>1. CASE Crash
    BY <1>2, <2>1 DEF Crash, durable, StillMissing, OneResultPerCall, NoAnswer
  <2>2. CASE \E c \in Clients : AnswerStarts(c) \/ AnswerStep(c)
    BY <1>2, <2>2, AnswerOneResult
  <2>3. CASE Submit \/ Mail \/ WaitOver \/ Quantum \/ Recover \/ RecoverDone \/ UNCHANGED vars
    <3>1. NoMoreResults(session', session) /\ answer' = answer
      BY <1>2, <2>3, QuantumStillMissing
    <3>2. \A c \in Clients : answer[c].pc = "append" => answer[c].question.call \in Calls
      BY <1>2, Types DEF AnswersOK, Question
    <3>3. StillMissing'
      BY <1>2, <3>1, <3>2 DEF StillMissing, NoMoreResults, HasResult
    <3>4. OneResultPerCall'
      BY <1>2, <3>1 DEF OneResultPerCall, NoMoreResults
    <3> QED BY <3>3, <3>4
  <2> QED BY <1>2, <2>1, <2>2, <2>3 DEF Next
<1>3. IInv /\ StillMissing /\ OneResultPerCall /\ [Next]_vars
        => StillMissing' /\ OneResultPerCall'
  BY <1>2
<1> QED BY <1>1, <1>3, Inductive, PTL DEF Spec
=============================================================================
