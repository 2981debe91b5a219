---------------------------- MODULE HubWorksProofs ----------------------------
(***************************************************************************)
(* A report is for the work that ordered the one it reports, whatever the  *)
(* agents, clients and bounds.                                             *)
(*                                                                         *)
(* The parent work is in the state file, so the proof follows every copy   *)
(* of that file there is: each says of its active work either the truth or *)
(* nothing.  That survives stale saves, because what ordered a work never  *)
(* changes.                                                                *)
(***************************************************************************)
EXTENDS HubWorks, SequenceTheorems, WellFoundedInduction, TLAPS

\* Whoever ordered its work, a state names that work or none.
TrueParent(s, o) == s.parentWork # None => s.active \in Works /\ s.parentWork = o[s.active]

\* A report names the work that ordered what it is about, or none.
TrueReport(e, o) ==
  e.kind = "report" /\ e.work # None => e.about \in Works /\ e.work = o[e.about]

GoodState(s, o) == s \in AgentState /\ TrueParent(s, o)
GoodEntry(e, o) == e \in Entry /\ TrueReport(e, o)

StatesOK ==
  /\ state \in [Agents -> AgentState \cup {NoState}]
  /\ Exists(Root)
  /\ \A a \in Agents : Exists(a) => TrueParent(state[a], ordered)

\* An agent that has a quantum exists, and the quantum has a state.
QuantaOK ==
  /\ pc \in [Agents -> {"idle", "loaded", "run"}]
  /\ copy \in [Agents -> AgentState \cup {NoState}]
  /\ run \in [Agents -> [work : Works \cup {None}, cancelled : BOOLEAN, offset : Nat]]
  /\ \A a \in Agents : pc[a] # "idle" => Exists(a) /\ GoodState(copy[a], ordered)
  /\ \A a \in Agents : pc[a] = "run" => run[a].work \in Works

MailOK ==
  /\ mail \in [Agents -> Seq(Entry)]
  /\ wake \in [Agents -> BOOLEAN]
  /\ \A a \in Agents : \A i \in 1..Len(mail[a]) : TrueReport(mail[a][i], ordered)

WorksOK ==
  /\ works \in [Works -> [status : {"Running", "Finished", "Cancelled"}, owner : Agents]
                         \cup {NoRecord}]
  /\ owner \in Agents
  /\ seen \in [Submits -> Works \cup {None}]
  /\ op \in [Clients -> Submits \cup {None}]
  /\ given \subseteq Works \cup {None}

InterruptOK ==
  /\ interrupt \in [agents : SUBSET Agents, task : Works \cup {None}]
  /\ \A a \in interrupt.agents : Exists(a)

\* No work that is still to come was ordered.
CountersOK ==
  /\ up \in BOOLEAN /\ events \in Nat /\ tools \in Nat
  /\ nextWork \in MaxSubmits + 1..MaxWorks
  /\ ordered \in [Works -> Works \cup {None}]
  /\ \A w \in Works : w >= nextWork => ordered[w] = None

IInv == StatesOK /\ QuantaOK /\ MailOK /\ WorksOK /\ InterruptOK /\ CountersOK

\* What a step does to what was said of orders: nothing; and to agents: they stay.
StillTrue ==
  /\ \A s \in AgentState : TrueParent(s, ordered) => TrueParent(s, ordered')
  /\ \A e \in Entry : TrueReport(e, ordered) => TrueReport(e, ordered')
Lasting == \A a \in Agents : Exists(a) => Exists(a)'

-----------------------------------------------------------------------------
(* Data                                                                     *)

LEMMA Bounds ==
  /\ MaxSubmits \in Nat /\ MaxWorks \in Nat /\ MaxSubmits < MaxWorks
  /\ Submits \subseteq Works /\ MadeUp \in Works /\ None \notin Works
  /\ Root \in Agents /\ NoAgent \notin Agents
BY AgentsAssumption, BoundsAssumption DEF Submits, Works, MadeUp, None

LEMMA NoStateIsNone == NoState \notin AgentState
<1>1. \A s \in AgentState : s.status \in {"Idle", "Running"}
  BY DEF AgentState
<1>2. NoState.status = "none"
  BY DEF NoState
<1>3. QED
  BY <1>1, <1>2

\* Starting a work, ending it, and the other changes of a state.
LEMMA OnGood ==
  ASSUME NEW s \in AgentState, NEW o, NEW w \in Works, NEW p \in Works \cup {None},
         p # None => p = o[w]
  PROVE  GoodState(On(s, w, p), o)
BY DEF AgentState, On, GoodState, TrueParent

LEMMA OffGood ==
  ASSUME NEW s \in AgentState, NEW o
  PROVE  GoodState(Off(s), o)
BY DEF AgentState, On, Off, GoodState, TrueParent

LEMMA ChangeGood ==
  ASSUME NEW o, NEW s, GoodState(s, o), NEW b \in BOOLEAN, NEW n \in Nat, NEW t \in {"Idle", "Running"}
  PROVE  /\ GoodState([s EXCEPT !.status = t], o)
         /\ GoodState([s EXCEPT !.heard = b], o)
         /\ GoodState([s EXCEPT !.confirm = b], o)
         /\ GoodState([s EXCEPT !.offset = n], o)
BY DEF AgentState, GoodState, TrueParent

LEMMA NewGood ==
  ASSUME NEW p \in Agents \cup {NoAgent}, NEW o
  PROVE  GoodState(NewState(p), o)
BY DEF NewState, AgentState, GoodState, TrueParent

LEMMA EntriesGood ==
  ASSUME NEW o, NEW w \in Works \cup {None}
  PROVE  /\ GoodEntry(Note(w), o) /\ GoodEntry(Input(w), o)
         /\ \A v \in Works : (w # None => w = o[v]) => GoodEntry(Report(w, v), o)
BY DEF Note, Input, Report, Entry, GoodEntry, TrueReport

-----------------------------------------------------------------------------
(* What a step does to one part of the state                                *)

LEMMA OrdersStay ==
  ASSUME UNCHANGED ordered
  PROVE  StillTrue
BY DEF StillTrue

LEMMA SaveOK ==
  ASSUME StatesOK, StillTrue, NEW a \in Agents, NEW s, GoodState(s, ordered'), Save(a, s)
  PROVE  StatesOK' /\ Lasting
<1>1. s \in AgentState /\ s # NoState /\ TrueParent(s, ordered')
  BY NoStateIsNone DEF GoodState
<1>2. /\ state' \in [Agents -> AgentState \cup {NoState}]
      /\ state'[a] = s /\ \A x \in Agents : x # a => state'[x] = state[x]
  BY <1>1 DEF StatesOK, Save
<1>3. Lasting
  BY <1>1, <1>2 DEF Lasting, Exists
<1>4. Exists(Root)'
  BY <1>3, Bounds DEF StatesOK, Lasting
<1>5. ASSUME NEW x \in Agents, Exists(x)' PROVE TrueParent(state'[x], ordered')
  <2>1. CASE x = a
    BY <1>1, <1>2, <2>1
  <2>2. CASE x # a
    BY <1>2, <1>5, <2>2 DEF StatesOK, Exists, StillTrue
  <2>3. QED
    BY <2>1, <2>2
<1>6. QED
  BY <1>2, <1>3, <1>4, <1>5 DEF StatesOK

LEMMA SameStates ==
  ASSUME StatesOK, StillTrue, UNCHANGED state
  PROVE  StatesOK' /\ Lasting
BY DEF StatesOK, StillTrue, Lasting, Exists

LEMMA SameQuanta ==
  ASSUME QuantaOK, StillTrue, Lasting, UNCHANGED <<pc, copy, run>>
  PROVE  QuantaOK'
BY DEF QuantaOK, StillTrue, Lasting, GoodState

LEMMA BackOK ==
  ASSUME QuantaOK, StillTrue, Lasting, NEW a \in Agents, Back(a)
  PROVE  QuantaOK'
<1>1. NoRun \in [work : Works \cup {None}, cancelled : BOOLEAN, offset : Nat]
  BY DEF NoRun
<1>2. /\ pc' \in [Agents -> {"idle", "loaded", "run"}]
      /\ copy' \in [Agents -> AgentState \cup {NoState}]
      /\ run' \in [Agents -> [work : Works \cup {None}, cancelled : BOOLEAN, offset : Nat]]
  BY <1>1 DEF QuantaOK, Back
<1>3. /\ pc'[a] = "idle"
      /\ \A x \in Agents : x # a => pc'[x] = pc[x] /\ copy'[x] = copy[x] /\ run'[x] = run[x]
  BY DEF QuantaOK, Back
<1>4. ASSUME NEW x \in Agents, pc'[x] # "idle"
      PROVE  /\ Exists(x)' /\ GoodState(copy'[x], ordered')
             /\ pc'[x] = "run" => run'[x].work \in Works
  BY <1>3, <1>4 DEF QuantaOK, StillTrue, Lasting, GoodState
<1>5. QED
  BY <1>2, <1>4 DEF QuantaOK

LEMMA SameMail ==
  ASSUME MailOK, StillTrue, UNCHANGED mail, wake' \in [Agents -> BOOLEAN]
  PROVE  MailOK'
<1>1. ASSUME NEW a \in Agents, NEW i \in 1..Len(mail[a]) PROVE mail[a][i] \in Entry
  BY DEF MailOK
<1>2. QED
  BY <1>1 DEF MailOK, StillTrue

LEMMA PostOK ==
  ASSUME MailOK, StillTrue, NEW entries, Post(entries),
         \A a \in Agents : a \in DOMAIN entries => GoodEntry(entries[a], ordered')
  PROVE  MailOK'
<1>1. wake' \in [Agents -> BOOLEAN]
  BY DEF Post
<1>2. ASSUME NEW a \in Agents
      PROVE  /\ mail'[a] \in Seq(Entry)
             /\ \A i \in 1..Len(mail'[a]) : TrueReport(mail'[a][i], ordered')
  <2>1. /\ mail[a] \in Seq(Entry) /\ \A i \in 1..Len(mail[a]) : TrueReport(mail[a][i], ordered)
    BY DEF MailOK
  <2>2. \A i \in 1..Len(mail[a]) : TrueReport(mail[a][i], ordered')
    <3>1. \A i \in 1..Len(mail[a]) : mail[a][i] \in Entry
      BY <2>1
    <3>2. QED
      BY <2>1, <3>1 DEF StillTrue
  <2>3. CASE a \in DOMAIN entries
    <3>1. entries[a] \in Entry /\ TrueReport(entries[a], ordered')
      BY <2>3 DEF GoodEntry
    <3>2. mail'[a] = Append(mail[a], entries[a])
      BY <2>3 DEF Post
    <3>3. /\ Append(mail[a], entries[a]) \in Seq(Entry)
          /\ Len(Append(mail[a], entries[a])) = Len(mail[a]) + 1
          /\ \A i \in 1..Len(mail[a]) : Append(mail[a], entries[a])[i] = mail[a][i]
          /\ Append(mail[a], entries[a])[Len(mail[a]) + 1] = entries[a]
      BY <2>1, <3>1, AppendProperties
    <3>4. Len(mail[a]) \in Nat
      BY <2>1
    <3>5. ASSUME NEW i \in 1..Len(mail[a]) + 1
          PROVE  TrueReport(Append(mail[a], entries[a])[i], ordered')
      <4>1. CASE i \in 1..Len(mail[a])
        BY <2>2, <3>3, <4>1
      <4>2. CASE i = Len(mail[a]) + 1
        BY <3>1, <3>3, <4>2
      <4>3. QED
        BY <3>4, <4>1, <4>2
    <3>6. QED
      BY <3>2, <3>3, <3>5
  <2>4. CASE a \notin DOMAIN entries
    BY <2>1, <2>2, <2>4 DEF Post
  <2>5. QED
    BY <2>3, <2>4
<1>3. mail' \in [Agents -> Seq(Entry)]
  <2>1. mail' = [a \in Agents |-> mail'[a]]
    BY DEF Post
  <2>2. QED
    BY <1>2, <2>1
<1>4. QED
  BY <1>1, <1>2, <1>3 DEF MailOK

LEMMA SameInterrupt ==
  ASSUME InterruptOK, Lasting, UNCHANGED interrupt
  PROVE  InterruptOK'
BY DEF InterruptOK, Lasting

LEMMA SameCounters ==
  ASSUME CountersOK, UNCHANGED <<nextWork, ordered>>, up' \in BOOLEAN, events' \in Nat, tools' \in Nat
  PROVE  CountersOK'
BY DEF CountersOK

LEMMA RecordOK ==
  ASSUME WorksOK, NEW w \in Works, NEW a \in Agents,
         NEW status \in {"Running", "Finished", "Cancelled"}, Record(w, status, a)
  PROVE  works' \in [Works -> [status : {"Running", "Finished", "Cancelled"}, owner : Agents]
                              \cup {NoRecord}]
BY DEF WorksOK, Record

\* One more event or tool call is still a natural number of them.
LEMMA Counted == CountersOK => (Event => events' \in Nat) /\ (Tool => tools' \in Nat)
BY DEF CountersOK, Event, Tool

-----------------------------------------------------------------------------
(* Submits                                                                  *)

LEMMA DeliverIInv ==
  ASSUME IInv, NEW c \in Clients, NEW s \in Submits, Deliver(c, s)
  PROVE  IInv'
<1>1. /\ UNCHANGED <<state, pc, copy, run, mail, wake, works, owner, seen, interrupt, given>>
      /\ UNCHANGED <<up, nextWork, ordered, tools>>
  BY DEF Deliver, files, quantum, history
<1>2. StatesOK' /\ StillTrue /\ Lasting
  BY <1>1, OrdersStay, SameStates DEF IInv
<1>3. QuantaOK' /\ InterruptOK'
  BY <1>1, <1>2, SameQuanta, SameInterrupt DEF IInv
<1>4. MailOK'
  BY <1>1, <1>2, SameMail DEF IInv, MailOK
<1>5. WorksOK'
  <2>1. op' \in [Clients -> Submits \cup {None}]
    BY DEF Deliver, IInv, WorksOK
  <2>2. QED
    BY <1>1, <2>1 DEF IInv, WorksOK
<1>6. CountersOK'
  <2>1. events' \in Nat
    BY Counted DEF Deliver, IInv
  <2>2. QED
    BY <1>1, <2>1, SameCounters DEF IInv, CountersOK
<1>7. QED
  BY <1>2, <1>3, <1>4, <1>5, <1>6 DEF IInv

LEMMA AcceptIInv ==
  ASSUME IInv, NEW c \in Clients, AcceptSubmit(c)
  PROVE  IInv'
<1> DEFINE s == op[c]
           a == IF CanHoldInput(owner) THEN owner ELSE Root
           w == IF state[a].active = None THEN s ELSE state[a].active
<1>1. /\ UNCHANGED <<up, pc, copy, run, interrupt, nextWork, events, tools, ordered, given>>
      /\ owner' = a /\ s # None
      /\ seen' = [seen EXCEPT ![s] = w] /\ op' = [op EXCEPT ![c] = None]
      /\ Post([x \in {a} |-> Input(w)])
  BY DEF AcceptSubmit, history
<1>2. a \in Agents /\ state[a] \in AgentState /\ s \in Works
  BY <1>1, Bounds DEF CanHoldInput, Exists, IInv, StatesOK, WorksOK
<1>3. w \in Works
  BY <1>2 DEF AgentState
<1>4. StillTrue
  BY <1>1, OrdersStay
<1>5. StatesOK' /\ Lasting
  <2>1. CASE state[a].active = None
    <3>1. GoodState(On(state[a], w, None), ordered')
      BY <1>2, <1>3, OnGood
    <3>2. GoodState([On(state[a], w, None) EXCEPT !.status = "Idle"], ordered')
      BY <3>1, ChangeGood
    <3>3. Save(a, [On(state[a], w, None) EXCEPT !.status = "Idle"])
      BY <2>1 DEF AcceptSubmit
    <3>4. QED
      BY <1>2, <1>4, <3>2, <3>3, SaveOK DEF IInv
  <2>2. CASE state[a].active # None
    <3>1. UNCHANGED state
      BY <2>2 DEF AcceptSubmit
    <3>2. QED
      BY <1>4, <3>1, SameStates DEF IInv
  <2>3. QED
    BY <2>1, <2>2
<1>6. QuantaOK' /\ InterruptOK'
  BY <1>1, <1>4, <1>5, SameQuanta, SameInterrupt DEF IInv
<1>7. MailOK'
  <2>1. GoodEntry(Input(w), ordered')
    BY <1>3, EntriesGood
  <2>2. QED
    BY <1>1, <1>4, <2>1, PostOK DEF IInv
<1>8. WorksOK'
  <2>1. works' \in [Works -> [status : {"Running", "Finished", "Cancelled"}, owner : Agents]
                             \cup {NoRecord}]
    <3>1. CASE state[a].active = None
      <4>1. Record(w, "Running", a)
        BY <3>1 DEF AcceptSubmit
      <4>2. QED
        BY <1>2, <1>3, <4>1, RecordOK DEF IInv
    <3>2. CASE state[a].active # None
      <4>1. UNCHANGED works
        BY <3>2 DEF AcceptSubmit
      <4>2. QED
        BY <4>1 DEF IInv, WorksOK
    <3>3. QED
      BY <3>1, <3>2
  <2>2. /\ owner' \in Agents
        /\ seen' \in [Submits -> Works \cup {None}] /\ op' \in [Clients -> Submits \cup {None}]
    BY <1>1, <1>2, <1>3 DEF IInv, WorksOK
  <2>3. QED
    BY <1>1, <2>1, <2>2 DEF IInv, WorksOK
<1>9. CountersOK'
  BY <1>1, SameCounters DEF IInv, CountersOK
<1>10. QED
  BY <1>5, <1>6, <1>7, <1>8, <1>9 DEF IInv

-----------------------------------------------------------------------------
(* The quantum                                                              *)

LEMMA BeginIInv ==
  ASSUME IInv, NEW a \in Agents, Begin(a)
  PROVE  IInv'
<1>1. /\ UNCHANGED <<state, works, mail, owner, seen, up, run, op, interrupt>>
      /\ UNCHANGED <<nextWork, events, tools, ordered, given>>
  BY DEF Begin, files, history
<1>2. StatesOK' /\ StillTrue /\ Lasting
  BY <1>1, OrdersStay, SameStates DEF IInv
<1>3. QuantaOK'
  <2>1. GoodState(state[a], ordered') /\ Exists(a)'
    BY <1>1, <1>2 DEF Begin, IInv, StatesOK, Exists, GoodState, Lasting
  <2>2. /\ pc' = [pc EXCEPT ![a] = "loaded"] /\ copy' = [copy EXCEPT ![a] = state[a]]
    BY DEF Begin
  <2>3. ASSUME NEW x \in Agents, pc'[x] # "idle"
        PROVE  /\ Exists(x)' /\ GoodState(copy'[x], ordered')
               /\ pc'[x] = "run" => run'[x].work \in Works
    <3>1. CASE x = a
      BY <2>1, <2>2, <3>1 DEF IInv, QuantaOK
    <3>2. CASE x # a
      BY <1>1, <1>2, <2>2, <2>3, <3>2 DEF IInv, QuantaOK, Lasting
    <3>3. QED
      BY <3>1, <3>2
  <2>4. QED
    BY <1>1, <2>1, <2>2, <2>3 DEF IInv, QuantaOK, GoodState
<1>4. MailOK'
  <2>1. wake' \in [Agents -> BOOLEAN]
    BY DEF Begin, IInv, MailOK
  <2>2. QED
    BY <1>1, <1>2, <2>1, SameMail DEF IInv
<1>5. WorksOK' /\ InterruptOK'
  BY <1>1, <1>2, SameInterrupt DEF IInv, WorksOK
<1>6. CountersOK'
  BY <1>1, SameCounters DEF IInv, CountersOK
<1>7. QED
  BY <1>2, <1>3, <1>4, <1>5, <1>6 DEF IInv

\* The save of what was loaded says nothing false of a work, however old it is.
LEMMA GiveUpIInv ==
  ASSUME IInv, NEW a \in Agents, GiveUp(a)
  PROVE  IInv'
<1>1. /\ UNCHANGED <<works, mail, owner, seen, up, wake, run, op, interrupt>>
      /\ UNCHANGED <<nextWork, events, tools, ordered, given>>
  BY DEF GiveUp, history
<1>2. StatesOK' /\ StillTrue /\ Lasting
  <2>1. GoodState(copy[a], ordered') /\ Save(a, copy[a])
    BY <1>1 DEF GiveUp, IInv, QuantaOK
  <2>2. QED
    BY <1>1, <2>1, OrdersStay, SaveOK DEF IInv
<1>3. QuantaOK'
  <2>1. /\ pc' = [pc EXCEPT ![a] = "idle"] /\ copy' = [copy EXCEPT ![a] = NoState]
    BY DEF GiveUp
  <2>2. ASSUME NEW x \in Agents, pc'[x] # "idle"
        PROVE  /\ x # a /\ Exists(x)' /\ GoodState(copy'[x], ordered')
               /\ pc'[x] = "run" => run'[x].work \in Works
    BY <1>1, <1>2, <2>1, <2>2 DEF IInv, QuantaOK, Lasting
  <2>3. QED
    BY <1>1, <2>1, <2>2 DEF IInv, QuantaOK
<1>4. MailOK'
  BY <1>1, <1>2, SameMail DEF IInv, MailOK
<1>5. WorksOK' /\ InterruptOK'
  BY <1>1, <1>2, SameInterrupt DEF IInv, WorksOK
<1>6. CountersOK'
  BY <1>1, SameCounters DEF IInv, CountersOK
<1>7. QED
  BY <1>2, <1>3, <1>4, <1>5, <1>6 DEF IInv

\* A set of naturals that is not empty has a least element.
LEMMA LeastExists ==
  ASSUME NEW S, S \subseteq Nat, S # {}
  PROVE  \E i \in S : \A j \in S : i <= j
<1>1. PICK i \in S : \A j \in S : ~ (<<j, i>> \in OpToRel(<, Nat))
  BY NatLessThanWellFounded, WFMin
<1>2. \A j \in S : ~ (j < i)
  BY <1>1 DEF OpToRel
<1>3. QED
  BY <1>2

\* A batch is a sequence of entries, and what it names are works.
LEMMA BatchType ==
  ASSUME IInv, NEW a \in Agents, pc[a] = "loaded"
  PROVE  BatchOf(a) \in Seq(Entry)
<1>1. mail[a] \in Seq(Entry) /\ Len(mail[a]) \in Nat
  BY DEF IInv, MailOK
<1>2. copy[a].offset \in Nat
  BY DEF IInv, QuantaOK, GoodState, AgentState
<1>3. \A i \in copy[a].offset + 1..Len(mail[a]) : mail[a][i] \in Entry
  BY <1>1, <1>2
<1>4. copy[a].offset + 1 \in Int /\ Len(mail[a]) \in Int
  BY <1>1, <1>2
<1>5. QED
  BY <1>3, <1>4, SubSeqProperties DEF BatchOf

LEMMA AdoptedType ==
  ASSUME NEW batch \in Seq(Entry)
  PROVE  Adopted(batch) \in Works
<1> DEFINE named == {i \in 1..Len(batch) : batch[i].work # None}
<1>1. CASE named = {}
  BY <1>1, Bounds DEF Adopted
<1>2. CASE named # {}
  <2>1. \E i \in named : \A j \in named : i <= j
    <3>1. named \subseteq Nat
      OBVIOUS
    <3>2. QED
      BY <1>2, <3>1, LeastExists
  <2>2. PICK i \in named : Adopted(batch) = batch[i].work
    BY <1>2, <2>1 DEF Adopted
  <2>3. batch[i] \in Entry /\ batch[i].work # None
    BY <2>2
  <2>4. QED
    BY <2>2, <2>3 DEF Entry
<1>3. QED
  BY <1>1, <1>2

LEMMA StartRunIInv ==
  ASSUME IInv, NEW a \in Agents, StartRun(a)
  PROVE  IInv'
<1> DEFINE batch == BatchOf(a)
           s == IF copy[a].active # None THEN copy[a] ELSE On(copy[a], Adopted(batch), None)
<1>1. /\ UNCHANGED <<mail, owner, seen, up, wake, op, interrupt, nextWork, events, tools, ordered>>
      /\ pc[a] = "loaded" /\ Save(a, [s EXCEPT !.status = "Running"])
      /\ copy' = [copy EXCEPT ![a] = s] /\ pc' = [pc EXCEPT ![a] = "run"]
      /\ run' = [run EXCEPT ![a] = [work |-> s.active, cancelled |-> FALSE, offset |-> Len(mail[a])]]
  BY DEF StartRun
<1>2. batch \in Seq(Entry) /\ Adopted(batch) \in Works
  BY <1>1, BatchType, AdoptedType
<1>3. copy[a] \in AgentState /\ GoodState(copy[a], ordered) /\ Exists(a)
  BY <1>1 DEF IInv, QuantaOK, GoodState
<1>4. GoodState(s, ordered) /\ s \in AgentState
  <2>1. GoodState(On(copy[a], Adopted(batch), None), ordered)
    BY <1>2, <1>3, OnGood
  <2>2. QED
    BY <1>3, <2>1 DEF GoodState
<1>5. s.active \in Works
  BY <1>2, <1>3, Bounds DEF AgentState, On
<1>6. StatesOK' /\ StillTrue /\ Lasting
  <2>1. GoodState([s EXCEPT !.status = "Running"], ordered')
    BY <1>1, <1>4, ChangeGood
  <2>2. QED
    BY <1>1, <2>1, OrdersStay, SaveOK DEF IInv
<1>7. QuantaOK'
  <2>1. Len(mail[a]) \in Nat
    BY DEF IInv, MailOK
  <2>2. ASSUME NEW x \in Agents, pc'[x] # "idle"
        PROVE  /\ Exists(x)' /\ GoodState(copy'[x], ordered')
               /\ pc'[x] = "run" => run'[x].work \in Works
    <3>1. CASE x = a
      BY <1>1, <1>3, <1>4, <1>5, <1>6, <3>1 DEF IInv, QuantaOK, Lasting
    <3>2. CASE x # a
      BY <1>1, <1>6, <2>2, <3>2 DEF IInv, QuantaOK, Lasting
    <3>3. QED
      BY <3>1, <3>2
  <2>3. /\ pc' \in [Agents -> {"idle", "loaded", "run"}]
        /\ copy' \in [Agents -> AgentState \cup {NoState}]
    BY <1>1, <1>4 DEF IInv, QuantaOK
  <2>4. run' \in [Agents -> [work : Works \cup {None}, cancelled : BOOLEAN, offset : Nat]]
    BY <1>1, <1>5, <2>1 DEF IInv, QuantaOK
  <2>5. QED
    BY <2>2, <2>3, <2>4 DEF QuantaOK
<1>8. MailOK'
  BY <1>1, <1>6, SameMail DEF IInv, MailOK
<1>9. WorksOK'
  <2>1. works' \in [Works -> [status : {"Running", "Finished", "Cancelled"}, owner : Agents]
                             \cup {NoRecord}]
    <3>1. CASE copy[a].active # None
      <4>1. UNCHANGED works
        BY <3>1 DEF StartRun
      <4>2. QED
        BY <4>1 DEF IInv, WorksOK
    <3>2. CASE copy[a].active = None
      <4>1. Record(s.active, "Running", a)
        BY <3>2 DEF StartRun
      <4>2. QED
        BY <1>5, <4>1, RecordOK DEF IInv
    <3>3. QED
      BY <3>1, <3>2
  <2>2. given' \subseteq Works \cup {None}
    <3>1. \A i \in 1..Len(batch) : batch[i].work \in Works \cup {None}
      <4>1. \A i \in 1..Len(batch) : batch[i] \in Entry
        BY <1>2
      <4>2. QED
        BY <4>1 DEF Entry
    <3>2. given' = given \cup {batch[i].work : i \in {j \in 1..Len(batch) : batch[j].kind = "input"}}
      BY DEF StartRun
    <3>3. QED
      BY <3>1, <3>2 DEF IInv, WorksOK
  <2>3. QED
    BY <1>1, <2>1, <2>2 DEF IInv, WorksOK
<1>10. InterruptOK' /\ CountersOK'
  BY <1>1, <1>6, SameInterrupt, SameCounters DEF IInv, CountersOK
<1>11. QED
  BY <1>6, <1>7, <1>8, <1>9, <1>10 DEF IInv

\* A quantum has an agent whose state is one.
LEMMA Running ==
  ASSUME IInv, NEW a \in Agents, pc[a] = "run"
  PROVE  /\ Exists(a) /\ GoodState(state[a], ordered) /\ state[a] \in AgentState
         /\ GoodState(copy[a], ordered) /\ copy[a] \in AgentState
         /\ run[a].work \in Works /\ run[a].offset \in Nat
         /\ GoodState(Reloaded(a), ordered) /\ Reloaded(a) \in AgentState
<1>1. /\ Exists(a) /\ GoodState(state[a], ordered) /\ GoodState(copy[a], ordered)
      /\ run[a].work \in Works /\ run[a].offset \in Nat
  BY DEF IInv, QuantaOK, StatesOK, GoodState, Exists
<1>2. GoodState(Reloaded(a), ordered)
  BY <1>1, ChangeGood DEF Reloaded
<1>3. QED
  BY <1>1, <1>2 DEF GoodState

\* The outcomes that end no work: a state is saved, and the quantum is over.
LEMMA EndsQuantum ==
  ASSUME IInv, NEW a \in Agents, NEW s, GoodState(s, ordered), Save(a, s), Back(a),
         wake' \in [Agents -> BOOLEAN],
         UNCHANGED <<works, mail, owner, seen, up, op, interrupt, nextWork, events, tools, history>>
  PROVE  IInv'
<1>1. UNCHANGED <<works, mail, owner, seen, up, op, interrupt, nextWork, events, tools, ordered, given>>
  BY DEF history
<1>2. StatesOK' /\ StillTrue /\ Lasting
  BY <1>1, OrdersStay, SaveOK DEF IInv
<1>3. QuantaOK' /\ MailOK' /\ InterruptOK'
  BY <1>1, <1>2, BackOK, SameMail, SameInterrupt DEF IInv
<1>4. WorksOK' /\ CountersOK'
  BY <1>1, SameCounters DEF IInv, WorksOK, CountersOK
<1>5. QED
  BY <1>2, <1>3, <1>4 DEF IInv

LEMMA ContinueIInv ==
  ASSUME IInv, NEW a \in Agents, Continue(a)
  PROVE  IInv'
<1> DEFINE s == [Reloaded(a) EXCEPT !.status = "Idle"]
           t == [s EXCEPT !.confirm = FALSE]
<1>1. GoodState(t, ordered)
  <2>1. GoodState(Reloaded(a), ordered)
    BY Running DEF Continue
  <2>2. GoodState(s, ordered)
    BY <2>1, ChangeGood
  <2>3. QED
    BY <2>2, ChangeGood
<1>2. Save(a, t)
  BY DEF Continue
<1>3. wake' \in [Agents -> BOOLEAN]
  BY DEF Continue, IInv, MailOK
<1>4. QED
  BY <1>1, <1>2, <1>3, EndsQuantum DEF Continue

LEMMA FinishUnconfirmedIInv ==
  ASSUME IInv, NEW a \in Agents, NEW silently \in BOOLEAN, FinishUnconfirmed(a, silently)
  PROVE  IInv'
<1> DEFINE s == [Reloaded(a) EXCEPT !.status = "Idle"]
           t == [s EXCEPT !.confirm = TRUE]
<1>1. GoodState(t, ordered)
  <2>1. GoodState(Reloaded(a), ordered)
    BY Running DEF FinishUnconfirmed
  <2>2. GoodState(s, ordered)
    BY <2>1, ChangeGood
  <2>3. QED
    BY <2>2, ChangeGood
<1>2. Save(a, t)
  BY DEF FinishUnconfirmed
<1>3. wake' \in [Agents -> BOOLEAN]
  <2>1. wake \in [Agents -> BOOLEAN] /\ copy[a].confirm \in BOOLEAN
    BY Running DEF FinishUnconfirmed, IInv, MailOK, AgentState
  <2>2. wake' = [wake EXCEPT ![a] = @ \/ ~copy[a].confirm]
    BY DEF FinishUnconfirmed
  <2>3. QED
    BY <2>1, <2>2
<1>4. QED
  BY <1>1, <1>2, <1>3, EndsQuantum DEF FinishUnconfirmed

LEMMA RunFailsIInv ==
  ASSUME IInv, NEW a \in Agents, RunFails(a)
  PROVE  IInv'
<1>1. /\ GoodState([Reloaded(a) EXCEPT !.status = "Idle"], ordered)
      /\ GoodState([state[a] EXCEPT !.status = "Idle"], ordered)
  BY Running, ChangeGood DEF RunFails
<1>2. wake' \in [Agents -> BOOLEAN]
  BY DEF RunFails, IInv, MailOK
<1>3. CASE Save(a, [Reloaded(a) EXCEPT !.status = "Idle"])
  BY <1>1, <1>2, <1>3, EndsQuantum DEF RunFails
<1>4. CASE Save(a, [state[a] EXCEPT !.status = "Idle"])
  BY <1>1, <1>2, <1>4, EndsQuantum DEF RunFails
<1>5. QED
  BY <1>3, <1>4 DEF RunFails

\* The report: its addressee and both works are those of the state file now.
LEMMA FinishIInv ==
  ASSUME IInv, NEW a \in Agents, NEW silently \in BOOLEAN, Finish(a, silently)
  PROVE  IInv'
<1> DEFINE s == state[a]
<1>1. /\ UNCHANGED <<owner, seen, up, op, interrupt, nextWork, events, tools, ordered, given>>
      /\ pc[a] = "run" /\ s.active # None
      /\ Save(a, Off(Reloaded(a))) /\ Record(s.active, "Finished", a) /\ Back(a)
      /\ Post([p \in {s.parent} \ {NoAgent} |-> Report(s.parentWork, s.active)])
  BY DEF Finish, history
<1>2. /\ s \in AgentState /\ TrueParent(s, ordered) /\ Reloaded(a) \in AgentState
  BY <1>1, Running DEF GoodState
<1>3. StatesOK' /\ StillTrue /\ Lasting
  <2>1. GoodState(Off(Reloaded(a)), ordered')
    BY <1>2, OffGood
  <2>2. QED
    BY <1>1, <2>1, OrdersStay, SaveOK DEF IInv
<1>4. QuantaOK' /\ InterruptOK'
  BY <1>1, <1>3, BackOK, SameInterrupt DEF IInv
<1>5. s.active \in Works /\ s.parentWork \in Works \cup {None}
  BY <1>1, <1>2 DEF AgentState
<1>6. MailOK'
  <2>1. GoodEntry(Report(s.parentWork, s.active), ordered')
    BY <1>1, <1>2, <1>5, EntriesGood DEF TrueParent
  <2>2. QED
    BY <1>1, <1>3, <2>1, PostOK DEF IInv
<1>7. WorksOK'
  <2>1. works' \in [Works -> [status : {"Running", "Finished", "Cancelled"}, owner : Agents]
                             \cup {NoRecord}]
    BY <1>1, <1>5, RecordOK DEF IInv
  <2>2. QED
    BY <1>1, <2>1 DEF IInv, WorksOK
<1>8. CountersOK'
  BY <1>1, SameCounters DEF IInv, CountersOK
<1>9. QED
  BY <1>3, <1>4, <1>6, <1>7, <1>8 DEF IInv

-----------------------------------------------------------------------------
(* Tools                                                                    *)

LEMMA HeardOK ==
  ASSUME IInv, NEW a \in Agents, pc[a] = "run", Heard(a) \/ UNCHANGED state, UNCHANGED ordered
  PROVE  StatesOK' /\ StillTrue /\ Lasting
<1>1. GoodState([state[a] EXCEPT !.heard = TRUE], ordered')
  BY Running, ChangeGood
<1>2. CASE Save(a, [state[a] EXCEPT !.heard = TRUE])
  BY <1>1, <1>2, OrdersStay, SaveOK DEF IInv
<1>3. CASE UNCHANGED state
  BY <1>3, OrdersStay, SameStates DEF IInv
<1>4. QED
  BY <1>2, <1>3 DEF Heard

LEMMA MarkOutputIInv ==
  ASSUME IInv, NEW a \in Agents, MarkOutput(a)
  PROVE  IInv'
<1>1. /\ UNCHANGED <<works, mail, owner, seen, up, wake, pc, copy, run, op, interrupt>>
      /\ UNCHANGED <<nextWork, events, tools, ordered, given>>
  BY DEF MarkOutput, quantum, history
<1>2. StatesOK' /\ StillTrue /\ Lasting
  BY <1>1, HeardOK DEF MarkOutput
<1>3. QuantaOK' /\ InterruptOK'
  BY <1>1, <1>2, SameQuanta, SameInterrupt DEF IInv
<1>4. MailOK'
  BY <1>1, <1>2, SameMail DEF IInv, MailOK
<1>5. WorksOK' /\ CountersOK'
  BY <1>1, SameCounters DEF IInv, WorksOK, CountersOK
<1>6. QED
  BY <1>2, <1>3, <1>4, <1>5 DEF IInv

LEMMA ToolMailIInv ==
  ASSUME IInv, NEW a \in Agents, NEW entries, ToolMail(a, entries),
         \A b \in Agents : b \in DOMAIN entries => GoodEntry(entries[b], ordered)
  PROVE  IInv'
<1>1. /\ UNCHANGED <<works, owner, seen, up, pc, copy, run, op, interrupt, nextWork, events>>
      /\ UNCHANGED <<ordered, given>>
      /\ pc[a] = "run" /\ Tool /\ Post(entries)
  BY DEF ToolMail, history
<1>2. StatesOK' /\ StillTrue /\ Lasting
  BY <1>1, HeardOK DEF ToolMail
<1>3. QuantaOK' /\ InterruptOK'
  BY <1>1, <1>2, SameQuanta, SameInterrupt DEF IInv
<1>4. MailOK'
  BY <1>1, <1>2, PostOK DEF IInv
<1>5. WorksOK' /\ CountersOK'
  BY <1>1, Counted, SameCounters DEF IInv, WorksOK, CountersOK
<1>6. QED
  BY <1>2, <1>3, <1>4, <1>5 DEF IInv

\* The work a state names is one, or none.
LEMMA NamesWork ==
  ASSUME IInv, NEW b \in Agents, Exists(b)
  PROVE  /\ state[b].active \in Works \cup {None} /\ state[b].parentWork \in Works \cup {None}
         /\ state[b] \in AgentState
BY DEF IInv, StatesOK, Exists, AgentState

LEMMA MessagesIInv ==
  ASSUME IInv, NEW a \in Agents,
         \/ NotifyParent(a)
         \/ \E b \in Agents : MessageAgent(a, b)
         \/ \E scope \in {"children", "descendants", "siblings", "all"} : BroadcastAgents(a, scope)
  PROVE  IInv'
<1>1. CASE NotifyParent(a)
  <2> DEFINE entries == [p \in {copy[a].parent} |-> Note(copy[a].parentWork)]
  <2>1. copy[a].parentWork \in Works \cup {None}
    BY <1>1, Running DEF NotifyParent, ToolMail, AgentState
  <2>2. \A b \in Agents : b \in DOMAIN entries => GoodEntry(entries[b], ordered)
    BY <2>1, EntriesGood
  <2>3. QED
    BY <1>1, <2>2, ToolMailIInv DEF NotifyParent
<1>2. ASSUME NEW b \in Agents, MessageAgent(a, b) PROVE IInv'
  <2> DEFINE w == IF state[a].parent = b THEN state[a].parentWork ELSE state[b].active
             entries == [x \in {b} |-> Note(w)]
  <2>1. pc[a] = "run" /\ Exists(b) /\ Exists(a)
    BY <1>2, Running DEF MessageAgent, ToolMail
  <2>2. w \in Works \cup {None}
    BY <2>1, NamesWork
  <2>3. \A x \in Agents : x \in DOMAIN entries => GoodEntry(entries[x], ordered)
    BY <2>2, EntriesGood
  <2>4. ToolMail(a, entries)
    BY <1>2 DEF MessageAgent
  <2>5. QED
    BY <2>3, <2>4, ToolMailIInv
<1>3. ASSUME NEW scope \in {"children", "descendants", "siblings", "all"}, BroadcastAgents(a, scope)
      PROVE  IInv'
  <2> DEFINE entries == [b \in Scope(a, scope) |-> Note(state[b].active)]
  <2>1. \A b \in Agents : b \in Scope(a, scope) => Exists(b)
    BY DEF Scope
  <2>2. \A b \in Agents : b \in DOMAIN entries => GoodEntry(entries[b], ordered)
    BY <2>1, NamesWork, EntriesGood
  <2>3. QED
    BY <1>3, <2>2, ToolMailIInv DEF BroadcastAgents
<1>4. QED
  BY <1>1, <1>2, <1>3

\* An order: the work is new, so nothing said before is about it.
LEMMA OrderKeepsTruth ==
  ASSUME CountersOK, nextWork \in Works, NEW w, ordered' = [ordered EXCEPT ![nextWork] = w]
  PROVE  StillTrue
<1>1. /\ ordered[nextWork] = None
      /\ \A v \in Works : v # nextWork => ordered'[v] = ordered[v]
  BY DEF CountersOK, Works
<1>2. QED
  BY <1>1 DEF StillTrue, TrueParent, TrueReport

LEMMA OrderIInv ==
  ASSUME IInv, NEW a \in Agents, NEW b \in Agents, OrderWork(a, b)
  PROVE  IInv'
<1> DEFINE s == IF Exists(b) THEN state[b] ELSE NewState(a)
           w == run[a].work
<1>1. /\ UNCHANGED <<owner, seen, up, pc, copy, run, op, interrupt, events, given>>
      /\ pc[a] = "run" /\ nextWork < MadeUp /\ Tool
      /\ Record(nextWork, "Running", b) /\ Save(b, On(s, nextWork, w))
      /\ Post([x \in {b} |-> Input(nextWork)])
      /\ ordered' = [ordered EXCEPT ![nextWork] = w] /\ nextWork' = nextWork + 1
  BY DEF OrderWork
<1>2. nextWork \in Works /\ w \in Works /\ ordered'[nextWork] = w
  BY <1>1, Running, Bounds DEF IInv, CountersOK, Works, MadeUp
<1>3. StillTrue
  BY <1>1, <1>2, OrderKeepsTruth DEF IInv
<1>4. StatesOK' /\ Lasting
  <2>1. s \in AgentState
    BY NamesWork, NewGood DEF GoodState
  <2>2. GoodState(On(s, nextWork, w), ordered')
    BY <1>2, <2>1, OnGood
  <2>3. QED
    BY <1>1, <1>3, <2>2, SaveOK DEF IInv
<1>5. QuantaOK' /\ InterruptOK'
  BY <1>1, <1>3, <1>4, SameQuanta, SameInterrupt DEF IInv
<1>6. MailOK'
  <2>1. GoodEntry(Input(nextWork), ordered')
    BY <1>2, EntriesGood
  <2>2. QED
    BY <1>1, <1>3, <2>1, PostOK DEF IInv
<1>7. WorksOK'
  <2>1. works' \in [Works -> [status : {"Running", "Finished", "Cancelled"}, owner : Agents]
                             \cup {NoRecord}]
    BY <1>1, <1>2, RecordOK DEF IInv
  <2>2. QED
    BY <1>1, <2>1 DEF IInv, WorksOK
<1>8. CountersOK'
  <2>1. tools' \in Nat
    BY <1>1, Counted DEF IInv
  <2>2. nextWork' \in MaxSubmits + 1..MaxWorks
    BY <1>1, Bounds DEF IInv, CountersOK, MadeUp
  <2>3. /\ ordered' \in [Works -> Works \cup {None}]
        /\ \A v \in Works : v >= nextWork' => ordered'[v] = None
    BY <1>1, <1>2 DEF IInv, CountersOK, Works
  <2>4. QED
    BY <1>1, <2>1, <2>2, <2>3 DEF IInv, CountersOK
<1>9. QED
  BY <1>3, <1>4, <1>5, <1>6, <1>7, <1>8 DEF IInv

LEMMA SetInputOwnerOK ==
  ASSUME IInv, NEW a \in Agents, NEW w \in Works, SetInputOwner(a, w), UNCHANGED <<state, ordered>>
  PROVE  MailOK' /\ owner' \in Agents
<1> DEFINE entries == [b \in {x \in {owner, a} : Exists(x)} |-> Notice(b, w)]
<1>1. StillTrue /\ owner' \in Agents
  BY OrdersStay DEF SetInputOwner
<1>2. CASE owner = a
  BY <1>1, <1>2, SameMail DEF SetInputOwner, IInv, MailOK
<1>3. CASE owner # a
  <2>1. \A b \in Agents : b \in DOMAIN entries => GoodEntry(entries[b], ordered')
    BY NamesWork, EntriesGood DEF Notice
  <2>2. Post(entries)
    BY <1>3 DEF SetInputOwner
  <2>3. QED
    BY <1>1, <2>1, <2>2, PostOK DEF IInv
<1>4. QED
  BY <1>1, <1>2, <1>3

LEMMA TransferIInv ==
  ASSUME IInv, NEW a \in Agents, NEW b \in Agents, TransferInput(a, b)
  PROVE  IInv'
<1>1. /\ UNCHANGED <<state, works, seen, up, pc, copy, run, op, interrupt, nextWork, events>>
      /\ UNCHANGED <<ordered, given>> /\ Tool /\ SetInputOwner(b, run[a].work)
  BY DEF TransferInput, history
<1>2. StatesOK' /\ StillTrue /\ Lasting
  BY <1>1, OrdersStay, SameStates DEF IInv
<1>3. QuantaOK' /\ InterruptOK'
  BY <1>1, <1>2, SameQuanta, SameInterrupt DEF IInv
<1>4. MailOK' /\ owner' \in Agents
  BY <1>1, Running, SetInputOwnerOK DEF TransferInput
<1>5. WorksOK' /\ CountersOK'
  BY <1>1, <1>4, Counted, SameCounters DEF IInv, WorksOK, CountersOK
<1>6. QED
  BY <1>2, <1>3, <1>4, <1>5 DEF IInv

-----------------------------------------------------------------------------
(* Interrupts and restarts                                                  *)

LEMMA InterruptIInv ==
  ASSUME IInv, NEW w \in Works, Interrupt(w)
  PROVE  IInv'
<1>1. /\ UNCHANGED <<state, works, seen, up, pc, copy, op, nextWork, tools, ordered, given>>
      /\ Event /\ interrupt' = [agents |-> Holders(w), task |-> w]
      /\ run' = [a \in Agents |-> IF a \in Holders(w) /\ pc[a] = "run"
                                  THEN [run[a] EXCEPT !.cancelled = TRUE] ELSE run[a]]
  BY DEF Interrupt, history
<1>2. StatesOK' /\ StillTrue /\ Lasting
  BY <1>1, OrdersStay, SameStates DEF IInv
<1>3. QuantaOK'
  <2>1. \A a \in Agents : /\ [run[a] EXCEPT !.cancelled = TRUE].work = run[a].work
                          /\ [run[a] EXCEPT !.cancelled = TRUE]
                               \in [work : Works \cup {None}, cancelled : BOOLEAN, offset : Nat]
    BY DEF IInv, QuantaOK
  <2>2. /\ \A a \in Agents : run'[a].work = run[a].work
        /\ run' \in [Agents -> [work : Works \cup {None}, cancelled : BOOLEAN, offset : Nat]]
    BY <1>1, <2>1 DEF IInv, QuantaOK
  <2>3. QED
    BY <1>1, <1>2, <2>2 DEF IInv, QuantaOK, Lasting
<1>4. InterruptOK'
  BY <1>1, <1>2 DEF InterruptOK, Holders, Lasting
<1>5. MailOK' /\ owner' \in Agents
  <2>1. CASE owner \in Holders(w) \ {Root}
    BY <1>1, <2>1, SetInputOwnerOK, Bounds DEF Interrupt
  <2>2. CASE owner \notin Holders(w) \ {Root}
    BY <1>2, <2>2, SameMail DEF Interrupt, IInv, MailOK, WorksOK
  <2>3. QED
    BY <2>1, <2>2
<1>6. WorksOK' /\ CountersOK'
  BY <1>1, <1>5, Counted, SameCounters DEF IInv, WorksOK, CountersOK
<1>7. QED
  BY <1>2, <1>3, <1>4, <1>5, <1>6 DEF IInv

LEMMA CancelWorkIInv ==
  ASSUME IInv, NEW a \in Agents, CancelWork(a)
  PROVE  IInv'
<1> DEFINE c == IF state[a].active = None THEN state[a].confirm ELSE FALSE
           s == [Off(state[a]) EXCEPT !.confirm = c]
<1>1. /\ UNCHANGED <<mail, owner, seen, up, wake, pc, copy, run, op, nextWork, events, tools>>
      /\ UNCHANGED <<ordered, given>> /\ a \in interrupt.agents /\ Save(a, s)
  BY DEF CancelWork, quantum, history
<1>2. Exists(a) /\ state[a] \in AgentState
  BY <1>1, NamesWork DEF IInv, InterruptOK
<1>3. c \in BOOLEAN
  BY <1>2 DEF AgentState
<1>4. StatesOK' /\ StillTrue /\ Lasting
  <2>1. GoodState(Off(state[a]), ordered')
    BY <1>2, OffGood
  <2>2. GoodState(s, ordered')
    BY <1>3, <2>1, ChangeGood
  <2>3. QED
    BY <1>1, <2>2, OrdersStay, SaveOK DEF IInv
<1>5. QuantaOK'
  BY <1>1, <1>4, SameQuanta DEF IInv
<1>6. InterruptOK'
  <2>1. /\ interrupt' \in [agents : SUBSET Agents, task : Works \cup {None}]
        /\ interrupt'.agents \subseteq interrupt.agents
    BY DEF CancelWork, IInv, InterruptOK, NoInterrupt
  <2>2. QED
    BY <1>4, <2>1 DEF IInv, InterruptOK, Lasting
<1>7. MailOK'
  BY <1>1, <1>4, SameMail DEF IInv, MailOK
<1>8. WorksOK'
  <2>1. works' \in [Works -> [status : {"Running", "Finished", "Cancelled"}, owner : Agents]
                             \cup {NoRecord}]
    <3>1. CASE state[a].active = None
      BY <3>1 DEF CancelWork, IInv, WorksOK
    <3>2. CASE state[a].active # None
      <4>1. state[a].active \in Works /\ Record(state[a].active, "Cancelled", a)
        BY <1>2, <3>2 DEF CancelWork, AgentState
      <4>2. QED
        BY <4>1, RecordOK DEF IInv
    <3>3. QED
      BY <3>1, <3>2
  <2>2. QED
    BY <1>1, <2>1 DEF IInv, WorksOK
<1>9. CountersOK'
  BY <1>1, SameCounters DEF IInv, CountersOK
<1>10. QED
  BY <1>4, <1>5, <1>6, <1>7, <1>8, <1>9 DEF IInv

LEMMA CrashIInv ==
  ASSUME IInv, Crash
  PROVE  IInv'
<1>1. /\ UNCHANGED <<state, works, mail, owner, nextWork, tools, ordered, given>>
      /\ Event /\ up' = FALSE
      /\ seen' = [s \in Submits |-> None] /\ op' = [c \in Clients |-> None]
      /\ wake' = [a \in Agents |-> FALSE] /\ pc' = [a \in Agents |-> "idle"]
      /\ copy' = [a \in Agents |-> NoState] /\ run' = [a \in Agents |-> NoRun]
      /\ interrupt' = NoInterrupt
  BY DEF Crash, files, history
<1>2. StatesOK' /\ StillTrue /\ Lasting
  BY <1>1, OrdersStay, SameStates DEF IInv
<1>3. QuantaOK'
  BY <1>1 DEF QuantaOK, NoRun
<1>4. InterruptOK'
  BY <1>1 DEF InterruptOK, NoInterrupt
<1>5. MailOK'
  BY <1>1, <1>2, SameMail DEF IInv
<1>6. WorksOK' /\ CountersOK'
  BY <1>1, Counted, SameCounters DEF IInv, WorksOK, CountersOK
<1>7. QED
  BY <1>2, <1>3, <1>4, <1>5, <1>6 DEF IInv

LEMMA RecoverIInv ==
  ASSUME IInv, Recover
  PROVE  IInv'
<1>1. /\ UNCHANGED <<mail, owner, seen, pc, copy, run, op, interrupt, nextWork, events, tools>>
      /\ UNCHANGED <<ordered, given>> /\ up' = TRUE
      /\ wake' = [a \in Agents |-> Resumes(a)]
      /\ state' = [a \in Agents |-> IF Resumes(a) THEN [state[a] EXCEPT !.status = "Idle"]
                                    ELSE state[a]]
  BY DEF Recover, history
<1>2. StillTrue
  BY <1>1, OrdersStay
<1>3. ASSUME NEW a \in Agents
      PROVE  /\ state'[a] \in AgentState \cup {NoState}
             /\ Exists(a) => Exists(a)'
             /\ Exists(a)' => TrueParent(state'[a], ordered')
  <2>1. CASE Resumes(a)
    <3>1. Exists(a) /\ GoodState(state[a], ordered)
      BY <2>1 DEF Resumes, IInv, StatesOK, Exists, GoodState
    <3>2. GoodState([state[a] EXCEPT !.status = "Idle"], ordered')
      BY <1>1, <3>1, ChangeGood
    <3>3. state'[a] = [state[a] EXCEPT !.status = "Idle"]
      BY <1>1, <2>1
    <3>4. QED
      BY <3>2, <3>3, NoStateIsNone DEF GoodState, Exists
  <2>2. CASE ~Resumes(a)
    BY <1>1, <2>2 DEF IInv, StatesOK, Exists
  <2>3. QED
    BY <2>1, <2>2
<1>4. StatesOK' /\ Lasting
  <2>1. Lasting /\ state' \in [Agents -> AgentState \cup {NoState}]
    BY <1>1, <1>3 DEF Lasting
  <2>2. QED
    BY <1>3, <2>1, Bounds DEF IInv, StatesOK, Lasting
<1>5. QuantaOK' /\ InterruptOK'
  BY <1>1, <1>2, <1>4, SameQuanta, SameInterrupt DEF IInv
<1>6. MailOK'
  <2>1. \A a \in Agents : Resumes(a) \in BOOLEAN
    BY NamesWork DEF Resumes, Exists, Unread, AgentState
  <2>2. QED
    BY <1>1, <1>2, <2>1, SameMail DEF IInv
<1>7. WorksOK'
  <2>1. ASSUME NEW w \in Works, Holders(w) # {}
        PROVE  (CHOOSE a \in Holders(w) : TRUE) \in Agents
    BY <2>1 DEF Holders
  <2>2. works' \in [Works -> [status : {"Running", "Finished", "Cancelled"}, owner : Agents]
                             \cup {NoRecord}]
    BY <2>1 DEF Recover, IInv, WorksOK
  <2>3. QED
    BY <1>1, <2>2 DEF IInv, WorksOK
<1>8. CountersOK'
  BY <1>1, SameCounters DEF IInv, CountersOK
<1>9. QED
  BY <1>4, <1>5, <1>6, <1>7, <1>8 DEF IInv

-----------------------------------------------------------------------------
LEMMA InitIInv == Init => IInv
<1>1. SUFFICES ASSUME Init PROVE IInv
  OBVIOUS
<1>2. /\ state = [a \in Agents |-> IF a = Root THEN NewState(NoAgent) ELSE NoState]
      /\ works = [w \in Works |-> NoRecord] /\ mail = [a \in Agents |-> <<>>]
      /\ owner = Root /\ seen = [s \in Submits |-> None] /\ up = TRUE
      /\ wake = [a \in Agents |-> FALSE] /\ pc = [a \in Agents |-> "idle"]
      /\ copy = [a \in Agents |-> NoState] /\ run = [a \in Agents |-> NoRun]
      /\ op = [c \in Clients |-> None] /\ interrupt = NoInterrupt
      /\ nextWork = MaxSubmits + 1 /\ events = 0 /\ tools = 0
      /\ ordered = [w \in Works |-> None] /\ given = {}
  BY <1>1 DEF Init
<1>3. StatesOK
  <2>1. GoodState(NewState(NoAgent), ordered) /\ NewState(NoAgent) # NoState
    BY NewGood, NoStateIsNone DEF GoodState
  <2>2. QED
    BY <1>2, <2>1, Bounds DEF StatesOK, Exists, GoodState
<1>4. QuantaOK
  BY <1>2 DEF QuantaOK, NoRun
<1>5. MailOK
  BY <1>2 DEF MailOK
<1>6. WorksOK /\ InterruptOK
  BY <1>2, Bounds DEF WorksOK, InterruptOK, NoInterrupt
<1>7. CountersOK
  BY <1>2, Bounds DEF CountersOK
<1>8. QED
  BY <1>3, <1>4, <1>5, <1>6, <1>7 DEF IInv

LEMMA StutterIInv ==
  ASSUME IInv, UNCHANGED vars
  PROVE  IInv'
<1>1. StatesOK' /\ StillTrue /\ Lasting
  BY OrdersStay, SameStates DEF IInv, vars
<1>2. QuantaOK' /\ InterruptOK'
  BY <1>1, SameQuanta, SameInterrupt DEF IInv, vars
<1>3. MailOK'
  BY <1>1, SameMail DEF IInv, MailOK, vars
<1>4. WorksOK' /\ CountersOK'
  BY SameCounters DEF IInv, WorksOK, CountersOK, vars
<1>5. QED
  BY <1>1, <1>2, <1>3, <1>4 DEF IInv

LEMMA NextIInv == IInv /\ [Next]_vars => IInv'
<1>1. SUFFICES ASSUME IInv, [Next]_vars PROVE IInv'
  OBVIOUS
<1>2. ASSUME NEW c \in Clients, AcceptSubmit(c) \/ \E s \in Submits : Deliver(c, s) PROVE IInv'
  BY <1>1, <1>2, DeliverIInv, AcceptIInv
<1>3. ASSUME NEW a \in Agents, QuantumStep(a) PROVE IInv'
  BY <1>1, <1>3, BeginIInv, GiveUpIInv, StartRunIInv, ContinueIInv, FinishUnconfirmedIInv,
     FinishIInv, RunFailsIInv DEF QuantumStep, Outcome
<1>4. ASSUME NEW a \in Agents, ToolCall(a) PROVE IInv'
  <2>1. CASE MarkOutput(a)
    BY <1>1, <2>1, MarkOutputIInv
  <2>2. CASE \/ NotifyParent(a)
             \/ \E b \in Agents : MessageAgent(a, b)
             \/ \E scope \in {"children", "descendants", "siblings", "all"} : BroadcastAgents(a, scope)
    BY <1>1, <2>2, MessagesIInv
  <2>3. CASE \E b \in Agents : OrderWork(a, b) \/ TransferInput(a, b)
    BY <1>1, <2>3, OrderIInv, TransferIInv
  <2>4. QED
    BY <1>4, <2>1, <2>2, <2>3 DEF ToolCall
<1>5. ASSUME NEW a \in Agents, CancelWork(a) PROVE IInv'
  BY <1>1, <1>5, CancelWorkIInv
<1>6. CASE (\E w \in Works : Interrupt(w)) \/ Crash \/ Recover
  BY <1>1, <1>6, InterruptIInv, CrashIInv, RecoverIInv
<1>7. CASE UNCHANGED vars
  BY <1>1, <1>7, StutterIInv
<1>8. QED
  BY <1>1, <1>2, <1>3, <1>4, <1>5, <1>6, <1>7 DEF Next

LEMMA InvariantHolds == Spec => []IInv
BY InitIInv, NextIInv, PTL DEF Spec

\* The types, whatever the bounds.
THEOREM TypeCorrect == Spec => []TypeOK
<1>1. IInv => TypeOK
  BY DEF IInv, StatesOK, QuantaOK, MailOK, WorksOK, InterruptOK, CountersOK, TypeOK
<1>2. QED
  BY <1>1, InvariantHolds, PTL

\* Through reuse of children, adopted works, stale saves, interrupts and
\* restarts, a report is for the work that ordered the one it reports or for
\* none (handle_finish_outcome, run_durable_subagent).
THEOREM ReportsAreForTheirOrders == Spec => []ReportIsForItsOrder
<1>1. IInv => ReportIsForItsOrder
  BY DEF IInv, MailOK, TrueReport, ReportIsForItsOrder
<1>2. QED
  BY <1>1, InvariantHolds, PTL
=============================================================================
