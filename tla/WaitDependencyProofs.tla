------------------------- MODULE WaitDependencyProofs -------------------------
(***************************************************************************)
(* Proofs about WaitDependency for every set of agents and tasks and every *)
(* bound: type correctness, and that nothing ends a wait but what it waits *)
(* for, its timeout, an interrupt, a restart or an announcement that is    *)
(* out of date.                                                            *)
(***************************************************************************)
EXTENDS WaitDependency, TLAPS

\* A wait is on disk exactly when the status says so, and nobody at work is on
\* one; only the quantum that applies a Wait remembers it.
StateSound(s) == s.status = "WaitingDependency" <=> s.waiting_on # NoDep
AgentSound(a) ==
  /\ StateSound(state[a])
  /\ pc[a] # "idle" => state[a].waiting_on = NoDep
  /\ intent[a] # NoDep <=> pc[a] \in {"check", "park"}
  /\ pc[a] = "report" => Ended(a)

\* What is announced of a work or a task is so for good; those to be woken wait
\* for what is announced.
Over(on) == /\ on[1] = "work" => Ended(on[2])
            /\ on[1] = "task" => task[on[2]] # "Running"
AnnouncementSound(p) ==
  /\ \A i \in DOMAIN announce[p].todo : Over(announce[p].todo[i])
  /\ announce[p].listed => announce[p].todo # <<>>
  /\ announce[p].listed =>
       \A w \in announce[p].left : w.state.waiting_on.on = Head(announce[p].todo)

WaitInv ==
  /\ TypeOK
  /\ \A a \in Agents : AgentSound(a)
  /\ \A p \in Processes : AnnouncementSound(p)
  /\ \A t \in Tasks : taskPc[t] = "mail" => task[t] # "Running"
-----------------------------------------------------------------------------
\* The constants.
LEMMA ConstantFacts ==
  /\ MaxWaits \in Nat /\ MaxInterrupts \in Nat /\ MaxCrashes \in Nat
  /\ NoTarget \notin Targets /\ NoDep \notin Dependency
  /\ Agents \subseteq Processes /\ Tasks \subseteq Processes /\ Client \in Processes
  /\ Started \in AgentState /\ StateSound(Started) /\ Started.waiting_on = NoDep
  /\ Silent \in Announcement
<1>1. NoTarget \notin Targets
  BY DEF NoTarget, Targets
<1>2. NoDep \notin Dependency
  BY <1>1 DEF NoDep, Dependency
<1>3. Started \in AgentState
  BY DEF Started, AgentState
<1>4. Silent \in Announcement
  <2>1. <<>> \in Seq(Targets)
    OBVIOUS
  <2> QED BY <2>1 DEF Silent, Announcement
<1> QED BY <1>1, <1>2, <1>3, <1>4, BoundsAssumption DEF Processes, StateSound, Started

\* The states that are saved.
LEMMA ResumedFacts ==
  ASSUME NEW s \in AgentState
  PROVE  /\ Resumed(s) \in AgentState /\ Resumed(s).status = "Idle"
         /\ Resumed(s).waiting_on = NoDep /\ Resumed(s).active = s.active
         /\ StateSound(Resumed(s)) /\ s.waiting_on \in Dependency \cup {NoDep}
BY DEF AgentState, Resumed, StateSound

LEMMA StatusFacts ==
  ASSUME NEW s \in AgentState, NEW status \in {"Idle", "Running"}
  PROVE  LET r == [s EXCEPT !.status = status] IN
         r \in AgentState /\ r.status = status /\ r.waiting_on = s.waiting_on
BY DEF AgentState

LEMMA InactiveFacts ==
  ASSUME NEW s \in AgentState
  PROVE  LET r == [s EXCEPT !.active = FALSE] IN
         r \in AgentState /\ r.status = s.status /\ r.waiting_on = s.waiting_on /\ r.active = FALSE
BY DEF AgentState

LEMMA ParkedFacts ==
  ASSUME NEW s \in AgentState, NEW d \in Dependency
  PROVE  LET r == [s EXCEPT !.status = "WaitingDependency", !.waiting_on = d] IN
         r \in AgentState /\ r.status = "WaitingDependency" /\ r.waiting_on = d
BY DEF AgentState

\* What a process begins to announce.
LEMMA AnnouncesFacts ==
  ASSUME NEW todo \in Seq(Targets)
  PROVE  /\ Announces(todo) \in Announcement /\ Announces(todo).todo = todo
         /\ Announces(todo).listed = FALSE
BY DEF Announces, Silent, Announcement

\* What was over stays so.
Lasting ==
  /\ \A a \in Agents : Ended(a) => Ended(a)'
  /\ \A t \in Tasks : task[t] # "Running" => task'[t] # "Running"

LEMMA OverLasts ==
  ASSUME Lasting, NEW on \in Targets, Over(on)
  PROVE  Over(on)'
<1>1. /\ on[1] = "work" => on[2] \in Agents
      /\ on[1] = "task" => on[2] \in Tasks
  BY DEF Targets
<1> QED BY <1>1 DEF Lasting, Over, Ended

\* An announcement that stays as it is stays sound.
LEMMA AnnouncementStays ==
  ASSUME TypeOK, Lasting, NEW p \in Processes, AnnouncementSound(p), announce'[p] = announce[p]
  PROVE  AnnouncementSound(p)'
<1>1. announce[p].todo \in Seq(Targets)
  BY DEF TypeOK, Announcement
<1>2. \A i \in DOMAIN announce[p].todo : Over(announce[p].todo[i])'
  <2> SUFFICES ASSUME NEW i \in DOMAIN announce[p].todo PROVE Over(announce[p].todo[i])'
    OBVIOUS
  <2>1. PICK on \in Targets : on = announce[p].todo[i]
    BY <1>1
  <2>2. announce'[p].todo[i] = on
    BY <2>1
  <2>3. Over(on)'
    BY <2>1, OverLasts DEF AnnouncementSound
  <2> QED BY <2>2, <2>3, <2>1 DEF Over, Ended
<1> QED BY <1>2 DEF AnnouncementSound, Over, Ended

\* So does an agent whose quantum and state stay as they are.
AgentStays(a) == state'[a] = state[a] /\ pc'[a] = pc[a] /\ intent'[a] = intent[a]
LEMMA AgentStaysSound ==
  ASSUME NEW a \in Agents, AgentSound(a), AgentStays(a), Ended(a) => Ended(a)'
  PROVE  AgentSound(a)'
BY DEF AgentSound, AgentStays, StateSound, Ended

\* Whatever a step leaves alone is sound as before.
LEMMA RestIsSound ==
  ASSUME WaitInv, Lasting, TypeOK',
         \A a \in Agents : AgentStays(a) \/ AgentSound(a)',
         \A p \in Processes : announce'[p] = announce[p] \/ AnnouncementSound(p)',
         \A t \in Tasks : taskPc'[t] = "mail" => taskPc[t] = "mail" \/ task'[t] # "Running"
  PROVE  WaitInv'
<1>1. \A a \in Agents : AgentSound(a)'
  BY AgentStaysSound DEF WaitInv, Lasting
<1>2. \A p \in Processes : AnnouncementSound(p)'
  BY AnnouncementStays DEF WaitInv
<1> QED BY <1>1, <1>2 DEF WaitInv, Lasting

\* A record of the end of a work or a task is never taken back.
LEMMA RecordsLast == ASSUME UNCHANGED <<work, task>> PROVE Lasting
BY DEF Lasting, Ended

\* The list of those parked on what is announced.
LEMMA ListWaitersInv ==
  ASSUME WaitInv, NEW p \in Processes, ListWaiters(p)
  PROVE  WaitInv'
<1>1. /\ announce[p].todo # <<>> /\ ~announce[p].listed
      /\ UNCHANGED <<state, work, task, wake, pc, copy, intent, cancelled, taskPc, victim,
                     timers, expired, waits, interrupts, crashes>>
  BY DEF ListWaiters, files, quanta, others, time, counters
<1>2. /\ announce \in [Processes -> Announcement] /\ announce[p].todo \in Seq(Targets)
      /\ announce[p] \in Announcement
  BY DEF WaitInv, TypeOK, Announcement
<1>3. PICK found : found = Waiters(Head(announce[p].todo))
  OBVIOUS
<1>4. /\ found \subseteq [agent : Agents, state : AgentState]
      /\ \A w \in found : w.state.waiting_on.on = Head(announce[p].todo)
  BY <1>3 DEF Waiters, WaitInv, TypeOK
<1>5. PICK new \in Announcement :
        /\ announce' = [announce EXCEPT ![p] = new]
        /\ \/ new.todo = Tail(announce[p].todo) /\ ~new.listed
           \/ new.todo = announce[p].todo /\ new.left = found
  <2>1. CASE found = {}
    <3>1. PICK new : new = Announces(Tail(announce[p].todo))
      OBVIOUS
    <3>2. announce' = [announce EXCEPT ![p] = new]
      BY <1>3, <2>1, <3>1 DEF ListWaiters
    <3>3. new.todo = Tail(announce[p].todo) /\ ~new.listed /\ new \in Announcement
      <4>1. Tail(announce[p].todo) \in Seq(Targets)
        BY <1>1, <1>2
      <4> QED BY <3>1, <4>1, AnnouncesFacts
    <3> QED BY <3>2, <3>3
  <2>2. CASE found # {}
    <3>1. PICK new : new = [announce[p] EXCEPT !.listed = TRUE, !.left = found]
      OBVIOUS
    <3>2. announce' = [announce EXCEPT ![p] = new]
      BY <1>3, <2>2, <3>1 DEF ListWaiters
    <3>3. new.todo = announce[p].todo /\ new.left = found /\ new \in Announcement
      BY <1>2, <1>4, <3>1 DEF Announcement
    <3> QED BY <3>2, <3>3
  <2> QED BY <2>1, <2>2
<1>6. announce'[p] = new /\ \A q \in Processes : q # p => announce'[q] = announce[q]
  BY <1>2, <1>5
<1>7. Lasting
  BY <1>1, RecordsLast
<1>8. AnnouncementSound(p)'
  <2>1. \A i \in DOMAIN announce[p].todo : Over(announce[p].todo[i])
    BY DEF WaitInv, AnnouncementSound
  <2>2. \A i \in DOMAIN new.todo : Over(new.todo[i])
    <3>1. \A i \in DOMAIN Tail(announce[p].todo) :
            i + 1 \in DOMAIN announce[p].todo
            /\ Tail(announce[p].todo)[i] = announce[p].todo[i + 1]
      BY <1>1, <1>2
    <3> QED BY <1>5, <2>1, <3>1
  <2>3. \A i \in DOMAIN new.todo : Over(new.todo[i])'
    BY <1>1, <2>2 DEF Over, Ended
  <2> QED BY <1>1, <1>4, <1>5, <1>6, <2>3 DEF AnnouncementSound, Over, Ended
<1>9. TypeOK'
  <2>1. announce' \in [Processes -> Announcement]
    BY <1>2, <1>5
  <2> QED BY <1>1, <2>1 DEF WaitInv, TypeOK
<1> QED BY <1>1, <1>6, <1>7, <1>8, <1>9, RestIsSound DEF AgentStays

\* One of those parked is woken, as it was read.
LEMMA WakeWaiterInv ==
  ASSUME WaitInv, NEW p \in Processes, WakeWaiter(p)
  PROVE  WaitInv'
<1>1. /\ announce[p].listed
      /\ UNCHANGED <<work, task, pc, copy, intent, cancelled, taskPc, victim,
                     timers, expired, waits, interrupts, crashes>>
  BY DEF WakeWaiter, quanta, others, time, counters
<1>2. /\ announce \in [Processes -> Announcement] /\ announce[p].todo \in Seq(Targets)
      /\ announce[p] \in Announcement /\ state \in [Agents -> AgentState]
      /\ wake \in [Agents -> BOOLEAN]
  BY DEF WaitInv, TypeOK, Announcement
<1>3. PICK w \in announce[p].left :
        /\ state' = [state EXCEPT ![w.agent] = Resumed(w.state)]
        /\ wake' = [wake EXCEPT ![w.agent] = TRUE]
        /\ announce' = [announce EXCEPT ![p] = Rest(@, w)]
  BY DEF WakeWaiter
<1>4. w.agent \in Agents /\ w.state \in AgentState
  BY <1>2 DEF Announcement
<1>5. /\ Resumed(w.state) \in AgentState /\ Resumed(w.state).waiting_on = NoDep
      /\ StateSound(Resumed(w.state))
  BY <1>4, ResumedFacts
<1>6. PICK s \in AgentState : s = Resumed(w.state)
  BY <1>5
<1>7. /\ state'[w.agent] = s /\ \A b \in Agents : b # w.agent => state'[b] = state[b]
      /\ state' \in [Agents -> AgentState] /\ wake' \in [Agents -> BOOLEAN]
  BY <1>2, <1>3, <1>4, <1>6
<1>8. PICK new \in Announcement :
        /\ announce' = [announce EXCEPT ![p] = new]
        /\ \/ new.todo = Tail(announce[p].todo) /\ ~new.listed
           \/ new.todo = announce[p].todo /\ new.left \subseteq announce[p].left
  <2>1. announce[p].todo # <<>>
    BY <1>1 DEF WaitInv, AnnouncementSound
  <2>2. PICK new : new = Rest(announce[p], w)
    OBVIOUS
  <2>3. CASE announce[p].left = {w}
    <3>1. Tail(announce[p].todo) \in Seq(Targets)
      BY <1>2, <2>1
    <3>2. new.todo = Tail(announce[p].todo) /\ ~new.listed /\ new \in Announcement
      BY <2>2, <2>3, <3>1, AnnouncesFacts DEF Rest
    <3> QED BY <1>3, <2>2, <3>2
  <2>4. CASE announce[p].left # {w}
    <3>1. /\ new.todo = announce[p].todo /\ new.left \subseteq announce[p].left
          /\ new \in Announcement
      BY <1>2, <2>2, <2>4 DEF Rest, Announcement
    <3> QED BY <1>3, <2>2, <3>1
  <2> QED BY <2>3, <2>4
<1>9. announce'[p] = new /\ \A q \in Processes : q # p => announce'[q] = announce[q]
  BY <1>2, <1>8
<1>10. AnnouncementSound(p)'
  <2>1. /\ \A i \in DOMAIN announce[p].todo : Over(announce[p].todo[i])
        /\ announce[p].todo # <<>>
        /\ \A v \in announce[p].left : v.state.waiting_on.on = Head(announce[p].todo)
    BY <1>1 DEF WaitInv, AnnouncementSound
  <2>2. \A i \in DOMAIN new.todo : Over(new.todo[i])
    <3>1. \A i \in DOMAIN Tail(announce[p].todo) :
            i + 1 \in DOMAIN announce[p].todo
            /\ Tail(announce[p].todo)[i] = announce[p].todo[i + 1]
      BY <1>2, <2>1
    <3> QED BY <1>8, <2>1, <3>1
  <2>3. \A i \in DOMAIN new.todo : Over(new.todo[i])'
    BY <1>1, <2>2 DEF Over, Ended
  <2> QED BY <1>1, <1>8, <1>9, <2>1, <2>3 DEF AnnouncementSound, Over, Ended
<1>11. \A a \in Agents : AgentStays(a) \/ AgentSound(a)'
  <2> SUFFICES ASSUME NEW a \in Agents PROVE AgentStays(a) \/ AgentSound(a)'
    OBVIOUS
  <2>1. CASE a # w.agent
    BY <1>1, <1>7, <2>1 DEF AgentStays
  <2>2. CASE a = w.agent
    BY <1>1, <1>5, <1>6, <1>7, <2>2 DEF WaitInv, AgentSound, Ended
  <2> QED BY <2>1, <2>2
<1>12. TypeOK'
  <2>1. announce' \in [Processes -> Announcement]
    BY <1>2, <1>8
  <2>2. \A a \in Agents :
          /\ state'[a].status = "WaitingDependency" <=> state'[a].waiting_on # NoDep
          /\ intent'[a] # NoDep <=> pc'[a] \in {"check", "park"}
    BY <1>1, <1>5, <1>6, <1>7 DEF WaitInv, TypeOK, StateSound
  <2> QED BY <1>1, <1>7, <2>1, <2>2 DEF WaitInv, TypeOK
<1> QED BY <1>1, <1>9, <1>10, <1>11, <1>12, RecordsLast, RestIsSound

\* A quantum begins, or its mail is looked at by an agent that stays parked.
LEMMA BeginInv ==
  ASSUME WaitInv, NEW a \in Agents, Begin(a)
  PROVE  WaitInv'
<1>1. /\ UNCHANGED <<work, task, copy, intent, cancelled, taskPc, victim, announce, expired,
                     waits, interrupts, crashes>>
      /\ pc[a] = "idle"
  BY DEF Begin, others, counters
<1>2. /\ state \in [Agents -> AgentState] /\ state[a] \in AgentState /\ StateSound(state[a])
      /\ pc \in [Agents -> {"idle", "run", "check", "park", "record", "report", "tell"}]
      /\ wake \in [Agents -> BOOLEAN] /\ intent[a] = NoDep
      /\ timers \subseteq [agent : Agents, dep : Dependency]
  BY <1>1 DEF WaitInv, TypeOK, AgentSound
<1>3. PICK s \in AgentState, to \in {"idle", "run"} :
        /\ state' = [state EXCEPT ![a] = s] /\ pc' = [pc EXCEPT ![a] = to]
        /\ StateSound(s)
        /\ to = "run" => s.waiting_on = NoDep
  <2>1. CASE UNCHANGED <<state, pc>>
    BY <1>1, <1>2, <2>1
  <2>2. CASE /\ state[a].status = "WaitingDependency"
             /\ SaveState(a, [Resumed(state[a]) EXCEPT !.status = "Running"])
             /\ QuantumGoes(a, "run")
    <3>1. PICK r \in AgentState : r = Resumed(state[a]) /\ r.waiting_on = NoDep
      BY <1>2, ResumedFacts
    <3>2. PICK s \in AgentState :
            s = [r EXCEPT !.status = "Running"] /\ s.waiting_on = NoDep /\ s.status = "Running"
      BY <3>1, StatusFacts
    <3> QED BY <2>2, <3>1, <3>2 DEF SaveState, QuantumGoes, StateSound
  <2>3. CASE /\ state[a].status # "WaitingDependency"
             /\ SaveState(a, [state[a] EXCEPT !.status = "Running"])
             /\ QuantumGoes(a, "run")
    <3>1. PICK s \in AgentState :
            s = [state[a] EXCEPT !.status = "Running"] /\ s.waiting_on = state[a].waiting_on
            /\ s.status = "Running"
      BY <1>2, StatusFacts
    <3> QED BY <1>2, <2>3, <3>1 DEF SaveState, QuantumGoes, StateSound
  <2> QED BY <2>1, <2>2, <2>3 DEF Begin
<1>4. /\ state'[a] = s /\ pc'[a] = to
      /\ \A b \in Agents : b # a => state'[b] = state[b] /\ pc'[b] = pc[b]
      /\ state' \in [Agents -> AgentState]
      /\ pc' \in [Agents -> {"idle", "run", "check", "park", "record", "report", "tell"}]
  BY <1>2, <1>3
<1>5. AgentSound(a)'
  BY <1>1, <1>2, <1>3, <1>4 DEF AgentSound
<1>6. wake' \in [Agents -> BOOLEAN] /\ timers' \subseteq [agent : Agents, dep : Dependency]
  <2>1. wake' \in [Agents -> BOOLEAN]
    BY <1>2 DEF Begin
  <2>2. timers' = timers \/ /\ state[a].status = "WaitingDependency"
                            /\ timers' = Scheduled(a, state[a].waiting_on)
    BY DEF Begin
  <2>3. state[a].status = "WaitingDependency" => state[a].waiting_on \in Dependency
    BY <1>2, ResumedFacts DEF StateSound
  <2> QED BY <1>2, <2>1, <2>2, <2>3 DEF Scheduled
<1>7. TypeOK'
  <2>1. \A b \in Agents :
          /\ state'[b].status = "WaitingDependency" <=> state'[b].waiting_on # NoDep
          /\ intent'[b] # NoDep <=> pc'[b] \in {"check", "park"}
    BY <1>1, <1>2, <1>3, <1>4 DEF WaitInv, TypeOK, StateSound
  <2> QED BY <1>1, <1>4, <1>6, <2>1 DEF WaitInv, TypeOK
<1> QED BY <1>1, <1>4, <1>5, <1>7, RecordsLast, RestIsSound DEF AgentStays

\* What TypeOK says of all but the state and the progress of quanta.
OtherTypes ==
  /\ work \in [Agents -> {"Running", "Finished", "Cancelled"}]
  /\ task \in [Tasks -> {"Running", "Exited", "Failed"}]
  /\ wake \in [Agents -> BOOLEAN] /\ cancelled \in [Agents -> BOOLEAN]
  /\ copy \in [Agents -> AgentState]
  /\ taskPc \in [Tasks -> {"running", "mail", "done"}]
  /\ victim \in Agents \cup {NoAgent}
  /\ announce \in [Processes -> Announcement]
  /\ timers \subseteq [agent : Agents, dep : Dependency]
  /\ expired \subseteq 1..MaxWaits
  /\ waits \in 0..MaxWaits /\ interrupts \in 0..MaxInterrupts /\ crashes \in 0..MaxCrashes
Places == {"idle", "run", "check", "park", "record", "report", "tell"}

LEMMA Types ==
  TypeOK <=> /\ OtherTypes /\ state \in [Agents -> AgentState] /\ pc \in [Agents -> Places]
             /\ intent \in [Agents -> Dependency \cup {NoDep}]
             /\ \A a \in Agents : /\ StateSound(state[a])
                                  /\ intent[a] # NoDep <=> pc[a] \in {"check", "park"}
BY DEF TypeOK, OtherTypes, Places, StateSound

\* A quantum saves a state, and goes on.
LEMMA QuantumSaves ==
  ASSUME WaitInv, Lasting, OtherTypes', UNCHANGED taskPc,
         NEW a \in Agents, NEW s \in AgentState, NEW to \in Places,
         NEW d \in Dependency \cup {NoDep},
         state' = [state EXCEPT ![a] = s], pc' = [pc EXCEPT ![a] = to],
         intent' = [intent EXCEPT ![a] = d],
         StateSound(s), to # "idle" => s.waiting_on = NoDep,
         d # NoDep <=> to \in {"check", "park"}, to = "report" => Ended(a)',
         \A p \in Processes : announce'[p] = announce[p] \/ AnnouncementSound(p)'
  PROVE  WaitInv'
<1>1. /\ state \in [Agents -> AgentState] /\ pc \in [Agents -> Places]
      /\ intent \in [Agents -> Dependency \cup {NoDep}]
      /\ \A b \in Agents : /\ StateSound(state[b])
                           /\ intent[b] # NoDep <=> pc[b] \in {"check", "park"}
  BY Types DEF WaitInv
<1>2. /\ state'[a] = s /\ pc'[a] = to /\ intent'[a] = d
      /\ \A b \in Agents : b # a => AgentStays(b)
      /\ state' \in [Agents -> AgentState] /\ pc' \in [Agents -> Places]
      /\ intent' \in [Agents -> Dependency \cup {NoDep}]
  BY <1>1 DEF AgentStays
<1>3. AgentSound(a)'
  BY <1>2 DEF AgentSound, StateSound
<1>4. \A b \in Agents : /\ StateSound(state[b])'
                        /\ intent'[b] # NoDep <=> pc'[b] \in {"check", "park"}
  <2> SUFFICES ASSUME NEW b \in Agents
               PROVE  /\ StateSound(state[b])'
                      /\ intent'[b] # NoDep <=> pc'[b] \in {"check", "park"}
    OBVIOUS
  <2>1. CASE b = a
    BY <1>2, <2>1 DEF StateSound
  <2>2. CASE b # a
    BY <1>1, <1>2, <2>2 DEF StateSound, AgentStays
  <2> QED BY <2>1, <2>2
<1>5. TypeOK'
  BY <1>2, <1>4 DEF TypeOK, OtherTypes, Places, StateSound
<1> QED BY <1>2, <1>3, <1>5, RestIsSound

\* What the quantum of an agent that is at work knows.
LEMMA AtWork ==
  ASSUME WaitInv, NEW a \in Agents
  PROVE  /\ OtherTypes /\ state[a] \in AgentState /\ copy[a] \in AgentState
         /\ intent[a] \in Dependency \cup {NoDep} /\ intent = [intent EXCEPT ![a] = intent[a]]
         /\ state = [state EXCEPT ![a] = state[a]]
         /\ AgentSound(a)
BY Types DEF WaitInv, OtherTypes

\* It ends with Continue or an error.
LEMMA ContinueInv ==
  ASSUME WaitInv, NEW a \in Agents, Continue(a)
  PROVE  WaitInv'
<1>1. /\ UNCHANGED <<work, task, copy, intent, taskPc, victim, announce, timers, expired,
                     waits, interrupts, crashes>>
      /\ pc[a] = "run" /\ pc' = [pc EXCEPT ![a] = "idle"]
      /\ state' = [state EXCEPT ![a] = [state[a] EXCEPT !.status = "Idle"]]
  BY DEF Continue, others, time, counters, QuantumGoes, SaveState
<1>2. PICK s \in AgentState :
        /\ s = [state[a] EXCEPT !.status = "Idle"]
        /\ s.status = "Idle" /\ s.waiting_on = state[a].waiting_on
  BY AtWork, StatusFacts
<1>3. s.waiting_on = NoDep /\ intent[a] = NoDep
  BY <1>1, <1>2, AtWork DEF AgentSound
<1>4. StateSound(s)
  BY <1>2, <1>3 DEF StateSound
<1>5. OtherTypes'
  <2>1. wake' \in [Agents -> BOOLEAN] /\ cancelled' \in [Agents -> BOOLEAN]
    BY AtWork DEF Continue, OtherTypes
  <2> QED BY <1>1, <2>1, AtWork DEF OtherTypes
<1>6. intent' = [intent EXCEPT ![a] = NoDep]
  BY <1>1, <1>3, AtWork
<1> QED BY <1>1, <1>2, <1>3, <1>4, <1>5, <1>6, RecordsLast, QuantumSaves DEF Places

\* A process begins to announce what is over.
LEMMA NewAnnouncement ==
  ASSUME TypeOK, NEW p \in Processes, NEW todo \in Seq(Targets),
         announce' = [announce EXCEPT ![p] = Announces(todo)],
         \A i \in DOMAIN todo : Over(todo[i])'
  PROVE  /\ announce' \in [Processes -> Announcement]
         /\ \A q \in Processes : announce'[q] = announce[q] \/ AnnouncementSound(q)'
<1>1. PICK new \in Announcement : new = Announces(todo) /\ new.todo = todo /\ new.listed = FALSE
  BY AnnouncesFacts
<1>2. /\ announce' \in [Processes -> Announcement] /\ announce'[p] = new
      /\ \A q \in Processes : q # p => announce'[q] = announce[q]
  BY <1>1 DEF TypeOK
<1>3. \A i \in DOMAIN announce'[p].todo : Over(announce[p].todo[i])'
  BY <1>1, <1>2 DEF Over, Ended
<1>4. AnnouncementSound(p)'
  BY <1>1, <1>2, <1>3 DEF AnnouncementSound
<1> QED BY <1>2, <1>4

\* What an agent announces of itself, and of its work once that has ended.
LEMMA OfItself ==
  ASSUME NEW a \in Agents
  PROVE  /\ <<<<"agent", a>>>> \in Seq(Targets)
         /\ \A i \in DOMAIN <<<<"agent", a>>>> : Over(<<<<"agent", a>>>>[i])'
         /\ <<<<"agent", a>>, <<"work", a>>>> \in Seq(Targets)
         /\ Ended(a)' => \A i \in DOMAIN <<<<"agent", a>>, <<"work", a>>>> :
                           Over(<<<<"agent", a>>, <<"work", a>>>>[i])'
BY DEF Targets, Over, Ended

\* It ends because it was cancelled.
LEMMA CancelledInv ==
  ASSUME WaitInv, NEW a \in Agents, Cancelled(a)
  PROVE  WaitInv'
<1>1. /\ UNCHANGED <<work, task, wake, copy, intent, taskPc, victim, timers, expired,
                     waits, interrupts, crashes>>
      /\ pc[a] = "run" /\ pc' = [pc EXCEPT ![a] = "tell"]
      /\ state' = [state EXCEPT ![a] = [state[a] EXCEPT !.status = "Idle"]]
      /\ announce' = [announce EXCEPT ![a] = Announces(<<<<"agent", a>>>>)]
  BY DEF Cancelled, others, time, counters, QuantumGoes, SaveState
<1>2. PICK s \in AgentState :
        /\ s = [state[a] EXCEPT !.status = "Idle"]
        /\ s.status = "Idle" /\ s.waiting_on = state[a].waiting_on
  BY AtWork, StatusFacts
<1>3. s.waiting_on = NoDep /\ intent[a] = NoDep
  BY <1>1, <1>2, AtWork DEF AgentSound
<1>4. StateSound(s)
  BY <1>2, <1>3 DEF StateSound
<1>5. /\ announce' \in [Processes -> Announcement]
      /\ \A p \in Processes : announce'[p] = announce[p] \/ AnnouncementSound(p)'
  <2>1. a \in Processes /\ TypeOK
    BY ConstantFacts DEF WaitInv
  <2> QED BY <1>1, <2>1, OfItself, NewAnnouncement
<1>6. OtherTypes'
  <2>1. cancelled' \in [Agents -> BOOLEAN]
    BY AtWork DEF Cancelled, OtherTypes
  <2> QED BY <1>1, <1>5, <2>1, AtWork DEF OtherTypes
<1>7. intent' = [intent EXCEPT ![a] = NoDep]
  BY <1>1, <1>3, AtWork
<1>8. state' = [state EXCEPT ![a] = s] /\ Lasting /\ "tell" \in Places
  BY <1>1, <1>2, RecordsLast DEF Places
<1> QED BY <1>1, <1>3, <1>4, <1>5, <1>6, <1>7, <1>8, QuantumSaves

\* It ends with a Wait.
LEMMA WaitInvariant ==
  ASSUME WaitInv, NEW a \in Agents, Wait(a)
  PROVE  WaitInv'
<1>1. /\ UNCHANGED <<state, work, task, wake, taskPc, victim, announce, timers, expired,
                     interrupts, crashes>>
      /\ pc[a] = "run" /\ pc' = [pc EXCEPT ![a] = "check"]
      /\ waits < MaxWaits /\ waits' = waits + 1
      /\ copy' = [copy EXCEPT ![a] = state[a]]
      /\ cancelled' = [cancelled EXCEPT ![a] = FALSE]
  BY DEF Wait, files, others, time, QuantumGoes
<1>2. waits \in Nat /\ MaxWaits \in Nat /\ waits' \in 0..MaxWaits
  BY <1>1, AtWork, ConstantFacts DEF OtherTypes
<1>3. PICK d \in Dependency : intent' = [intent EXCEPT ![a] = d]
  <2>1. PICK on \in Targets, timer \in {0, waits + 1} :
          intent' = [intent EXCEPT ![a] = [on |-> on, timer |-> timer]]
    BY DEF Wait
  <2>2. timer \in 0..MaxWaits
    BY <1>1, <1>2
  <2>3. [on |-> on, timer |-> timer] \in Dependency
    BY <2>2 DEF Dependency
  <2> QED BY <2>1, <2>3
<1>4. d # NoDep
  BY ConstantFacts
<1>5. state[a].waiting_on = NoDep /\ StateSound(state[a])
  BY <1>1, AtWork DEF AgentSound
<1>6. OtherTypes'
  BY <1>1, <1>2, AtWork DEF OtherTypes
<1>7. /\ state' = [state EXCEPT ![a] = state[a]] /\ state[a] \in AgentState
      /\ Lasting /\ "check" \in Places
  BY <1>1, AtWork, RecordsLast DEF Places
<1>8. PICK s \in AgentState : s = state[a]
  BY <1>7
<1> QED BY <1>1, <1>3, <1>4, <1>5, <1>6, <1>7, <1>8, QuantumSaves

\* It looks: satisfied, or about to park.
LEMMA CheckInv ==
  ASSUME WaitInv, NEW a \in Agents, Check(a)
  PROVE  WaitInv'
<1>1. /\ UNCHANGED <<work, task, cancelled, taskPc, victim, announce, timers, expired,
                     waits, interrupts, crashes>>
      /\ pc[a] = "check"
  BY DEF Check, others, time, counters
<1>2. Lasting /\ AgentSound(a)
  BY <1>1, RecordsLast, AtWork
<1>3. CASE Satisfied(intent[a])
  <2>1. /\ state' = [state EXCEPT ![a] = Resumed(copy[a])]
        /\ wake' = [wake EXCEPT ![a] = TRUE]
        /\ copy' = [copy EXCEPT ![a] = Started]
        /\ intent' = [intent EXCEPT ![a] = NoDep]
        /\ pc' = [pc EXCEPT ![a] = "idle"]
    BY <1>3 DEF Check, SaveState, QuantumGoes
  <2>2. PICK s \in AgentState : s = Resumed(copy[a]) /\ StateSound(s) /\ s.waiting_on = NoDep
    BY AtWork, ResumedFacts
  <2>3. OtherTypes'
    BY <1>1, <2>1, AtWork, ConstantFacts DEF OtherTypes
  <2>4. state' = [state EXCEPT ![a] = s] /\ "idle" \in Places
    BY <2>1, <2>2 DEF Places
  <2> QED BY <1>1, <1>2, <2>1, <2>2, <2>3, <2>4, QuantumSaves
<1>4. CASE ~Satisfied(intent[a])
  <2>1. UNCHANGED <<state, wake, copy, intent>> /\ pc' = [pc EXCEPT ![a] = "park"]
    BY <1>4 DEF Check, QuantumGoes
  <2>2. PICK s \in AgentState, d \in Dependency \cup {NoDep} : s = state[a] /\ d = intent[a]
    BY AtWork
  <2>3. /\ state' = [state EXCEPT ![a] = s] /\ intent' = [intent EXCEPT ![a] = d]
        /\ StateSound(s) /\ s.waiting_on = NoDep /\ d # NoDep /\ "park" \in Places
    BY <1>1, <1>2, <2>1, <2>2, AtWork DEF Places, AgentSound
  <2>4. OtherTypes'
    BY <1>1, <2>1, AtWork DEF OtherTypes
  <2> QED BY <1>1, <1>2, <2>1, <2>3, <2>4, QuantumSaves
<1> QED BY <1>3, <1>4

\* It parks.
LEMMA ParkInv ==
  ASSUME WaitInv, NEW a \in Agents, Park(a)
  PROVE  WaitInv'
<1>1. /\ UNCHANGED <<work, task, wake, cancelled, taskPc, victim, announce, expired,
                     waits, interrupts, crashes>>
      /\ pc[a] = "park" /\ pc' = [pc EXCEPT ![a] = "idle"]
      /\ copy' = [copy EXCEPT ![a] = Started]
      /\ intent' = [intent EXCEPT ![a] = NoDep]
      /\ timers' = Scheduled(a, intent[a])
  BY DEF Park, others, counters, QuantumGoes
<1>2. PICK d \in Dependency : d = intent[a]
  BY <1>1, AtWork DEF AgentSound
<1>3. PICK s \in AgentState :
        /\ s = [copy[a] EXCEPT !.status = "WaitingDependency", !.waiting_on = d]
        /\ s.status = "WaitingDependency" /\ s.waiting_on = d
  BY AtWork, ParkedFacts
<1>4. state' = [state EXCEPT ![a] = s]
  BY <1>2, <1>3 DEF Park, SaveState
<1>5. StateSound(s)
  BY <1>3, ConstantFacts DEF StateSound
<1>6. OtherTypes'
  <2>1. timers' \subseteq [agent : Agents, dep : Dependency]
    BY <1>1, <1>2, AtWork DEF Scheduled, OtherTypes
  <2> QED BY <1>1, <2>1, AtWork, ConstantFacts DEF OtherTypes
<1>7. Lasting /\ "idle" \in Places
  BY <1>1, RecordsLast DEF Places
<1> QED BY <1>1, <1>4, <1>5, <1>6, <1>7, QuantumSaves

\* It ends with a Finish that counts: the state is saved, ...
LEMMA FinishInv ==
  ASSUME WaitInv, NEW a \in Agents, Finish(a)
  PROVE  WaitInv'
<1>1. /\ UNCHANGED <<work, task, wake, copy, intent, taskPc, victim, announce, timers, expired,
                     waits, interrupts, crashes>>
      /\ pc[a] = "run" /\ pc' = [pc EXCEPT ![a] = "record"]
      /\ state' = [state EXCEPT ![a] = [Resumed(state[a]) EXCEPT !.active = FALSE]]
      /\ cancelled' = [cancelled EXCEPT ![a] = FALSE]
  BY DEF Finish, others, time, counters, QuantumGoes, SaveState
<1>2. PICK r \in AgentState : r = Resumed(state[a]) /\ r.status = "Idle" /\ r.waiting_on = NoDep
  BY AtWork, ResumedFacts
<1>3. PICK s \in AgentState :
        /\ s = [r EXCEPT !.active = FALSE] /\ s.status = "Idle" /\ s.waiting_on = NoDep
  BY <1>2, InactiveFacts
<1>4. StateSound(s)
  BY <1>3 DEF StateSound
<1>5. OtherTypes'
  BY <1>1, AtWork DEF OtherTypes
<1>6. intent[a] = NoDep
  BY <1>1, AtWork DEF AgentSound
<1>7. intent' = [intent EXCEPT ![a] = NoDep]
  BY <1>1, <1>6, AtWork
<1>8. state' = [state EXCEPT ![a] = s] /\ Lasting /\ "record" \in Places
  BY <1>1, <1>2, <1>3, RecordsLast DEF Places
<1> QED BY <1>1, <1>3, <1>4, <1>5, <1>7, <1>8, QuantumSaves

\* ... the end of the work recorded, ...
LEMMA RecordInv ==
  ASSUME WaitInv, NEW a \in Agents, Record(a)
  PROVE  WaitInv'
<1>1. /\ UNCHANGED <<state, task, wake, copy, intent, cancelled, taskPc, victim, announce, timers,
                     expired, waits, interrupts, crashes>>
      /\ pc[a] = "record" /\ pc' = [pc EXCEPT ![a] = "report"]
      /\ work' = [work EXCEPT ![a] = "Finished"]
  BY DEF Record, others, time, counters, QuantumGoes
<1>2. PICK s \in AgentState : s = state[a]
  BY AtWork
<1>3. state' = [state EXCEPT ![a] = s] /\ StateSound(s) /\ s.waiting_on = NoDep /\ intent[a] = NoDep
  BY <1>1, <1>2, AtWork DEF AgentSound
<1>4. intent' = [intent EXCEPT ![a] = NoDep]
  BY <1>1, <1>3, AtWork
<1>5. OtherTypes'
  BY <1>1, AtWork DEF OtherTypes
<1>6. Lasting /\ Ended(a)' /\ "report" \in Places
  BY <1>1, AtWork DEF Lasting, Ended, OtherTypes, Places
<1> QED BY <1>1, <1>3, <1>4, <1>5, <1>6, QuantumSaves

\* ... and told.
LEMMA ReportInv ==
  ASSUME WaitInv, NEW a \in Agents, Report(a)
  PROVE  WaitInv'
<1>1. /\ UNCHANGED <<state, work, task, copy, intent, cancelled, taskPc, victim, timers, expired,
                     waits, interrupts, crashes>>
      /\ pc[a] = "report" /\ pc' = [pc EXCEPT ![a] = "tell"]
      /\ announce' = [announce EXCEPT ![a] = Announces(<<<<"agent", a>>, <<"work", a>>>>)]
  BY DEF Report, files, others, time, counters, QuantumGoes
<1>2. PICK s \in AgentState : s = state[a]
  BY AtWork
<1>3. /\ state' = [state EXCEPT ![a] = s] /\ StateSound(s) /\ s.waiting_on = NoDep
      /\ intent[a] = NoDep /\ Ended(a)
  BY <1>1, <1>2, AtWork DEF AgentSound
<1>4. intent' = [intent EXCEPT ![a] = NoDep]
  BY <1>1, <1>3, AtWork
<1>5. /\ announce' \in [Processes -> Announcement]
      /\ \A p \in Processes : announce'[p] = announce[p] \/ AnnouncementSound(p)'
  <2>1. a \in Processes /\ TypeOK /\ Ended(a)'
    BY <1>1, <1>3, ConstantFacts DEF WaitInv, Ended
  <2> QED BY <1>1, <2>1, OfItself, NewAnnouncement
<1>6. OtherTypes'
  <2>1. wake' \in [Agents -> BOOLEAN]
    BY AtWork DEF Report, Mailed, OtherTypes
  <2> QED BY <1>1, <1>5, <2>1, AtWork DEF OtherTypes
<1>7. Lasting /\ "tell" \in Places
  BY <1>1, RecordsLast DEF Places
<1> QED BY <1>1, <1>3, <1>4, <1>5, <1>6, <1>7, QuantumSaves

LEMMA ToldInv ==
  ASSUME WaitInv, NEW a \in Agents, Told(a)
  PROVE  WaitInv'
<1>1. /\ UNCHANGED <<state, work, task, wake, copy, intent, cancelled, taskPc, victim, announce,
                     timers, expired, waits, interrupts, crashes>>
      /\ pc[a] = "tell" /\ pc' = [pc EXCEPT ![a] = "idle"]
  BY DEF Told, files, others, time, counters, QuantumGoes
<1>2. PICK s \in AgentState : s = state[a]
  BY AtWork
<1>3. state' = [state EXCEPT ![a] = s] /\ StateSound(s) /\ intent[a] = NoDep
  BY <1>1, <1>2, AtWork DEF AgentSound
<1>4. intent' = [intent EXCEPT ![a] = NoDep]
  BY <1>1, <1>3, AtWork
<1>5. OtherTypes'
  BY <1>1, AtWork DEF OtherTypes
<1>6. Lasting /\ "idle" \in Places
  BY <1>1, RecordsLast DEF Places
<1> QED BY <1>1, <1>3, <1>4, <1>5, <1>6, QuantumSaves

\* A step of another process leaves what the quanta are at, and may save a state
\* without a wait.
LEMMA OthersSave ==
  ASSUME WaitInv, Lasting, OtherTypes', UNCHANGED <<pc, intent>>,
         NEW a \in Agents, NEW s \in AgentState,
         state' = [state EXCEPT ![a] = s],
         s = state[a] \/ (s.status = "Idle" /\ s.waiting_on = NoDep),
         \A p \in Processes : announce'[p] = announce[p] \/ AnnouncementSound(p)',
         \A t \in Tasks : taskPc'[t] = "mail" => taskPc[t] = "mail" \/ task'[t] # "Running"
  PROVE  WaitInv'
<1>1. /\ state \in [Agents -> AgentState] /\ pc \in [Agents -> Places]
      /\ intent \in [Agents -> Dependency \cup {NoDep}]
      /\ \A b \in Agents : /\ StateSound(state[b])
                           /\ intent[b] # NoDep <=> pc[b] \in {"check", "park"}
  BY Types DEF WaitInv
<1>2. /\ state'[a] = s /\ state' \in [Agents -> AgentState]
      /\ \A b \in Agents : b # a => AgentStays(b)
  BY <1>1 DEF AgentStays
<1>3. StateSound(s)
  BY <1>1 DEF StateSound
<1>4. AgentSound(a) /\ (Ended(a) => Ended(a)')
  BY DEF WaitInv, Lasting
<1>5. AgentSound(a)'
  BY <1>2, <1>3, <1>4 DEF AgentSound, StateSound, Ended
<1>6. \A b \in Agents : /\ StateSound(state[b])'
                        /\ intent'[b] # NoDep <=> pc'[b] \in {"check", "park"}
  <2> SUFFICES ASSUME NEW b \in Agents
               PROVE  /\ StateSound(state[b])'
                      /\ intent'[b] # NoDep <=> pc'[b] \in {"check", "park"}
    OBVIOUS
  <2>1. CASE b = a
    BY <1>1, <1>2, <1>3, <2>1 DEF StateSound
  <2>2. CASE b # a
    BY <1>1, <1>2, <2>2 DEF StateSound, AgentStays
  <2> QED BY <2>1, <2>2
<1>7. TypeOK'
  BY <1>1, <1>2, <1>6 DEF TypeOK, OtherTypes, Places, StateSound
<1> QED BY <1>2, <1>5, <1>7, RestIsSound

\* ... or none at all.
LEMMA NothingSaved ==
  ASSUME WaitInv, Lasting, OtherTypes', UNCHANGED <<state, pc, intent>>,
         \A p \in Processes : announce'[p] = announce[p] \/ AnnouncementSound(p)',
         \A t \in Tasks : taskPc'[t] = "mail" => taskPc[t] = "mail" \/ task'[t] # "Running"
  PROVE  WaitInv'
<1>1. TypeOK'
  BY Types DEF WaitInv, TypeOK, OtherTypes, StateSound
<1>2. \A b \in Agents : AgentStays(b)
  BY DEF AgentStays
<1> QED BY <1>1, <1>2, RestIsSound

\* A background task exits ...
LEMMA TaskExitsInv ==
  ASSUME WaitInv, NEW t \in Tasks, TaskExits(t)
  PROVE  WaitInv'
<1>1. /\ UNCHANGED <<state, work, wake, pc, copy, intent, cancelled, victim, announce, timers,
                     expired, waits, interrupts, crashes>>
      /\ task' = [task EXCEPT ![t] = "Exited"]
      /\ taskPc' = [taskPc EXCEPT ![t] = "mail"]
  BY DEF TaskExits, TaskOnly, quanta, time, counters
<1>2. OtherTypes
  BY Types DEF WaitInv
<1>3. OtherTypes' /\ Lasting
  BY <1>1, <1>2 DEF OtherTypes, Lasting, Ended
<1>4. \A u \in Tasks : taskPc'[u] = "mail" => taskPc[u] = "mail" \/ task'[u] # "Running"
  BY <1>1, <1>2 DEF OtherTypes
<1> QED BY <1>1, <1>3, <1>4, NothingSaved

\* ... and mails its owner.
LEMMA MailOwnerInv ==
  ASSUME WaitInv, NEW t \in Tasks, MailOwner(t)
  PROVE  WaitInv'
<1>1. /\ UNCHANGED <<state, work, task, pc, copy, intent, cancelled, victim, timers,
                     expired, waits, interrupts, crashes>>
      /\ taskPc[t] = "mail"
      /\ announce' = [announce EXCEPT ![t] = Announces(<<<<"task", t>>>>)]
      /\ taskPc' = [taskPc EXCEPT ![t] = "done"]
  BY DEF MailOwner, TaskOnly, quanta, time, counters
<1>2. OtherTypes /\ task[t] # "Running"
  BY <1>1, Types DEF WaitInv
<1>3. /\ announce' \in [Processes -> Announcement]
      /\ \A p \in Processes : announce'[p] = announce[p] \/ AnnouncementSound(p)'
  <2>1. t \in Processes /\ TypeOK
    BY ConstantFacts DEF WaitInv
  <2>2. <<<<"task", t>>>> \in Seq(Targets)
    BY DEF Targets
  <2>3. \A i \in DOMAIN <<<<"task", t>>>> : Over(<<<<"task", t>>>>[i])'
    BY <1>1, <1>2 DEF Over
  <2> QED BY <1>1, <2>1, <2>2, <2>3, NewAnnouncement
<1>4. OtherTypes'
  <2>1. wake' \in [Agents -> BOOLEAN]
    BY <1>2 DEF MailOwner, Mailed, OtherTypes
  <2> QED BY <1>1, <1>2, <1>3, <2>1 DEF OtherTypes
<1>5. \A u \in Tasks : taskPc'[u] = "mail" => taskPc[u] = "mail"
  BY <1>1, <1>2 DEF OtherTypes
<1>6. Lasting
  BY <1>1, RecordsLast
<1> QED BY <1>1, <1>3, <1>4, <1>5, <1>6, NothingSaved

\* A client interrupts an agent: its state is saved, ...
LEMMA InterruptInv ==
  ASSUME WaitInv, NEW a \in Agents, Interrupt(a)
  PROVE  WaitInv'
<1>1. /\ UNCHANGED <<work, task, wake, pc, copy, intent, taskPc, announce, timers, expired,
                     waits, crashes>>
      /\ interrupts < MaxInterrupts /\ interrupts' = interrupts + 1
      /\ cancelled' = [cancelled EXCEPT ![a] = pc[a] = "run"]
      /\ state' = [state EXCEPT ![a] = [Resumed(state[a]) EXCEPT !.active = FALSE]]
      /\ victim' = a
  BY DEF Interrupt, time, SaveState
<1>2. PICK r \in AgentState : r = Resumed(state[a]) /\ r.status = "Idle" /\ r.waiting_on = NoDep
  BY AtWork, ResumedFacts
<1>3. PICK s \in AgentState :
        /\ s = [r EXCEPT !.active = FALSE] /\ s.status = "Idle" /\ s.waiting_on = NoDep
  BY <1>2, InactiveFacts
<1>4. OtherTypes'
  <2>1. interrupts' \in 0..MaxInterrupts
    BY <1>1, AtWork, ConstantFacts DEF OtherTypes
  <2>2. cancelled' \in [Agents -> BOOLEAN]
    BY <1>1, AtWork DEF OtherTypes
  <2> QED BY <1>1, <2>1, <2>2, AtWork DEF OtherTypes
<1>5. state' = [state EXCEPT ![a] = s] /\ Lasting
  BY <1>1, <1>2, <1>3, RecordsLast
<1> QED BY <1>1, <1>3, <1>4, <1>5, OthersSave

\* ... its work recorded as cancelled and announced.
LEMMA RecordCancelledInv ==
  ASSUME WaitInv, RecordCancelled
  PROVE  WaitInv'
<1>1. /\ UNCHANGED <<state, task, wake, pc, copy, intent, cancelled, taskPc, timers, expired,
                     waits, interrupts, crashes>>
      /\ victim # NoAgent /\ victim' = NoAgent
      /\ work' = [work EXCEPT ![victim] = "Cancelled"]
      /\ announce' = [announce EXCEPT ![Client] =
                        Announces(<<<<"agent", victim>>, <<"work", victim>>>>)]
  BY DEF RecordCancelled, quanta, time, counters
<1>2. OtherTypes
  BY Types DEF WaitInv
<1>3. PICK a \in Agents : a = victim
  BY <1>1, <1>2 DEF OtherTypes
<1>4. Lasting /\ Ended(a)'
  BY <1>1, <1>2, <1>3 DEF Lasting, Ended, OtherTypes
<1>5. /\ announce' \in [Processes -> Announcement]
      /\ \A p \in Processes : announce'[p] = announce[p] \/ AnnouncementSound(p)'
  <2>1. Client \in Processes /\ TypeOK
    BY ConstantFacts DEF WaitInv
  <2>2. announce' = [announce EXCEPT ![Client] = Announces(<<<<"agent", a>>, <<"work", a>>>>)]
    BY <1>1, <1>3
  <2> QED BY <1>4, <2>1, <2>2, OfItself, NewAnnouncement
<1>6. OtherTypes'
  BY <1>1, <1>2, <1>3, <1>5 DEF OtherTypes
<1> QED BY <1>1, <1>4, <1>5, <1>6, NothingSaved

\* Time passes ...
LEMMA ExpireInv ==
  ASSUME WaitInv, Expire
  PROVE  WaitInv'
<1>1. UNCHANGED <<state, work, task, wake, pc, copy, intent, cancelled, taskPc, victim, announce,
                  timers, waits, interrupts, crashes>>
  BY DEF Expire, files, quanta, others, counters
<1>2. OtherTypes
  BY Types DEF WaitInv
<1>3. expired' \subseteq 1..MaxWaits
  <2>1. PICK n \in 1..waits \ expired : expired' = expired \cup {n}
    BY DEF Expire
  <2>2. n \in 1..MaxWaits
    BY <1>2, <2>1, ConstantFacts DEF OtherTypes
  <2> QED BY <1>2, <2>1, <2>2 DEF OtherTypes
<1>4. OtherTypes' /\ Lasting
  BY <1>1, <1>2, <1>3, RecordsLast DEF OtherTypes
<1> QED BY <1>1, <1>4, NothingSaved

\* ... and a timeout ends the wait it was set for.
LEMMA TimeoutInv ==
  ASSUME WaitInv, Timeout
  PROVE  WaitInv'
<1>1. /\ UNCHANGED <<work, task, pc, copy, intent, cancelled, taskPc, victim, announce, expired,
                     waits, interrupts, crashes>>
      /\ Lasting /\ OtherTypes
  BY RecordsLast, Types DEF Timeout, quanta, others, counters, WaitInv
<1>2. PICK r \in timers :
        /\ timers' = timers \ {r}
        /\ IF state[r.agent].waiting_on = r.dep
           THEN /\ SaveState(r.agent, Resumed(state[r.agent]))
                /\ wake' = [wake EXCEPT ![r.agent] = TRUE]
           ELSE UNCHANGED <<state, wake>>
  BY DEF Timeout
<1>3. PICK a \in Agents : a = r.agent
  BY <1>1, <1>2 DEF OtherTypes
<1>4. OtherTypes'
  BY <1>1, <1>2, <1>3 DEF OtherTypes
<1>5. CASE UNCHANGED state
  BY <1>1, <1>4, <1>5, NothingSaved
<1>6. CASE SaveState(r.agent, Resumed(state[r.agent]))
  <2>1. PICK s \in AgentState : s = Resumed(state[a]) /\ s.status = "Idle" /\ s.waiting_on = NoDep
    BY AtWork, ResumedFacts
  <2>2. state' = [state EXCEPT ![a] = s]
    BY <1>3, <1>6, <2>1 DEF SaveState
  <2> QED BY <1>1, <1>4, <2>1, <2>2, OthersSave
<1> QED BY <1>2, <1>5, <1>6

\* The process dies; an agent goes on, idle, or is parked as it was.
LEMMA CrashInv ==
  ASSUME WaitInv, Crash
  PROVE  WaitInv'
<1>1. /\ UNCHANGED <<work, expired, waits, interrupts>>
      /\ crashes < MaxCrashes /\ crashes' = crashes + 1
      /\ task' = [t \in Tasks |-> IF task[t] = "Running" THEN "Failed" ELSE task[t]]
      /\ pc' = [a \in Agents |-> "idle"] /\ copy' = [a \in Agents |-> Started]
      /\ intent' = [a \in Agents |-> NoDep] /\ cancelled' = [a \in Agents |-> FALSE]
      /\ taskPc' = [t \in Tasks |-> "done"] /\ victim' = NoAgent
      /\ announce' = [p \in Processes |-> Silent]
  BY DEF Crash
<1>2. OtherTypes /\ \A a \in Agents : state[a] \in AgentState /\ StateSound(state[a])
  BY Types DEF WaitInv
<1>3. PICK goesOn \in [Agents -> BOOLEAN] :
        /\ state' = [a \in Agents |-> IF goesOn[a] THEN Resumed(state[a]) ELSE state[a]]
        /\ wake' = [a \in Agents |-> goesOn[a]]
        /\ timers' \subseteq {r \in [agent : Agents, dep : {state[a].waiting_on : a \in Agents}] :
                                r.dep.timer # 0}
  <2> DEFINE Goes(later, a) ==
        LET d == state[a].waiting_on IN
        IF state[a].status # "WaitingDependency" THEN state[a].active
        ELSE \/ Satisfied(d)
             \/ d.on[1] = "task"
             \/ /\ d.on[1] = "agent" /\ a \in later
                /\ state[d.on[2]].status = "Running" /\ state[d.on[2]].active
  <2>1. PICK later \in SUBSET Agents :
          /\ state' = [a \in Agents |-> IF Goes(later, a) THEN Resumed(state[a]) ELSE state[a]]
          /\ wake' = [a \in Agents |-> Goes(later, a)]
          /\ timers' = {r \in [agent : Agents, dep : {state[a].waiting_on : a \in Agents}] :
                          /\ r.dep = state[r.agent].waiting_on
                          /\ r.dep.timer # 0 /\ ~Goes(later, r.agent)}
    BY DEF Crash
  <2>2. \A a \in Agents : Goes(later, a) \in BOOLEAN
    <3> SUFFICES ASSUME NEW a \in Agents PROVE Goes(later, a) \in BOOLEAN
      OBVIOUS
    <3>1. state[a].active \in BOOLEAN
      BY <1>2 DEF AgentState
    <3>2. CASE state[a].status # "WaitingDependency"
      BY <3>1, <3>2
    <3>3. CASE state[a].status = "WaitingDependency"
      BY <3>3 DEF Satisfied
    <3> QED BY <3>2, <3>3
  <2> HIDE DEF Goes
  <2>3. PICK g : g = [a \in Agents |-> Goes(later, a)]
    OBVIOUS
  <2>4. g \in [Agents -> BOOLEAN] /\ \A a \in Agents : g[a] = Goes(later, a)
    BY <2>2, <2>3
  <2>5. state' = [a \in Agents |-> IF g[a] THEN Resumed(state[a]) ELSE state[a]]
    BY <2>1, <2>4
  <2>6. wake' = [a \in Agents |-> g[a]]
    BY <2>1, <2>4
  <2> QED BY <2>1, <2>4, <2>5, <2>6, SMTT(30)
<1>4. \A a \in Agents : state'[a] \in AgentState /\ StateSound(state'[a])
  BY <1>3, <1>2, ResumedFacts
<1>5. timers' \subseteq [agent : Agents, dep : Dependency]
  <2>1. \A a \in Agents : state[a].waiting_on \in Dependency \cup {NoDep}
    BY <1>2, ResumedFacts
  <2>2. NoDep.timer = 0
    BY DEF NoDep
  <2> QED BY <1>3, <2>1, <2>2
<1>6. OtherTypes'
  <2>1. crashes' \in 0..MaxCrashes
    BY <1>1, <1>2, ConstantFacts DEF OtherTypes
  <2>2. task' \in [Tasks -> {"Running", "Exited", "Failed"}]
    BY <1>1, <1>2 DEF OtherTypes
  <2>3. wake' \in [Agents -> BOOLEAN]
    BY <1>3
  <2> QED BY <1>1, <1>2, <1>5, <2>1, <2>2, <2>3, ConstantFacts DEF OtherTypes
<1>7. TypeOK'
  <2>1. state' \in [Agents -> AgentState]
    BY <1>3, <1>4
  <2>2. pc' \in [Agents -> Places] /\ intent' \in [Agents -> Dependency \cup {NoDep}]
    BY <1>1 DEF Places
  <2>3. \A a \in Agents : /\ StateSound(state[a])'
                          /\ intent'[a] # NoDep <=> pc'[a] \in {"check", "park"}
    BY <1>1, <1>4 DEF StateSound
  <2> QED BY <1>6, <2>1, <2>2, <2>3 DEF TypeOK, OtherTypes, Places, StateSound
<1>8. \A a \in Agents : AgentSound(a)'
  BY <1>1, <1>4 DEF AgentSound, StateSound
<1>9. \A p \in Processes : AnnouncementSound(p)'
  BY <1>1 DEF AnnouncementSound, Silent
<1>10. \A t \in Tasks : taskPc'[t] # "mail"
  BY <1>1
<1> QED BY <1>7, <1>8, <1>9, <1>10 DEF WaitInv

\* The first states.
LEMMA InitInv == Init => WaitInv
<1> SUFFICES ASSUME Init PROVE WaitInv
  OBVIOUS
<1>1. OtherTypes
  BY ConstantFacts DEF Init, OtherTypes
<1>2. /\ state \in [Agents -> AgentState] /\ pc \in [Agents -> Places]
      /\ intent \in [Agents -> Dependency \cup {NoDep}]
      /\ \A a \in Agents : /\ StateSound(state[a])
                           /\ intent[a] # NoDep <=> pc[a] \in {"check", "park"}
  BY ConstantFacts DEF Init, Places
<1>3. TypeOK
  BY <1>1, <1>2, Types
<1>4. \A a \in Agents : AgentSound(a)
  BY <1>2 DEF Init, AgentSound
<1>5. \A p \in Processes : AnnouncementSound(p)
  BY DEF Init, AnnouncementSound, Silent
<1>6. \A t \in Tasks : taskPc[t] # "mail"
  BY DEF Init
<1> QED BY <1>3, <1>4, <1>5, <1>6 DEF WaitInv

\* Every step of an agent.
LEMMA QuantumStepInv ==
  ASSUME WaitInv, NEW a \in Agents, QuantumStep(a)
  PROVE  WaitInv'
<1>1. a \in Processes
  BY ConstantFacts
<1>2. CASE Begin(a)
  BY <1>2, BeginInv
<1>3. CASE Continue(a)
  BY <1>3, ContinueInv
<1>4. CASE Cancelled(a)
  BY <1>4, CancelledInv
<1>5. CASE Wait(a)
  BY <1>5, WaitInvariant
<1>6. CASE Check(a)
  BY <1>6, CheckInv
<1>7. CASE Park(a)
  BY <1>7, ParkInv
<1>8. CASE Finish(a)
  BY <1>8, FinishInv
<1>9. CASE Record(a)
  BY <1>9, RecordInv
<1>10. CASE Report(a)
  BY <1>10, ReportInv
<1>11. CASE Told(a)
  BY <1>11, ToldInv
<1>12. CASE ListWaiters(a)
  BY <1>1, <1>12, ListWaitersInv
<1>13. CASE WakeWaiter(a)
  BY <1>1, <1>13, WakeWaiterInv
<1> QED BY <1>2, <1>3, <1>4, <1>5, <1>6, <1>7, <1>8, <1>9, <1>10, <1>11, <1>12, <1>13
        DEF QuantumStep, AnnounceStep

\* WaitInv is inductive.
LEMMA WaitInductive == WaitInv /\ [Next]_vars => WaitInv'
<1> SUFFICES ASSUME WaitInv, [Next]_vars PROVE WaitInv'
  OBVIOUS
<1>1. ASSUME NEW a \in Agents, QuantumStep(a) PROVE WaitInv'
  BY <1>1, QuantumStepInv
<1>2. ASSUME NEW a \in Agents, Interrupt(a) PROVE WaitInv'
  BY <1>2, InterruptInv
<1>3. ASSUME NEW t \in Tasks, TaskExits(t) PROVE WaitInv'
  BY <1>3, TaskExitsInv
<1>4. ASSUME NEW t \in Tasks, TaskStep(t) PROVE WaitInv'
  <2>1. t \in Processes
    BY ConstantFacts
  <2>2. CASE MailOwner(t)
    BY <2>2, MailOwnerInv
  <2>3. CASE ListWaiters(t) \/ WakeWaiter(t)
    BY <2>1, <2>3, ListWaitersInv, WakeWaiterInv
  <2> QED BY <1>4, <2>2, <2>3 DEF TaskStep, AnnounceStep
<1>5. CASE ClientStep
  <2>1. CASE RecordCancelled
    BY <2>1, RecordCancelledInv
  <2>2. CASE ListWaiters(Client) \/ WakeWaiter(Client)
    BY <2>2, ConstantFacts, ListWaitersInv, WakeWaiterInv
  <2> QED BY <1>5, <2>1, <2>2 DEF ClientStep, AnnounceStep
<1>6. CASE Expire
  BY <1>6, ExpireInv
<1>7. CASE Timeout
  BY <1>7, TimeoutInv
<1>8. CASE Crash
  BY <1>8, CrashInv
<1>9. CASE UNCHANGED vars
  <2>1. UNCHANGED <<state, work, task, wake, pc, copy, intent, cancelled, taskPc, victim, announce,
                    timers, expired, waits, interrupts, crashes>>
    BY <1>9 DEF vars, files, quanta, others, time, counters
  <2>2. OtherTypes' /\ Lasting
    BY <2>1, Types, RecordsLast DEF WaitInv, OtherTypes
  <2> QED BY <2>1, <2>2, NothingSaved
<1> QED BY <1>1, <1>2, <1>3, <1>4, <1>5, <1>6, <1>7, <1>8, <1>9 DEF Next

LEMMA WaitInvariance == Spec => []WaitInv
BY InitInv, WaitInductive, PTL DEF Spec

\* Whatever quanta, threads of tasks, announcements, timeouts, interrupts and
\* restarts do to the files of the agents in whatever order, every variable has
\* its type, and an agent is on disk as waiting exactly when waiting_on says for
\* what.
THEOREM WaitsAreTyped == Spec => []TypeOK
BY WaitInvariance, PTL DEF WaitInv
-----------------------------------------------------------------------------
\* What may end the wait d of agent a.
Ends(a, d) ==
  \/ Reached(d.on) \/ d.timer \in expired
  \/ ~state'[a].active \/ crashes' # crashes
  \/ Misled(a) \/ IdleAnnounced(d.on)

\* Nobody is woken by an announcement but who waits for what is announced, and
\* an announcement of the end of a work or a task is true.
LEMMA WakeWaiterEnds ==
  ASSUME WaitInv, NEW p \in Processes, WakeWaiter(p), NEW a \in Agents,
         state[a].waiting_on # NoDep, state'[a].waiting_on # state[a].waiting_on
  PROVE  Ends(a, state[a].waiting_on)
<1>1. PICK w \in announce[p].left : state' = [state EXCEPT ![w.agent] = Resumed(w.state)]
  BY DEF WakeWaiter
<1>2. announce[p].listed /\ w.agent = a
  BY <1>1 DEF WakeWaiter, WaitInv, TypeOK
<1>3. CASE w.state.waiting_on # state[a].waiting_on
  BY <1>2, <1>3 DEF Ends, Misled
<1>4. CASE w.state.waiting_on = state[a].waiting_on
  <2>1. announce[p].todo \in Seq(Targets) /\ announce[p].todo # <<>>
    BY <1>2 DEF WaitInv, TypeOK, Announcement, AnnouncementSound
  <2>2. PICK on \in Targets : on = Head(announce[p].todo) /\ on = announce[p].todo[1]
    BY <2>1
  <2>3. state[a].waiting_on.on = on
    BY <1>2, <1>4, <2>2 DEF WaitInv, AnnouncementSound
  <2>4. Over(on)
    BY <2>1, <2>2 DEF WaitInv, AnnouncementSound
  <2>5. CASE on[1] = "agent"
    BY <1>2, <2>2, <2>3, <2>5 DEF Ends, IdleAnnounced
  <2>6. CASE on[1] # "agent"
    <3>1. on[1] \in {"work", "task"}
      BY <2>6 DEF Targets
    <3> QED BY <2>3, <2>4, <3>1 DEF Ends, Reached, Over
  <2> QED BY <2>5, <2>6
<1> QED BY <1>3, <1>4

\* The quantum of an agent ends no wait but its own, and only when it begins.
LEMMA QuantumEnds ==
  ASSUME WaitInv, NEW b \in Agents, QuantumStep(b), NEW a \in Agents,
         state[a].waiting_on # NoDep, state'[a].waiting_on # state[a].waiting_on
  PROVE  Ends(a, state[a].waiting_on)
<1>1. state \in [Agents -> AgentState] /\ AgentSound(a) /\ pc[a] = "idle" /\ intent[a] = NoDep
  BY DEF WaitInv, TypeOK, AgentSound
<1>2. state'[a] # state[a]
  OBVIOUS
<1>3. CASE WakeWaiter(b)
  BY <1>3, ConstantFacts, WakeWaiterEnds
<1>4. CASE Begin(b)
  <2>1. a = b
    BY <1>1, <1>2, <1>4 DEF Begin, SaveState
  <2>2. CASE state[b].status = "WaitingDependency" /\ Satisfied(state[b].waiting_on)
    BY <2>1, <2>2 DEF Satisfied, Ends
  <2>3. CASE ~(state[b].status = "WaitingDependency" /\ Satisfied(state[b].waiting_on))
    BY <1>1, <1>2, <1>4, <2>1, <2>3 DEF Begin, AgentSound, StateSound
  <2> QED BY <2>2, <2>3
<1>5. CASE \/ Continue(b) \/ Cancelled(b) \/ Check(b) \/ Park(b) \/ Finish(b)
  <2>1. pc[b] # "idle"
    BY <1>5 DEF Continue, Cancelled, Check, Park, Finish
  <2>2. state'[a] = state[a]
    BY <1>1, <1>5, <2>1 DEF Continue, Cancelled, Check, Park, Finish, SaveState
  <2> QED BY <1>2, <2>2
<1>6. CASE \/ Wait(b) \/ Record(b) \/ Report(b) \/ Told(b) \/ ListWaiters(b)
  BY <1>2, <1>6 DEF Wait, Record, Report, Told, ListWaiters, files
<1> QED BY <1>3, <1>4, <1>5, <1>6 DEF QuantumStep, AnnounceStep

\* What the other processes do.
LEMMA OthersEnd ==
  ASSUME WaitInv, Next, NEW a \in Agents,
         state[a].waiting_on # NoDep, state'[a].waiting_on # state[a].waiting_on
  PROVE  Ends(a, state[a].waiting_on)
<1>1. /\ state \in [Agents -> AgentState] /\ state[a] \in AgentState /\ state'[a] # state[a]
      /\ timers \subseteq [agent : Agents, dep : Dependency] /\ crashes \in Nat
  BY DEF WaitInv, TypeOK
<1>2. ASSUME NEW b \in Agents, QuantumStep(b) PROVE Ends(a, state[a].waiting_on)
  BY <1>2, QuantumEnds
<1>3. ASSUME NEW b \in Agents, Interrupt(b) PROVE Ends(a, state[a].waiting_on)
  <2>1. state' = [state EXCEPT ![b] = [Resumed(state[b]) EXCEPT !.active = FALSE]]
    BY <1>3 DEF Interrupt, SaveState
  <2>2. a = b
    BY <1>1, <2>1
  <2>3. PICK r \in AgentState : r = Resumed(state[a])
    BY <1>1, ResumedFacts
  <2>4. state'[a].active = FALSE
    BY <1>1, <2>1, <2>2, <2>3, InactiveFacts
  <2> QED BY <2>4 DEF Ends
<1>4. ASSUME NEW t \in Tasks, TaskExits(t) \/ TaskStep(t) PROVE Ends(a, state[a].waiting_on)
  <2>1. CASE TaskExits(t) \/ MailOwner(t) \/ ListWaiters(t)
    BY <1>1, <2>1 DEF TaskExits, MailOwner, ListWaiters, TaskOnly, files
  <2>2. CASE WakeWaiter(t)
    BY <2>2, ConstantFacts, WakeWaiterEnds
  <2> QED BY <1>4, <2>1, <2>2 DEF TaskStep, AnnounceStep
<1>5. CASE ClientStep
  <2>1. CASE RecordCancelled \/ ListWaiters(Client)
    BY <1>1, <2>1 DEF RecordCancelled, ListWaiters, files
  <2>2. CASE WakeWaiter(Client)
    BY <2>2, ConstantFacts, WakeWaiterEnds
  <2> QED BY <1>5, <2>1, <2>2 DEF ClientStep, AnnounceStep
<1>6. CASE Expire
  BY <1>1, <1>6 DEF Expire, files
<1>7. CASE Timeout
  <2>1. PICK r \in timers :
          /\ r.dep.timer \in expired
          /\ IF state[r.agent].waiting_on = r.dep
             THEN SaveState(r.agent, Resumed(state[r.agent])) ELSE UNCHANGED state
    BY <1>7 DEF Timeout
  <2>2. r.agent = a /\ state[a].waiting_on = r.dep
    BY <1>1, <2>1 DEF SaveState
  <2> QED BY <2>1, <2>2 DEF Ends
<1>8. CASE Crash
  <2>1. crashes' = crashes + 1
    BY <1>8 DEF Crash
  <2>2. crashes' # crashes
    BY <1>1, <2>1
  <2> QED BY <2>2, SMTT(30) DEF Ends
<1> QED BY <1>2, <1>3, <1>4, <1>5, <1>6, <1>7, <1>8 DEF Next

\* Whoever parked with whatever dependency: its wait goes on until what it waits
\* for is so, its timeout has passed, it is interrupted or the process restarts;
\* or until an announcement ends it that is out of date, because the agent has
\* parked again since it was listed, or because the announced agent is no more
\* idle.  An announcement never wakes anybody too early for the end of a work or
\* a task.
THEOREM WaitsEndForAReason == Spec => OnlySatisfactionEndsWait
<1>1. WaitInv /\ [Next]_vars =>
        [\A a \in Agents :
           LET d == state[a].waiting_on IN
           d # NoDep /\ state'[a].waiting_on # d
             => \/ Reached(d.on) \/ d.timer \in expired
                \/ ~state'[a].active \/ crashes' # crashes
                \/ Misled(a) \/ IdleAnnounced(d.on)]_vars
  BY OthersEnd DEF Ends
<1> QED BY <1>1, WaitInvariance, PTL DEF Spec, OnlySatisfactionEndsWait
=============================================================================
