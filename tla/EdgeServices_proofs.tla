------------------------- MODULE EdgeServices_proofs ------------------------
(***************************************************************************)
(* Proofs about the edges of the system: the web page, the files of the    *)
(* sessions, the sandbox with its browser and its shells, the questions to *)
(* the knowledge bases, and the documents that are split for them.         *)
(***************************************************************************)
EXTENDS EdgeServices, ProofLemmas, Sequences, SequenceTheorems

-----------------------------------------------------------------------------
(* Workbench.  The active stream is one that has not settled.              *)
PageInv ==
  /\ Web!TypeOK
  /\ Web!PageIsCoherent
  /\ active # None => stream[active] # None

(* Aborting the active stream leaves every stream where it is.             *)
LEMMA AbortedStreams ==
  ASSUME PageInv
  PROVE  /\ Web!Aborted \in [Streams -> [session : Pages, phase : Web!Phases, aborted : BOOLEAN]
                                         \cup {None}]
         /\ \A k \in Streams :
              /\ Web!Aborted[k] = None <=> stream[k] = None
              /\ stream[k] # None => /\ Web!Aborted[k].session = stream[k].session
                                     /\ Web!Aborted[k].aborted = TRUE
<1>1. ASSUME NEW k \in Streams, stream[k] # None
      PROVE  /\ Web!Aborted[k] \in [session : Pages, phase : Web!Phases, aborted : BOOLEAN]
             /\ Web!Aborted[k].session = stream[k].session
             /\ Web!Aborted[k].aborted = TRUE
  <2>1. stream[k] \in [session : Pages, phase : Web!Phases, aborted : BOOLEAN]
    BY <1>1 DEF PageInv, Web!TypeOK
  <2>2. k # active => stream[k].aborted
    BY <1>1 DEF PageInv, Web!PageIsCoherent
  <2> QED
    BY <2>1, <2>2 DEF Web!Aborted
<1>2. ASSUME NEW k \in Streams, stream[k] = None PROVE Web!Aborted[k] = None
  BY <1>2, EdgeAssumption DEF PageInv, Web!Aborted
<1>3. /\ Web!Aborted = [k \in Streams |-> Web!Aborted[k]]
      /\ DOMAIN Web!Aborted = Streams
  BY DEF Web!Aborted
<1>4. None \notin [session : Pages, phase : Web!Phases, aborted : BOOLEAN]
  BY EdgeAssumption
<1>5. \A k \in Streams :
        Web!Aborted[k] \in [session : Pages, phase : Web!Phases, aborted : BOOLEAN] \cup {None}
  BY <1>1, <1>2
<1>6. Web!Aborted \in [Streams -> [session : Pages, phase : Web!Phases, aborted : BOOLEAN]
                                    \cup {None}]
  BY <1>3, <1>5
<1> QED
  BY <1>1, <1>2, <1>4, <1>6

(* What the user does.                                                     *)
LEMMA UserStep ==
  ASSUME PageInv,
         \/ \E s \in Pages \cup {None}, created \in BOOLEAN : Web!SelectSession(s, created)
         \/ Web!AskSessions
         \/ Web!StopSession
         \/ \E k \in Streams : Web!SendMessage(k)
  PROVE  PageInv'
<1>1. /\ Web!TypeOK /\ Web!PageIsCoherent
      /\ active # None => stream[active] # None
      /\ None \notin Streams
  BY EdgeAssumption DEF PageInv
<1>2. ASSUME NEW s \in Pages \cup {None}, NEW created \in BOOLEAN, Web!SelectSession(s, created)
      PROVE  PageInv'
  <2>1. Web!TypeOK'
    BY <1>1, <1>2, AbortedStreams DEF Web!SelectSession, Web!TypeOK, Web!Effect
  <2>2. Web!PageIsCoherent' /\ active' = None
    BY <1>1, <1>2, AbortedStreams DEF Web!SelectSession, Web!PageIsCoherent
  <2> QED
    BY <2>1, <2>2 DEF PageInv
<1>3. CASE Web!AskSessions
  BY <1>1, <1>3 DEF Web!AskSessions, Web!TypeOK, Web!PageIsCoherent, PageInv
<1>4. CASE Web!StopSession
  <2>1. Web!TypeOK'
    BY <1>1, <1>4, AbortedStreams DEF Web!StopSession, Web!TypeOK
  <2>2. Web!PageIsCoherent' /\ active' = None
    BY <1>1, <1>4, AbortedStreams DEF Web!StopSession, Web!PageIsCoherent
  <2> QED
    BY <2>1, <2>2 DEF PageInv
<1>5. ASSUME NEW k \in Streams, Web!SendMessage(k) PROVE PageInv'
  <2> DEFINE new == [session |-> selected, phase |-> "open", aborted |-> FALSE]
  <2>1. selected \in Pages /\ "open" \in Web!Phases /\ FALSE \in BOOLEAN
    BY <1>1, <1>5 DEF Web!SendMessage, Web!TypeOK, Web!Phases
  <2>2. /\ new \in [session : Pages, phase : Web!Phases, aborted : BOOLEAN]
        /\ new.session = selected /\ new # None
    <3>1. new \in [session : Pages, phase : Web!Phases, aborted : BOOLEAN]
      BY <2>1
    <3>2. new # None
      BY <3>1, EdgeAssumption
    <3> QED
      BY <3>1, <3>2
  <2>3. /\ stream' = [Web!Aborted EXCEPT ![k] = new] /\ stream[k] = None
        /\ active' = k /\ sending' = TRUE
        /\ UNCHANGED <<selected, shown, live, loads, asked, moved>>
    BY <1>5 DEF Web!SendMessage
  <2> HIDE DEF new
  <2>4. /\ stream'[k] = new
        /\ \A j \in Streams \ {k} : stream'[j] = Web!Aborted[j]
    BY <2>3, AbortedStreams
  <2>5. Web!TypeOK'
    BY <1>1, <2>1, <2>2, <2>3, AbortedStreams DEF Web!TypeOK
  <2>6. Web!PageIsCoherent'
    <3>1. (shown \subseteq {selected} \/ selected = None)'
      BY <1>1, <2>3 DEF Web!PageIsCoherent
    <3>2. \A j \in Streams : stream'[j] # None /\ ~stream'[j].aborted => j = active'
      BY <2>3, <2>4, AbortedStreams
    <3>3. active' # None /\ stream'[active'].session = selected'
      BY <1>1, <2>2, <2>3, <2>4
    <3>4. ASSUME ~moved', live' # None
          PROVE  live' = selected' /\ \E j \in Streams : stream'[j] # None /\ stream'[j].session = live'
      BY <1>1, <2>2, <2>3, <2>4, <3>4 DEF Web!PageIsCoherent
    <3> QED
      BY <3>1, <3>2, <3>3, <3>4 DEF Web!PageIsCoherent
  <2> QED
    BY <2>2, <2>3, <2>4, <2>5, <2>6 DEF PageInv
<1> QED
  BY <1>2, <1>3, <1>4, <1>5

(* What an answer about the sessions does, whichever is selected by then.  *)
LEMMA AnswerStep ==
  ASSUME PageInv,
         \/ \E listed \in SUBSET Pages : Web!RefreshSessions(listed)
         \/ \E s \in Pages : Web!LoadSessionDetail(s)
  PROVE  PageInv'
<1>1. /\ Web!TypeOK /\ Web!PageIsCoherent
      /\ active # None => stream[active] # None
  BY DEF PageInv
<1>2. ASSUME NEW S \in SUBSET Pages, Web!RefreshSessions(S) PROVE PageInv'
  <2>1. selected' \in Pages \cup {None} /\ UNCHANGED <<live, sending, stream, active>>
    BY <1>1, <1>2 DEF Web!RefreshSessions, Web!TypeOK
  <2>2. /\ asked' \in BOOLEAN
        /\ loads' = IF selected' \notin {selected, None} THEN loads \cup {selected'} ELSE loads
        /\ shown' = IF selected' \in {selected, None} THEN shown ELSE {}
        /\ moved' = (moved \/ (selected' # selected /\ (sending \/ live # None)))
    BY <1>2 DEF Web!RefreshSessions, Web!Effect
  <2>3. Web!TypeOK'
    BY <1>1, <2>1, <2>2 DEF Web!TypeOK
  <2>4. Web!PageIsCoherent'
    BY <1>1, <2>1, <2>2 DEF Web!PageIsCoherent
  <2> QED
    BY <1>1, <2>1, <2>3, <2>4 DEF PageInv
<1>3. ASSUME NEW s \in Pages, Web!LoadSessionDetail(s) PROVE PageInv'
  BY <1>1, <1>3 DEF Web!LoadSessionDetail, Web!TypeOK, Web!PageIsCoherent, PageInv
<1> QED
  BY <1>2, <1>3

(* What a stream does from its first event to its settling.                *)
LEMMA StreamStep ==
  ASSUME PageInv, NEW k \in Streams,
         Web!Receive(k) \/ Web!Present(k) \/ Web!EndStream(k) \/ Web!Settle(k)
  PROVE  PageInv'
<1> DEFINE Stream == [session : Pages, phase : Web!Phases, aborted : BOOLEAN]
<1>1. /\ Web!TypeOK /\ Web!PageIsCoherent
      /\ active # None => stream[active] # None
      /\ None \notin Stream /\ None \notin Pages /\ None \notin Streams
  BY EdgeAssumption DEF PageInv
<1>2. stream[k] \in Stream
  BY <1>1 DEF Web!TypeOK, Web!Receive, Web!Present, Web!EndStream, Web!Settle
<1>3. ASSUME NEW phase2 \in Web!Phases, stream' = [stream EXCEPT ![k].phase = phase2],
             UNCHANGED active
      PROVE  /\ stream' \in [Streams -> Stream \cup {None}]
             /\ \A j \in Streams : /\ stream'[j] = None <=> stream[j] = None
                                   /\ stream[j] # None =>
                                        /\ stream'[j].session = stream[j].session
                                        /\ stream'[j].aborted = stream[j].aborted
             /\ active' # None => stream'[active'] # None
  <2> DEFINE new == [stream[k] EXCEPT !.phase = phase2]
  <2>1. new \in Stream /\ new.session = stream[k].session /\ new.aborted = stream[k].aborted
    BY <1>2
  <2>2. stream' = [stream EXCEPT ![k] = new]
    BY <1>3
  <2> HIDE DEF new
  <2> QED
    BY <1>1, <1>2, <1>3, <2>1, <2>2 DEF Web!TypeOK
<1>4. "open" \in Web!Phases /\ "delayed" \in Web!Phases /\ "after" \in Web!Phases
  BY DEF Web!Phases
<1>5. CASE Web!Receive(k)
  <2>1. /\ stream' = [stream EXCEPT ![k].phase = "delayed"]
        /\ UNCHANGED <<selected, shown, live, sending, loads, asked, active, moved>>
    BY <1>5 DEF Web!Receive
  <2> QED
    BY <1>1, <1>3, <1>4, <2>1 DEF Web!TypeOK, Web!PageIsCoherent, PageInv
<1>6. CASE Web!Present(k)
  <2>1. /\ stream' = [stream EXCEPT ![k].phase = "open"]
        /\ UNCHANGED <<selected, sending, loads, asked, active, moved>>
    BY <1>6 DEF Web!Present
  <2>2. CASE Web!Heard(k)
    <3>1. selected = stream[k].session /\ selected \in Pages
      BY <1>2, <2>2 DEF Web!Heard
    <3>2. \/ live' = selected /\ shown' = shown
          \/ shown' = shown \cup {selected} /\ live' \in {live, None}
      BY <1>6, <2>2 DEF Web!Present
    <3>5. stream' \in [Streams -> Stream \cup {None}]
      BY <1>3, <1>4, <2>1
    <3>3. Web!TypeOK'
      BY <1>1, <2>1, <3>1, <3>2, <3>5 DEF Web!TypeOK
    <3>4. Web!PageIsCoherent'
      BY <1>1, <1>2, <1>3, <1>4, <2>1, <3>1, <3>2 DEF Web!PageIsCoherent, Web!TypeOK
    <3> QED
      BY <1>3, <1>4, <2>1, <3>3, <3>4 DEF PageInv
  <2>3. CASE ~Web!Heard(k)
    <3>1. UNCHANGED <<shown, live>>
      BY <1>6, <2>3 DEF Web!Present
    <3> QED
      BY <1>1, <1>3, <1>4, <2>1, <3>1 DEF Web!TypeOK, Web!PageIsCoherent, PageInv
  <2> QED
    BY <2>2, <2>3
<1>7. CASE Web!EndStream(k)
  <2>1. /\ stream' = [stream EXCEPT ![k].phase = "after"]
        /\ loads' = loads \cup {selected} /\ asked' = TRUE /\ selected \in Pages
        /\ UNCHANGED <<selected, shown, live, sending, active, moved>>
    BY <1>2, <1>7 DEF Web!EndStream
  <2> QED
    BY <1>1, <1>3, <1>4, <2>1 DEF Web!TypeOK, Web!PageIsCoherent, PageInv
<1>8. CASE Web!Settle(k)
  <2>1. /\ stream' = [stream EXCEPT ![k] = None]
        /\ active' = IF active = k THEN None ELSE active
        /\ IF selected = stream[k].session THEN sending' = FALSE /\ live' = None
           ELSE UNCHANGED <<sending, live>>
        /\ UNCHANGED <<selected, shown, loads, asked, moved>>
    BY <1>8 DEF Web!Settle, Web!Release
  <2>2. stream'[k] = None /\ \A j \in Streams \ {k} : stream'[j] = stream[j]
    BY <1>1, <2>1 DEF Web!TypeOK
  <2>3. Web!TypeOK'
    BY <1>1, <2>1 DEF Web!TypeOK
  <2>4. Web!PageIsCoherent'
    <3>1. (shown \subseteq {selected} \/ selected = None)'
      BY <1>1, <2>1 DEF Web!PageIsCoherent
    <3>2. \A j \in Streams : stream'[j] # None /\ ~stream'[j].aborted => j = active'
      BY <1>1, <2>1, <2>2 DEF Web!PageIsCoherent
    <3>3. ASSUME ~moved', sending' PROVE active' # None /\ stream'[active'].session = selected'
      BY <1>1, <2>1, <2>2, <3>3 DEF Web!PageIsCoherent, Web!TypeOK
    <3>4. ASSUME ~moved', live' # None
          PROVE  live' = selected' /\ \E j \in Streams : stream'[j] # None /\ stream'[j].session = live'
      BY <1>1, <2>1, <2>2, <3>4 DEF Web!PageIsCoherent, Web!TypeOK
    <3> QED
      BY <3>1, <3>2, <3>3, <3>4 DEF Web!PageIsCoherent
  <2>5. active' # None => stream'[active'] # None
    BY <1>1, <2>1, <2>2 DEF Web!TypeOK
  <2> QED
    BY <2>3, <2>4, <2>5 DEF PageInv
<1> QED
  BY <1>5, <1>6, <1>7, <1>8

(* Every step of the page keeps the invariant.                             *)
LEMMA PageNext == ASSUME PageInv, Web!Next PROVE PageInv'
BY UserStep, AnswerStep, StreamStep DEF Web!Next
-----------------------------------------------------------------------------
(* Cards.  What the log says of a plan begins with the plan itself; a run  *)
(* answers when its step is completed, or one of another plan that failed  *)
(* was; and a direct answer names no plan.                                 *)
CreatedBefore(i, p) ==
  \E c \in DOMAIN events : c < i /\ events[c].type = "plan_created" /\ events[c].plan = p

WorkedBefore(i, p) ==
  \E j \in DOMAIN events : j < i /\ events[j].type = "step_completed" /\ events[j].plan = p

OtherWorked(p) == \E j \in Card!Failed : events[j].done /\ events[j].plan # p

EntrySound(i) ==
  LET e == events[i] IN
  /\ e.chat => e.plan = None
  /\ e.type = "plan_created" =>
       /\ e.plan \in Plans
       /\ \A c \in DOMAIN events :
            events[c].type = "plan_created" /\ events[c].plan = e.plan => c = i
  /\ e.type = "step_completed" => e.step
  /\ e.type # "plan_created" /\ e.plan # None => CreatedBefore(i, e.plan)
  /\ e.type = "task_error" /\ e.done => e.plan # None /\ WorkedBefore(i, e.plan)
  /\ e.type = "task_done" /\ e.plan # None =>
       WorkedBefore(i, e.plan) \/ Card!Credited(i, e.plan)
  /\ e.type = "task_done" /\ ~e.chat => e.plan # None

RunSound(r) ==
  /\ Card!Has("plan_created", r.plan)
  /\ r.phase = "worked" => Card!Has("step_completed", r.plan)
  /\ r.phase = "resumed" => Card!Has("step_completed", r.plan) \/ OtherWorked(r.plan)

CardInv ==
  /\ events \in Seq(Card!Event)
  /\ running \subseteq [plan : Plans, phase : Card!Phases]
  /\ \A i \in DOMAIN events : EntrySound(i)
  /\ \A r \in running : RunSound(r)

(* The log only grows: what was sound of its entries and of the runs stays *)
(* so, unless a plan is created again.                                     *)
LEMMA LogGrows ==
  ASSUME CardInv, NEW new \in Seq(Card!Event), events' = events \o new,
         \A j \in DOMAIN new :
           new[j].type = "plan_created" => ~Card!Has("plan_created", new[j].plan)
  PROVE  /\ events' \in Seq(Card!Event)
         /\ \A i \in DOMAIN events : i \in DOMAIN events' /\ events'[i] = events[i]
         /\ \A i \in DOMAIN events' : \/ i \in DOMAIN events
                                      \/ \E j \in DOMAIN new : /\ i = Len(events) + j
                                                               /\ events'[i] = new[j]
         /\ \A i \in DOMAIN events : EntrySound(i)'
         /\ \A r \in running : RunSound(r)'
<1>1. /\ events \in Seq(Card!Event) /\ Len(events) \in Nat /\ DOMAIN events = 1..Len(events)
      /\ Len(new) \in Nat /\ DOMAIN new = 1..Len(new)
  BY DEF CardInv
<1>2. /\ events' \in Seq(Card!Event)
      /\ DOMAIN events' = 1..(Len(events) + Len(new))
      /\ \A i \in DOMAIN events : i \in DOMAIN events' /\ events'[i] = events[i]
      /\ \A i \in DOMAIN events' \ DOMAIN events :
           i - Len(events) \in DOMAIN new /\ events'[i] = new[i - Len(events)]
  BY <1>1
<1>3. ASSUME NEW i \in DOMAIN events' \ DOMAIN events
      PROVE  \E j \in DOMAIN new : i = Len(events) + j /\ events'[i] = new[j]
  BY <1>1, <1>2
<1>4. ASSUME NEW i \in DOMAIN events PROVE EntrySound(i)'
  <2>1. EntrySound(i) /\ events'[i] = events[i]
    BY <1>2 DEF CardInv
  <2>2. ASSUME events[i].type = "plan_created", NEW c \in DOMAIN events',
               events'[c].type = "plan_created", events'[c].plan = events[i].plan
        PROVE  c = i
    <3>1. Card!Has("plan_created", events[i].plan)
      BY <2>2 DEF Card!Has
    <3>2. c \in DOMAIN events
      BY <1>2, <2>2, <3>1
    <3> QED
      BY <1>2, <2>1, <2>2, <3>2 DEF EntrySound
  <2>3. \A p : CreatedBefore(i, p) => CreatedBefore(i, p)'
    BY <1>2 DEF CreatedBefore
  <2>4. \A p : WorkedBefore(i, p) => WorkedBefore(i, p)'
    BY <1>2 DEF WorkedBefore
  <2>5. \A p : Card!Credited(i, p) => Card!Credited(i, p)'
    BY <1>2 DEF Card!Credited, Card!Failed
  <2> QED
    BY <2>1, <2>2, <2>3, <2>4, <2>5 DEF EntrySound
<1>5. ASSUME NEW r \in running PROVE RunSound(r)'
  <2>1. \A t, p : Card!Has(t, p) => Card!Has(t, p)'
    BY <1>2 DEF Card!Has
  <2>2. \A p : OtherWorked(p) => OtherWorked(p)'
    BY <1>2 DEF OtherWorked, Card!Failed
  <2> QED
    BY <2>1, <2>2 DEF CardInv, RunSound
<1> QED
  BY <1>2, <1>3, <1>4, <1>5

(* A plan is created.                                                      *)
LEMMA PlanStep == ASSUME CardInv, NEW p \in Plans, Card!CreatePlan(p) PROVE CardInv'
<1> DEFINE e == Card!Entry("plan_created", p)
<1>1. /\ e \in Card!Event /\ e.type = "plan_created" /\ e.plan = p /\ ~e.chat
  BY DEF Card!Entry, Card!Event, Card!Types
<1>2. events' = events \o <<e>> /\ ~Card!Has("plan_created", p) /\ UNCHANGED running
  BY DEF Card!CreatePlan, Card!Add
<1> HIDE DEF e
<1> DEFINE new == <<e>>
<1>3. new \in Seq(Card!Event) /\ DOMAIN new = {1} /\ new[1] = e
  BY <1>1
<1> HIDE DEF new
<1>4. /\ events' \in Seq(Card!Event)
      /\ \A i \in DOMAIN events : i \in DOMAIN events' /\ events'[i] = events[i]
      /\ \A i \in DOMAIN events' : i \in DOMAIN events \/ (i = Len(events) + 1 /\ events'[i] = e)
      /\ \A i \in DOMAIN events : EntrySound(i)'
      /\ \A r \in running : RunSound(r)'
  <2>1. events' = events \o new
    BY <1>2 DEF new
  <2>2. \A j \in DOMAIN new : new[j].type = "plan_created" => ~Card!Has("plan_created", new[j].plan)
    BY <1>1, <1>2, <1>3
  <2>3. /\ events' \in Seq(Card!Event)
        /\ \A i \in DOMAIN events : i \in DOMAIN events' /\ events'[i] = events[i]
        /\ \A i \in DOMAIN events' : \/ i \in DOMAIN events
                                     \/ \E j \in DOMAIN new : /\ i = Len(events) + j
                                                              /\ events'[i] = new[j]
        /\ \A i \in DOMAIN events : EntrySound(i)'
        /\ \A r \in running : RunSound(r)'
    BY <1>3, <2>1, <2>2, LogGrows
  <2>4. ASSUME NEW i \in DOMAIN events', i \notin DOMAIN events
        PROVE  i = Len(events) + 1 /\ events'[i] = e
    BY <1>3, <2>3, <2>4
  <2> QED
    BY <2>3, <2>4
<1>5. ASSUME NEW i \in DOMAIN events', i \notin DOMAIN events PROVE EntrySound(i)'
  <2>1. events'[i] = e /\ i = Len(events) + 1
    BY <1>4, <1>5
  <2>2. \A c \in DOMAIN events' : events'[c].type = "plan_created" /\ events'[c].plan = p => c = i
    BY <1>2, <1>4, <2>1 DEF Card!Has
  <2> QED
    BY <1>1, <2>1, <2>2 DEF EntrySound
<1> QED
  BY <1>2, <1>4, <1>5 DEF CardInv

(* A run starts: its plan is there, and if its step is taken for done, a   *)
(* run that failed has completed its own.                                  *)
LEMMA RunStarts ==
  ASSUME CardInv, NEW resume \in BOOLEAN, Card!StartRun(resume)
  PROVE  CardInv'
<1> DEFINE plans == {i \in DOMAIN events : events[i].type = "plan_created"}
<1>1. /\ events \in Seq(Card!Event) /\ Len(events) \in Nat /\ DOMAIN events = 1..Len(events)
  BY DEF CardInv
<1>2. plans # {}
  BY DEF Card!StartRun, Card!Latest
<1>3. PICK last \in plans : \A j \in plans : j <= last
  BY <1>1, <1>2, LastPosition
<1>4. Card!Latest \in plans
  <2> DEFINE latest == CHOOSE i \in plans : \A j \in plans : j <= i
  <2>1. latest \in plans
    BY <1>3
  <2>2. Card!Latest = latest
    BY <1>2 DEF Card!Latest
  <2> QED
    BY <2>1, <2>2
<1> DEFINE p == events[Card!Latest].plan
<1>5. p \in Plans /\ Card!Has("plan_created", p)
  BY <1>4 DEF CardInv, EntrySound, Card!Has
<1> DEFINE now == IF resume /\ Card!CountsAsDone THEN "resumed" ELSE "step"
           r == [plan |-> p, phase |-> now]
<1>6. running' = running \cup {r} /\ UNCHANGED events
  BY DEF Card!StartRun
<1> HIDE DEF p
<1>7. /\ r \in [plan : Plans, phase : Card!Phases] /\ r.plan = p
      /\ r.phase # "worked" /\ (r.phase = "resumed" => Card!CountsAsDone)
  BY <1>5 DEF Card!Phases
<1> HIDE DEF r
<1>8. Card!CountsAsDone => Card!Has("step_completed", p) \/ OtherWorked(p)
  <2> SUFFICES ASSUME Card!CountsAsDone, ~OtherWorked(p) PROVE Card!Has("step_completed", p)
    OBVIOUS
  <2>1. PICK i \in Card!Failed : events[i].done
    BY DEF Card!CountsAsDone
  <2>2. i \in DOMAIN events /\ events[i].type = "task_error" /\ events[i].plan = p
    BY <2>1 DEF Card!Failed, OtherWorked
  <2> QED
    BY <2>1, <2>2 DEF CardInv, EntrySound, WorkedBefore, Card!Has
<1>9. \A x \in running \cup {r} : RunSound(x)'
  <2>1. RunSound(r)
    BY <1>5, <1>7, <1>8 DEF RunSound
  <2> QED
    BY <1>6, <2>1 DEF CardInv, RunSound, Card!Has, OtherWorked, Card!Failed
<1>10. \A i \in DOMAIN events : EntrySound(i)'
  BY <1>6 DEF CardInv, EntrySound, CreatedBefore, WorkedBefore, Card!Credited, Card!Failed
<1> QED
  BY <1>6, <1>7, <1>9, <1>10 DEF CardInv

(* An entry that is no plan: what it must have for the log to stay sound.  *)
Tells(e) ==
  /\ e \in Card!Event /\ e.type # "plan_created"
  /\ e.chat => e.plan = None
  /\ e.type = "step_completed" => e.step
  /\ e.plan # None => Card!Has("plan_created", e.plan)
  /\ e.type = "task_error" /\ e.done =>
       e.plan # None /\ Card!Has("step_completed", e.plan)
  /\ e.type = "task_done" /\ e.plan # None =>
       Card!Has("step_completed", e.plan) \/ OtherWorked(e.plan)
  /\ e.type = "task_done" /\ ~e.chat => e.plan # None

(* Such entries are written, while runs go on or end.                      *)
LEMMA EntriesStep ==
  ASSUME CardInv, NEW new \in Seq(Card!Event), events' = events \o new,
         \A j \in DOMAIN new : Tells(new[j]),
         running' \subseteq [plan : Plans, phase : Card!Phases],
         \A r \in running' \ running : RunSound(r)'
  PROVE  CardInv'
<1>1. /\ events' \in Seq(Card!Event)
      /\ \A i \in DOMAIN events : i \in DOMAIN events' /\ events'[i] = events[i]
      /\ \A i \in DOMAIN events' : \/ i \in DOMAIN events
                                   \/ \E j \in DOMAIN new : /\ i = Len(events) + j
                                                            /\ events'[i] = new[j]
      /\ \A i \in DOMAIN events : EntrySound(i)'
      /\ \A r \in running : RunSound(r)'
  BY LogGrows DEF Tells
<1>2. Len(events) \in Nat /\ DOMAIN events = 1..Len(events) /\ DOMAIN new \subseteq 1..Len(new)
      /\ Len(new) \in Nat
  BY DEF CardInv
<1>3. ASSUME NEW i \in DOMAIN events', i \notin DOMAIN events PROVE EntrySound(i)'
  <2>1. PICK j \in DOMAIN new : i = Len(events) + j /\ events'[i] = new[j]
    BY <1>1, <1>3
  <2>2. Tells(new[j]) /\ \A c \in DOMAIN events : c < i
    BY <1>2, <2>1
  <2>3. new[j].plan # None => CreatedBefore(i, new[j].plan)'
    BY <1>1, <2>2, ZenonT(60) DEF Tells, Card!Has, CreatedBefore
  <2>4. Card!Has("step_completed", new[j].plan) => WorkedBefore(i, new[j].plan)'
    BY <1>1, <2>2 DEF Card!Has, WorkedBefore
  <2>5. OtherWorked(new[j].plan) => Card!Credited(i, new[j].plan)'
    BY <1>1, <2>2 DEF OtherWorked, Card!Credited, Card!Failed
  <2> QED
    BY <2>1, <2>2, <2>3, <2>4, <2>5 DEF Tells, EntrySound
<1> QED
  BY <1>1, <1>3 DEF CardInv

(* What one run writes and what becomes of it.                             *)
LEMMA RunStep ==
  ASSUME CardInv, NEW r \in running,
         \/ Card!StepStarts(r) \/ Card!StepCompletes(r) \/ Card!CutOff(r)
         \/ \E t \in CardTexts : Card!RunAnswers(r, t)
         \/ \E named \in BOOLEAN : Card!RunFails(r, named)
  PROVE  CardInv'
<1>1. /\ r \in [plan : Plans, phase : Card!Phases] /\ RunSound(r)
      /\ r.plan \in Plans /\ r.plan # None
      /\ running \subseteq [plan : Plans, phase : Card!Phases]
  BY EdgeAssumption DEF CardInv
<1>2. ASSUME NEW e, Tells(e), events' = events \o <<e>>,
             running' \subseteq [plan : Plans, phase : Card!Phases],
             \A x \in running' \ running : RunSound(x)'
      PROVE  CardInv'
  <2> DEFINE new == <<e>>
  <2>1. e \in Card!Event
    BY <1>2 DEF Tells
  <2>2. new \in Seq(Card!Event) /\ \A j \in DOMAIN new : new[j] = e
    BY <2>1
  <2>3. events' = events \o new
    BY <1>2
  <2> HIDE DEF new
  <2> QED
    BY <1>2, <2>2, <2>3, EntriesStep
<1>9. ASSUME NEW e \in Card!Event, events' = events \o <<e>>
      PROVE  Card!Has("plan_created", r.plan)'
  <2>1. \A i \in DOMAIN events : i \in DOMAIN events' /\ events'[i] = events[i]
    BY <1>9 DEF CardInv
  <2> QED
    BY <1>1, <2>1 DEF RunSound, Card!Has
<1>3. ASSUME NEW now \in Card!Phases, running' = (running \ {r}) \cup {[r EXCEPT !.phase = now]},
             Card!Has("plan_created", r.plan)', now # "resumed",
             now = "worked" => Card!Has("step_completed", r.plan)'
      PROVE  /\ running' \subseteq [plan : Plans, phase : Card!Phases]
             /\ \A x \in running' \ running : RunSound(x)'
  <2> DEFINE n == [r EXCEPT !.phase = now]
  <2>1. n \in [plan : Plans, phase : Card!Phases] /\ n.plan = r.plan /\ n.phase = now
    BY <1>1
  <2>2. running' = (running \ {r}) \cup {n}
    BY <1>3
  <2> HIDE DEF n
  <2>3. RunSound(n)'
    BY <1>3, <2>1 DEF RunSound, Card!Has, OtherWorked, Card!Failed
  <2> QED
    BY <1>1, <2>1, <2>2, <2>3
<1>4. CASE Card!StepStarts(r)
  <2> DEFINE e == [Card!Entry("step_started", r.plan) EXCEPT !.step = TRUE]
  <2>1. Tells(e)
    BY <1>1 DEF Tells, RunSound, Card!Entry, Card!Event, Card!Types
  <2>2. /\ events' = events \o <<e>>
        /\ running' = (running \ {r}) \cup {[r EXCEPT !.phase = "working"]}
    BY <1>4 DEF Card!StepStarts, Card!Add, Card!Go
  <2> HIDE DEF e
  <2>3. Card!Has("plan_created", r.plan)' /\ "working" \in Card!Phases
    BY <1>9, <2>1, <2>2 DEF Card!Phases, Tells
  <2> QED
    BY <1>2, <1>3, <2>1, <2>2, <2>3
<1>5. CASE Card!StepCompletes(r)
  <2> DEFINE e == [Card!Entry("step_completed", r.plan) EXCEPT !.step = TRUE]
  <2>1. Tells(e) /\ e.type = "step_completed" /\ e.plan = r.plan
    BY <1>1 DEF Tells, RunSound, Card!Entry, Card!Event, Card!Types
  <2>2. /\ events' = events \o <<e>>
        /\ running' = (running \ {r}) \cup {[r EXCEPT !.phase = "worked"]}
    BY <1>5 DEF Card!StepCompletes, Card!Add, Card!Go
  <2> HIDE DEF e
  <2>3. Card!Has("plan_created", r.plan)' /\ "worked" \in Card!Phases
    BY <1>9, <2>1, <2>2 DEF Card!Phases, Tells
  <2>4. Card!Has("step_completed", r.plan)'
    <3>1. Len(events) + 1 \in DOMAIN events' /\ events'[Len(events) + 1] = e
      BY <2>1, <2>2 DEF CardInv, Tells
    <3> QED
      BY <2>1, <3>1 DEF Card!Has
  <2> QED
    BY <1>2, <1>3, <2>1, <2>2, <2>3, <2>4
<1>6. CASE Card!CutOff(r)
  BY <1>6 DEF Card!CutOff, CardInv, EntrySound, CreatedBefore, WorkedBefore, OtherWorked,
              Card!Credited, Card!Failed, RunSound, Card!Has
<1>7. ASSUME NEW t \in CardTexts, Card!RunAnswers(r, t) PROVE CardInv'
  <2> DEFINE e == [Card!Entry("message", None) EXCEPT !.text = t]
             f == [Card!Entry("task_done", r.plan) EXCEPT !.text = t]
             new == <<e, f>>
  <2>1. Tells(e)
    BY <1>1 DEF Tells, Card!Entry, Card!Event, Card!Types
  <2>2. Tells(f)
    BY <1>1, <1>7 DEF Tells, Card!Entry, Card!Event, Card!Types, RunSound, Card!RunAnswers
  <2>3. events' = events \o new /\ running' = running \ {r}
    BY <1>7 DEF Card!RunAnswers, Card!Add
  <2> HIDE DEF e, f
  <2>4. e \in Card!Event /\ f \in Card!Event
    BY <2>1, <2>2 DEF Tells
  <2>5. new \in Seq(Card!Event) /\ \A j \in DOMAIN new : new[j] = e \/ new[j] = f
    BY <2>4
  <2> HIDE DEF new
  <2> QED
    BY <1>1, <2>1, <2>2, <2>3, <2>5, EntriesStep
<1>8. ASSUME NEW named \in BOOLEAN, Card!RunFails(r, named) PROVE CardInv'
  <2> DEFINE e == [Card!Entry("task_error", r.plan) EXCEPT !.step = named,
                                                           !.done = (r.phase = "worked")]
  <2>1. Tells(e)
    BY <1>1 DEF Tells, RunSound, Card!Entry, Card!Event, Card!Types
  <2>2. events' = events \o <<e>> /\ running' = running \ {r}
    BY <1>8 DEF Card!RunFails, Card!Add
  <2> HIDE DEF e
  <2> QED
    BY <1>1, <1>2, <2>1, <2>2
<1> QED
  BY <1>4, <1>5, <1>6, <1>7, <1>8

(* Every step of the conversation keeps the invariant.                     *)
LEMMA CardNext == ASSUME CardInv, Card!Next PROVE CardInv'
<1>1. running \subseteq [plan : Plans, phase : Card!Phases]
  BY DEF CardInv
<1>2. ASSUME NEW t \in CardTexts, Card!ChatAnswers(t) PROVE CardInv'
  <2> DEFINE e == [Card!Entry("message", None) EXCEPT !.text = t]
             f == [Card!Entry("task_done", None) EXCEPT !.chat = TRUE, !.text = t]
             new == <<e, f>>
  <2>1. Tells(e)
    BY DEF Tells, Card!Entry, Card!Event, Card!Types
  <2>2. Tells(f)
    BY DEF Tells, Card!Entry, Card!Event, Card!Types
  <2>3. events' = events \o new /\ running' = running
    BY <1>2 DEF Card!ChatAnswers, Card!Add
  <2> HIDE DEF e, f
  <2>4. e \in Card!Event /\ f \in Card!Event
    BY <2>1, <2>2 DEF Tells
  <2>5. new \in Seq(Card!Event) /\ \A j \in DOMAIN new : new[j] = e \/ new[j] = f
    BY <2>4
  <2> HIDE DEF new
  <2> QED
    BY <1>1, <2>1, <2>2, <2>3, <2>5, EntriesStep
<1>3. CASE Card!TurnFails
  <2> DEFINE e == Card!Entry("task_error", None)
             new == <<e>>
  <2>1. Tells(e)
    BY DEF Tells, Card!Entry, Card!Event, Card!Types
  <2>2. events' = events \o new /\ running' = running
    BY <1>3 DEF Card!TurnFails, Card!Add
  <2> HIDE DEF e
  <2>3. e \in Card!Event
    BY <2>1 DEF Tells
  <2>4. new \in Seq(Card!Event) /\ \A j \in DOMAIN new : new[j] = e
    BY <2>3
  <2> HIDE DEF new
  <2> QED
    BY <1>1, <2>1, <2>2, <2>4, EntriesStep
<1> QED
  BY <1>2, <1>3, PlanStep, RunStarts, RunStep DEF Card!Next

(* The event that ends a card: its own last one, else one of a turn in     *)
(* between that is not the answer of a chat.                               *)
LEMMA FinalEventIs ==
  ASSUME CardInv, NEW card \in Card!PlanEvents
  PROVE  LET own == Card!OwnTerminals(card)
             final == Card!FinalEvent(card)
         IN  /\ own # {} => final \in own /\ \A i \in own : final >= i
             /\ own = {} => final = 0 \/ final \in Card!OtherTerminals(card)
<1> DEFINE own == Card!OwnTerminals(card)
           other == Card!OtherTerminals(card)
<1>1. Len(events) \in Nat /\ DOMAIN events = 1..Len(events)
  BY DEF CardInv
<1>2. own \subseteq 1..Len(events) /\ other \subseteq 1..Len(events)
  BY <1>1 DEF Card!OwnTerminals, Card!OtherTerminals, Card!Terminals, Card!Window
<1>3. Card!FinalEvent(card) =
        IF own # {} THEN Card!LastOf(own) ELSE IF other # {} THEN Card!FirstOf(other) ELSE 0
  BY DEF Card!FinalEvent
<1> HIDE DEF own, other
<1>4. ASSUME own # {} PROVE Card!LastOf(own) \in own /\ \A i \in own : Card!LastOf(own) >= i
  <2>1. PICK x \in own : \A y \in own : y <= x
    BY <1>1, <1>2, <1>4, LastPosition
  <2>2. \A y \in own : x >= y
    BY <1>2, <2>1
  <2> QED
    BY <2>2 DEF Card!LastOf
<1>5. ASSUME other # {} PROVE Card!FirstOf(other) \in other
  <2>1. other \in SUBSET Nat
    BY <1>1, <1>2
  <2>2. PICK x \in other : \A y \in other : x <= y
    BY <1>5, <2>1, LeastNumber
  <2> QED
    BY <2>2 DEF Card!FirstOf
<1> QED
  BY <1>3, <1>4, <1>5 DEF own, other

(* A plan has one card, before everything else that is told of it.         *)
LEMMA CardOfPlan ==
  ASSUME CardInv, NEW i \in DOMAIN events, events[i].type # "plan_created",
         events[i].plan # None
  PROVE  /\ \E card \in Card!PlanEvents : events[card].plan = events[i].plan
         /\ \A card \in Card!PlanEvents : events[card].plan = events[i].plan => card < i
BY DEF CardInv, EntrySound, CreatedBefore, Card!PlanEvents

(* The card of a plan that has been answered shows its step as completed   *)
(* or failed, unless it may have been credited with that of another.       *)
LEMMA AnsweredCard ==
  ASSUME CardInv, NEW card \in Card!PlanEvents, NEW done \in Card!Window(card),
         events[done].type = "task_done", events[done].plan = events[card].plan,
         ~Card!Credited(done, events[card].plan)
  PROVE  Card!StepStatus(card) \in {"completed", "failed"}
<1>1. /\ events[card].plan \in Plans /\ events[card].plan # None /\ done \in DOMAIN events
      /\ Len(events) \in Nat /\ DOMAIN events = 1..Len(events) /\ card \in DOMAIN events
  BY EdgeAssumption DEF CardInv, EntrySound, Card!PlanEvents, Card!Window
<1>2. PICK j \in DOMAIN events : /\ j < done /\ events[j].type = "step_completed"
                                 /\ events[j].plan = events[card].plan
  BY <1>1 DEF CardInv, EntrySound, WorkedBefore
<1>3. card < j /\ events[j].step
  BY <1>1, <1>2, CardOfPlan DEF CardInv, EntrySound
<1>4. j \in Card!Window(card)
  BY <1>1, <1>2, <1>3 DEF Card!Window, Card!PlanEvents
<1> QED
  BY <1>2, <1>3, <1>4 DEF Card!StepStatus

(* The invariant gives the page's promise about its cards and bubbles.     *)
LEMMA CardsTell == CardInv => Card!CardsTellTheRun
<1> SUFFICES ASSUME CardInv PROVE Card!CardsTellTheRun
  OBVIOUS
<1>1. ASSUME NEW card \in Card!PlanEvents
      PROVE  LET final == Card!FinalEvent(card) IN
             /\ final # 0 => ~events[final].chat
             /\ \A i \in Card!OwnTerminals(card) :
                  final >= i /\ events[final].plan = events[card].plan
             /\ final # 0 /\ events[final].type = "task_done"
                  /\ events[final].plan = events[card].plan =>
                  \/ Card!StepStatus(card) \in {"completed", "failed"}
                  \/ Card!Credited(final, events[card].plan)
  <2> DEFINE final == Card!FinalEvent(card)
             own == Card!OwnTerminals(card)
  <2>1. /\ own # {} => final \in own /\ \A i \in own : final >= i
        /\ own = {} => final = 0 \/ final \in Card!OtherTerminals(card)
    BY <1>1, FinalEventIs
  <2>2. events[card].plan \in Plans /\ events[card].plan # None
    BY <1>1, EdgeAssumption DEF CardInv, EntrySound, Card!PlanEvents
  <2>3. ASSUME final # 0
        PROVE  ~events[final].chat /\ final \in Card!Window(card)
    <3>1. CASE own # {}
      <4>1. /\ final \in DOMAIN events /\ events[final].plan = events[card].plan
            /\ final \in Card!Window(card)
        BY <2>1, <3>1 DEF Card!OwnTerminals, Card!Terminals, Card!Window
      <4> QED
        BY <2>2, <4>1 DEF CardInv, EntrySound
    <3>2. CASE own = {}
      BY <2>1, <2>3, <3>2 DEF Card!OtherTerminals, Card!Terminals
    <3> QED
      BY <3>1, <3>2
  <2>4. ASSUME NEW i \in own PROVE final >= i /\ events[final].plan = events[card].plan
    BY <2>1, <2>4 DEF Card!OwnTerminals
  <2>5. ASSUME final # 0, events[final].type = "task_done",
               events[final].plan = events[card].plan
        PROVE  \/ Card!StepStatus(card) \in {"completed", "failed"}
               \/ Card!Credited(final, events[card].plan)
    BY <1>1, <2>3, <2>5, AnsweredCard
  <2> QED
    BY <2>3, <2>4, <2>5
<1>2. ASSUME NEW i \in DOMAIN events, events[i].type = "message", i \notin Card!Bubbles,
             ~ \E card \in Card!PlanEvents : /\ Card!FinalEvent(card) # 0
                                             /\ events[Card!FinalEvent(card)].text = events[i].text
      PROVE  \E done \in DOMAIN events :
               /\ events[done].type = "task_done" /\ events[done].text = events[i].text
               /\ ~events[done].chat
               /\ LET card == CHOOSE c \in Card!PlanEvents : events[c].plan = events[done].plan
                  IN  done \notin Card!Window(card) \/ Card!FinalEvent(card) > done
  <2>1. events[i].text \in Card!FinalAnswers
    BY <1>2 DEF Card!Bubbles
  <2>2. PICK done \in DOMAIN events : /\ events[done].type = "task_done" /\ ~events[done].chat
                                      /\ events[done].text = events[i].text
    BY <2>1 DEF Card!FinalAnswers
  <2>3. events[done].plan # None
    BY <2>2 DEF CardInv, EntrySound
  <2> DEFINE card == CHOOSE c \in Card!PlanEvents : events[c].plan = events[done].plan
  <2>4. card \in Card!PlanEvents /\ events[card].plan = events[done].plan
    BY <2>2, <2>3, CardOfPlan
  <2> HIDE DEF card
  <2>5. ASSUME done \in Card!Window(card) PROVE Card!FinalEvent(card) > done
    <3>1. done \in Card!OwnTerminals(card)
      BY <2>2, <2>4, <2>5 DEF Card!OwnTerminals, Card!Terminals
    <3>2. /\ Card!FinalEvent(card) \in Card!OwnTerminals(card)
          /\ Card!FinalEvent(card) >= done
      BY <2>4, <3>1, FinalEventIs
    <3>3. /\ Card!FinalEvent(card) \in DOMAIN events
          /\ DOMAIN events = 1..Len(events) /\ Len(events) \in Nat
      BY <3>2 DEF Card!OwnTerminals, Card!Terminals, Card!Window, CardInv
    <3>4. Card!FinalEvent(card) # done
      BY <1>2, <2>2, <2>4, <3>3
    <3> QED
      BY <3>2, <3>3, <3>4
  <2> QED
    BY <2>2, <2>5 DEF card
<1> QED
  BY <1>1, <1>2 DEF Card!CardsTellTheRun

(* For any number of sessions, streams and plans: the page shows the       *)
(* selected session only, its streams settle what they have begun, and the *)
(* cards tell how the runs ended.                                          *)
THEOREM PageStaysCoherent == EdgeSpec => []PageIsCoherent
<1> DEFINE Inv == PageInv /\ CardInv
<1>1. EdgeInit => Inv
  <2> SUFFICES ASSUME EdgeInit PROVE PageInv /\ CardInv
    OBVIOUS
  <2>1. Web!Init /\ Card!Init
    BY DEF EdgeInit
  <2>2. FALSE \in BOOLEAN /\ TRUE \in BOOLEAN
    OBVIOUS
  <2>3. PageInv
    BY <2>1, <2>2 DEF Web!Init, PageInv, Web!TypeOK, Web!PageIsCoherent
  <2>4. CardInv
    BY <2>1 DEF Card!Init, CardInv
  <2> QED
    BY <2>3, <2>4
<1>2. Inv /\ [EdgeNext]_edgeVars => Inv'
  <2> SUFFICES ASSUME Inv, [EdgeNext]_edgeVars PROVE PageInv' /\ CardInv'
    OBVIOUS
  <2>1. UNCHANGED pageVars => PageInv'
    BY DEF pageVars, PageInv, Web!TypeOK, Web!PageIsCoherent
  <2>2. UNCHANGED cardVars => CardInv'
    BY DEF cardVars, CardInv, EntrySound, CreatedBefore, WorkedBefore, OtherWorked,
           Card!Credited, Card!Failed, RunSound, Card!Has
  <2> QED
    BY <2>1, <2>2, PageNext, CardNext DEF EdgeNext, edgeVars
<1>3. Inv => PageIsCoherent
  BY CardsTell DEF PageIsCoherent, PageInv
<1> QED
  BY <1>1, <1>2, <1>3, PTL DEF EdgeSpec
-----------------------------------------------------------------------------
(* Browser.  What holds of a request `q' of client `c'.  One that ran      *)
(* alone so far finds the browser and the page as it left them.            *)
Owning == {"preparing", "closing"}

VisitSound(c, q) ==
  /\ q.at \in Owning =>
       q.browser \in Browsers /\ browsers[q.browser] = "open" /\ q.browser # runtime
  /\ q.at \in {"use", "meta"} => q.browser \in Browsers
  /\ q.at = "closing" => q.op = "close"
  /\ q.at = "meta" => q.op = "text"
  /\ q.url # None => q.op \in {"navigate", "info"}
  /\ q.at # "over" /\ q.alone =>
       /\ \A d \in Clients \ {c} : visit[d].at = "over"
       /\ q.at \in {"use", "meta"} => q.browser = runtime
       /\ q.at = "meta" => q.read = page[q.browser]
       /\ q.url # None /\ q.op = "info" =>
            q.at \in {"ensure", "use"} /\ runtime # None /\ page[runtime] = q.url
  /\ q.at = "over" /\ q.outcome = "ok" /\ q.alone =>
       /\ q.url # None => q.answer = q.url
       /\ q.op = "text" => q.answer = q.read

(* A browser has one owner, and one that has none is in use or a mishap.   *)
(* Until the first mishap one request starts a browser, while none is in   *)
(* use.                                                                    *)
OneOwner ==
  \A c, d \in Clients :
    c # d /\ visit[c].at \in Owning /\ visit[d].at \in Owning =>
      visit[c].browser # visit[d].browser

NoneLost ==
  \A b \in Browsers : browsers[b] = "open" /\ ~mishap =>
    b = runtime \/ \E c \in Clients : visit[c].browser = b /\ visit[c].at \in Owning

OneStarts ==
  ~mishap => \A c \in Clients : visit[c].at \in {"launching", "preparing"} =>
    /\ runtime = None
    /\ \A d \in Clients \ {c} : visit[d].at \notin {"launching", "preparing"}

BrowserInv ==
  /\ Chromium!TypeOK
  /\ runtime # None => browsers[runtime] = "open"
  /\ \A c \in Clients : VisitSound(c, visit[c])
  /\ OneOwner /\ NoneLost /\ OneStarts

(* A request goes on without owning a browser, and changes none.           *)
LEMMA VisitMoves ==
  ASSUME BrowserInv, NEW c \in Clients, NEW n \in Chromium!Request,
         visit' = [visit EXCEPT ![c] = n], UNCHANGED <<runtime, browsers, page>>,
         visit[c].at # "over", n.at \notin Owning, VisitSound(c, n),
         mishap' \in BOOLEAN, mishap => mishap', visit[c].at \in Owning => mishap',
         n.at = "launching" /\ ~mishap' =>
           /\ runtime = None
           /\ \A d \in Clients \ {c} : visit[d].at \notin {"launching", "preparing"}
  PROVE  BrowserInv'
<1>1. /\ Chromium!TypeOK /\ OneOwner /\ NoneLost /\ OneStarts
      /\ \A d \in Clients : VisitSound(d, visit[d])
      /\ visit'[c] = n /\ \A d \in Clients \ {c} : visit'[d] = visit[d]
  BY DEF BrowserInv, Chromium!TypeOK
<1>2. Chromium!TypeOK'
  BY <1>1 DEF Chromium!TypeOK
<1>3. VisitSound(c, visit[c])'
  BY <1>1 DEF VisitSound
<1>4. ASSUME NEW d \in Clients \ {c} PROVE VisitSound(d, visit[d])'
  BY <1>1 DEF VisitSound
<1>5. OneOwner'
  BY <1>1 DEF OneOwner
<1>6. NoneLost'
  BY <1>1 DEF NoneLost
<1>7. OneStarts'
  BY <1>1 DEF OneStarts, Owning
<1> QED
  BY <1>2, <1>3, <1>4, <1>5, <1>6, <1>7 DEF BrowserInv

(* It ends, with an answer or an error.                                    *)
LEMMA VisitEnds ==
  ASSUME BrowserInv, NEW c \in Clients, NEW outcome2 \in {"ok", "error"},
         NEW answer2 \in Urls \cup {None},
         Chromium!EndWith(c, outcome2, answer2), UNCHANGED <<runtime, browsers, page>>,
         visit[c].at # "over", mishap' \in BOOLEAN, mishap => mishap',
         visit[c].at \in Owning => mishap',
         outcome2 = "ok" /\ visit[c].alone =>
           /\ visit[c].url # None => answer2 = visit[c].url
           /\ visit[c].op = "text" => answer2 = visit[c].read
  PROVE  BrowserInv'
<1> DEFINE n == [visit[c] EXCEPT !.at = "over", !.browser = None, !.outcome = outcome2,
                                 !.answer = answer2]
<1>1. visit[c] \in Chromium!Request /\ VisitSound(c, visit[c]) /\ visit \in [Clients -> Chromium!Request]
  BY DEF BrowserInv, Chromium!TypeOK
<1>2. /\ n.at = "over" /\ n.url = visit[c].url /\ n.op = visit[c].op
      /\ n.outcome = outcome2 /\ n.answer = answer2 /\ n.alone = visit[c].alone
      /\ n.read = visit[c].read
  BY <1>1 DEF Chromium!Request
<1>3. n \in Chromium!Request
  BY <1>1 DEF Chromium!Request, Chromium!Places
<1>4. visit' = [visit EXCEPT ![c] = n]
  BY <1>1 DEF Chromium!EndWith
<1> HIDE DEF n
<1>5. VisitSound(c, n)
  BY <1>1, <1>2 DEF VisitSound, Owning
<1> QED
  BY <1>2, <1>3, <1>4, <1>5, VisitMoves DEF Owning

(* Which browser is used is asked for anew by every operation.             *)
LEMMA EnsureStep == ASSUME BrowserInv, NEW c \in Clients, Chromium!Ensure(c) PROVE BrowserInv'
<1>1. /\ visit[c] \in Chromium!Request /\ VisitSound(c, visit[c])
      /\ visit \in [Clients -> Chromium!Request] /\ visit[c].at = "ensure"
      /\ runtime \in Browsers \cup {None} /\ mishap \in BOOLEAN
  BY DEF BrowserInv, Chromium!TypeOK, Chromium!Ensure, Chromium!At
<1>2. UNCHANGED <<runtime, browsers, page>> /\ visit[c].at # "over" /\ visit[c].at \notin Owning
  BY <1>1 DEF Chromium!Ensure, Owning
<1>3. CASE runtime = None
  <2> DEFINE n == [visit[c] EXCEPT !.at = "launching"]
  <2>1. /\ n.at = "launching" /\ n.url = visit[c].url /\ n.op = visit[c].op
        /\ n.alone = visit[c].alone
    BY <1>1 DEF Chromium!Request
  <2>2. n \in Chromium!Request
    BY <1>1 DEF Chromium!Request, Chromium!Places
  <2>3. visit' = [visit EXCEPT ![c] = n]
    BY <1>1, <1>3 DEF Chromium!Ensure, Chromium!GoLaunch, Chromium!MoveTo
  <2> HIDE DEF n
  <2>4. VisitSound(c, n)
    BY <1>1, <1>3, <2>1 DEF VisitSound, Owning
  <2>5. mishap' = (mishap \/ \E d \in Clients \ {c} : visit[d].at \in {"launching", "preparing"})
    BY <1>3 DEF Chromium!Ensure, Chromium!GoLaunch
  <2>6. /\ mishap' \in BOOLEAN
        /\ mishap => mishap'
        /\ ~mishap' => \A d \in Clients \ {c} : visit[d].at \notin {"launching", "preparing"}
    BY <1>1, <2>5
  <2> QED
    BY <1>1, <1>2, <1>3, <2>1, <2>2, <2>3, <2>4, <2>6, VisitMoves DEF Owning
<1>4. CASE runtime # None /\ visit[c].op = "start"
  <2>1. Chromium!EndWith(c, "ok", None) /\ mishap' = mishap /\ None \in Urls \cup {None}
    BY <1>4 DEF Chromium!Ensure, Chromium!End
  <2>2. visit[c].url = None
    BY <1>1, <1>4 DEF VisitSound
  <2> QED
    BY <1>1, <1>2, <1>4, <2>1, <2>2, VisitEnds
<1>5. CASE runtime # None /\ visit[c].op # "start"
  <2> DEFINE n == [visit[c] EXCEPT !.at = "use", !.browser = runtime]
  <2>1. /\ n.at = "use" /\ n.url = visit[c].url /\ n.op = visit[c].op
        /\ n.alone = visit[c].alone /\ n.browser = runtime
    BY <1>1 DEF Chromium!Request
  <2>2. n \in Chromium!Request
    BY <1>1 DEF Chromium!Request, Chromium!Places
  <2>3. visit' = [visit EXCEPT ![c] = n] /\ mishap' = mishap
    BY <1>1, <1>5 DEF Chromium!Ensure, Chromium!UseBrowser
  <2> HIDE DEF n
  <2>4. VisitSound(c, n)
    BY <1>1, <1>5, <2>1 DEF VisitSound, Owning
  <2> QED
    BY <1>1, <1>2, <2>1, <2>2, <2>3, <2>4, VisitMoves DEF Owning
<1> QED
  BY <1>3, <1>4, <1>5

(* A start that has succeeded, for its client or for another operation.    *)
LEMMA StartedStep == ASSUME BrowserInv, NEW c \in Clients, Chromium!Started(c) PROVE BrowserInv'
<1>1. /\ visit[c] \in Chromium!Request /\ VisitSound(c, visit[c])
      /\ visit \in [Clients -> Chromium!Request] /\ visit[c].at = "started"
      /\ runtime \in Browsers \cup {None} /\ mishap \in BOOLEAN
  BY DEF BrowserInv, Chromium!TypeOK, Chromium!Started, Chromium!At
<1>2. /\ UNCHANGED <<runtime, browsers, page, mishap>>
      /\ visit[c].at # "over" /\ visit[c].at \notin Owning /\ None \in Urls \cup {None}
  BY <1>1 DEF Chromium!Started, Owning
<1>3. CASE visit[c].op = "start"
  <2>1. Chromium!EndWith(c, "ok", None) /\ visit[c].url = None
    BY <1>1, <1>3 DEF Chromium!Started, Chromium!End, VisitSound
  <2> QED
    BY <1>1, <1>2, <1>3, <2>1, VisitEnds
<1>4. CASE visit[c].op # "start" /\ runtime = None
  <2>1. Chromium!EndWith(c, "error", None)
    BY <1>4 DEF Chromium!Started, Chromium!End
  <2> QED
    BY <1>1, <1>2, <2>1, VisitEnds
<1>5. CASE visit[c].op # "start" /\ runtime # None
  <2> DEFINE n == [visit[c] EXCEPT !.at = "use", !.browser = runtime]
  <2>1. /\ n.at = "use" /\ n.url = visit[c].url /\ n.op = visit[c].op
        /\ n.alone = visit[c].alone /\ n.browser = runtime
    BY <1>1 DEF Chromium!Request
  <2>2. n \in Chromium!Request
    BY <1>1 DEF Chromium!Request, Chromium!Places
  <2>3. visit' = [visit EXCEPT ![c] = n]
    BY <1>1, <1>5 DEF Chromium!Started, Chromium!UseBrowser
  <2> HIDE DEF n
  <2>4. VisitSound(c, n)
    BY <1>1, <1>5, <2>1 DEF VisitSound, Owning
  <2> QED
    BY <1>1, <1>2, <2>1, <2>2, <2>3, <2>4, VisitMoves DEF Owning
<1> QED
  BY <1>3, <1>4, <1>5

(* Errors end a request; only those of a launch or a closing halfway leave *)
(* a browser behind.                                                       *)
LEMMA ErrorStep ==
  ASSUME BrowserInv, NEW c \in Clients,
         \/ Chromium!LaunchFails(c) \/ Chromium!PrepareFails(c)
         \/ Chromium!Fails(c) \/ Chromium!CloseFails(c)
  PROVE  BrowserInv'
<1>1. Chromium!EndWith(c, "error", None) /\ UNCHANGED <<runtime, browsers, page>>
  BY DEF Chromium!LaunchFails, Chromium!PrepareFails, Chromium!Fails, Chromium!CloseFails,
         Chromium!End
<1>2. /\ visit[c].at # "over" /\ mishap' \in BOOLEAN
      /\ mishap => mishap'
      /\ visit[c].at \in Owning => mishap'
  BY DEF Chromium!LaunchFails, Chromium!PrepareFails, Chromium!Fails, Chromium!CloseFails,
         Chromium!At, BrowserInv, Chromium!TypeOK, Owning
<1>3. None \in Urls \cup {None} /\ "error" \in {"ok", "error"}
  OBVIOUS
<1> QED
  BY <1>1, <1>2, <1>3, VisitEnds

(* What is read of a page.                                                 *)
LEMMA ReadStep ==
  ASSUME BrowserInv, NEW c \in Clients,
         Chromium!PageInfo(c) \/ Chromium!ReadText(c) \/ Chromium!ReadAddress(c)
  PROVE  BrowserInv'
<1>1. /\ visit[c] \in Chromium!Request /\ VisitSound(c, visit[c])
      /\ visit \in [Clients -> Chromium!Request] /\ visit[c].at \in {"use", "meta"}
      /\ mishap \in BOOLEAN /\ page \in [Browsers -> Urls \cup {None}]
  BY DEF BrowserInv, Chromium!TypeOK, Chromium!PageInfo, Chromium!ReadText,
         Chromium!ReadAddress, Chromium!At
<1>2. /\ UNCHANGED <<runtime, browsers, page, mishap>>
      /\ visit[c].at # "over" /\ visit[c].at \notin Owning
      /\ visit[c].browser \in Browsers /\ page[visit[c].browser] \in Urls \cup {None}
  BY <1>1 DEF Chromium!PageInfo, Chromium!ReadText, Chromium!ReadAddress, Owning, VisitSound
<1>3. CASE Chromium!PageInfo(c)
  <2>1. /\ Chromium!EndWith(c, "ok", page[visit[c].browser])
        /\ visit[c].op = "info" /\ visit[c].at = "use"
    BY <1>3 DEF Chromium!PageInfo, Chromium!At
  <2>2. visit[c].alone /\ visit[c].url # None => page[visit[c].browser] = visit[c].url
    BY <1>1, <2>1 DEF VisitSound
  <2> QED
    BY <1>1, <1>2, <2>1, <2>2, VisitEnds
<1>4. CASE Chromium!ReadAddress(c)
  <2>1. Chromium!EndWith(c, "ok", page[visit[c].browser]) /\ visit[c].at = "meta"
    BY <1>4 DEF Chromium!ReadAddress, Chromium!At
  <2>2. /\ visit[c].url = None
        /\ visit[c].alone => visit[c].read = page[visit[c].browser]
    BY <1>1, <2>1 DEF VisitSound
  <2> QED
    BY <1>1, <1>2, <2>1, <2>2, VisitEnds
<1>5. CASE Chromium!ReadText(c)
  <2> DEFINE n == [visit[c] EXCEPT !.at = "meta", !.read = page[visit[c].browser]]
  <2>1. /\ n.at = "meta" /\ n.url = visit[c].url /\ n.op = visit[c].op
        /\ n.alone = visit[c].alone /\ n.browser = visit[c].browser
        /\ n.read = page[visit[c].browser]
    BY <1>1 DEF Chromium!Request
  <2>2. n \in Chromium!Request
    BY <1>1, <1>2 DEF Chromium!Request, Chromium!Places
  <2>3. visit' = [visit EXCEPT ![c] = n] /\ visit[c].op = "text" /\ visit[c].at = "use"
    BY <1>1, <1>5 DEF Chromium!ReadText, Chromium!At
  <2> HIDE DEF n
  <2>4. VisitSound(c, n)
    BY <1>1, <2>1, <2>3 DEF VisitSound, Owning
  <2> QED
    BY <1>1, <1>2, <2>1, <2>2, <2>3, <2>4, VisitMoves DEF Owning
<1> QED
  BY <1>3, <1>4, <1>5

(* A launch makes its request the owner of a new browser.                  *)
LEMMA LaunchStep ==
  ASSUME BrowserInv, NEW c \in Clients, NEW b \in Browsers, Chromium!Launch(c, b)
  PROVE  BrowserInv'
<1> DEFINE n == [visit[c] EXCEPT !.at = "preparing", !.browser = b]
<1>1. /\ visit[c] \in Chromium!Request /\ VisitSound(c, visit[c])
      /\ visit \in [Clients -> Chromium!Request] /\ visit[c].at = "launching"
      /\ browsers \in [Browsers -> {"none", "open", "closed"}] /\ browsers[b] = "none"
      /\ runtime \in Browsers \cup {None}
      /\ Chromium!TypeOK /\ OneOwner /\ NoneLost /\ OneStarts
      /\ \A d \in Clients : VisitSound(d, visit[d])
  BY DEF BrowserInv, Chromium!TypeOK, Chromium!Launch, Chromium!At
<1>2. /\ runtime # None => browsers[runtime] = "open"
      /\ runtime # b
  BY <1>1, EdgeAssumption DEF BrowserInv
<1>3. /\ n.at = "preparing" /\ n.url = visit[c].url /\ n.op = visit[c].op
      /\ n.alone = visit[c].alone /\ n.browser = b
  BY <1>1 DEF Chromium!Request
<1>4. n \in Chromium!Request
  BY <1>1 DEF Chromium!Request, Chromium!Places
<1>5. /\ visit' = [visit EXCEPT ![c] = n] /\ browsers' = [browsers EXCEPT ![b] = "open"]
      /\ UNCHANGED <<runtime, page, mishap>>
  BY <1>1 DEF Chromium!Launch
<1> HIDE DEF n
<1>6. /\ visit'[c] = n /\ \A d \in Clients \ {c} : visit'[d] = visit[d]
      /\ browsers'[b] = "open" /\ \A a \in Browsers \ {b} : browsers'[a] = browsers[a]
  BY <1>1, <1>5
<1>7. Chromium!TypeOK'
  BY <1>1, <1>4, <1>5 DEF Chromium!TypeOK
<1>8. VisitSound(c, visit[c])'
  BY <1>1, <1>2, <1>3, <1>5, <1>6 DEF VisitSound, Owning
<1>9. ASSUME NEW d \in Clients \ {c}
      PROVE  VisitSound(d, visit[d])' /\ (visit[d].at \in Owning => visit[d].browser # b)
  <2>1. VisitSound(d, visit[d]) /\ visit'[d] = visit[d]
    BY <1>1, <1>6
  <2> QED
    BY <1>1, <1>5, <1>6, <2>1 DEF VisitSound, Owning
<1>10. OneOwner'
  BY <1>1, <1>3, <1>6, <1>9 DEF OneOwner
<1>11. NoneLost'
  <2>1. ASSUME NEW a \in Browsers, browsers'[a] = "open", ~mishap', a # runtime'
        PROVE  \E e \in Clients : visit'[e].browser = a /\ visit'[e].at \in Owning
    <3>1. CASE a = b
      BY <1>3, <1>6, <3>1 DEF Owning
    <3>2. CASE a # b
      <4>1. PICK e \in Clients : visit[e].browser = a /\ visit[e].at \in Owning
        BY <1>1, <1>5, <1>6, <2>1, <3>2 DEF NoneLost
      <4>2. e # c
        BY <1>1, <4>1 DEF Owning
      <4> QED
        BY <1>6, <4>1, <4>2
    <3> QED
      BY <3>1, <3>2
  <2> QED
    BY <2>1 DEF NoneLost
<1>12. OneStarts'
  BY <1>1, <1>3, <1>5, <1>6 DEF OneStarts
<1>13. (runtime # None => browsers[runtime] = "open")'
  BY <1>1, <1>2, <1>5, <1>6
<1> QED
  BY <1>7, <1>8, <1>9, <1>10, <1>11, <1>12, <1>13 DEF BrowserInv

(* The browser it has prepared takes the place of the one in use.          *)
LEMMA PreparedStep ==
  ASSUME BrowserInv, NEW c \in Clients, Chromium!Prepared(c)
  PROVE  BrowserInv'
<1> DEFINE n == [visit[c] EXCEPT !.at = "started"]
           b == visit[c].browser
<1>1. /\ visit[c] \in Chromium!Request /\ VisitSound(c, visit[c])
      /\ visit \in [Clients -> Chromium!Request] /\ visit[c].at = "preparing"
      /\ runtime \in Browsers \cup {None}
      /\ Chromium!TypeOK /\ OneOwner /\ NoneLost /\ OneStarts
      /\ \A d \in Clients : VisitSound(d, visit[d])
  BY DEF BrowserInv, Chromium!TypeOK, Chromium!Prepared, Chromium!At
<1>2. b \in Browsers /\ browsers[b] = "open"
  BY <1>1 DEF VisitSound, Owning
<1>3. /\ n.at = "started" /\ n.url = visit[c].url /\ n.op = visit[c].op
      /\ n.alone = visit[c].alone
  BY <1>1 DEF Chromium!Request
<1>4. n \in Chromium!Request
  BY <1>1 DEF Chromium!Request, Chromium!Places
<1>5. visit' = [visit EXCEPT ![c] = n] /\ runtime' = b /\ UNCHANGED <<browsers, page, mishap>>
  BY <1>1 DEF Chromium!Prepared, Chromium!MoveTo
<1> HIDE DEF n
<1>6. visit'[c] = n /\ \A d \in Clients \ {c} : visit'[d] = visit[d]
  BY <1>1, <1>5
<1>7. Chromium!TypeOK'
  BY <1>1, <1>2, <1>4, <1>5 DEF Chromium!TypeOK
<1>8. VisitSound(c, visit[c])'
  BY <1>1, <1>3, <1>5, <1>6 DEF VisitSound, Owning
<1>9. ASSUME NEW d \in Clients \ {c} PROVE VisitSound(d, visit[d])'
  <2>1. VisitSound(d, visit[d]) /\ visit'[d] = visit[d]
    BY <1>1, <1>6
  <2>2. visit[d].at \in Owning => visit[d].browser # b
    BY <1>1 DEF OneOwner, Owning
  <2> QED
    BY <1>1, <1>5, <2>1, <2>2 DEF VisitSound, Owning
<1>10. OneOwner'
  BY <1>1, <1>3, <1>6 DEF OneOwner, Owning
<1>11. NoneLost'
  <2>1. ASSUME NEW a \in Browsers, browsers'[a] = "open", ~mishap', a # runtime'
        PROVE  \E e \in Clients : visit'[e].browser = a /\ visit'[e].at \in Owning
    <3>1. runtime = None /\ None \notin Browsers
      BY <1>1, <1>5, <2>1, EdgeAssumption DEF OneStarts
    <3>2. PICK e \in Clients : visit[e].browser = a /\ visit[e].at \in Owning
      BY <1>1, <1>5, <2>1, <3>1 DEF NoneLost
    <3>3. e # c
      BY <1>5, <2>1, <3>2
    <3> QED
      BY <1>6, <3>2, <3>3
  <2> QED
    BY <2>1 DEF NoneLost
<1>12. OneStarts'
  BY <1>1, <1>3, <1>5, <1>6 DEF OneStarts
<1> QED
  BY <1>2, <1>5, <1>7, <1>8, <1>9, <1>10, <1>11, <1>12 DEF BrowserInv

(* The page shows the address its request has opened.                      *)
LEMMA NavigateStep ==
  ASSUME BrowserInv, NEW c \in Clients, Chromium!Navigate(c)
  PROVE  BrowserInv'
<1> DEFINE n == [visit[c] EXCEPT !.at = "ensure", !.op = "info"]
           b == visit[c].browser
<1>1. /\ visit[c] \in Chromium!Request /\ VisitSound(c, visit[c])
      /\ visit \in [Clients -> Chromium!Request] /\ visit[c].at = "use"
      /\ runtime \in Browsers \cup {None} /\ page \in [Browsers -> Urls \cup {None}]
      /\ Chromium!TypeOK /\ OneOwner /\ NoneLost /\ OneStarts
      /\ \A d \in Clients : VisitSound(d, visit[d])
      /\ runtime # None => browsers[runtime] = "open"
  BY DEF BrowserInv, Chromium!TypeOK, Chromium!Navigate, Chromium!At
<1>2. b \in Browsers /\ (visit[c].alone => b = runtime) /\ None \notin Browsers
  BY <1>1, EdgeAssumption DEF VisitSound
<1>3. /\ n.at = "ensure" /\ n.url = visit[c].url /\ n.op = "info" /\ n.alone = visit[c].alone
      /\ n.url \in Urls \cup {None}
  BY <1>1 DEF Chromium!Request
<1>4. n \in Chromium!Request
  BY <1>1 DEF Chromium!Request, Chromium!Places, Chromium!Ops
<1>5. /\ visit' = [visit EXCEPT ![c] = n] /\ page' = [page EXCEPT ![b] = visit[c].url]
      /\ UNCHANGED <<runtime, browsers, mishap>>
  BY <1>1 DEF Chromium!Navigate
<1> HIDE DEF n
<1>6. visit'[c] = n /\ \A d \in Clients \ {c} : visit'[d] = visit[d]
  BY <1>1, <1>5
<1>7. Chromium!TypeOK'
  BY <1>1, <1>2, <1>3, <1>4, <1>5 DEF Chromium!TypeOK
<1>8. VisitSound(c, visit[c])'
  <2>1. visit[c].alone => runtime # None /\ page'[runtime] = n.url
    BY <1>1, <1>2, <1>3, <1>5
  <2> QED
    BY <1>1, <1>3, <1>5, <1>6, <2>1 DEF VisitSound, Owning
<1>9. ASSUME NEW d \in Clients \ {c} PROVE VisitSound(d, visit[d])'
  <2>1. /\ VisitSound(d, visit[d]) /\ visit'[d] = visit[d]
        /\ ~(visit[d].at # "over" /\ visit[d].alone)
    BY <1>1, <1>6 DEF VisitSound
  <2> QED
    BY <1>5, <2>1 DEF VisitSound, Owning
<1>10. OneOwner' /\ NoneLost' /\ OneStarts'
  BY <1>1, <1>3, <1>5, <1>6 DEF OneOwner, NoneLost, OneStarts, Owning
<1> QED
  BY <1>1, <1>5, <1>7, <1>8, <1>9, <1>10 DEF BrowserInv

(* Only its owner closes a browser.                                        *)
LEMMA CloseStep ==
  ASSUME BrowserInv, NEW c \in Clients, Chromium!CloseBrowser(c)
  PROVE  BrowserInv'
<1> DEFINE n == [visit[c] EXCEPT !.at = "over", !.browser = None, !.outcome = "ok",
                                 !.answer = None]
           b == visit[c].browser
<1>1. /\ visit[c] \in Chromium!Request /\ VisitSound(c, visit[c])
      /\ visit \in [Clients -> Chromium!Request] /\ visit[c].at = "closing"
      /\ runtime \in Browsers \cup {None}
      /\ Chromium!TypeOK /\ OneOwner /\ NoneLost /\ OneStarts
      /\ \A d \in Clients : VisitSound(d, visit[d])
      /\ runtime # None => browsers[runtime] = "open"
  BY DEF BrowserInv, Chromium!TypeOK, Chromium!CloseBrowser, Chromium!At
<1>2. b \in Browsers /\ b # runtime /\ visit[c].op = "close" /\ visit[c].url = None
  BY <1>1 DEF VisitSound, Owning
<1>3. n.at = "over" /\ n.url = visit[c].url /\ n.op = visit[c].op
  BY <1>1 DEF Chromium!Request
<1>4. n \in Chromium!Request
  BY <1>1 DEF Chromium!Request, Chromium!Places
<1>5. /\ visit' = [visit EXCEPT ![c] = n] /\ browsers' = [browsers EXCEPT ![b] = "closed"]
      /\ UNCHANGED <<runtime, page, mishap>>
  BY <1>1 DEF Chromium!CloseBrowser, Chromium!End, Chromium!EndWith
<1> HIDE DEF n
<1>6. /\ visit'[c] = n /\ \A d \in Clients \ {c} : visit'[d] = visit[d]
      /\ browsers'[b] = "closed" /\ \A a \in Browsers \ {b} : browsers'[a] = browsers[a]
  BY <1>1, <1>2, <1>5 DEF Chromium!TypeOK
<1>7. Chromium!TypeOK'
  BY <1>1, <1>4, <1>5 DEF Chromium!TypeOK
<1>8. VisitSound(c, visit[c])'
  BY <1>1, <1>2, <1>3, <1>6 DEF VisitSound, Owning
<1>9. ASSUME NEW d \in Clients \ {c} PROVE VisitSound(d, visit[d])'
  <2>1. /\ VisitSound(d, visit[d]) /\ visit'[d] = visit[d]
        /\ ~(visit[d].at # "over" /\ visit[d].alone)
        /\ visit[d].at \in Owning => visit[d].browser # b
    BY <1>1, <1>6 DEF VisitSound, OneOwner, Owning
  <2> QED
    BY <1>5, <1>6, <2>1 DEF VisitSound, Owning
<1>10. OneOwner'
  BY <1>1, <1>3, <1>6 DEF OneOwner, Owning
<1>11. NoneLost'
  <2>1. ASSUME NEW a \in Browsers, browsers'[a] = "open", ~mishap', a # runtime'
        PROVE  \E e \in Clients : visit'[e].browser = a /\ visit'[e].at \in Owning
    <3>1. a # b
      BY <1>6, <2>1
    <3>2. PICK e \in Clients : visit[e].browser = a /\ visit[e].at \in Owning
      BY <1>1, <1>5, <1>6, <2>1, <3>1 DEF NoneLost
    <3> QED
      BY <1>6, <3>1, <3>2
  <2> QED
    BY <2>1 DEF NoneLost
<1>12. OneStarts'
  BY <1>1, <1>3, <1>5, <1>6 DEF OneStarts
<1> QED
  BY <1>1, <1>2, <1>5, <1>6, <1>7, <1>8, <1>9, <1>10, <1>11, <1>12 DEF BrowserInv

(* A request that arrives ends the solitude of the others; one that closes *)
(* becomes the owner of the browser in use.                                *)
LEMMA ArriveStep ==
  ASSUME BrowserInv, NEW c \in Clients, NEW o \in Chromium!Ops, NEW url \in Urls \cup {None},
         Chromium!Arrive(c, o, url)
  PROVE  BrowserInv'
<1> DEFINE place2 == IF o # "close" THEN "ensure" ELSE IF runtime = None THEN "over" ELSE "closing"
           n == [op |-> o, url |-> url, at |-> place2,
                 browser |-> IF o = "close" THEN runtime ELSE None, read |-> None,
                 answer |-> None, outcome |-> IF place2 = "over" THEN "ok" ELSE "none",
                 alone |-> Chromium!Others(c) = {}]
<1>1. /\ visit \in [Clients -> Chromium!Request] /\ visit[c].at = "over"
      /\ runtime \in Browsers \cup {None} /\ None \notin Browsers
      /\ Chromium!TypeOK /\ OneOwner /\ NoneLost /\ OneStarts
      /\ \A d \in Clients : VisitSound(d, visit[d])
      /\ runtime # None => browsers[runtime] = "open"
  BY EdgeAssumption DEF BrowserInv, Chromium!TypeOK, Chromium!Arrive, Chromium!At
<1>2. /\ n.op = o /\ n.url = url /\ n.at = place2
      /\ n.browser = IF o = "close" THEN runtime ELSE None
      /\ n.alone <=> Chromium!Others(c) = {}
  OBVIOUS
<1>3. n \in Chromium!Request
  <2>1. /\ place2 \in Chromium!Places /\ (IF place2 = "over" THEN "ok" ELSE "none") \in {"none", "ok", "error"}
        /\ (Chromium!Others(c) = {}) \in BOOLEAN
        /\ (IF o = "close" THEN runtime ELSE None) \in Browsers \cup {None}
    BY <1>1 DEF Chromium!Places
  <2> QED
    BY <2>1 DEF Chromium!Request
<1>4. /\ visit' = [d \in Clients |-> IF d = c THEN n
                                     ELSE IF d \in Chromium!Others(c)
                                     THEN [visit[d] EXCEPT !.alone = FALSE] ELSE visit[d]]
      /\ runtime' = IF o = "close" THEN None ELSE runtime
      /\ UNCHANGED <<browsers, page, mishap>>
      /\ o # "navigate" => url = None
      /\ o = "navigate" => url # None
  BY <1>1 DEF Chromium!Arrive, Chromium!LeftInUse
<1> HIDE DEF n
<1>5. visit'[c] = n
  BY <1>4
<1>6. ASSUME NEW d \in Clients \ {c}
      PROVE  /\ visit'[d] \in Chromium!Request
             /\ visit'[d].at = visit[d].at /\ visit'[d].op = visit[d].op
             /\ visit'[d].url = visit[d].url /\ visit'[d].browser = visit[d].browser
             /\ visit'[d].read = visit[d].read /\ visit'[d].answer = visit[d].answer
             /\ visit'[d].outcome = visit[d].outcome
             /\ visit[d].at # "over" => ~visit'[d].alone
             /\ visit[d].at = "over" => visit'[d] = visit[d]
  <2>1. visit[d] \in Chromium!Request
    BY <1>1
  <2>2. CASE visit[d].at # "over"
    <3> DEFINE m == [visit[d] EXCEPT !.alone = FALSE]
    <3>1. visit'[d] = m
      BY <1>4, <2>2 DEF Chromium!Others
    <3>2. m \in Chromium!Request
      BY <2>1 DEF Chromium!Request
    <3> QED
      BY <2>1, <2>2, <3>1, <3>2 DEF Chromium!Request
  <2>3. CASE visit[d].at = "over"
    <3>1. visit'[d] = visit[d]
      BY <1>4, <2>3 DEF Chromium!Others
    <3> QED
      BY <2>1, <2>3, <3>1
  <2> QED
    BY <2>2, <2>3
<1>7. Chromium!TypeOK'
  <2>1. \A d \in Clients : visit'[d] \in Chromium!Request
    BY <1>3, <1>5, <1>6
  <2>2. visit' \in [Clients -> Chromium!Request]
    BY <1>4, <2>1
  <2> QED
    BY <1>1, <1>4, <2>2 DEF Chromium!TypeOK
<1>8. VisitSound(c, visit[c])'
  <2>1. n.alone => \A d \in Clients \ {c} : visit'[d].at = "over"
    BY <1>2, <1>6 DEF Chromium!Others
  <2>2. n.at \in {"ensure", "over", "closing"}
    BY <1>2
  <2>3. n.at = "closing" => o = "close" /\ runtime # None
    BY <1>2
  <2>4. n.at # "over" => (n.op = "info" => n.url = None)
    BY <1>2, <1>4
  <2>5. n.at = "over" => n.op = "close" /\ n.url = None
    BY <1>2, <1>4
  <2> QED
    BY <1>1, <1>2, <1>4, <1>5, <2>1, <2>2, <2>3, <2>4, <2>5 DEF VisitSound, Owning
<1>9. ASSUME NEW d \in Clients \ {c} PROVE VisitSound(d, visit[d])'
  <2>1. VisitSound(d, visit[d])
    BY <1>1
  <2>2. CASE visit[d].at # "over"
    <3>1. /\ visit'[d].at = visit[d].at /\ visit'[d].op = visit[d].op
          /\ visit'[d].url = visit[d].url /\ visit'[d].browser = visit[d].browser
          /\ ~visit'[d].alone
      BY <1>6, <2>2
    <3>2. visit[d].at \in Owning =>
            /\ visit[d].browser \in Browsers /\ browsers'[visit[d].browser] = "open"
            /\ visit[d].browser # runtime'
      BY <1>1, <1>4, <2>1 DEF VisitSound
    <3> QED
      BY <2>1, <2>2, <3>1, <3>2 DEF VisitSound
  <2>3. CASE visit[d].at = "over"
    BY <1>4, <1>6, <2>1, <2>3 DEF VisitSound, Owning
  <2> QED
    BY <2>2, <2>3
<1>10. ASSUME NEW d \in Clients \ {c}, visit[d].at \in Owning
       PROVE  visit[d].browser # runtime
  BY <1>1, <1>10 DEF VisitSound
<1>11. n.at \in Owning => n.browser = runtime /\ o = "close"
  BY <1>2 DEF Owning
<1>12. OneOwner'
  BY <1>1, <1>5, <1>6, <1>10, <1>11 DEF OneOwner
<1>13. NoneLost'
  <2>1. ASSUME NEW a \in Browsers, browsers'[a] = "open", ~mishap', a # runtime'
        PROVE  \E e \in Clients : visit'[e].browser = a /\ visit'[e].at \in Owning
    <3>1. CASE a = runtime
      <4>1. n.at = "closing" /\ n.browser = a
        BY <1>1, <1>2, <1>4, <2>1, <3>1
      <4> QED
        BY <1>5, <4>1 DEF Owning
    <3>2. CASE a # runtime
      <4>1. PICK e \in Clients : visit[e].browser = a /\ visit[e].at \in Owning
        BY <1>1, <1>4, <2>1, <3>2 DEF NoneLost
      <4>2. e # c
        BY <1>1, <4>1 DEF Owning
      <4> QED
        BY <1>6, <4>1, <4>2
    <3> QED
      BY <3>1, <3>2
  <2> QED
    BY <2>1 DEF NoneLost
<1>14. OneStarts'
  <2>1. n.at \notin {"launching", "preparing"}
    BY <1>2
  <2> QED
    BY <1>1, <1>4, <1>5, <1>6, <2>1 DEF OneStarts
<1>15. (runtime # None => browsers[runtime] = "open")'
  BY <1>1, <1>4
<1> QED
  BY <1>7, <1>8, <1>9, <1>12, <1>13, <1>14, <1>15 DEF BrowserInv

(* Every step of a request keeps the invariant.                            *)
LEMMA BrowserNext == ASSUME BrowserInv, Chromium!Next PROVE BrowserInv'
BY ArriveStep, EnsureStep, LaunchStep, PreparedStep, StartedStep, NavigateStep, ReadStep,
   CloseStep, ErrorStep DEF Chromium!Next

(* For any number of clients and browsers: nobody is given a browser that  *)
(* somebody has begun to close, a request that ran alone gets what it      *)
(* asked for, and a browser is lost only by a mishap.                      *)
THEOREM BrowserIsSound == EdgeSpec => []BrowserSound
<1>1. EdgeInit => BrowserInv
  <2> SUFFICES ASSUME Chromium!Init PROVE BrowserInv
    BY DEF EdgeInit
  <2>1. /\ FALSE \in BOOLEAN /\ TRUE \in BOOLEAN /\ "start" \in Chromium!Ops
        /\ "over" \in Chromium!Places
    BY DEF Chromium!Ops, Chromium!Places
  <2> DEFINE n == [op |-> "start", url |-> None, at |-> "over", browser |-> None,
                   read |-> None, answer |-> None, outcome |-> "none", alone |-> TRUE]
  <2>2. n \in Chromium!Request
    BY <2>1 DEF Chromium!Request
  <2>3. n.at = "over" /\ n.outcome = "none" /\ n.url = None
    OBVIOUS
  <2>4. visit = [c \in Clients |-> n]
    BY DEF Chromium!Init
  <2> HIDE DEF n
  <2>5. Chromium!TypeOK
    BY <2>1, <2>2, <2>4 DEF Chromium!Init, Chromium!TypeOK
  <2>6. \A c \in Clients : visit[c] = n
    BY <2>4
  <2>7. \A c \in Clients : VisitSound(c, visit[c])
    BY <2>3, <2>6 DEF VisitSound, Owning
  <2>8. OneOwner /\ OneStarts
    BY <2>3, <2>6 DEF OneOwner, OneStarts, Owning
  <2>9. NoneLost /\ runtime = None
    BY DEF Chromium!Init, NoneLost
  <2> QED
    BY <2>5, <2>7, <2>8, <2>9 DEF BrowserInv
<1>2. BrowserInv /\ [EdgeNext]_edgeVars => BrowserInv'
  <2> SUFFICES ASSUME BrowserInv, [EdgeNext]_edgeVars PROVE BrowserInv'
    OBVIOUS
  <2>1. UNCHANGED browserVars => BrowserInv'
    BY DEF browserVars, BrowserInv, Chromium!TypeOK, VisitSound, OneOwner, NoneLost, OneStarts
  <2> QED
    BY <2>1, BrowserNext DEF EdgeNext, edgeVars
<1>3. BrowserInv => BrowserSound
  <2> SUFFICES ASSUME BrowserInv PROVE Chromium!BrowserSound
    BY DEF BrowserSound
  <2>1. ASSUME NEW c \in Clients
        PROVE  /\ Chromium!At(c, "closing") => visit[c].browser # runtime
               /\ Chromium!At(c, "over") /\ visit[c].outcome = "ok" /\ visit[c].alone =>
                    /\ visit[c].url # None => visit[c].answer = visit[c].url
                    /\ visit[c].op = "text" => visit[c].answer = visit[c].read
    BY DEF BrowserInv, VisitSound, Owning, Chromium!At
  <2>2. ASSUME NEW b \in Browsers, browsers[b] = "open", ~mishap, b # runtime
        PROVE  \E c \in Clients : visit[c].browser = b /\ visit[c].at \in {"preparing", "closing"}
    BY <2>2 DEF BrowserInv, NoneLost, Owning
  <2>3. runtime # None => browsers[runtime] = "open"
    BY DEF BrowserInv
  <2>4. mishap \in BOOLEAN
    BY DEF BrowserInv, Chromium!TypeOK
  <2> QED
    BY <2>1, <2>2, <2>3, <2>4 DEF Chromium!BrowserSound
<1> QED
  BY <1>1, <1>2, <1>3, PTL DEF EdgeSpec

-----------------------------------------------------------------------------
(* Shell.  What a session says of its command is what its process did; its *)
(* exit code is filled in with its last status.                            *)
LastLines(n) ==
  LET k == IF n > LineLimit THEN LineLimit ELSE n IN [i \in 1..k |-> n - k + i]

EndSound(s) ==
  /\ process[s].state = "none" <=> shell[s].status = "none"
  /\ process[s].state = "ended" => process[s].code \in Terminal!Codes
  /\ shell[s].status \in {"succeeded", "failed"} => shell[s].code # "none"
  /\ shell[s].status \in {"none", "running"} => shell[s].code = "none"
  /\ shell[s].status = "succeeded" => Terminal!Ended(s) /\ process[s].code = "zero"
  /\ shell[s].status = "failed" => Terminal!Ended(s) /\ process[s].code = "other"
  /\ shell[s].status = "terminated" =>
       \/ Terminal!Ended(s)
       \/ \E c \in Clients : awaits[c] = [op |-> "terminate", of |-> s]

LinesSound(s) ==
  /\ shell[s].collected <= process[s].printed
  /\ shell[s].output = LastLines(shell[s].collected)
  /\ shell[s].truncated = (shell[s].collected > LineLimit)

(* What a client was told of the end of a command is final.                *)
Final == {"succeeded", "failed", "terminated"}

ToldSound(c) ==
  /\ reply[c] # Terminal!Idle /\ reply[c].status \in Final =>
       shell[reply[c].of].status = reply[c].status
  /\ awaits[c].op = "terminate" => shell[awaits[c].of].status = "terminated"

Told == [op : {"execute", "get", "write", "refused", "wait", "terminate"},
         of : Shells, status : Terminal!Status]

ShellTypes ==
  /\ process \in [Shells -> [state : {"none", "running", "ended"},
                                code : Terminal!Codes \cup {"none"},
                                printed : 0..MaxLines]]
  /\ shell \in [Shells -> Terminal!Session]
  /\ awaits \in [Clients -> {Terminal!Idle} \cup [op : {"wait", "terminate"}, of : Shells]]
  /\ reply \in [Clients -> {Terminal!Idle} \cup Told]

ShellInv ==
  /\ ShellTypes
  /\ \A s \in Shells : EndSound(s) /\ LinesSound(s)
  /\ \A c \in Clients : ToldSound(c)

(* One more line, and no more lines than the limit: the last ones.         *)
LEMMA KeptAreLast ==
  ASSUME NEW n \in Nat, n < MaxLines
  PROVE  /\ Terminal!Kept(Append(LastLines(n), n + 1)) = LastLines(n + 1)
         /\ Len(Append(LastLines(n), n + 1)) > LineLimit <=> n + 1 > LineLimit
         /\ LastLines(n + 1) \in Seq(1..MaxLines)
<1>0. LineLimit \in Nat /\ LineLimit > 0 /\ MaxLines \in Nat
  BY EdgeAssumption
<1>1. /\ LastLines(n) \in Seq(1..MaxLines)
      /\ Len(LastLines(n)) = IF n > LineLimit THEN LineLimit ELSE n
  BY <1>0 DEF LastLines
<1>2. /\ LastLines(n + 1) \in Seq(1..MaxLines)
      /\ Len(LastLines(n + 1)) = IF n + 1 > LineLimit THEN LineLimit ELSE n + 1
  BY <1>0 DEF LastLines
<1>3. PICK k \in Nat :
        /\ k = Len(LastLines(n)) /\ k = IF n > LineLimit THEN LineLimit ELSE n
        /\ \A i \in 1..k : LastLines(n)[i] = n - k + i
  <2>1. DOMAIN LastLines(n) = 1..(IF n > LineLimit THEN LineLimit ELSE n)
    BY DEF LastLines
  <2>2. \A i \in 1..(IF n > LineLimit THEN LineLimit ELSE n) :
          LastLines(n)[i] = n - (IF n > LineLimit THEN LineLimit ELSE n) + i
    BY DEF LastLines
  <2>3. (IF n > LineLimit THEN LineLimit ELSE n) \in Nat
    BY <1>0
  <2> QED
    BY <1>1, <2>2, <2>3
<1> DEFINE more == Append(LastLines(n), n + 1)
<1>4. /\ more \in Seq(1..MaxLines) /\ Len(more) = k + 1
      /\ \A i \in 1..k : more[i] = n - k + i
      /\ more[k + 1] = n + 1
  <2>1. n + 1 \in 1..MaxLines
    BY <1>0
  <2> QED
    BY <1>1, <1>3, <2>1
<1> HIDE DEF more
<1>5. \A i \in 1..(k + 1) : more[i] = n - k + i
  <2>1. \A i \in 1..(k + 1) : i \in 1..k \/ i = k + 1
    OBVIOUS
  <2>2. n - k + (k + 1) = n + 1
    OBVIOUS
  <2> QED
    BY <1>4, <2>1, <2>2
<1>6. /\ Terminal!Kept(more) = LastLines(n + 1)
      /\ Len(more) > LineLimit <=> n + 1 > LineLimit
  <2>1. CASE n + 1 <= LineLimit
    <3>1. k = n /\ ~(n + 1 > LineLimit) /\ ~(k + 1 > LineLimit)
      BY <1>0, <1>3, <2>1
    <3>2. \A i \in 1..(n + 1) : more[i] = i
      <4>1. \A i \in 1..(n + 1) : n - n + i = i
        OBVIOUS
      <4> QED
        BY <1>5, <3>1, <4>1
    <3>3. LastLines(n + 1) = [i \in 1..(n + 1) |-> i]
      <4>1. \A i \in 1..(n + 1) : (n + 1) - (n + 1) + i = i
        OBVIOUS
      <4> QED
        BY <3>1, <4>1 DEF LastLines
    <3>4. more = [i \in 1..(n + 1) |-> more[i]]
      BY <1>4, <3>1
    <3>5. more = LastLines(n + 1)
      BY <3>2, <3>3, <3>4
    <3>6. Terminal!Kept(more) = more
      <4>1. Len(more) <= LineLimit
        BY <1>0, <1>4, <3>1
      <4> QED
        BY <4>1 DEF Terminal!Kept
    <3> QED
      BY <1>4, <3>1, <3>5, <3>6
  <2>2. CASE n + 1 > LineLimit
    <3>1. k = LineLimit /\ k + 1 > LineLimit
      BY <1>0, <1>3, <2>2
    <3>2. Terminal!Kept(more) = SubSeq(more, 2, k + 1)
      BY <1>0, <1>4, <3>1 DEF Terminal!Kept
    <3>3. SubSeq(more, 2, k + 1) = [i \in 1..k |-> more[i + 1]]
      BY <1>4
    <3>4. \A i \in 1..k : more[i + 1] = (n + 1) - k + i
      <4>1. \A i \in 1..k : i + 1 \in 1..(k + 1) /\ n - k + (i + 1) = (n + 1) - k + i
        OBVIOUS
      <4> QED
        BY <1>5, <4>1
    <3>5. LastLines(n + 1) = [i \in 1..k |-> (n + 1) - k + i]
      BY <2>2, <3>1 DEF LastLines
    <3>6. Terminal!Kept(more) = LastLines(n + 1)
      BY <3>2, <3>3, <3>4, <3>5
    <3> QED
      BY <1>4, <2>2, <3>1, <3>6
  <2> QED
    BY <1>0, <2>1, <2>2
<1> QED
  BY <1>2, <1>6 DEF more

(* A request that only tells, or only begins to wait.                      *)
LEMMA TellStep ==
  ASSUME ShellInv, UNCHANGED <<process, shell>>,
         NEW c \in Clients, NEW word \in Told \cup {reply[c]}, NEW wait,
         reply' = [reply EXCEPT ![c] = word],
         awaits' = [awaits EXCEPT ![c] = wait],
         wait \in {Terminal!Idle, awaits[c]} \cup [op : {"wait"}, of : Shells],
         word = reply[c] \/ word.status = shell[word.of].status,
         awaits[c].op = "terminate" => wait = awaits[c] \/ Terminal!Ended(awaits[c].of)
  PROVE  ShellInv'
<1>1. ShellTypes'
  BY DEF ShellInv, ShellTypes
<1>2. ASSUME NEW s \in Shells PROVE EndSound(s)' /\ LinesSound(s)'
  <2>1. EndSound(s) /\ LinesSound(s)
    BY DEF ShellInv
  <2>2. LinesSound(s)'
    BY <2>1 DEF LinesSound
  <2>3. shell[s].status = "terminated" =>
          \/ Terminal!Ended(s)
          \/ \E d \in Clients : awaits'[d] = [op |-> "terminate", of |-> s]
    <3>1. ASSUME NEW d \in Clients, awaits[d] = [op |-> "terminate", of |-> s],
                 ~Terminal!Ended(s)
          PROVE  awaits'[d] = [op |-> "terminate", of |-> s]
      BY <3>1 DEF ShellInv, ShellTypes
    <3> QED
      BY <2>1, <3>1 DEF EndSound
  <2> QED
    BY <2>1, <2>2, <2>3 DEF EndSound, Terminal!Ended
<1>3. ASSUME NEW d \in Clients PROVE ToldSound(d)'
  <2>1. ToldSound(d)
    BY DEF ShellInv
  <2>2. CASE d = c
    <3>1. reply'[c] = word /\ awaits'[c] = wait
      BY DEF ShellInv, ShellTypes
    <3>2. wait = awaits[c] \/ wait.op # "terminate"
      BY DEF Terminal!Idle
    <3> QED
      BY <2>1, <2>2, <3>1, <3>2 DEF ToldSound
  <2>3. CASE d # c
    <3>1. reply'[d] = reply[d] /\ awaits'[d] = awaits[d]
      BY <2>3 DEF ShellInv, ShellTypes
    <3> QED
      BY <2>1, <3>1 DEF ToldSound
  <2> QED
    BY <2>2, <2>3
<1> QED
  BY <1>1, <1>2, <1>3 DEF ShellInv

(* The process of a session goes on: the session knows nothing of it yet.  *)
LEMMA ProcessStep ==
  ASSUME ShellInv, UNCHANGED <<shell, awaits, reply>>, NEW s \in Shells,
         Terminal!PrintLine(s) \/ \E code \in Terminal!Codes : Terminal!Exit(s, code)
  PROVE  ShellInv'
<1>0. MaxLines \in Nat
  BY EdgeAssumption
<1> DEFINE Row == [state : {"none", "running", "ended"}, code : Terminal!Codes \cup {"none"},
                   printed : 0..MaxLines]
<1> DEFINE Moved == /\ process[s].state = "running"
                    /\ process' \in [Shells -> Row]
                    /\ process'[s].state \in {"running", "ended"}
                    /\ process'[s].state = "ended" => process'[s].code \in Terminal!Codes
                    /\ process'[s].printed >= process[s].printed
                    /\ \A r \in Shells \ {s} : process'[r] = process[r]
<1>1. Moved
  <2>1. process \in [Shells -> Row] /\ process[s] \in Row
    BY DEF ShellInv, ShellTypes
  <2>2. ASSUME NEW new \in Row, process[s].state = "running",
               process' = [process EXCEPT ![s] = new], new.state \in {"running", "ended"},
               new.state = "ended" => new.code \in Terminal!Codes,
               new.printed >= process[s].printed
        PROVE  Moved
    BY <2>1, <2>2
  <2>3. CASE Terminal!PrintLine(s)
    <3> DEFINE new == [process[s] EXCEPT !.printed = process[s].printed + 1]
    <3>1. process[s].state = "running" /\ process' = [process EXCEPT ![s] = new]
      BY <2>3 DEF Terminal!PrintLine
    <3>2. process[s].printed \in 0..MaxLines /\ process[s].printed + 1 \in 0..MaxLines
      BY <1>0, <2>1, <2>3 DEF Terminal!PrintLine
    <3>3. /\ new \in Row /\ new.state = "running"
          /\ new.printed = process[s].printed + 1
          /\ new.printed >= process[s].printed
      BY <1>0, <2>1, <3>1, <3>2
    <3> HIDE DEF new, Row, Moved
    <3> QED
      BY <2>2, <3>1, <3>3
  <2>4. ASSUME NEW code \in Terminal!Codes, Terminal!Exit(s, code) PROVE Moved
    <3> DEFINE new == [process[s] EXCEPT !.state = "ended", !.code = code]
    <3>1. process[s].state = "running" /\ process' = [process EXCEPT ![s] = new]
      BY <2>4 DEF Terminal!Exit
    <3>2. process[s] \in Row /\ code \in Terminal!Codes \cup {"none"} /\ "ended" \in {"none", "running", "ended"}
      BY <2>1
    <3>3. PICK old \in Row : old = process[s]
      BY <3>2
    <3>4. /\ [old EXCEPT !.state = "ended", !.code = code].state = "ended"
          /\ [old EXCEPT !.state = "ended", !.code = code].code = code
          /\ [old EXCEPT !.state = "ended", !.code = code].printed = old.printed
          /\ old.printed \in 0..MaxLines
          /\ [old EXCEPT !.state = "ended", !.code = code] \in Row
      BY <3>2
    <3>5. new \in Row /\ new.state = "ended" /\ new.code = code /\ new.printed >= process[s].printed
      BY <1>0, <3>4, <3>3
    <3> HIDE DEF new, Row, Moved
    <3> QED
      BY <2>2, <2>4, <3>1, <3>5
  <2> QED
    BY <2>3, <2>4
<1>2. ShellTypes'
  BY <1>1 DEF ShellInv, ShellTypes
<1>3. ASSUME NEW r \in Shells PROVE EndSound(r)' /\ LinesSound(r)'
  <2>1. EndSound(r) /\ LinesSound(r)
    BY DEF ShellInv
  <2>2. EndSound(r)'
    BY <1>1, <2>1 DEF EndSound, Terminal!Ended
  <2>3. shell[r].collected \in Nat /\ process[r].printed \in Nat /\ process'[r].printed \in Nat
    BY <1>0, <1>1 DEF ShellInv, ShellTypes, Terminal!Session
  <2>4. LinesSound(r)'
    BY <1>1, <2>1, <2>3 DEF LinesSound
  <2> QED
    BY <2>2, <2>4
<1>4. \A c \in Clients : ToldSound(c)'
  BY DEF ShellInv, ToldSound
<1> QED
  BY <1>2, <1>3, <1>4 DEF ShellInv

(* A session changes; an end that was told stays.                          *)
LEMMA SessionChanges ==
  ASSUME ShellInv, NEW s \in Shells, NEW new \in Terminal!Session,
         shell' = [shell EXCEPT ![s] = new], UNCHANGED <<process, awaits, reply>>,
         shell[s].status \in Final => new.status = shell[s].status,
         EndSound(s)', LinesSound(s)'
  PROVE  ShellInv'
<1>1. ShellTypes'
  BY DEF ShellInv, ShellTypes
<1>2. /\ shell'[s] = new
      /\ \A r \in Shells \ {s} : shell'[r] = shell[r]
  BY DEF ShellInv, ShellTypes
<1>3. ASSUME NEW r \in Shells PROVE EndSound(r)' /\ LinesSound(r)'
  <2>1. CASE r = s
    BY <2>1
  <2>2. CASE r # s
    <3>1. EndSound(r) /\ LinesSound(r) /\ shell'[r] = shell[r]
      BY <1>2, <2>2 DEF ShellInv
    <3> QED
      BY <3>1 DEF EndSound, LinesSound, Terminal!Ended
  <2> QED
    BY <2>1, <2>2
<1>4. ASSUME NEW c \in Clients PROVE ToldSound(c)'
  <2>1. ToldSound(c)
    BY DEF ShellInv
  <2>2. ASSUME NEW r \in Shells, shell[r].status \in Final PROVE shell'[r].status = shell[r].status
    BY <1>2, <2>2
  <2>3. reply[c] # Terminal!Idle => reply[c].of \in Shells
    BY DEF ShellInv, ShellTypes, Told
  <2>4. awaits[c].op = "terminate" => awaits[c].of \in Shells
    BY DEF ShellInv, ShellTypes, Terminal!Idle
  <2>5. reply[c] # Terminal!Idle /\ reply[c].status \in Final =>
          shell'[reply[c].of].status = reply[c].status
    BY <2>1, <2>2, <2>3 DEF ToldSound
  <2>6. awaits[c].op = "terminate" => shell'[awaits[c].of].status = "terminated"
    BY <2>1, <2>2, <2>4 DEF ToldSound, Final
  <2> QED
    BY <2>5, <2>6 DEF ToldSound
<1> QED
  BY <1>1, <1>3, <1>4 DEF ShellInv

(* The collector adds the line it reads.                                   *)
LEMMA CollectStep == ASSUME ShellInv, NEW s \in Shells, Terminal!Collect(s) PROVE ShellInv'
<1> DEFINE n == shell[s].collected
           more == Append(shell[s].output, n + 1)
           new == [shell[s] EXCEPT !.collected = n + 1, !.output = Terminal!Kept(more),
                                   !.truncated = @ \/ Len(more) > LineLimit]
<1>0. MaxLines \in Nat /\ LineLimit \in Nat
  BY EdgeAssumption
<1>1. shell[s] \in Terminal!Session /\ process[s].printed \in 0..MaxLines
  BY DEF ShellInv, ShellTypes
<1>2. EndSound(s) /\ LinesSound(s)
  BY DEF ShellInv
<1>3. /\ n \in Nat /\ n < process[s].printed /\ n < MaxLines
  BY <1>0, <1>1 DEF Terminal!Collect, Terminal!Session
<1>4. shell' = [shell EXCEPT ![s] = new] /\ UNCHANGED <<process, awaits, reply>>
  BY DEF Terminal!Collect
<1>5. /\ Terminal!Kept(more) = LastLines(n + 1)
      /\ Len(more) > LineLimit <=> n + 1 > LineLimit
      /\ LastLines(n + 1) \in Seq(1..MaxLines)
  BY <1>2, <1>3, KeptAreLast DEF LinesSound
<1>6. PICK old \in Terminal!Session : old = shell[s]
  BY <1>1
<1>7. n + 1 \in 0..MaxLines /\ n = old.collected
  BY <1>0, <1>3, <1>6
<1>8. PICK cut \in BOOLEAN : cut = (old.truncated \/ Len(more) > LineLimit)
  OBVIOUS
<1>9. cut = (n + 1 > LineLimit)
  <2>1. old.truncated <=> n > LineLimit
    BY <1>2, <1>6 DEF LinesSound
  <2>2. n > LineLimit => n + 1 > LineLimit
    BY <1>0, <1>3
  <2>3. cut <=> n + 1 > LineLimit
    BY <1>5, <1>8, <2>1, <2>2
  <2> QED
    BY <2>3
<1>10. PICK k \in 0..MaxLines, last \in Seq(1..MaxLines) : k = n + 1 /\ last = LastLines(n + 1)
  BY <1>5, <1>7
<1>11. /\ new \in Terminal!Session /\ new.status = old.status /\ new.code = old.code
       /\ new.collected = n + 1 /\ new.output = LastLines(n + 1) /\ new.truncated = cut
  <2>1. new = [old EXCEPT !.collected = k, !.output = last, !.truncated = cut]
    BY <1>5, <1>6, <1>8, <1>10
  <2>2. /\ [old EXCEPT !.collected = k, !.output = last, !.truncated = cut] \in Terminal!Session
        /\ [old EXCEPT !.collected = k, !.output = last, !.truncated = cut].status = old.status
        /\ [old EXCEPT !.collected = k, !.output = last, !.truncated = cut].code = old.code
        /\ [old EXCEPT !.collected = k, !.output = last, !.truncated = cut].collected = k
        /\ [old EXCEPT !.collected = k, !.output = last, !.truncated = cut].output = last
        /\ [old EXCEPT !.collected = k, !.output = last, !.truncated = cut].truncated = cut
    BY DEF Terminal!Session
  <2> QED
    BY <1>10, <2>1, <2>2
<1>12. shell'[s] = new
  BY <1>4 DEF ShellInv, ShellTypes
<1> HIDE DEF new, more
<1>13. EndSound(s)'
  BY <1>2, <1>4, <1>6, <1>11, <1>12 DEF EndSound, Terminal!Ended
<1>14. LinesSound(s)'
  BY <1>1, <1>3, <1>4, <1>9, <1>11, <1>12 DEF LinesSound
<1> QED
  BY <1>4, <1>6, <1>11, <1>13, <1>14, SessionChanges

(* The collector ends early.                                               *)
LEMMA CollectorEndStep ==
  ASSUME ShellInv, NEW s \in Shells, Terminal!CollectorEnds(s)
  PROVE  ShellInv'
<1> DEFINE new == [shell[s] EXCEPT !.reading = FALSE]
<1>1. PICK old \in Terminal!Session : old = shell[s]
  BY DEF ShellInv, ShellTypes
<1>2. FALSE \in BOOLEAN
  OBVIOUS
<1>3. /\ [old EXCEPT !.reading = FALSE] \in Terminal!Session
      /\ [old EXCEPT !.reading = FALSE].status = old.status
      /\ [old EXCEPT !.reading = FALSE].code = old.code
      /\ [old EXCEPT !.reading = FALSE].collected = old.collected
      /\ [old EXCEPT !.reading = FALSE].output = old.output
      /\ [old EXCEPT !.reading = FALSE].truncated = old.truncated
  BY <1>2 DEF Terminal!Session
<1>4. /\ new \in Terminal!Session /\ new.status = shell[s].status
      /\ new.code = shell[s].code /\ new.collected = shell[s].collected
      /\ new.output = shell[s].output /\ new.truncated = shell[s].truncated
  BY <1>1, <1>3
<1>5. shell' = [shell EXCEPT ![s] = new] /\ UNCHANGED <<process, awaits, reply>>
  BY DEF Terminal!CollectorEnds
<1>6. shell'[s] = new
  BY <1>5 DEF ShellInv, ShellTypes
<1> HIDE DEF new
<1>7. EndSound(s)' /\ LinesSound(s)'
  BY <1>4, <1>5, <1>6 DEF ShellInv, EndSound, LinesSound, Terminal!Ended
<1> QED
  BY <1>4, <1>5, <1>7, SessionChanges

(* The watcher writes the exit code, and the status unless it was ended.   *)
LEMMA WatchStep == ASSUME ShellInv, NEW s \in Shells, Terminal!Watch(s) PROVE ShellInv'
<1> DEFINE ending == IF shell[s].status = "terminated" THEN "terminated"
                     ELSE IF process[s].code = "zero" THEN "succeeded" ELSE "failed"
           new == [shell[s] EXCEPT !.code = process[s].code, !.status = ending]
<1>1. PICK old \in Terminal!Session : old = shell[s]
  BY DEF ShellInv, ShellTypes
<1>2. EndSound(s) /\ LinesSound(s)
  BY DEF ShellInv
<1>3. /\ process[s].state = "ended" /\ process[s].code \in Terminal!Codes
      /\ shell[s].code = "none" /\ shell[s].status \notin {"succeeded", "failed"}
  BY <1>2 DEF EndSound, Terminal!Watch, Terminal!Ended
<1>4. /\ ending \in Terminal!Status
      /\ shell[s].status = "terminated" => ending = "terminated"
      /\ shell[s].status # "terminated" =>
           ending = IF process[s].code = "zero" THEN "succeeded" ELSE "failed"
  BY DEF Terminal!Status
<1>5. shell' = [shell EXCEPT ![s] = new] /\ UNCHANGED <<process, awaits, reply>>
  BY DEF Terminal!Watch
<1> HIDE DEF ending
<1>6. PICK code \in Terminal!Codes : code = process[s].code
  BY <1>3
<1>7. /\ [old EXCEPT !.code = code, !.status = ending] \in Terminal!Session
      /\ [old EXCEPT !.code = code, !.status = ending].status = ending
      /\ [old EXCEPT !.code = code, !.status = ending].code = code
      /\ [old EXCEPT !.code = code, !.status = ending].collected = old.collected
      /\ [old EXCEPT !.code = code, !.status = ending].output = old.output
      /\ [old EXCEPT !.code = code, !.status = ending].truncated = old.truncated
  BY <1>4 DEF Terminal!Session
<1>8. /\ new \in Terminal!Session /\ new.status = ending
      /\ new.code = process[s].code /\ new.collected = shell[s].collected
      /\ new.output = shell[s].output /\ new.truncated = shell[s].truncated
  BY <1>1, <1>6, <1>7
<1>9. shell'[s] = new
  BY <1>5 DEF ShellInv, ShellTypes
<1> HIDE DEF new
<1>10. LinesSound(s)'
  BY <1>2, <1>5, <1>8, <1>9 DEF LinesSound
<1>11. EndSound(s)'
  BY <1>3, <1>4, <1>5, <1>8, <1>9 DEF EndSound, Terminal!Ended, Terminal!Codes
<1>12. shell[s].status \in Final => new.status = shell[s].status
  BY <1>3, <1>4, <1>8 DEF Final
<1> QED
  BY <1>5, <1>8, <1>10, <1>11, <1>12, SessionChanges

(* A command begins.                                                       *)
LEMMA ExecuteStep ==
  ASSUME ShellInv, NEW c \in Clients, NEW s \in Shells, Terminal!Execute(c, s)
  PROVE  ShellInv'
<1> DEFINE new == [shell[s] EXCEPT !.status = "running"]
           begun == [process[s] EXCEPT !.state = "running"]
           word == [op |-> "execute", of |-> s, status |-> "running"]
<1>1. /\ shell' = [shell EXCEPT ![s] = new] /\ process' = [process EXCEPT ![s] = begun]
      /\ reply' = [reply EXCEPT ![c] = word] /\ UNCHANGED awaits
      /\ shell[s].status = "none"
  BY DEF Terminal!Execute, Terminal!Known
<1>2. EndSound(s) /\ LinesSound(s)
  BY DEF ShellInv
<1>3. PICK old \in Terminal!Session : old = shell[s]
  BY DEF ShellInv, ShellTypes
<1>4. /\ [old EXCEPT !.status = "running"] \in Terminal!Session
      /\ [old EXCEPT !.status = "running"].status = "running"
      /\ [old EXCEPT !.status = "running"].code = old.code
      /\ [old EXCEPT !.status = "running"].collected = old.collected
      /\ [old EXCEPT !.status = "running"].output = old.output
      /\ [old EXCEPT !.status = "running"].truncated = old.truncated
  BY DEF Terminal!Session, Terminal!Status
<1>5. /\ new \in Terminal!Session /\ new.status = "running"
      /\ new.code = shell[s].code /\ new.collected = shell[s].collected
      /\ new.output = shell[s].output /\ new.truncated = shell[s].truncated
  BY <1>3, <1>4
<1> DEFINE Row == [state : {"none", "running", "ended"}, code : Terminal!Codes \cup {"none"},
                   printed : 0..MaxLines]
<1>6. PICK was \in Row : was = process[s]
  BY DEF ShellInv, ShellTypes
<1>7. /\ [was EXCEPT !.state = "running"] \in Row
      /\ [was EXCEPT !.state = "running"].state = "running"
      /\ [was EXCEPT !.state = "running"].printed = was.printed
  OBVIOUS
<1>8. begun \in Row /\ begun.state = "running" /\ begun.printed = process[s].printed
  BY <1>6, <1>7
<1>9. word \in Told /\ word.status = "running" /\ word.status \notin Final
  BY DEF Told, Terminal!Status, Final
<1> HIDE DEF new, begun, word
<1>10. /\ shell'[s] = new /\ process'[s] = begun
       /\ \A r \in Shells \ {s} : shell'[r] = shell[r] /\ process'[r] = process[r]
       /\ reply'[c] = word /\ \A d \in Clients \ {c} : reply'[d] = reply[d]
  BY <1>1 DEF ShellInv, ShellTypes
<1>11. ShellTypes'
  BY <1>1, <1>5, <1>8, <1>9 DEF ShellInv, ShellTypes
<1>12. ASSUME NEW r \in Shells PROVE EndSound(r)' /\ LinesSound(r)'
  <2>1. EndSound(r) /\ LinesSound(r)
    BY DEF ShellInv
  <2>2. CASE r = s
    <3>1. EndSound(s)'
      BY <1>1, <1>2, <1>5, <1>8, <1>10 DEF EndSound, Terminal!Ended
    <3>2. LinesSound(s)'
      BY <1>2, <1>5, <1>8, <1>10 DEF LinesSound
    <3> QED
      BY <2>2, <3>1, <3>2
  <2>3. CASE r # s
    BY <1>1, <1>10, <2>1, <2>3 DEF EndSound, LinesSound, Terminal!Ended
  <2> QED
    BY <2>2, <2>3
<1>13. ASSUME NEW d \in Clients PROVE ToldSound(d)'
  <2>1. ToldSound(d)
    BY DEF ShellInv
  <2>2. ASSUME NEW r \in Shells, shell[r].status \in Final PROVE shell'[r].status = shell[r].status
    BY <1>1, <1>10, <2>2 DEF Final
  <2>3. reply[d] # Terminal!Idle => reply[d].of \in Shells
    BY DEF ShellInv, ShellTypes, Told
  <2>4. awaits[d].op = "terminate" => awaits[d].of \in Shells
    BY DEF ShellInv, ShellTypes, Terminal!Idle
  <2>5. awaits'[d].op = "terminate" => shell'[awaits'[d].of].status = "terminated"
    BY <1>1, <2>1, <2>2, <2>4 DEF ToldSound, Final
  <2>6. CASE d = c
    BY <1>9, <1>10, <2>5, <2>6 DEF ToldSound
  <2>7. CASE d # c
    BY <1>10, <2>1, <2>2, <2>3, <2>5, <2>7 DEF ToldSound
  <2> QED
    BY <2>6, <2>7
<1> QED
  BY <1>11, <1>12, <1>13 DEF ShellInv

(* A session that runs is marked before its process is told to end.        *)
LEMMA MarkStep ==
  ASSUME ShellInv, NEW c \in Clients, NEW s \in Shells,
         Terminal!Terminate(c, s), shell[s].status = "running"
  PROVE  ShellInv'
<1> DEFINE new == [shell[s] EXCEPT !.status = "terminated"]
           wait == [op |-> "terminate", of |-> s]
<1>1. /\ shell' = [shell EXCEPT ![s] = new] /\ awaits' = [awaits EXCEPT ![c] = wait]
      /\ UNCHANGED <<process, reply>> /\ awaits[c] = Terminal!Idle
  BY DEF Terminal!Terminate
<1>2. EndSound(s) /\ LinesSound(s)
  BY DEF ShellInv
<1>3. PICK old \in Terminal!Session : old = shell[s]
  BY DEF ShellInv, ShellTypes
<1>4. /\ [old EXCEPT !.status = "terminated"] \in Terminal!Session
      /\ [old EXCEPT !.status = "terminated"].status = "terminated"
      /\ [old EXCEPT !.status = "terminated"].code = old.code
      /\ [old EXCEPT !.status = "terminated"].collected = old.collected
      /\ [old EXCEPT !.status = "terminated"].output = old.output
      /\ [old EXCEPT !.status = "terminated"].truncated = old.truncated
  BY DEF Terminal!Session, Terminal!Status
<1>5. /\ new \in Terminal!Session /\ new.status = "terminated"
      /\ new.code = shell[s].code /\ new.collected = shell[s].collected
      /\ new.output = shell[s].output /\ new.truncated = shell[s].truncated
  BY <1>3, <1>4
<1>6. /\ wait \in [op : {"wait", "terminate"}, of : Shells]
      /\ wait.op = "terminate" /\ wait.of = s
  OBVIOUS
<1>7. wait = [op |-> "terminate", of |-> s]
  OBVIOUS
<1> HIDE DEF new, wait
<1>8. /\ shell'[s] = new /\ \A r \in Shells \ {s} : shell'[r] = shell[r]
      /\ awaits'[c] = wait /\ \A d \in Clients \ {c} : awaits'[d] = awaits[d]
  BY <1>1 DEF ShellInv, ShellTypes
<1>9. ShellTypes'
  BY <1>1, <1>5, <1>6 DEF ShellInv, ShellTypes
<1>10. ASSUME NEW r \in Shells PROVE EndSound(r)' /\ LinesSound(r)'
  <2>1. EndSound(r) /\ LinesSound(r)
    BY DEF ShellInv
  <2>2. CASE r = s
    <3>1. EndSound(s)'
      BY <1>1, <1>2, <1>5, <1>7, <1>8 DEF EndSound, Terminal!Ended
    <3>2. LinesSound(s)'
      BY <1>1, <1>2, <1>5, <1>8 DEF LinesSound
    <3> QED
      BY <2>2, <3>1, <3>2
  <2>3. CASE r # s
    <3>1. ASSUME NEW d \in Clients, awaits[d] = [op |-> "terminate", of |-> r]
          PROVE  awaits'[d] = [op |-> "terminate", of |-> r]
      BY <1>1, <1>8, <3>1 DEF Terminal!Idle
    <3>2. LinesSound(r)'
      BY <1>1, <1>8, <2>1, <2>3 DEF LinesSound
    <3>3. EndSound(r)'
      BY <1>1, <1>8, <2>1, <2>3, <3>1 DEF EndSound, Terminal!Ended
    <3> QED
      BY <3>2, <3>3
  <2> QED
    BY <2>2, <2>3
<1>11. ASSUME NEW d \in Clients PROVE ToldSound(d)'
  <2>1. ToldSound(d)
    BY DEF ShellInv
  <2>2. ASSUME NEW r \in Shells, shell[r].status \in Final PROVE shell'[r].status = shell[r].status
    BY <1>8, <2>2 DEF Final
  <2>3. reply[d] # Terminal!Idle => reply[d].of \in Shells
    BY DEF ShellInv, ShellTypes, Told
  <2>4. awaits[d].op = "terminate" => awaits[d].of \in Shells
    BY DEF ShellInv, ShellTypes, Terminal!Idle
  <2>5. reply'[d] # Terminal!Idle /\ reply'[d].status \in Final =>
          shell'[reply'[d].of].status = reply'[d].status
    BY <1>1, <2>1, <2>2, <2>3 DEF ToldSound
  <2>6. awaits'[d].op = "terminate" => shell'[awaits'[d].of].status = "terminated"
    <3>1. CASE d = c
      BY <1>5, <1>6, <1>8, <3>1
    <3>2. CASE d # c
      BY <1>8, <2>1, <2>2, <2>4, <3>2 DEF ToldSound, Final
    <3> QED
      BY <3>1, <3>2
  <2> QED
    BY <2>5, <2>6 DEF ToldSound
<1> QED
  BY <1>9, <1>10, <1>11 DEF ShellInv

(* A request that is answered with what the session is at that moment.     *)
LEMMA AnswerShell ==
  ASSUME ShellInv, NEW c \in Clients, NEW s \in Shells,
         NEW way \in {"execute", "get", "write", "refused", "wait", "terminate"},
         Terminal!Reply(c, way, s), UNCHANGED <<process, shell>>,
         \/ UNCHANGED awaits
         \/ /\ awaits' = [awaits EXCEPT ![c] = Terminal!Idle]
            /\ awaits[c].op = "terminate" => Terminal!Ended(awaits[c].of)
  PROVE  ShellInv'
<1> DEFINE word == [op |-> way, of |-> s, status |-> shell[s].status]
<1>1. shell[s].status \in Terminal!Status
  BY DEF ShellInv, ShellTypes, Terminal!Session
<1>2. word \in Told /\ word.status = shell[word.of].status
  BY <1>1 DEF Told
<1>3. reply' = [reply EXCEPT ![c] = word]
  BY DEF Terminal!Reply
<1> HIDE DEF word
<1>4. CASE UNCHANGED awaits
  <2>1. awaits' = [awaits EXCEPT ![c] = awaits[c]]
    BY <1>4 DEF ShellInv, ShellTypes
  <2> QED
    BY <1>2, <1>3, <2>1, TellStep
<1>5. CASE /\ awaits' = [awaits EXCEPT ![c] = Terminal!Idle]
           /\ awaits[c].op = "terminate" => Terminal!Ended(awaits[c].of)
  BY <1>2, <1>3, <1>5, TellStep
<1> QED
  BY <1>4, <1>5

(* A request that only changes what its client waits for.                  *)
LEMMA WaitShell ==
  ASSUME ShellInv, NEW c \in Clients,
         NEW wait \in {Terminal!Idle} \cup [op : {"wait"}, of : Shells],
         awaits' = [awaits EXCEPT ![c] = wait], UNCHANGED <<process, shell, reply>>,
         awaits[c].op # "terminate"
  PROVE  ShellInv'
<1>1. reply' = [reply EXCEPT ![c] = reply[c]]
  BY DEF ShellInv, ShellTypes
<1> QED
  BY <1>1, TellStep

(* Whatever is done keeps that.                                            *)
LEMMA ShellNext == ASSUME ShellInv, Terminal!Next PROVE ShellInv'
<1>1. ASSUME NEW c \in Clients, NEW s \in Shells,
             \/ Terminal!Get(c, s) \/ Terminal!Write(c, s) \/ Terminal!CannotSignal(c, s)
             \/ Terminal!Terminate(c, s) /\ shell[s].status # "running"
      PROVE  ShellInv'
  BY <1>1, AnswerShell
     DEF Terminal!Get, Terminal!Write, Terminal!CannotSignal, Terminal!Terminate
<1>2. ASSUME NEW c \in Clients, NEW s \in Shells, Terminal!Wait(c, s) PROVE ShellInv'
  <2>1. [op |-> "wait", of |-> s] \in [op : {"wait"}, of : Shells]
    OBVIOUS
  <2>2. awaits[c].op # "terminate"
    BY <1>2 DEF Terminal!Wait, Terminal!Idle
  <2> QED
    BY <1>2, <2>1, <2>2, WaitShell DEF Terminal!Wait
<1>3. ASSUME NEW c \in Clients, Terminal!EndWait(c) PROVE ShellInv'
  <2>1. awaits[c].of \in Shells /\ awaits[c].op # "terminate"
    BY <1>3 DEF ShellInv, ShellTypes, Terminal!EndWait, Terminal!Idle
  <2> QED
    BY <1>3, <2>1, AnswerShell DEF Terminal!EndWait
<1>4. ASSUME NEW c \in Clients, Terminal!EndTerminate(c) PROVE ShellInv'
  <2>1. awaits[c].of \in Shells
    BY <1>4 DEF ShellInv, ShellTypes, Terminal!EndTerminate, Terminal!Idle
  <2> QED
    BY <1>4, <2>1, AnswerShell DEF Terminal!EndTerminate
<1>5. ASSUME NEW c \in Clients, Terminal!GiveUp(c) PROVE ShellInv'
  BY <1>5, WaitShell DEF Terminal!GiveUp
<1>6. ASSUME NEW s \in Shells, NEW code \in Terminal!Codes,
             Terminal!PrintLine(s) \/ Terminal!Exit(s, code)
      PROVE  ShellInv'
  <2>1. UNCHANGED <<shell, awaits, reply>>
    BY <1>6 DEF Terminal!PrintLine, Terminal!Exit
  <2> QED
    BY <1>6, <2>1, ProcessStep
<1> QED
  BY <1>1, <1>2, <1>3, <1>4, <1>5, <1>6, ProcessStep, CollectStep, CollectorEndStep,
     WatchStep, ExecuteStep, MarkStep
     DEF Terminal!Next, Terminal!PrintLine

(* For any commands, clients and limits: what a client was told of the end *)
(* of a command stays true and is what its process did, the request that   *)
(* terminated it is answered when it has ended, and the output holds the   *)
(* last lines that were collected.                                         *)
THEOREM ShellIsSound == EdgeSpec => []ShellSound
<1>1. EdgeInit => ShellInv
  <2> SUFFICES ASSUME EdgeInit PROVE ShellInv
    OBVIOUS
  <2>0. MaxLines \in Nat /\ LineLimit \in Nat
    BY EdgeAssumption
  <2>1. LastLines(0) = << >> /\ << >> \in Seq(1..MaxLines)
    BY <2>0 DEF LastLines
  <2>2. ShellTypes
    <3>1. [status |-> "none", code |-> "none", collected |-> 0, output |-> <<>>,
           truncated |-> FALSE, reading |-> TRUE] \in Terminal!Session
      BY <2>0, <2>1 DEF Terminal!Session, Terminal!Status
    <3> QED
      BY <2>0, <3>1 DEF EdgeInit, Terminal!Init, ShellTypes
  <2>3. ASSUME NEW s \in Shells PROVE EndSound(s) /\ LinesSound(s)
    <3>1. /\ shell[s].status = "none" /\ shell[s].code = "none" /\ shell[s].collected = 0
          /\ shell[s].output = << >> /\ shell[s].truncated = FALSE
          /\ process[s].state = "none" /\ process[s].printed = 0
      BY DEF EdgeInit, Terminal!Init
    <3>2. FALSE = (0 > LineLimit)
      BY <2>0
    <3>3. EndSound(s)
      BY <3>1 DEF EndSound
    <3>4. /\ shell[s].collected <= process[s].printed
          /\ shell[s].output = LastLines(shell[s].collected)
      BY <2>1, <3>1
    <3>5. shell[s].truncated = (shell[s].collected > LineLimit)
      <4>1. (shell[s].collected > LineLimit) = (0 > LineLimit)
        BY <3>1
      <4> QED
        BY <3>1, <3>2, <4>1
    <3> QED
      BY <3>3, <3>4, <3>5 DEF LinesSound
  <2>4. ASSUME NEW c \in Clients PROVE ToldSound(c)
    BY DEF EdgeInit, Terminal!Init, ToldSound, Terminal!Idle
  <2> QED
    BY <2>2, <2>3, <2>4 DEF ShellInv
<1>2. ShellInv /\ [EdgeNext]_edgeVars => ShellInv'
  <2> SUFFICES ASSUME ShellInv, [EdgeNext]_edgeVars PROVE ShellInv'
    OBVIOUS
  <2>1. UNCHANGED shellVars => ShellInv'
    BY DEF shellVars, ShellInv, ShellTypes, EndSound, LinesSound, ToldSound, Terminal!Ended
  <2> QED
    BY <2>1, ShellNext DEF EdgeNext, edgeVars
<1>3. ShellInv => ShellSound
  <2> SUFFICES ASSUME ShellInv PROVE Terminal!ShellSound
    BY DEF ShellSound
  <2>1. ASSUME NEW c \in Clients, reply[c].of \in Shells, reply[c].status \in Final
        PROVE  shell[reply[c].of].status = reply[c].status
    <3>1. reply[c] # Terminal!Idle
      BY <2>1, EdgeAssumption DEF Terminal!Idle
    <3> QED
      BY <2>1, <3>1 DEF ShellInv, ToldSound
  <2>2. ASSUME NEW c \in Clients, awaits[c].op = "terminate"
        PROVE  shell[awaits[c].of].status = "terminated"
    BY <2>2 DEF ShellInv, ToldSound
  <2>3. ASSUME NEW s \in Shells PROVE EndSound(s) /\ LinesSound(s)
    BY DEF ShellInv
  <2> QED
    BY <2>1, <2>2, <2>3
       DEF Terminal!ShellSound, Final, EndSound, LinesSound, LastLines
<1> QED
  BY <1>1, <1>2, <1>3, PTL DEF EdgeSpec

(* What the services of a sandbox hand out is alive, and what they report  *)
(* of it is true.                                                          *)
THEOREM SandboxIsSound == EdgeSpec => []SandboxSound
<1>1. BrowserSound /\ ShellSound => SandboxSound
  BY DEF SandboxSound
<1> QED
  BY <1>1, BrowserIsSound, ShellIsSound, PTL

-----------------------------------------------------------------------------
(* Files.  The content of an upload that waits for its commit is stored,   *)
(* and no other request is about it; a file whose content is about to be   *)
(* deleted has no record, and gets none again.                             *)
Work == {"commit", "erase", "unlink"}

Chores == {File!Idle} \cup [at : Work, file : Uploads] \cup [at : {"copy"}, listed : Seq(Uploads)]

FileTypes ==
  /\ owner \in [Uploads -> Homes \cup {None, "new"}]
  /\ disk \subseteq Uploads /\ records \in Seq(Uploads) /\ synced \in Seq(Uploads)
  /\ \A i \in 1..Len(synced) : synced[i] \in syncable
  /\ op \in [Clients -> Chores]
  /\ sandbox \in [File!Names -> Uploads \cup {None}]

RecordsKept ==
  /\ \A f \in File!Recorded : owner[f] # "new" /\ (f \in disk \/ f \in unsure)
  /\ \A f \in disk \ File!Recorded :
       f \in left \/ \E c \in Clients : op[c].at \in {"commit", "unlink"} /\ op[c].file = f

ChoresSound ==
  /\ \A c \in Clients : op[c].at \in Work => owner[op[c].file] # "new"
  /\ \A c \in Clients : op[c].at = "unlink" => op[c].file \notin File!Recorded
  /\ \A c \in Clients : op[c].at = "commit" =>
       /\ op[c].file \in disk \ File!Recorded
       /\ \A d \in Clients : op[d].at \in Work /\ op[d].file = op[c].file => d = c

(* Of several elements with one name, the last is in the box.              *)
LastStays(s, box) ==
  \A i \in 1..Len(s) :
    (\A j \in 1..Len(s) : NameOf[s[j]] = NameOf[s[i]] => j <= i) => box[NameOf[s[i]]] = s[i]

FileInv == FileTypes /\ RecordsKept /\ ChoresSound /\ LastStays(synced, sandbox)

(* A commit adds its file to those with a record, a deletion takes it away.*)
LEMMA RecordedChanges ==
  ASSUME records \in Seq(Uploads), NEW f \in Uploads
  PROVE  /\ records' = Append(records, f) =>
              records' \in Seq(Uploads) /\ File!Recorded' = File!Recorded \cup {f}
         /\ records' = File!Without(f) =>
              records' \in Seq(Uploads) /\ File!Recorded' = File!Recorded \ {f}
         /\ records' = records => records' \in Seq(Uploads) /\ File!Recorded' = File!Recorded
<1>1. ASSUME NEW s \in Seq(Uploads) PROVE File!ToSet(s) = {s[i] : i \in 1..Len(s)}
  BY DEF File!ToSet
<1>2. ASSUME records' = Append(records, f)
      PROVE  records' \in Seq(Uploads) /\ File!Recorded' = File!Recorded \cup {f}
  <2>1. /\ records' \in Seq(Uploads) /\ Len(records') = Len(records) + 1
        /\ \A i \in 1..Len(records) : records'[i] = records[i]
        /\ records'[Len(records) + 1] = f /\ Len(records) \in Nat
    BY <1>2
  <2>2. /\ \A i \in 1..Len(records') : i \in 1..Len(records) \/ i = Len(records) + 1
        /\ \A i \in 1..Len(records) : i \in 1..Len(records')
        /\ Len(records) + 1 \in 1..Len(records')
    BY <2>1
  <2>3. {records'[i] : i \in 1..Len(records')} = {records[i] : i \in 1..Len(records)} \cup {f}
    BY <2>1, <2>2
  <2> QED
    BY <1>1, <2>1, <2>3 DEF File!Recorded, File!ToSet
<1>3. ASSUME records' = File!Without(f)
      PROVE  records' \in Seq(Uploads) /\ File!Recorded' = File!Recorded \ {f}
  <2> DEFINE S == Uploads \ {f}
             kept == Filtered(records, S)
  <2>1. records' = kept
    <3>1. File!Filtered(records, S) = Filtered(records, S)
      BY DEF File!Filtered, Filtered
    <3> QED
      BY <1>3, <3>1 DEF File!Without
  <2>2. /\ kept \in Seq(Uploads)
        /\ \A j \in 1..Len(kept) : kept[j] \in S /\ \E m \in 1..Len(records) : records[m] = kept[j]
        /\ \A m \in 1..Len(records) :
             records[m] \in S => \E j \in 1..Len(kept) : kept[j] = records[m]
    <3> HIDE DEF S
    <3> QED
      BY FilterKeeps
  <2> HIDE DEF kept
  <2>3. {kept[i] : i \in 1..Len(kept)} = {records[i] : i \in 1..Len(records)} \ {f}
    BY <2>2
  <2>4. DOMAIN kept = 1..Len(kept) /\ DOMAIN records = 1..Len(records)
    BY <2>2
  <2>5. /\ File!Recorded' = {kept[i] : i \in 1..Len(kept)}
        /\ File!Recorded = {records[i] : i \in 1..Len(records)}
    BY <2>1, <2>4 DEF File!Recorded, File!ToSet
  <2> QED
    BY <2>1, <2>2, <2>3, <2>5
<1> QED
  BY <1>2, <1>3 DEF File!Recorded, File!ToSet

(* The chore of one client changes.                                        *)
LEMMA ChoreChanges ==
  ASSUME op \in [Clients -> Chores], NEW c \in Clients, NEW new \in Chores,
         op' = [op EXCEPT ![c] = new]
  PROVE  /\ op' \in [Clients -> Chores] /\ op'[c] = new
         /\ \A d \in Clients \ {c} : op'[d] = op[d]
  OBVIOUS

(* A client becomes idle.                                                  *)
LEMMA ChoreEnds ==
  ASSUME op \in [Clients -> Chores], NEW c \in Clients, File!Ends(c)
  PROVE  /\ op' \in [Clients -> Chores] /\ op'[c].at = "idle"
         /\ \A d \in Clients \ {c} : op'[d] = op[d]
<1>1. File!Idle \in Chores /\ File!Idle.at = "idle"
  BY DEF Chores, File!Idle
<1> QED
  BY <1>1, ChoreChanges DEF File!Ends

(* A client begins a chore.                                                *)
LEMMA ChoreBegins ==
  ASSUME op \in [Clients -> Chores], NEW c \in Clients, NEW what \in Work, NEW f \in Uploads,
         File!Goes(c, what, f)
  PROVE  /\ op' \in [Clients -> Chores] /\ op'[c].at = what /\ op'[c].file = f
         /\ \A d \in Clients \ {c} : op'[d] = op[d]
<1>1. [at |-> what, file |-> f] \in Chores
  BY DEF Chores
<1> QED
  BY <1>1, ChoreChanges DEF File!Goes

(* The content is written before its record.                               *)
LEMMA WriteStep ==
  ASSUME FileInv, NEW c \in Clients, NEW f \in Uploads, NEW s \in Homes \cup {None},
         File!Write(c, f, s)
  PROVE  FileInv'
<1>1. /\ op[c] = File!Idle /\ owner[f] = "new"
      /\ owner' = [owner EXCEPT ![f] = s] /\ disk' = disk \cup {f}
      /\ syncable \subseteq syncable'
      /\ \/ File!Goes(c, "commit", f) /\ UNCHANGED left
         \/ left' = left \cup {f} /\ UNCHANGED op
      /\ UNCHANGED <<records, unsure, sandbox, synced>>
  BY DEF File!Write
<1>2. /\ op' \in [Clients -> Chores] /\ \A d \in Clients \ {c} : op'[d] = op[d]
      /\ \/ op'[c].at = "commit" /\ op'[c].file = f /\ left' = left
         \/ op'[c].at = "idle" /\ left' = left \cup {f}
  BY <1>1, ChoreBegins DEF FileInv, FileTypes, Work, File!Idle
<1>3. /\ FileTypes' /\ owner'[f] # "new"
      /\ \A g \in Uploads \ {f} : owner'[g] = owner[g]
  BY <1>1, <1>2, EdgeAssumption DEF FileInv, FileTypes
<1>4. File!Recorded' = File!Recorded /\ f \notin File!Recorded /\ File!Recorded \subseteq Uploads
  <2>1. File!Recorded \subseteq Uploads
    BY DEF FileInv, FileTypes, File!Recorded, File!ToSet
  <2> QED
    BY <1>1, <2>1 DEF FileInv, RecordsKept, File!Recorded
<1>5. op[c].at = "idle"
  BY <1>1 DEF File!Idle
<1>6. ASSUME NEW d \in Clients, op[d].at \in Work PROVE op[d].file \in Uploads \ {f} /\ d # c
  <2>1. op[d].file \in Uploads
    BY <1>6 DEF FileInv, FileTypes, Chores, Work, File!Idle
  <2> QED
    BY <1>1, <1>5, <1>6, <2>1 DEF FileInv, ChoresSound, Work
<1>7. RecordsKept'
  <2>1. \A g \in File!Recorded : g \in Uploads \ {f}
    BY <1>4
  <2>2. \A g \in File!Recorded : owner'[g] # "new" /\ (g \in disk' \/ g \in unsure')
    BY <1>1, <1>3, <2>1 DEF FileInv, RecordsKept
  <2>3. ASSUME NEW g \in disk' \ File!Recorded
        PROVE  \/ g \in left'
               \/ \E d \in Clients : op'[d].at \in {"commit", "unlink"} /\ op'[d].file = g
    <3>1. CASE g = f
      BY <1>2, <3>1
    <3>2. CASE g # f
      <4>1. g \in left \/ \E d \in Clients : op[d].at \in {"commit", "unlink"} /\ op[d].file = g
        BY <1>1, <3>2 DEF FileInv, RecordsKept
      <4> QED
        BY <1>1, <1>2, <1>5, <4>1
    <3> QED
      BY <3>1, <3>2
  <2> QED
    BY <1>4, <2>2, <2>3 DEF RecordsKept
<1>8. ChoresSound'
  <2>1. ASSUME NEW d \in Clients, op'[d].at \in Work PROVE owner'[op'[d].file] # "new"
    <3>1. CASE d = c
      <4>1. op'[c].file = f
        BY <1>2, <2>1, <3>1 DEF Work
      <4> QED
        BY <1>3, <3>1, <4>1
    <3>2. CASE d # c
      <4>1. op'[d] = op[d] /\ op[d].file \in Uploads \ {f} /\ owner[op[d].file] # "new"
        BY <1>2, <1>6, <2>1, <3>2 DEF FileInv, ChoresSound
      <4> QED
        BY <1>3, <4>1
    <3> QED
      BY <3>1, <3>2
  <2>2. ASSUME NEW d \in Clients, op'[d].at = "unlink" PROVE op'[d].file \notin File!Recorded
    BY <1>2, <2>2 DEF FileInv, ChoresSound
  <2>3. ASSUME NEW d \in Clients, op'[d].at = "commit"
        PROVE  /\ op'[d].file \in disk' \ File!Recorded
               /\ \A e \in Clients : op'[e].at \in Work /\ op'[e].file = op'[d].file => e = d
    <3>1. CASE d = c
      <4>1. op'[c].at = "commit" /\ op'[c].file = f /\ f \in disk'
        BY <1>1, <1>2, <2>3, <3>1
      <4>2. \A e \in Clients \ {c} : op'[e] = op[e] /\ (op[e].at \in Work => op[e].file # f)
        BY <1>2, <1>6
      <4> QED
        BY <1>4, <3>1, <4>1, <4>2
    <3>2. CASE d # c
      BY <1>1, <1>2, <1>6, <2>3, <3>2 DEF FileInv, ChoresSound, Work
    <3> QED
      BY <3>1, <3>2
  <2> QED
    BY <1>4, <2>1, <2>2, <2>3 DEF ChoresSound
<1>9. LastStays(synced, sandbox)'
  BY <1>1 DEF FileInv, LastStays
<1> QED
  BY <1>3, <1>7, <1>8, <1>9 DEF FileInv
(* A commit succeeds, fails, or succeeds while its answer is lost.         *)
LEMMA RecordStep == ASSUME FileInv, NEW c \in Clients, File!Record(c) PROVE FileInv'
<1> DEFINE f == op[c].file
<1>1. /\ op[c].at = "commit" /\ File!Ends(c)
      /\ UNCHANGED <<owner, syncable, sandbox, synced>>
      /\ \/ records' = Append(records, f) /\ UNCHANGED <<disk, unsure, left>>
         \/ disk' = disk \ {f} /\ UNCHANGED <<records, unsure, left>>
         \/ left' = left \cup {f} /\ UNCHANGED <<disk, records, unsure>>
         \/ /\ records' = Append(records, f) /\ disk' = disk \ {f}
            /\ unsure' = unsure \cup {f} /\ UNCHANGED left
  BY DEF File!Record, File!Kept
<1>2. f \in Uploads
  BY <1>1 DEF FileInv, FileTypes, Chores, Work, File!Idle
<1>3. /\ owner[f] # "new" /\ f \in disk \ File!Recorded
      /\ \A d \in Clients \ {c} : op[d].at \in Work => op[d].file # f
  BY <1>1 DEF FileInv, ChoresSound, Work
<1>4. /\ records' \in Seq(Uploads)
      /\ \/ File!Recorded' = File!Recorded \cup {f} /\ disk' = disk /\ unsure' = unsure
         \/ File!Recorded' = File!Recorded /\ disk' = disk \ {f} /\ unsure' = unsure
         \/ /\ File!Recorded' = File!Recorded /\ disk' = disk /\ unsure' = unsure
            /\ f \in left'
         \/ /\ File!Recorded' = File!Recorded \cup {f} /\ disk' = disk \ {f}
            /\ unsure' = unsure \cup {f}
      /\ left \subseteq left'
  <2>1. records \in Seq(Uploads)
    BY DEF FileInv, FileTypes
  <2> HIDE DEF f
  <2> QED
    BY <1>1, <1>2, <2>1, RecordedChanges
<1>5. /\ op' \in [Clients -> Chores] /\ op'[c].at = "idle"
      /\ \A d \in Clients \ {c} : op'[d] = op[d]
  BY <1>1, ChoreEnds DEF FileInv, FileTypes
<1> HIDE DEF f
<1>6. FileTypes'
  BY <1>1, <1>4, <1>5 DEF FileInv, FileTypes
<1>7. RecordsKept'
  <2>1. \A g \in File!Recorded' : owner'[g] # "new" /\ (g \in disk' \/ g \in unsure')
    BY <1>1, <1>3, <1>4 DEF FileInv, RecordsKept
  <2>2. ASSUME NEW g \in disk' \ File!Recorded'
        PROVE  \/ g \in left'
               \/ \E d \in Clients : op'[d].at \in {"commit", "unlink"} /\ op'[d].file = g
    <3>1. \/ g \in left'
          \/ g # f /\ g \in disk \ File!Recorded
      BY <1>3, <1>4, <2>2
    <3>2. CASE g # f /\ g \in disk \ File!Recorded
      <4>1. g \in left \/ \E d \in Clients : op[d].at \in {"commit", "unlink"} /\ op[d].file = g
        BY <3>2 DEF FileInv, RecordsKept
      <4> QED
        BY <1>4, <1>5, <3>2, <4>1 DEF f
    <3> QED
      BY <3>1, <3>2
  <2> QED
    BY <2>1, <2>2 DEF RecordsKept
<1>8. ChoresSound'
  <2>1. ASSUME NEW d \in Clients, op'[d].at \in Work
        PROVE  d # c /\ op'[d] = op[d] /\ op[d].at \in Work /\ op[d].file # f
    BY <1>3, <1>5, <2>1 DEF Work
  <2>2. ASSUME NEW d \in Clients, op'[d].at = "commit"
        PROVE  /\ op'[d].file \in disk' \ File!Recorded'
               /\ \A e \in Clients : op'[e].at \in Work /\ op'[e].file = op'[d].file => e = d
    <3>1. op'[d] = op[d] /\ op[d].file # f
      BY <2>1, <2>2 DEF Work
    <3>2. /\ op[d].file \in disk \ File!Recorded
          /\ \A e \in Clients : op[e].at \in Work /\ op[e].file = op[d].file => e = d
      BY <2>2, <3>1 DEF FileInv, ChoresSound
    <3> QED
      BY <1>4, <2>1, <3>1, <3>2
  <2>3. ASSUME NEW d \in Clients, op'[d].at = "unlink" PROVE op'[d].file \notin File!Recorded'
    <3>1. op'[d] = op[d] /\ op[d].file # f
      BY <2>1, <2>3 DEF Work
    <3> QED
      BY <1>4, <2>3, <3>1 DEF FileInv, ChoresSound
  <2> QED
    BY <1>1, <2>1, <2>2, <2>3 DEF ChoresSound, FileInv
<1>9. LastStays(synced, sandbox)'
  BY <1>1 DEF FileInv, LastStays
<1> QED
  BY <1>6, <1>7, <1>8, <1>9 DEF FileInv

(* A deletion begins: the file has a record.                               *)
LEMMA DeleteStep ==
  ASSUME FileInv, NEW c \in Clients, NEW f \in Uploads, File!Delete(c, f)
  PROVE  FileInv'
<1>1. /\ op[c] = File!Idle /\ f \in File!Recorded /\ File!Goes(c, "erase", f)
      /\ UNCHANGED <<owner, syncable, disk, records, unsure, left, sandbox, synced>>
  BY DEF File!Delete, File!Kept
<1>2. /\ op' \in [Clients -> Chores] /\ op'[c].at = "erase" /\ op'[c].file = f
      /\ \A d \in Clients \ {c} : op'[d] = op[d]
  BY <1>1, ChoreBegins DEF FileInv, FileTypes, Work
<1>3. op[c].at = "idle" /\ owner[f] # "new" /\ File!Recorded' = File!Recorded
  BY <1>1 DEF File!Idle, FileInv, RecordsKept, File!Recorded
<1>4. FileTypes'
  BY <1>1, <1>2 DEF FileInv, FileTypes
<1>5. RecordsKept'
  <2>1. ASSUME NEW g \in disk \ File!Recorded
        PROVE  \/ g \in left
               \/ \E d \in Clients : op'[d].at \in {"commit", "unlink"} /\ op'[d].file = g
    BY <1>2, <1>3 DEF FileInv, RecordsKept
  <2> QED
    BY <1>1, <1>3, <2>1 DEF FileInv, RecordsKept
<1>6. ChoresSound'
  <2>1. ASSUME NEW d \in Clients, op'[d].at \in Work PROVE owner[op'[d].file] # "new"
    BY <1>2, <1>3, <2>1 DEF FileInv, ChoresSound
  <2>2. ASSUME NEW d \in Clients, op'[d].at = "unlink" PROVE op'[d].file \notin File!Recorded
    BY <1>2, <2>2 DEF FileInv, ChoresSound
  <2>3. ASSUME NEW d \in Clients, op'[d].at = "commit"
        PROVE  /\ op'[d].file \in disk \ File!Recorded
               /\ \A e \in Clients : op'[e].at \in Work /\ op'[e].file = op'[d].file => e = d
    <3>1. d # c /\ op'[d] = op[d]
      BY <1>2, <2>3
    <3> QED
      BY <1>1, <1>2, <2>3, <3>1 DEF FileInv, ChoresSound
  <2> QED
    BY <1>1, <1>3, <2>1, <2>2, <2>3 DEF ChoresSound
<1>7. LastStays(synced, sandbox)'
  BY <1>1 DEF FileInv, LastStays
<1> QED
  BY <1>4, <1>5, <1>6, <1>7 DEF FileInv

(* The record goes, or the commit fails.                                   *)
LEMMA EraseStep == ASSUME FileInv, NEW c \in Clients, File!Erase(c) PROVE FileInv'
<1> DEFINE f == op[c].file
<1>1. /\ op[c].at = "erase"
      /\ UNCHANGED <<owner, syncable, disk, unsure, sandbox, synced>>
      /\ \/ records' = File!Without(f) /\ File!Goes(c, "unlink", f) /\ UNCHANGED left
         \/ UNCHANGED <<records, left>> /\ File!Ends(c)
         \/ records' = File!Without(f) /\ File!Ends(c) /\ left' = left \cup {f}
  BY DEF File!Erase, File!Kept
<1>2. f \in Uploads /\ op \in [Clients -> Chores] /\ records \in Seq(Uploads)
  BY <1>1 DEF FileInv, FileTypes, Chores, Work, File!Idle
<1>3. /\ owner[f] # "new"
      /\ \A d \in Clients : op[d].at = "commit" => op[d].file # f
  BY <1>1 DEF FileInv, ChoresSound, Work
<1> HIDE DEF f
<1>4. /\ records' \in Seq(Uploads) /\ op' \in [Clients -> Chores]
      /\ \A d \in Clients \ {c} : op'[d] = op[d]
      /\ \/ /\ File!Recorded' = File!Recorded \ {f} /\ left' = left
            /\ op'[c].at = "unlink" /\ op'[c].file = f
         \/ File!Recorded' = File!Recorded /\ left' = left /\ op'[c].at = "idle"
         \/ /\ File!Recorded' = File!Recorded \ {f} /\ left' = left \cup {f}
            /\ op'[c].at = "idle"
  <2>1. CASE records' = File!Without(f) /\ File!Goes(c, "unlink", f) /\ UNCHANGED left
    BY <1>2, <2>1, RecordedChanges, ChoreBegins DEF Work
  <2>2. CASE UNCHANGED <<records, left>> /\ File!Ends(c)
    BY <1>2, <2>2, RecordedChanges, ChoreEnds
  <2>3. CASE records' = File!Without(f) /\ File!Ends(c) /\ left' = left \cup {f}
    BY <1>2, <2>3, RecordedChanges, ChoreEnds
  <2> QED
    BY <1>1, <2>1, <2>2, <2>3
<1>5. FileTypes'
  BY <1>1, <1>4 DEF FileInv, FileTypes
<1>6. RecordsKept'
  <2>1. \A g \in File!Recorded' : owner'[g] # "new" /\ (g \in disk' \/ g \in unsure')
    BY <1>1, <1>4 DEF FileInv, RecordsKept
  <2>2. ASSUME NEW g \in disk' \ File!Recorded'
        PROVE  \/ g \in left'
               \/ \E d \in Clients : op'[d].at \in {"commit", "unlink"} /\ op'[d].file = g
    <3>1. CASE g \in File!Recorded
      BY <1>4, <2>2, <3>1
    <3>2. CASE g \notin File!Recorded
      <4>1. g \in left \/ \E d \in Clients : op[d].at \in {"commit", "unlink"} /\ op[d].file = g
        BY <1>1, <3>2 DEF FileInv, RecordsKept
      <4>2. ASSUME NEW d \in Clients, op[d].at \in {"commit", "unlink"} PROVE op'[d] = op[d]
        BY <1>1, <1>4, <4>2
      <4> QED
        BY <1>4, <4>1, <4>2
    <3> QED
      BY <3>1, <3>2
  <2> QED
    BY <2>1, <2>2 DEF RecordsKept
<1>7. ChoresSound'
  <2>1. ASSUME NEW d \in Clients, op'[d].at \in Work
        PROVE  \/ d = c /\ op'[d].at = "unlink" /\ op'[d].file = f /\ f \notin File!Recorded'
               \/ d # c /\ op'[d] = op[d]
    BY <1>4, <2>1 DEF Work
  <2>2. \A d \in Clients : op'[d].at \in Work => owner'[op'[d].file] # "new"
    BY <1>1, <1>3, <2>1 DEF FileInv, ChoresSound
  <2>3. ASSUME NEW d \in Clients, op'[d].at = "unlink" PROVE op'[d].file \notin File!Recorded'
    BY <1>4, <2>1, <2>3 DEF FileInv, ChoresSound, Work
  <2>4. ASSUME NEW d \in Clients, op'[d].at = "commit"
        PROVE  /\ op'[d].file \in disk' \ File!Recorded'
               /\ \A e \in Clients : op'[e].at \in Work /\ op'[e].file = op'[d].file => e = d
    <3>1. d # c /\ op'[d] = op[d] /\ op[d].file # f
      BY <1>3, <2>1, <2>4 DEF Work
    <3>2. /\ op[d].file \in disk \ File!Recorded
          /\ \A e \in Clients : op[e].at \in Work /\ op[e].file = op[d].file => e = d
      BY <2>4, <3>1 DEF FileInv, ChoresSound
    <3> QED
      BY <1>1, <1>4, <2>1, <3>1, <3>2
  <2> QED
    BY <2>2, <2>3, <2>4 DEF ChoresSound
<1>8. LastStays(synced, sandbox)'
  BY <1>1 DEF FileInv, LastStays
<1> QED
  BY <1>5, <1>6, <1>7, <1>8 DEF FileInv

(* The content goes, or stays when the storage fails.                      *)
LEMMA UnlinkStep == ASSUME FileInv, NEW c \in Clients, File!Unlink(c) PROVE FileInv'
<1> DEFINE f == op[c].file
<1>1. /\ op[c].at = "unlink" /\ File!Ends(c)
      /\ \/ disk' = disk \ {f} /\ UNCHANGED left
         \/ left' = left \cup {f} /\ UNCHANGED disk
      /\ UNCHANGED <<owner, syncable, records, unsure, sandbox, synced>>
  BY DEF File!Unlink, File!Kept
<1>2. /\ f \notin File!Recorded
      /\ \A d \in Clients : op[d].at = "commit" => op[d].file # f
  BY <1>1 DEF FileInv, ChoresSound, Work
<1>3. /\ op' \in [Clients -> Chores] /\ op'[c].at = "idle"
      /\ \A d \in Clients \ {c} : op'[d] = op[d]
  BY <1>1, ChoreEnds DEF FileInv, FileTypes
<1>4. FileTypes' /\ File!Recorded' = File!Recorded
  BY <1>1, <1>3 DEF FileInv, FileTypes, File!Recorded
<1>5. RecordsKept'
  <2>1. ASSUME NEW g \in disk' \ File!Recorded
        PROVE  \/ g \in left'
               \/ \E d \in Clients : op'[d].at \in {"commit", "unlink"} /\ op'[d].file = g
    <3>1. \/ g \in left'
          \/ g # f /\ g \in disk
      BY <1>1, <2>1
    <3>2. CASE g # f /\ g \in disk
      <4>1. g \in left \/ \E d \in Clients : op[d].at \in {"commit", "unlink"} /\ op[d].file = g
        BY <2>1, <3>2 DEF FileInv, RecordsKept
      <4> QED
        BY <1>1, <1>3, <3>2, <4>1
    <3> QED
      BY <3>1, <3>2
  <2> QED
    BY <1>1, <1>2, <1>4, <2>1 DEF FileInv, RecordsKept
<1> HIDE DEF f
<1>6. ChoresSound'
  <2>1. ASSUME NEW d \in Clients, op'[d].at \in Work PROVE op'[d] = op[d] /\ op[d].at \in Work
    BY <1>3, <2>1 DEF Work
  <2>2. ASSUME NEW d \in Clients, op'[d].at = "commit"
        PROVE  /\ op'[d].file \in disk' \ File!Recorded
               /\ \A e \in Clients : op'[e].at \in Work /\ op'[e].file = op'[d].file => e = d
    BY <1>1, <1>2, <2>1, <2>2 DEF FileInv, ChoresSound, Work
  <2> QED
    BY <1>1, <1>4, <2>1, <2>2 DEF FileInv, ChoresSound, Work
<1>7. LastStays(synced, sandbox)'
  BY <1>1 DEF FileInv, LastStays
<1> QED
  BY <1>4, <1>5, <1>6, <1>7 DEF FileInv
(* What a request begins or ends that is about no file leaves the files    *)
(* and their records as they are.                                          *)
LEMMA OtherStep ==
  ASSUME FileInv, NEW c \in Clients, NEW new \in Chores, op' = [op EXCEPT ![c] = new],
         new.at \notin Work, op[c].at \notin Work,
         UNCHANGED <<owner, disk, records, unsure, left>>
  PROVE  op' \in [Clients -> Chores] /\ RecordsKept' /\ ChoresSound'
<1>1. /\ op' \in [Clients -> Chores] /\ op'[c] = new
      /\ \A d \in Clients \ {c} : op'[d] = op[d]
  BY ChoreChanges DEF FileInv, FileTypes
<1>2. \A d \in Clients : op[d].at \in Work \/ op'[d].at \in Work => op'[d] = op[d]
  BY <1>1
<1>3. RecordsKept'
  <2>1. ASSUME NEW g \in disk \ File!Recorded
        PROVE  \/ g \in left
               \/ \E d \in Clients : op'[d].at \in {"commit", "unlink"} /\ op'[d].file = g
    BY <1>2 DEF FileInv, RecordsKept, Work
  <2> QED
    BY <2>1 DEF FileInv, RecordsKept, File!Recorded
<1>4. ChoresSound'
  BY <1>2 DEF FileInv, ChoresSound, File!Recorded, Work
<1> QED
  BY <1>1, <1>3, <1>4

(* The attachments of a session are listed.                                *)
LEMMA ListStep ==
  ASSUME FileInv, NEW c \in Clients, NEW s \in Homes, File!List(c, s)
  PROVE  FileInv'
<1> DEFINE listed == File!Attached(s)
<1>1. /\ op[c] = File!Idle /\ op' = [op EXCEPT ![c] = [at |-> "copy", listed |-> listed]]
      /\ UNCHANGED <<owner, syncable, disk, records, unsure, left, sandbox, synced>>
  BY DEF File!List, File!Kept
<1>2. listed \in Seq(Uploads)
  <2> DEFINE S == {f \in Uploads : owner[f] = s}
             kept == Filtered(records, S)
  <2>1. kept \in Seq(Uploads)
    <3> HIDE DEF S
    <3> QED
      BY FilterKeeps DEF FileInv, FileTypes
  <2>2. File!Filtered(records, S) = kept
    BY DEF File!Filtered, Filtered
  <2>3. listed = [i \in 1..Len(kept) |-> kept[(Len(kept) - i) + 1]]
    BY <2>2 DEF File!Attached, File!Reverse
  <2> HIDE DEF listed, kept
  <2>4. \A i \in 1..Len(kept) : kept[(Len(kept) - i) + 1] \in Uploads
    BY <2>1
  <2> QED
    BY <2>1, <2>3, <2>4
<1> HIDE DEF listed
<1>3. PICK new \in Chores : new = [at |-> "copy", listed |-> listed]
  BY <1>2 DEF Chores
<1>4. op' \in [Clients -> Chores] /\ RecordsKept' /\ ChoresSound'
  <2>1. new.at \notin Work /\ op[c].at \notin Work /\ op' = [op EXCEPT ![c] = new]
    BY <1>1, <1>3 DEF File!Idle, Work
  <2> QED
    BY <1>1, <2>1, OtherStep
<1>5. FileTypes' /\ LastStays(synced, sandbox)'
  BY <1>1, <1>4 DEF FileInv, FileTypes, LastStays
<1> QED
  BY <1>4, <1>5 DEF FileInv

(* Copying leaves, of several elements with one name, the last.            *)
LEMMA CopiedLast ==
  ASSUME NEW s \in Seq(Uploads), sandbox \in [File!Names -> Uploads \cup {None}]
  PROVE  File!Copied(s) \in [File!Names -> Uploads \cup {None}] /\ LastStays(s, File!Copied(s))
<1> DEFINE Box == [File!Names -> Uploads \cup {None}]
           BoxAt(b, n) == IF n = 0 THEN sandbox
                          ELSE [b[n - 1] EXCEPT ![NameOf[s[n]]] = s[n]]
           Upto(k) == \E b \in [0..k -> Box] : \A n \in 0..k : b[n] = BoxAt(b, n)
<1>1. /\ Len(s) \in Nat
      /\ \A n \in 1..Len(s) : s[n] \in Uploads /\ NameOf[s[n]] \in File!Names
  BY DEF File!Names
<1>2. Upto(0)
  <2>1. [n \in 0..0 |-> sandbox] \in [0..0 -> Box]
    OBVIOUS
  <2>2. \A n \in 0..0 : n = 0
    OBVIOUS
  <2> QED
    BY <2>1, <2>2
<1>3. ASSUME NEW k \in Nat, k + 1 <= Len(s), Upto(k) PROVE Upto(k + 1)
  <2>1. PICK b \in [0..k -> Box] : \A n \in 0..k : b[n] = BoxAt(b, n)
    BY <1>3
  <2> DEFINE next == [b[k] EXCEPT ![NameOf[s[k + 1]]] = s[k + 1]]
             h == [n \in 0..(k + 1) |-> IF n = k + 1 THEN next ELSE b[n]]
  <2>2. next \in Box
    BY <1>1, <1>3
  <2>3. h \in [0..(k + 1) -> Box]
    <3> HIDE DEF next, Box
    <3> QED
      BY <2>2
  <2>4. ASSUME NEW n \in 0..k PROVE h[n] = BoxAt(h, n)
    <3>1. /\ n \in 0..(k + 1) /\ n # k + 1
          /\ n # 0 => n - 1 \in 0..k /\ n - 1 \in 0..(k + 1) /\ n - 1 # k + 1
      OBVIOUS
    <3>2. h[n] = b[n] /\ (n # 0 => h[n - 1] = b[n - 1])
      BY <3>1
    <3>3. b[n] = BoxAt(b, n)
      BY <2>1
    <3> HIDE DEF h
    <3> QED
      BY <3>2, <3>3
  <2>5. h[k + 1] = BoxAt(h, k + 1)
    <3>1. k + 1 \in 0..(k + 1) /\ k \in 0..(k + 1) /\ k # k + 1 /\ k + 1 # 0 /\ (k + 1) - 1 = k
      OBVIOUS
    <3>2. h[k + 1] = next /\ h[k] = b[k]
      BY <3>1
    <3>3. h[(k + 1) - 1] = b[k]
      BY <3>1, <3>2
    <3> HIDE DEF h
    <3> QED
      BY <3>1, <3>2, <3>3
  <2>6. \A n \in 0..(k + 1) : n \in 0..k \/ n = k + 1
    OBVIOUS
  <2> HIDE DEF h, BoxAt, Box
  <2> QED
    BY <2>3, <2>4, <2>5, <2>6
<1>4. Upto(Len(s))
  <2> DEFINE G == {k \in Nat : Upto(k)}
  <2>1. 0 \in G /\ \A k \in Nat : k + 1 <= Len(s) /\ k \in G => k + 1 \in G
    <3> HIDE DEF Upto
    <3> QED
      BY <1>2, <1>3
  <2> HIDE DEF G
  <2>2. \A k \in 0..Len(s) : k \in G
    BY <1>1, <2>1, CountUp
  <2>3. Len(s) \in G
    BY <1>1, <2>2
  <2> USE DEF G
  <2> QED
    BY <2>3
<1>5. PICK b \in [0..Len(s) -> Box] : \A n \in 0..Len(s) : b[n] = BoxAt(b, n)
  BY <1>4
<1> DEFINE boxes == CHOOSE h : h = [n \in 0..Len(s) |-> BoxAt(h, n)]
<1>6. b = [n \in 0..Len(s) |-> BoxAt(b, n)]
  <2> HIDE DEF BoxAt, Box
  <2> QED
    BY <1>5
<1>7. boxes = [n \in 0..Len(s) |-> BoxAt(boxes, n)]
  <2> HIDE DEF BoxAt
  <2> QED
    BY <1>6
<1>8. File!Copied(s) = boxes[Len(s)]
  BY DEF File!Copied
<1>9. \A n \in 0..Len(s) : boxes[n] = BoxAt(boxes, n)
  <2> HIDE DEF BoxAt
  <2> QED
    BY <1>7
<1> HIDE DEF boxes
<1> DEFINE Last(n) == \A i \in 1..n :
                        (\A j \in 1..n : NameOf[s[j]] = NameOf[s[i]] => j <= i)
                          => boxes[n][NameOf[s[i]]] = s[i]
           G == {n \in Nat : boxes[n] \in Box /\ Last(n)}
<1>10. 0 \in G
  <2>1. 0 \in 0..Len(s) /\ 1..0 = {}
    BY <1>1
  <2>2. boxes[0] = sandbox
    BY <1>9, <2>1
  <2> QED
    BY <2>1, <2>2
<1>11. ASSUME NEW k \in Nat, k + 1 <= Len(s), k \in G PROVE k + 1 \in G
  <2>1. k + 1 \in 1..Len(s) /\ k + 1 \in 0..Len(s) /\ (k + 1) - 1 = k /\ k + 1 # 0
    BY <1>1, <1>11
  <2> DEFINE old == boxes[k]
  <2>2. boxes[k + 1] = [old EXCEPT ![NameOf[s[k + 1]]] = s[k + 1]]
    <3>1. boxes[k + 1] = BoxAt(boxes, k + 1)
      BY <1>9, <2>1
    <3> QED
      BY <2>1, <3>1
  <2>3. old \in Box /\ Last(k)
    BY <1>11
  <2> HIDE DEF old
  <2>4. /\ boxes[k + 1] \in Box
        /\ boxes[k + 1][NameOf[s[k + 1]]] = s[k + 1]
        /\ \A m \in File!Names \ {NameOf[s[k + 1]]} : boxes[k + 1][m] = old[m]
    BY <1>1, <2>1, <2>2, <2>3
  <2>5. ASSUME NEW i \in 1..(k + 1),
               \A j \in 1..(k + 1) : NameOf[s[j]] = NameOf[s[i]] => j <= i
        PROVE  boxes[k + 1][NameOf[s[i]]] = s[i]
    <3>1. CASE i = k + 1
      BY <2>4, <3>1
    <3>2. CASE i # k + 1
      <4>1. i \in 1..k /\ i \in 1..Len(s) /\ k + 1 \in 1..(k + 1) /\ ~(k + 1 <= i)
        BY <1>1, <2>1, <3>2
      <4>2. NameOf[s[k + 1]] # NameOf[s[i]]
        BY <2>5, <4>1
      <4>3. boxes[k + 1][NameOf[s[i]]] = old[NameOf[s[i]]]
        BY <1>1, <2>4, <4>1, <4>2
      <4>4. \A j \in 1..k : NameOf[s[j]] = NameOf[s[i]] => j <= i
        BY <2>5
      <4> QED
        BY <2>3, <4>1, <4>3, <4>4 DEF old
    <3> QED
      BY <3>1, <3>2
  <2> QED
    BY <2>4, <2>5
<1>12. Len(s) \in G
  <2> HIDE DEF G
  <2>1. \A k \in Nat : k + 1 <= Len(s) /\ k \in G => k + 1 \in G
    BY <1>11
  <2>2. \A k \in 0..Len(s) : k \in G
    BY <1>1, <1>10, <2>1, CountUp
  <2> QED
    BY <1>1, <2>2
<1> QED
  BY <1>8, <1>12 DEF LastStays
(* The texts among the attachments are copied, up to the first that fails. *)
LEMMA CopyStep == ASSUME FileInv, NEW c \in Clients, File!Copy(c) PROVE FileInv'
<1> DEFINE listed == Filtered(op[c].listed, syncable)
<1>1. /\ op[c].at = "copy" /\ File!Ends(c)
      /\ UNCHANGED <<owner, syncable, disk, records, unsure, left>>
  BY DEF File!Copy
<1>2. listed \in Seq(Uploads) /\ \A i \in 1..Len(listed) : listed[i] \in syncable
  <2>1. op[c].listed \in Seq(Uploads)
    BY <1>1 DEF FileInv, FileTypes, Chores, Work, File!Idle
  <2> QED
    BY <2>1, FilterKeeps
<1>3. PICK n \in 0..Len(listed) :
        /\ sandbox' = File!Copied(SubSeq(listed, 1, n))
        /\ synced' = IF n = Len(listed) THEN listed ELSE << >>
  <2>1. \A s, S : File!Filtered(s, S) = Filtered(s, S)
    BY DEF File!Filtered, Filtered
  <2> QED
    BY <2>1 DEF File!Copy
<1> HIDE DEF listed
<1>4. SubSeq(listed, 1, n) \in Seq(Uploads) /\ (n = Len(listed) => SubSeq(listed, 1, n) = listed)
  BY <1>2
<1>5. PICK part1 \in Seq(Uploads) : part1 = SubSeq(listed, 1, n)
  BY <1>4
<1>6. /\ sandbox' \in [File!Names -> Uploads \cup {None}]
      /\ LastStays(part1, sandbox')
  BY <1>3, <1>5, CopiedLast DEF FileInv, FileTypes
<1>7. /\ synced' \in Seq(Uploads) /\ LastStays(synced', sandbox')
      /\ \A i \in 1..Len(synced') : synced'[i] \in syncable
  <2>1. CASE n = Len(listed)
    BY <1>2, <1>3, <1>4, <1>5, <1>6, <2>1
  <2>2. CASE n # Len(listed)
    <3>1. synced' = << >> /\ << >> \in Seq(Uploads) /\ Len(<< >>) = 0
      BY <1>3, <2>2
    <3> QED
      BY <3>1 DEF LastStays
  <2> QED
    BY <2>1, <2>2
<1>8. PICK new \in Chores : new = File!Idle
  BY DEF Chores
<1>9. op' \in [Clients -> Chores] /\ RecordsKept' /\ ChoresSound'
  <2>1. new.at \notin Work /\ op[c].at \notin Work /\ op' = [op EXCEPT ![c] = new]
    BY <1>1, <1>8 DEF File!Idle, Work, File!Ends
  <2> QED
    BY <1>1, <2>1, OtherStep
<1>10. FileTypes' /\ LastStays(synced, sandbox)'
  BY <1>1, <1>6, <1>7, <1>9 DEF FileInv, FileTypes, LastStays
<1> QED
  BY <1>9, <1>10 DEF FileInv

(* The process ends: what was under way is left.                           *)
LEMMA CrashStep == ASSUME FileInv, File!Crash PROVE FileInv'
<1>1. /\ left' = left \cup {op[c].file : c \in {d \in Clients : op[d].at \in {"commit", "unlink"}}}
      /\ op' = [c \in Clients |-> File!Idle]
      /\ UNCHANGED <<owner, syncable, disk, records, sandbox, synced, unsure>>
  BY DEF File!Crash
<1>2. \A c \in Clients : op'[c].at = "idle"
  BY <1>1 DEF File!Idle
<1>3. FileTypes'
  BY <1>1 DEF FileInv, FileTypes, Chores
<1>4. File!Recorded' = File!Recorded
  BY <1>1 DEF File!Recorded
<1>5. RecordsKept'
  <2>1. ASSUME NEW g \in disk \ File!Recorded PROVE g \in left'
    BY <1>1 DEF FileInv, RecordsKept
  <2> QED
    BY <1>1, <1>4, <2>1 DEF FileInv, RecordsKept
<1>6. ChoresSound'
  BY <1>2 DEF ChoresSound, Work
<1>7. LastStays(synced, sandbox)'
  BY <1>1 DEF FileInv, LastStays
<1> QED
  BY <1>3, <1>5, <1>6, <1>7 DEF FileInv

(* Whatever the requests, the storage and the sandbox do.                  *)
LEMMA FilesNext == ASSUME FileInv, File!Next PROVE FileInv'
<1>1. ASSUME NEW s \in Homes, File!DeleteSession(s) PROVE FileInv'
  BY <1>1 DEF File!DeleteSession, FileInv, FileTypes, RecordsKept, ChoresSound, LastStays,
              File!Recorded
<1>2. ASSUME NEW n \in File!Names, File!ToolChanges(n) PROVE FileInv'
  <2>1. /\ sandbox' = [sandbox EXCEPT ![n] = None] /\ synced' = << >>
        /\ UNCHANGED <<owner, syncable, disk, records, op, unsure, left>>
    BY <1>2 DEF File!ToolChanges
  <2>2. << >> \in Seq(Uploads) /\ Len(<< >>) = 0
    OBVIOUS
  <2>3. FileTypes'
    BY <2>1, <2>2 DEF FileInv, FileTypes
  <2>4. LastStays(synced, sandbox)'
    BY <2>1, <2>2 DEF LastStays
  <2> QED
    BY <2>1, <2>3, <2>4 DEF FileInv, RecordsKept, ChoresSound, File!Recorded
<1> QED
  BY <1>1, <1>2, WriteStep, DeleteStep, RecordStep, EraseStep, UnlinkStep, ListStep,
     CopyStep, CrashStep DEF File!Next

(* For any uploads, sessions and requests, however they overlap or are     *)
(* interrupted: what has a record has its content, unless a commit that    *)
(* seemed to fail recorded it; a content without a record is about to get  *)
(* one, about to go, or left by a crash or a failure of the storage; and a *)
(* synchronisation copies texts only, and leaves the oldest one of each    *)
(* name in the sandbox.                                                    *)
THEOREM FilesStayKept == EdgeSpec => []FilesKept
<1>1. EdgeInit => FileInv
  <2> SUFFICES ASSUME EdgeInit PROVE FileInv
    OBVIOUS
  <2>1. /\ owner = [f \in Uploads |-> "new"] /\ disk = {} /\ records = << >> /\ synced = << >>
        /\ op = [c \in Clients |-> File!Idle] /\ sandbox = [n \in File!Names |-> None]
    BY DEF EdgeInit, File!Init
  <2>2. << >> \in Seq(Uploads) /\ Len(<< >>) = 0 /\ DOMAIN << >> = {}
    OBVIOUS
  <2>3. FileTypes
    BY <2>1, <2>2 DEF FileTypes, Chores
  <2>4. File!Recorded = {}
    BY <2>1, <2>2 DEF File!Recorded, File!ToSet
  <2>5. \A c \in Clients : op[c].at = "idle"
    BY <2>1 DEF File!Idle
  <2> QED
    BY <2>1, <2>2, <2>3, <2>4, <2>5 DEF FileInv, RecordsKept, ChoresSound, LastStays, Work
<1>2. FileInv /\ [EdgeNext]_edgeVars => FileInv'
  <2> SUFFICES ASSUME FileInv, [EdgeNext]_edgeVars PROVE FileInv'
    OBVIOUS
  <2>1. UNCHANGED fileVars => FileInv'
    BY DEF fileVars, FileInv, FileTypes, RecordsKept, ChoresSound, LastStays, File!Recorded
  <2> QED
    BY <2>1, FilesNext DEF EdgeNext, edgeVars
<1>3. FileInv => FilesKept
  <2> SUFFICES ASSUME FileInv PROVE File!FilesKept
    BY DEF FilesKept
  <2>1. \A f \in File!Recorded : File!Downloadable(f) \/ f \in unsure
    BY DEF FileInv, RecordsKept, File!Downloadable
  <2>2. File!ToSet(synced) \subseteq syncable
    BY DEF FileInv, FileTypes, File!ToSet
  <2>3. DOMAIN synced = 1..Len(synced)
    BY DEF FileInv, FileTypes
  <2>4. LastStays(synced, sandbox)
    BY DEF FileInv
  <2> QED
    BY <2>1, <2>2, <2>3, <2>4 DEF FileInv, RecordsKept, LastStays, File!FilesKept
<1> QED
  BY <1>1, <1>2, <1>3, PTL DEF EdgeSpec

-----------------------------------------------------------------------------
(* Retrieval.  What a list of chunks gives to a chunk in it.               *)
Unlike(q) == \A i, j \in 1..Len(q) : q[i] = q[j] => i = j

(* A place leaves something, and a share of a number is a share.           *)
LEMMA PlaceLeaves ==
  ASSUME NEW a \in Nat, a >= 1, a <= 1000000
  PROVE  1000000 \div a \in Nat /\ 1000000 \div a >= 1
OBVIOUS

(* The part of a number in a larger one is a number of hundredths.         *)
LEMMA PartIsShare ==
  ASSUME NEW r \in Nat, NEW m \in Nat, m >= 1, r <= m
  PROVE  (r * 100) \div m \in 0..100
<1>1. PICK t \in Int : t = (r * 100) \div m
  OBVIOUS
<1>2. m * t <= r * 100 /\ r * 100 < m * t + m
  BY <1>1, SMT
<1>3. t <= 100
  BY <1>2
<1>4. t >= 0
  BY <1>2
<1> QED
  BY <1>1, <1>3, <1>4

(* A list gives something to the chunks that are in it.                    *)
LEMMA SharesAreNumbers ==
  ASSUME NEW q \in Seq(Chunks), Len(q) <= Query!Parts - 60, NEW x
  PROVE  Query!Share(q, x) \in Nat /\ (Seen(q, x) => Query!Share(q, x) > 0)
<1> DEFINE T == {k \in 1..Len(q) : q[k] = x}
           p == CHOOSE i \in T : \A j \in T : i <= j
<1>1. CASE Seen(q, x)
  <2>1. T \in SUBSET Nat /\ T # {}
    BY <1>1 DEF Seen
  <2>2. \E i \in T : \A j \in T : i <= j
    <3> HIDE DEF T
    <3> QED
      BY <2>1, LeastNumber
  <2>3. p \in T
    <3> HIDE DEF T
    <3> QED
      BY <2>2
  <2>4. p \in 1..Len(q)
    <3> HIDE DEF p
    <3> QED
      BY <2>3
  <2>5. Query!Share(q, x) = Query!Parts \div (60 + p)
    BY <1>1, <2>1 DEF Query!Share, Query!Contains, Query!SelectInSeq, Query!Min, Seen
  <2> HIDE DEF p, T
  <2>6. 60 + p \in Nat /\ 60 + p >= 1 /\ 60 + p <= Query!Parts
    BY <2>4 DEF Query!Parts
  <2>7. Query!Parts \div (60 + p) \in Nat /\ Query!Parts \div (60 + p) >= 1
    BY <2>6, PlaceLeaves DEF Query!Parts
  <2> QED
    BY <2>5, <2>7
<1>2. CASE ~Seen(q, x)
  BY <1>2 DEF Query!Share, Query!Contains, Seen
<1> QED
  BY <1>1, <1>2

(* The lists of all wordings, each without repetition.                     *)
Recalled ==
  /\ lists \in Seq(Seq(Chunks))
  /\ \A k \in 1..Len(lists) : Len(lists[k]) <= Query!Parts - 60 /\ Unlike(lists[k])

(* What each list adds to the sum for x.                                   *)
Shares(x) == [k \in 1..Len(lists) |-> [r \in Nat |-> r + Query!Share(lists[k], x)]]

(* A chunk has the sum of what the lists give to it.                       *)
LEMMA RrfRuns ==
  ASSUME Recalled, NEW x
  PROVE  \E g \in [0..Len(lists) -> Nat] :
           Advances(g, Len(lists), 0, Shares(x)) /\ Query!Rrf(x) = g[Len(lists)]
<1> DEFINE n == Len(lists)
           gain == Shares(x)
           Is(f) == f = [S \in SUBSET DOMAIN lists |->
                           IF S = {} THEN 0
                           ELSE f[S \ {Top(S)}] + Query!Share(lists[Top(S)], x)]
<1>1. n \in Nat /\ DOMAIN lists = 1..n /\ \A k \in 1..n : lists[k] \in Seq(Chunks)
  BY DEF Recalled
<1>2. \A k \in 1..n : Query!Share(lists[k], x) \in Nat
  BY <1>1, SharesAreNumbers DEF Recalled
<1>3. gain \in [1..n -> [Nat -> Nat]] /\ \A k \in 1..n, r \in Nat : gain[k][r] = r + Query!Share(lists[k], x)
  BY <1>2 DEF Shares
<1>4. \A S \in SUBSET (1..n) : S # {} => Top(S) \in 1..n
  BY <1>1, TopIsLast
<1>5. Query!Rrf(x) = (CHOOSE f : Is(f))[DOMAIN lists]
  BY DEF Query!Rrf, Query!FoldLeft, Query!MapThenFoldSet, Query!Max, Top
<1> HIDE DEF n, gain
<1>6. PICK h \in [SUBSET (1..n) -> Nat] : FoldsTo(h, n, 0, gain)
  BY ONLY <1>1, <1>3, 0 \in Nat, FoldDefines
<1>7. Is(h)
  <2>1. ASSUME NEW S \in SUBSET (1..n), S # {}
        PROVE  gain[Top(S)][h[S \ {Top(S)}]] = h[S \ {Top(S)}] + Query!Share(lists[Top(S)], x)
    <3>1. PICK r \in Nat : r = h[S \ {Top(S)}]
      OBVIOUS
    <3> QED
      BY <1>3, <1>4, <2>1, <3>1
  <2>2. h = [S \in SUBSET (1..n) |->
               IF S = {} THEN 0 ELSE h[S \ {Top(S)}] + Query!Share(lists[Top(S)], x)]
    BY <1>6, <2>1 DEF FoldsTo
  <2> QED
    BY <1>1, <2>2
<1>8. PICK f : f = (CHOOSE e : Is(e)) /\ Is(f)
  <2> HIDE DEF Is
  <2> QED
    BY <1>7
<1>9. /\ f[{}] = 0
      /\ \A S \in SUBSET (1..n) : S # {} => f[S] = f[S \ {Top(S)}] + Query!Share(lists[Top(S)], x)
  BY <1>1, <1>8
<1>10. \A S \in SUBSET (1..n) : S # {} /\ f[S \ {Top(S)}] \in Nat =>
         f[S] = gain[Top(S)][f[S \ {Top(S)}]]
  BY <1>3, <1>4, <1>9
<1>11. \E g \in [0..n -> Nat] : Advances(g, n, 0, gain) /\ f[1..n] = g[n]
  <2>1. Follows(f, n, 0, gain, Nat) /\ n \in Nat
    BY <1>1, <1>3, <1>9, <1>10 DEF Follows
  <2> QED
    BY ONLY <2>1, FoldAdvances
<1> QED
  BY <1>1, <1>5, <1>8, <1>11 DEF n, gain

(* It is a number, and something if a list has the chunk.                  *)
LEMMA RrfCounts ==
  ASSUME Recalled, NEW x
  PROVE  /\ Query!Rrf(x) \in Nat
         /\ (\E k \in 1..Len(lists) : Seen(lists[k], x)) => Query!Rrf(x) > 0
<1> DEFINE n == Len(lists)
<1>1. PICK g \in [0..n -> Nat] : Advances(g, n, 0, Shares(x)) /\ Query!Rrf(x) = g[n]
  BY RrfRuns
<1>2. n \in Nat /\ n \in 0..n
  BY DEF Recalled
<1>3. \A k \in 1..n : Query!Share(lists[k], x) \in Nat /\ (Seen(lists[k], x) => Query!Share(lists[k], x) > 0)
  BY SharesAreNumbers DEF Recalled
<1> DEFINE K(k) == (\E i \in 1..k : Seen(lists[i], x)) => g[k] > 0
           G == {k \in Nat : k <= n => K(k)}
<1>4. 0 \in G
  OBVIOUS
<1>5. ASSUME NEW k \in Nat, k + 1 <= n, k \in G PROVE k + 1 \in G
  <2>1. k + 1 \in 1..n /\ (k + 1) - 1 = k /\ k \in 0..n /\ K(k)
    BY <1>2, <1>5
  <2>2. PICK r \in Nat, s \in Nat : r = g[k] /\ s = Query!Share(lists[k + 1], x)
    BY <1>3, <2>1
  <2>3. Shares(x)[k + 1] = [e \in Nat |-> e + Query!Share(lists[k + 1], x)]
    BY <2>1 DEF Shares
  <2>4. g[k + 1] = r + s
    BY <1>1, <2>1, <2>2, <2>3 DEF Advances
  <2>5. \A i \in 1..(k + 1) : i \in 1..k \/ i = k + 1
    OBVIOUS
  <2>6. K(k + 1)
    BY <1>3, <2>1, <2>2, <2>4, <2>5
  <2> QED
    BY <2>6
<1>6. \A k \in 0..n : k \in G
  <2> HIDE DEF G, n
  <2> QED
    BY <1>2, <1>4, <1>5, CountUp
<1>7. K(n)
  BY <1>2, <1>6
<1> QED
  BY <1>1, <1>2, <1>7

(* Sequences one after the other have the elements of each.                *)
LEMMA FlatHasAll ==
  ASSUME NEW A, NEW s \in Seq(Seq(A))
  PROVE  /\ Query!FlattenSeq(s) \in Seq(A)
         /\ \A x : Seen(Query!FlattenSeq(s), x) <=> \E k \in 1..Len(s) : Seen(s[k], x)
<1>1. Query!FlattenSeq(s) = Joined(s)
  BY DEF Query!FlattenSeq, Joined
<1> QED
  BY <1>1, JoinedKeeps

(* What is left of a sequence when nothing is repeated.                    *)
Distinct(s) ==
  Query!FoldLeft(LAMBDA q, x : IF Query!Contains(q, x) THEN q ELSE Append(q, x), << >>, s)

(* It has the same elements, each of them once.                            *)
LEMMA DistinctHasAll ==
  ASSUME NEW A, NEW s \in Seq(A)
  PROVE  /\ Distinct(s) \in Seq(A) /\ Unlike(Distinct(s))
         /\ \A x : Seen(Distinct(s), x) <=> Seen(s, x)
<1> DEFINE n == Len(s)
           Is(f) == f = [S \in SUBSET DOMAIN s |->
                           IF S = {} THEN << >>
                           ELSE IF Seen(f[S \ {Top(S)}], s[Top(S)]) THEN f[S \ {Top(S)}]
                                ELSE Append(f[S \ {Top(S)}], s[Top(S)])]
           gain == [k \in 1..n |-> [r \in Seq(A) |->
                      IF Seen(r, s[k]) THEN r ELSE Append(r, s[k])]]
<1>1. n \in Nat /\ DOMAIN s = 1..n /\ \A k \in 1..n : s[k] \in A
  OBVIOUS
<1>2. gain \in [1..n -> [Seq(A) -> Seq(A)]]
  <2> SUFFICES ASSUME NEW k \in 1..n, NEW r \in Seq(A)
               PROVE  (IF Seen(r, s[k]) THEN r ELSE Append(r, s[k])) \in Seq(A)
    OBVIOUS
  <2> QED
    BY <1>1
<1>3. \A k \in 1..n, r \in Seq(A) : gain[k][r] = IF Seen(r, s[k]) THEN r ELSE Append(r, s[k])
  OBVIOUS
<1>4. \A S \in SUBSET (1..n) : S # {} => Top(S) \in 1..n
  BY <1>1, TopIsLast
<1>5. Distinct(s) = (CHOOSE f : Is(f))[DOMAIN s]
  BY DEF Distinct, Query!FoldLeft, Query!MapThenFoldSet, Query!Max, Top, Query!Contains, Seen
<1> HIDE DEF n, gain
<1>6. PICK h \in [SUBSET (1..n) -> Seq(A)] : FoldsTo(h, n, << >>, gain)
  BY ONLY <1>1, <1>2, << >> \in Seq(A), FoldDefines
<1>7. Is(h)
  <2>1. ASSUME NEW S \in SUBSET (1..n), S # {}
        PROVE  gain[Top(S)][h[S \ {Top(S)}]]
                 = IF Seen(h[S \ {Top(S)}], s[Top(S)]) THEN h[S \ {Top(S)}]
                   ELSE Append(h[S \ {Top(S)}], s[Top(S)])
    <3>1. PICK r \in Seq(A) : r = h[S \ {Top(S)}]
      OBVIOUS
    <3> QED
      BY <1>3, <1>4, <2>1, <3>1
  <2>2. h = [S \in SUBSET (1..n) |->
               IF S = {} THEN << >>
               ELSE IF Seen(h[S \ {Top(S)}], s[Top(S)]) THEN h[S \ {Top(S)}]
                    ELSE Append(h[S \ {Top(S)}], s[Top(S)])]
    BY <1>6, <2>1 DEF FoldsTo
  <2> QED
    BY <1>1, <2>2
<1>8. PICK f : f = (CHOOSE e : Is(e)) /\ Is(f)
  <2> HIDE DEF Is
  <2> QED
    BY <1>7
<1>9. /\ f[{}] = << >>
      /\ \A S \in SUBSET (1..n) : S # {} =>
           f[S] = IF Seen(f[S \ {Top(S)}], s[Top(S)]) THEN f[S \ {Top(S)}]
                  ELSE Append(f[S \ {Top(S)}], s[Top(S)])
  BY <1>1, <1>8
<1>10. \A S \in SUBSET (1..n) : S # {} /\ f[S \ {Top(S)}] \in Seq(A) =>
         f[S] = gain[Top(S)][f[S \ {Top(S)}]]
  BY <1>3, <1>4, <1>9
<1>11. PICK g \in [0..n -> Seq(A)] : Advances(g, n, << >>, gain) /\ f[1..n] = g[n]
  <2>1. f[{}] = << >> /\ << >> \in Seq(A) /\ n \in Nat
    BY <1>1, <1>9
  <2>2. Follows(f, n, << >>, gain, Seq(A)) /\ n \in Nat
    BY ONLY <1>2, <1>10, <2>1 DEF Follows
  <2> QED
    BY ONLY <2>2, FoldAdvances
<1> DEFINE K(k) == Unlike(g[k]) /\ \A x : Seen(g[k], x) <=> \E i \in 1..k : s[i] = x
           G == {k \in Nat : k <= n => K(k)}
<1>12. 0 \in G
  <2>1. g[0] = << >> /\ Len(<< >>) = 0
    BY <1>11 DEF Advances
  <2> QED
    BY <2>1 DEF Unlike, Seen
<1>13. ASSUME NEW k \in Nat, k + 1 <= n, k \in G PROVE k + 1 \in G
  <2>1. k + 1 \in 1..n /\ (k + 1) - 1 = k /\ k \in 0..n /\ K(k)
    <3>1. k + 1 \in 1..n /\ (k + 1) - 1 = k /\ k \in 0..n /\ k <= n
      BY <1>1, <1>13
    <3> HIDE DEF K
    <3> QED
      BY <1>13, <3>1
  <2>2. PICK q \in Seq(A), a \in A : q = g[k] /\ a = s[k + 1]
    BY <1>1, <2>1
  <2>3. g[k + 1] = IF Seen(q, a) THEN q ELSE Append(q, a)
    BY <1>3, <1>11, <2>1, <2>2 DEF Advances
  <2>4. Unlike(q) /\ \A x : Seen(q, x) <=> \E i \in 1..k : s[i] = x
    BY <2>1, <2>2
  <2>5. /\ k + 1 \in 1..(k + 1) /\ \A i \in 1..k : i \in 1..(k + 1)
        /\ \A i \in 1..(k + 1) : i \in 1..k \/ i = k + 1
    OBVIOUS
  <2>6. CASE Seen(q, a)
    <3>1. \A x : Seen(q, x) <=> \E i \in 1..(k + 1) : s[i] = x
      BY <2>2, <2>4, <2>5, <2>6
    <3>2. K(k + 1)
      BY <2>3, <2>4, <2>6, <3>1
    <3> HIDE DEF K
    <3> QED
      BY <3>2
  <2>7. CASE ~Seen(q, a)
    <3>0. Append(q, a) \in Seq(A)
      BY ONLY q \in Seq(A), a \in A
    <3>1. PICK p \in Seq(A) : p = Append(q, a)
      BY <3>0
    <3>2. /\ Len(q) \in Nat /\ Len(p) = Len(q) + 1 /\ p[Len(q) + 1] = a
          /\ \A j \in 1..Len(q) : p[j] = q[j] /\ j \in 1..Len(p)
          /\ Len(q) + 1 \in 1..Len(p)
      BY <3>1
    <3>3. \A j \in 1..Len(p) : j \in 1..Len(q) \/ j = Len(q) + 1
      BY <3>2
    <3>4. \A x : Seen(p, x) <=> Seen(q, x) \/ x = a
      BY <3>2, <3>3 DEF Seen
    <3>5. Unlike(p)
      BY <2>4, <2>7, <3>2, <3>3 DEF Unlike, Seen
    <3>6. \A x : Seen(p, x) <=> \E i \in 1..(k + 1) : s[i] = x
      BY <2>2, <2>4, <2>5, <3>4
    <3>7. K(k + 1)
      BY <2>3, <2>7, <3>1, <3>5, <3>6
    <3> HIDE DEF K
    <3> QED
      BY <3>7
  <2> QED
    BY <2>6, <2>7
<1>14. K(n)
  <2>1. \A k \in 0..n : k \in G
    <3> HIDE DEF G
    <3> QED
      BY <1>1, <1>12, <1>13, CountUp
  <2> QED
    BY <1>1, <2>1
<1>15. n \in 0..n
  BY <1>1
<1>16. Distinct(s) = g[n]
  BY <1>1, <1>5, <1>8, <1>11
<1> QED
  BY <1>14, <1>15, <1>16 DEF Seen, n

(* Candidates, and what is known of them: each is usable and was found,    *)
(* and each that is usable and was found is one, once.                     *)
Cand == [chunk : Chunks, vector : 0..100, fusion : 0..100, mark : 0..100, marked : BOOLEAN]

Standing(s, u, b) ==
  /\ s \in Seq(Cand)
  /\ \A i, j \in 1..Len(s) : s[i].chunk = s[j].chunk => i = j
  /\ \A i \in 1..Len(s) : s[i].chunk \in u /\ b[s[i].chunk] > 0
  /\ \A x \in u : b[x] > 0 => \E i \in 1..Len(s) : s[i].chunk = x

(* The candidates as they are.                                             *)
StandingNow ==
  \A s, u, b : s = scored /\ u = usable /\ b = best => Standing(s, u, b)

(* What the answer holds, and what is known of it once it is given.        *)
Item == [chunk : Chunks, score : Int, chars : Nat]

Answered ==
  /\ found \in Seq(Item) /\ Len(found) <= TopK /\ Summed(found) <= BlockChars
  /\ \A i, j \in 1..Len(found) :
       i < j => found[i].chunk # found[j].chunk /\ found[i].score >= found[j].score
  /\ \A i \in 1..Len(found) : /\ found[i].chunk \in usable /\ best[found[i].chunk] > 0
                              /\ found[i].score <= 1000
  /\ \A x \in usable : best[x] > 0 /\ (\A i \in 1..Len(found) : found[i].chunk # x) =>
       \/ Len(found) = TopK \/ BlockChars - Summed(found) <= Slack
       \/ \E k \in 1..Len(scored) : scored[k].chunk = x /\ Query!Final(scored[k]) < MinScore

(* The best score of a chunk is positive if a list has it, and only then.  *)
RecallKnown ==
  /\ Recalled /\ best \in [Chunks -> 0..100] /\ usable \in SUBSET Chunks
  /\ \A x \in Chunks : best[x] > 0 <=> \E k \in 1..Len(lists) : Seen(lists[k], x)

(* The inductive invariant of a question.                                  *)
QueryInv ==
  /\ phase \in Query!Phases
  /\ RecallKnown
  /\ phase \in {"rerank", "answer", "done"} => StandingNow
  /\ phase = "done" => Answered

(* What the recall has found stays when only the rest changes.             *)
LEMMA RecallStays ==
  ASSUME RecallKnown, lists' = lists, best' = best, usable' \in SUBSET Chunks
  PROVE  RecallKnown'
<1>1. Recalled'
  BY DEF RecallKnown, Recalled, Unlike
<1>2. ASSUME NEW x \in Chunks
      PROVE  (best[x] > 0 <=> \E k \in 1..Len(lists) : Seen(lists[k], x))'
  BY DEF RecallKnown, Seen
<1> QED
  BY <1>1, <1>2 DEF RecallKnown

(* The answer to a wording lists what is similar to it, once.              *)
LEMMA RankedLists ==
  ASSUME NEW s \in [Chunks -> 0..100], NEW q \in Query!Ranked(s)
  PROVE  /\ q \in Seq(Chunks) /\ Len(q) <= Query!Parts - 60 /\ Unlike(q)
         /\ \A x \in Chunks : Seen(q, x) <=> s[x] > 0
<1> DEFINE T == {x \in Chunks : s[x] > 0}
<1>1. q \in Query!SetToSeqs(T)
  BY DEF Query!Ranked
<1>2. IsFiniteSet(T) /\ Cardinality(T) \in Nat /\ Cardinality(T) <= Query!Parts - 60
  <2>1. T \subseteq Chunks /\ IsFiniteSet(Chunks)
    BY QueryAssumption
  <2> HIDE DEF T
  <2>2. IsFiniteSet(T) /\ Cardinality(T) <= Cardinality(Chunks)
    BY <2>1, FS_Subset
  <2>3. Cardinality(T) \in Nat /\ Cardinality(Chunks) \in Nat
    BY <2>1, <2>2, FS_CardinalityType
  <2>4. Query!Parts - 60 \in Int /\ Cardinality(Chunks) <= Query!Parts - 60
    BY QueryAssumption DEF Query!Parts
  <2> QED
    BY ONLY <2>2, <2>3, <2>4
<1>3. T \subseteq Chunks /\ \A x \in Chunks : x \in T <=> s[x] > 0
  OBVIOUS
<1> HIDE DEF T
<1>4. PICK n \in Nat : n = Cardinality(T)
  BY ONLY <1>2
<1>5. q \in [1..n -> T] /\ \A i, j \in 1..n : i # j => q[i] # q[j]
  <2>1. Query!Cardinality(T) = n
    BY <1>4 DEF Query!Cardinality, Cardinality
  <2> QED
    BY <1>1, <2>1 DEF Query!SetToSeqs
<1>6. q \in Seq(Chunks) /\ Len(q) = n
  BY <1>3, <1>5
<1>7. \A x \in T : \E i \in 1..n : q[i] = x
  <2>1. q \in Injection(1..n, T)
    BY <1>5 DEF Injection, IsInjective
  <2>2. IsFiniteSet(1..n) /\ Cardinality(1..n) = n
    <3>1. 1 \in Int /\ n \in Int /\ (IF 1 > n THEN 0 ELSE n - 1 + 1) = n
      OBVIOUS
    <3> QED
      BY <3>1, FS_Interval
  <2>3. q \in Surjection(1..n, T)
    BY <1>2, <1>4, <2>1, <2>2, FS_Injection
  <2> QED
    BY <2>3 DEF Surjection
<1> QED
  BY <1>2, <1>3, <1>4, <1>5, <1>6, <1>7 DEF Unlike, Seen

(* One more wording is recalled.                                           *)
LEMMA QueryRecalls ==
  ASSUME QueryInv, NEW s \in [Chunks -> Similar \cup {0}], Query!Recall(s)
  PROVE  QueryInv'
<1>1. s \in [Chunks -> 0..100]
  <2>1. Similar \cup {0} \subseteq 0..100
    BY QueryAssumption
  <2>2. \A x \in Chunks : s[x] \in 0..100
    BY <2>1
  <2> QED
    BY ONLY <2>2, s \in [Chunks -> Similar \cup {0}]
<1>2. PICK q \in Query!Ranked(s) : lists' = Append(lists, q)
  BY DEF Query!Recall
<1>3. /\ q \in Seq(Chunks) /\ Len(q) <= Query!Parts - 60 /\ Unlike(q)
      /\ \A x \in Chunks : Seen(q, x) <=> s[x] > 0
  BY <1>1, QueryAssumption, RankedLists
<1>4. /\ phase = "recall" /\ phase' \in {"score", "recall"} /\ usable' = usable
      /\ best' = [x \in Chunks |-> IF s[x] > best[x] THEN s[x] ELSE best[x]]
  BY DEF Query!Recall
<1>5. /\ best \in [Chunks -> 0..100] /\ usable \in SUBSET Chunks /\ Recalled
      /\ \A x \in Chunks : best[x] > 0 <=> \E k \in 1..Len(lists) : Seen(lists[k], x)
  BY DEF QueryInv, RecallKnown
<1>6. /\ lists' \in Seq(Seq(Chunks)) /\ Len(lists') = Len(lists) + 1 /\ Len(lists) \in Nat
      /\ lists'[Len(lists) + 1] = q /\ \A k \in 1..Len(lists) : lists'[k] = lists[k]
  BY <1>2, <1>3, <1>5 DEF Recalled
<1>7. PICK n \in Nat : n = Len(lists)
  BY <1>6
<1>8. /\ \A k \in 1..(n + 1) : k \in 1..n \/ k = n + 1
      /\ n + 1 \in 1..(n + 1) /\ \A k \in 1..n : k \in 1..(n + 1)
  OBVIOUS
<1>9. Recalled'
  BY <1>3, <1>5, <1>6, <1>7, <1>8 DEF Recalled, Unlike
<1>10. best' \in [Chunks -> 0..100]
  BY <1>1, <1>4, <1>5
<1>11. ASSUME NEW x \in Chunks
       PROVE  best'[x] > 0 <=> \E k \in 1..Len(lists') : Seen(lists'[k], x)
  <2>1. PICK b \in 0..100, c \in 0..100 : b = best[x] /\ c = s[x]
    BY <1>1, <1>5
  <2>2. best'[x] > 0 <=> b > 0 \/ c > 0
    BY <1>4, <2>1
  <2>3. (\E k \in 1..(n + 1) : Seen(lists'[k], x))
          <=> (\E k \in 1..n : Seen(lists[k], x)) \/ Seen(q, x)
    BY <1>6, <1>7, <1>8
  <2> QED
    BY <1>3, <1>5, <1>6, <1>7, <2>1, <2>2, <2>3
<1>12. phase' \in Query!Phases /\ phase' \notin {"rerank", "answer", "done"}
  BY <1>4 DEF Query!Phases
<1>13. \A x \in Chunks : best'[x] > 0 <=> (\E k \in 1..Len(lists) : Seen(lists[k], x))'
  BY <1>11 DEF Seen
<1> QED
  BY <1>4, <1>5, <1>9, <1>10, <1>12, <1>13 DEF QueryInv, RecallKnown

(* The fused candidates are all that were found, each once, and the first  *)
(* has the highest score.                                                  *)
LEMMA FusedHasAll ==
  ASSUME Recalled
  PROVE  /\ Query!Fused \in Seq(Chunks) /\ Unlike(Query!Fused)
         /\ \A x : Seen(Query!Fused, x) <=> \E k \in 1..Len(lists) : Seen(lists[k], x)
         /\ \A i \in 1..Len(Query!Fused) : Query!Fusion(Query!Fused[i]) \in 0..100
<1> DEFINE key == [x \in Chunks |-> Query!Rrf(x)]
<1>1. /\ Query!FlattenSeq(lists) \in Seq(Chunks)
      /\ \A x : Seen(Query!FlattenSeq(lists), x) <=> \E k \in 1..Len(lists) : Seen(lists[k], x)
  BY FlatHasAll DEF Recalled
<1>2. PICK s \in Seq(Chunks) : s = Query!FlattenSeq(lists)
  BY <1>1
<1>3. Query!Found = Distinct(s)
  BY <1>2 DEF Query!Found, Distinct
<1>4. PICK d \in Seq(Chunks) : d = Query!Found
  BY <1>3, DistinctHasAll
<1>5. Unlike(d) /\ \A x : Seen(d, x) <=> \E k \in 1..Len(lists) : Seen(lists[k], x)
  BY <1>1, <1>2, <1>3, <1>4, DistinctHasAll
<1>6. key \in [Chunks -> Int] /\ \A x \in Chunks : key[x] = Query!Rrf(x)
  BY RrfCounts
<1>7. Query!Fused = Query!Sorted(d, key)
  BY <1>4 DEF Query!Fused
<1> HIDE DEF key
<1>8. Query!Sorted(d, key) = Sorted(d, key)
  BY DEF Query!Sorted, Query!Place, Query!Precedes, Query!Cardinality,
         Sorted, Place, Precedes, Cardinality
<1>9. PICK f : f = Sorted(d, key) /\ Arranges(f, d, key, Chunks)
  BY <1>6, SortedKeeps
<1>10. /\ f \in Seq(Chunks) /\ Len(f) = Len(d) /\ Unlike(f)
       /\ \A x : Seen(f, x) <=> Seen(d, x)
       /\ \A i, j \in 1..Len(f) : i < j => key[f[i]] >= key[f[j]]
  <2>1. f \in Seq(Chunks) /\ Len(f) = Len(d) /\ Unlike(f)
    BY <1>5, <1>9 DEF Arranges, Unlike
  <2>2. \A i, j \in 1..Len(f) : i < j => key[f[i]] >= key[f[j]]
    BY <1>9, <2>1 DEF Arranges
  <2>3. /\ \A i \in 1..Len(f) : \E k \in 1..Len(d) : f[i] = d[k]
        /\ \A k \in 1..Len(d) : \E i \in 1..Len(f) : f[i] = d[k]
    BY <1>9, <2>1 DEF Arranges
  <2>4. \A x : Seen(f, x) <=> Seen(d, x)
    BY ONLY <2>3 DEF Seen
  <2> QED
    BY <2>1, <2>2, <2>4
<1>11. ASSUME NEW i \in 1..Len(f) PROVE Query!Fusion(f[i]) \in 0..100
  <2>1. 1 \in 1..Len(f) /\ f[1] \in Chunks /\ f[i] \in Chunks /\ (i = 1 \/ 1 < i)
    BY <1>10
  <2>2. PICK r \in Nat, m \in Nat : r = Query!Rrf(f[i]) /\ m = Query!Rrf(f[1])
    BY RrfCounts
  <2>3. m >= r
    BY <1>6, <1>10, <2>1, <2>2
  <2>4. m >= 1
    <3>1. Seen(f, f[1])
      BY <2>1 DEF Seen
    <3>2. m > 0
      BY <1>5, <1>10, <2>2, <3>1, RrfCounts
    <3> QED
      BY <3>2
  <2>5. Query!Fusion(f[i]) = (r * 100) \div m
    BY <1>7, <1>8, <1>9, <2>2 DEF Query!Fusion, Query!Scale
  <2> QED
    BY <2>3, <2>4, <2>5, PartIsShare
<1> QED
  BY <1>5, <1>7, <1>8, <1>9, <1>10, <1>11

(* The fused list is filtered and its chunks become candidates.            *)
LEMMA QueryScores ==
  ASSUME QueryInv, NEW u \in SUBSET Chunks, Query!Score(u)
  PROVE  QueryInv'
<1>1. PICK f \in Seq(Chunks) :
        /\ f = Query!Fused /\ Unlike(f)
        /\ \A x : Seen(f, x) <=> \E k \in 1..Len(lists) : Seen(lists[k], x)
        /\ \A i \in 1..Len(f) : Query!Fusion(f[i]) \in 0..100
  BY FusedHasAll DEF QueryInv, RecallKnown
<1>2. PICK p : p = Filtered(f, u)
  OBVIOUS
<1>3. /\ p \in Seq(Chunks) /\ Unlike(p)
      /\ \A j \in 1..Len(p) : p[j] \in u /\ \E m \in 1..Len(f) : f[m] = p[j]
      /\ \A x \in u : Seen(f, x) => Seen(p, x)
  <2>1. /\ p \in Seq(Chunks)
        /\ \A j \in 1..Len(p) : p[j] \in u /\ \E m \in 1..Len(f) : f[m] = p[j]
        /\ \A m \in 1..Len(f) : f[m] \in u => \E j \in 1..Len(p) : p[j] = f[m]
        /\ (\A i, j \in 1..Len(f) : f[i] = f[j] => i = j) =>
             \A i, j \in 1..Len(p) : p[i] = p[j] => i = j
    BY ONLY f \in Seq(Chunks), <1>2, FilterKeeps
  <2>2. Unlike(p)
    BY <1>1, <2>1 DEF Unlike
  <2>3. \A x \in u : Seen(f, x) => Seen(p, x)
    BY ONLY <2>1 DEF Seen
  <2> QED
    BY <2>1, <2>2, <2>3
<1>4. Query!Filtered(Query!Fused, u) = p
  BY <1>1, <1>2 DEF Query!Filtered, Filtered
<1>5. /\ best \in [Chunks -> 0..100]
      /\ \A x \in Chunks : best[x] > 0 <=> \E k \in 1..Len(lists) : Seen(lists[k], x)
  BY DEF QueryInv, RecallKnown
<1>6. /\ usable' = u /\ phase' = "rerank" /\ lists' = lists /\ best' = best
      /\ scored' = [k \in DOMAIN p |->
                      [chunk |-> p[k], vector |-> best[p[k]], fusion |-> Query!Fusion(p[k]),
                       mark |-> 0, marked |-> FALSE]]
  BY <1>4 DEF Query!Score
<1>7. PICK s : s = scored'
  OBVIOUS
<1>8. ASSUME NEW k \in 1..Len(p)
      PROVE  s[k] \in Cand /\ s[k].chunk = p[k]
  <2>1. p[k] \in Chunks /\ best[p[k]] \in 0..100 /\ Query!Fusion(p[k]) \in 0..100 /\ k \in DOMAIN p
    <3>1. PICK m \in 1..Len(f) : f[m] = p[k]
      BY <1>3
    <3>2. p[k] \in Chunks /\ k \in DOMAIN p
      BY <1>3
    <3>3. Query!Fusion(p[k]) \in 0..100
      BY <1>1, <3>1
    <3> QED
      BY <1>5, <3>2, <3>3
  <2>2. s[k] = [chunk |-> p[k], vector |-> best[p[k]], fusion |-> Query!Fusion(p[k]),
                mark |-> 0, marked |-> FALSE]
    BY <1>6, <1>7, <2>1
  <2> QED
    BY <2>1, <2>2 DEF Cand
<1>9. s \in Seq(Cand) /\ Len(s) = Len(p)
  <2>1. DOMAIN p = 1..Len(p) /\ Len(p) \in Nat
    BY <1>3
  <2>2. DOMAIN s = 1..Len(p) /\ s = [k \in 1..Len(p) |-> s[k]]
    BY <1>6, <1>7, <2>1
  <2> QED
    BY <1>8, <2>1, <2>2
<1>10. \A k \in 1..Len(p) : p[k] \in u /\ best[p[k]] > 0
  <2> SUFFICES ASSUME NEW k \in 1..Len(p) PROVE p[k] \in u /\ best[p[k]] > 0
    OBVIOUS
  <2>1. Seen(f, p[k]) /\ p[k] \in u /\ p[k] \in Chunks
    BY <1>3 DEF Seen
  <2> QED
    BY <1>1, <1>5, <2>1
<1>11. \A x \in u : best[x] > 0 => \E k \in 1..Len(p) : p[k] = x
  BY <1>1, <1>3, <1>5 DEF Seen
<1>12. Standing(s, u, best)
  <2>1. \A i, j \in 1..Len(p) : p[i] = p[j] => i = j
    BY ONLY <1>3 DEF Unlike
  <2>2. \A k \in 1..Len(s) : k \in 1..Len(p) /\ s[k].chunk = p[k]
    BY <1>8, <1>9
  <2>3. \A k \in 1..Len(p) : k \in 1..Len(s) /\ s[k].chunk = p[k]
    BY <1>8, <1>9
  <2> QED
    BY ONLY <1>9, <1>10, <1>11, <2>1, <2>2, <2>3 DEF Standing
<1>13. RecallKnown'
  BY <1>6, RecallStays DEF QueryInv
<1>14. StandingNow'
  <2>1. \A o, a, b : o = scored' /\ a = usable' /\ b = best' => o = s /\ a = u /\ b = best
    BY <1>6, <1>7
  <2> QED
    BY <1>12, <2>1 DEF StandingNow
<1> QED
  BY <1>6, <1>13, <1>14 DEF QueryInv, Query!Phases

(* The same candidates in another order, whatever their marks.             *)
Shuffles(w, n) ==
  /\ w \in [1..n -> 1..n] /\ \A i, j \in 1..n : w[i] = w[j] => i = j
  /\ \A i \in 1..n : \E k \in 1..n : w[k] = i

Reorders(t, s, w) ==
  /\ t \in Seq(Cand) /\ Len(t) = Len(s) /\ Shuffles(w, Len(s))
  /\ \A k \in 1..Len(s) : t[k].chunk = s[w[k]].chunk

(* In another order they are as good.                                      *)
LEMMA StandingShuffles ==
  ASSUME NEW u, NEW b, NEW s, Standing(s, u, b), NEW t, NEW w, Reorders(t, s, w)
  PROVE  Standing(t, u, b)
<1>1. PICK n : n = Len(s)
  OBVIOUS
<1>2. PICK c : c = [k \in 1..n |-> s[k].chunk]
  OBVIOUS
<1>3. PICK e : e = [k \in 1..n |-> t[k].chunk]
  OBVIOUS
<1>4. /\ \A k \in 1..n : c[k] = s[k].chunk
      /\ \A k \in 1..n : e[k] = t[k].chunk
  BY ONLY <1>2, <1>3
<1>5. /\ \A i, j \in 1..n : c[i] = c[j] => i = j
      /\ \A i \in 1..n : c[i] \in u /\ b[c[i]] > 0
      /\ \A x \in u : b[x] > 0 => \E i \in 1..n : c[i] = x
  BY <1>1, <1>4 DEF Standing
<1>6. Shuffles(w, n) /\ t \in Seq(Cand) /\ Len(t) = n
  BY <1>1 DEF Reorders
<1>7. \A k \in 1..n : w[k] \in 1..n /\ e[k] = c[w[k]]
  <2> SUFFICES ASSUME NEW k \in 1..n PROVE w[k] \in 1..n /\ e[k] = c[w[k]]
    OBVIOUS
  <2>1. w[k] \in 1..n
    BY ONLY <1>6, k \in 1..n DEF Shuffles
  <2>2. t[k].chunk = s[w[k]].chunk
    BY <1>1 DEF Reorders
  <2> QED
    BY ONLY <1>4, <2>1, <2>2, k \in 1..n
<1>8. \A i, j \in 1..n : e[i] = e[j] => i = j
  <2> SUFFICES ASSUME NEW i \in 1..n, NEW j \in 1..n, e[i] = e[j] PROVE i = j
    OBVIOUS
  <2>1. w[i] \in 1..n /\ w[j] \in 1..n /\ c[w[i]] = c[w[j]]
    BY <1>7
  <2>2. w[i] = w[j]
    BY <1>5, <2>1
  <2>3. \A a, z \in 1..n : w[a] = w[z] => a = z
    BY <1>6 DEF Shuffles
  <2> QED
    BY ONLY <2>2, <2>3, i \in 1..n, j \in 1..n
<1>9. \A i \in 1..n : e[i] \in u /\ b[e[i]] > 0
  BY ONLY <1>5, <1>7
<1>10. ASSUME NEW x \in u, b[x] > 0 PROVE \E k \in 1..n : e[k] = x
  <2>1. PICK i \in 1..n : c[i] = x
    BY <1>5, <1>10
  <2>2. PICK k \in 1..n : w[k] = i
    BY ONLY <1>6, i \in 1..n DEF Shuffles
  <2> QED
    BY <1>7, <2>1, <2>2
<1>11. \A i, j \in 1..n : t[i].chunk = t[j].chunk => i = j
  BY ONLY <1>4, <1>8
<1>12. \A i \in 1..n : t[i].chunk \in u /\ b[t[i].chunk] > 0
  BY ONLY <1>4, <1>9
<1>13. \A x \in u : b[x] > 0 => \E k \in 1..n : t[k].chunk = x
  BY <1>4, <1>10
<1> QED
  BY ONLY <1>6, <1>11, <1>12, <1>13 DEF Standing

(* With a mark it is still a candidate, and of the same chunk.             *)
(* z is the candidate c with the mark m of the reranker.                   *)
Marks(z, c, m) == z = [c EXCEPT !.mark = m, !.marked = TRUE]

(* A candidate that is marked is a candidate for the same chunk.           *)
LEMMA CandMarked ==
  ASSUME NEW c \in Cand, NEW m \in 0..100, NEW z, Marks(z, c, m)
  PROVE  z \in Cand /\ z.chunk = c.chunk /\ z.mark = m
BY DEF Cand, Marks

(* Sorting and filtering are the same in the component.                    *)
LEMMA SameSorted ==
  ASSUME NEW q, NEW key
  PROVE  Query!Sorted(q, key) = Sorted(q, key)
BY DEF Query!Sorted, Query!Place, Query!Precedes, Query!Cardinality,
       Sorted, Place, Precedes, Cardinality

(* The head of the candidates is marked and put in order, the rest stays.  *)
LEMMA QueryReranks ==
  ASSUME QueryInv, Query!Rerank
  PROVE  QueryInv'
<1>1. /\ phase = "rerank" /\ phase' = "answer" /\ lists' = lists /\ best' = best
      /\ usable' = usable
  BY DEF Query!Rerank
<1>2. PICK s \in Seq(Cand) : s = scored /\ Standing(s, usable, best)
  BY <1>1 DEF QueryInv, StandingNow, Standing
<1>3. PICK N \in Nat : N = Len(s)
  OBVIOUS
<1>4. ASSUME NEW n \in Nat, n <= N, NEW marks \in [1..n -> {0, 100}], Query!RerankAll(marks)
      PROVE  Standing(scored', usable, best)
  <2>1. Len(marks) = n
    OBVIOUS
  <2>2. PICK h, r : h = SubSeq(s, 1, n) /\ r = SubSeq(s, n + 1, N)
    OBVIOUS
  <2>3. /\ h \in Seq(Cand) /\ Len(h) = n /\ \A k \in 1..n : h[k] = s[k]
        /\ r \in Seq(Cand) /\ Len(r) = N - n /\ \A k \in 1..(N - n) : r[k] = s[n + k]
    <3>1. /\ s \in Seq(Cand) /\ N = Len(s) /\ n \in Nat /\ n <= N
      BY <1>3, <1>4
    <3>2. h \in Seq(Cand) /\ Len(h) = n /\ \A k \in 1..n : h[k] = s[k]
      BY ONLY <2>2, <3>1
    <3>3. r \in Seq(Cand) /\ Len(r) = N - n /\ \A k \in 1..(N - n) : r[k] = s[n + k]
      BY ONLY <2>2, <3>1
    <3> QED
      BY <3>2, <3>3
  <2> DEFINE q == [k \in 1..n |-> [h[k] EXCEPT !.mark = marks[k], !.marked = TRUE]]
             key == [i \in Query!ToSet(q) |-> i.mark]
  <2>4. ASSUME NEW k \in 1..n
        PROVE  q[k] \in Cand /\ q[k].chunk = s[k].chunk /\ q[k].mark \in Int
    <3>1. PICK c \in Cand : c = h[k] /\ c = s[k]
      BY <2>3
    <3>2. marks[k] \in 0..100
      BY <1>4
    <3>3. q[k] = [c EXCEPT !.mark = marks[k], !.marked = TRUE]
      BY <3>1
    <3> HIDE DEF q
    <3>4. PICK o \in 0..100 : o = marks[k]
      BY <3>2
    <3>5. Marks(q[k], c, o)
      BY ONLY <3>3, <3>4 DEF Marks
    <3>6. PICK z : z = q[k]
      OBVIOUS
    <3>7. Marks(z, c, o)
      BY ONLY <3>5, <3>6
    <3>8. z \in Cand /\ z.chunk = c.chunk /\ z.mark = o
      BY ONLY c \in Cand, o \in 0..100, <3>7, CandMarked
    <3> QED
      BY ONLY o \in 0..100, <3>1, <3>6, <3>8
  <2>5. scored' = Query!Sorted(q, key) \o r
    <3>1. DOMAIN h = 1..n
      BY <2>3
    <3>2. Query!First(n) = h /\ Query!Rest(n) = r
      BY <1>2, <1>3, <2>2 DEF Query!First, Query!Rest
    <3> QED
      BY <1>4, <2>1, <3>1, <3>2 DEF Query!RerankAll, Query!ByMark
  <2>6. q \in Seq(Query!ToSet(q)) /\ Len(q) = n
    <3>1. DOMAIN q = 1..n /\ q = [k \in 1..n |-> q[k]]
      OBVIOUS
    <3> HIDE DEF q
    <3>2. \A k \in 1..n : q[k] \in Query!ToSet(q)
      BY <3>1 DEF Query!ToSet
    <3>3. n \in Nat
      OBVIOUS
    <3>4. PICK T : T = Query!ToSet(q)
      OBVIOUS
    <3>5. PICK o : o = q
      OBVIOUS
    <3>6. \A k \in 1..n : o[k] \in T
      BY ONLY <3>2, <3>4, <3>5
    <3>7. o = [k \in 1..n |-> o[k]]
      BY ONLY <3>1, <3>5
    <3>8. o \in Seq(T) /\ Len(o) = n
      BY ONLY <3>3, <3>6, <3>7
    <3> QED
      BY ONLY <3>4, <3>5, <3>8
  <2>7. key \in [Query!ToSet(q) -> Int]
    BY <2>4 DEF Query!ToSet
  <2> HIDE DEF q, key
  <2>8. PICK p : Orders(p, q, key)
    BY ONLY <2>6, <2>7, SortedIsOrdered
  <2>9. /\ p \in [1..n -> 1..n] /\ \A i, j \in 1..n : p[i] = p[j] => i = j
        /\ \A i \in 1..n : \E k \in 1..n : p[k] = i
        /\ Sorted(q, key) = [k \in 1..n |-> q[p[k]]]
    BY <2>6, <2>8 DEF Orders
  <2>10. PICK d : d = [k \in 1..n |-> q[p[k]]]
    OBVIOUS
  <2>11. /\ d \in Seq(Cand) /\ Len(d) = n
         /\ \A k \in 1..n : d[k].chunk = s[p[k]].chunk
    <3>1. \A k \in 1..n : p[k] \in 1..n /\ d[k] = q[p[k]]
      BY ONLY <2>9, <2>10
    <3>2. \A k \in 1..n : d[k] \in Cand /\ d[k].chunk = s[p[k]].chunk
      BY <2>4, <3>1
    <3>3. d \in Seq(Cand) /\ Len(d) = n
      BY ONLY n \in Nat, <2>10, <3>1, <3>2
    <3> QED
      BY <3>2, <3>3
  <2>12. PICK t : t = d \o r
    OBVIOUS
  <2>13. /\ t \in Seq(Cand) /\ Len(t) = N
         /\ \A k \in 1..n : t[k] = d[k]
         /\ \A k \in (n + 1)..N : t[k] = s[k]
    <3>1. t \in Seq(Cand) /\ Len(t) = N
      <4>1. n \in Nat /\ N \in Nat /\ n <= N
        BY <1>4
      <4> QED
        <5>1. t \in Seq(Cand) /\ Len(t) = Len(d) + Len(r)
          BY ONLY <2>3, <2>11, <2>12, JoinIsSeq
        <5> QED
          BY ONLY <2>3, <2>11, <4>1, <5>1
    <3>2. \A k \in 1..n : t[k] = d[k]
      BY <2>3, <2>11, <2>12
    <3>3. ASSUME NEW k \in (n + 1)..N PROVE t[k] = s[k]
      <4>1. k - n \in 1..(N - n) /\ n + (k - n) = k /\ k \in 1..N
        BY <1>4
      <4>2. t[k] = r[k - n]
        BY <2>3, <2>11, <2>12, <4>1
      <4> QED
        BY <2>3, <4>1, <4>2
    <3> QED
      BY <3>1, <3>2, <3>3
  <2>14. scored' = t
    BY <2>5, <2>9, <2>10, <2>12, SameSorted
  <2> DEFINE w == [k \in 1..N |-> IF k <= n THEN p[k] ELSE k]
  <2>15. \A k \in 1..N : (k \in 1..n /\ w[k] = p[k]) \/ (k \in (n + 1)..N /\ w[k] = k)
    BY <1>4
  <2>16. w \in [1..N -> 1..N]
    <3> SUFFICES ASSUME NEW k \in 1..N PROVE (IF k <= n THEN p[k] ELSE k) \in 1..N
      OBVIOUS
    <3>1. k <= n => p[k] \in 1..n
      BY <2>9
    <3> QED
      BY <1>4, <3>1
  <2> HIDE DEF w
  <2>17. \A k \in 1..n : p[k] \in 1..n
    BY <2>9
  <2>18. \A i, j \in 1..N : w[i] = w[j] => i = j
    <3>1. \A i \in 1..n, j \in (n + 1)..N : i # j
      OBVIOUS
    <3>2. \A i, j \in 1..n : p[i] = p[j] => i = j
      BY <2>9
    <3> QED
      BY ONLY <2>15, <2>17, <3>1, <3>2
  <2>19. \A i \in 1..N : \E k \in 1..N : w[k] = i
    <3> SUFFICES ASSUME NEW i \in 1..N PROVE \E k \in 1..N : w[k] = i
      OBVIOUS
    <3>1. CASE i \in 1..n
      <4>1. PICK k \in 1..n : p[k] = i
        BY <2>9, <3>1
      <4>2. k \in 1..N /\ k \notin (n + 1)..N
        BY <1>4
      <4> QED
        BY <2>15, <4>1, <4>2
    <3>2. CASE i \in (n + 1)..N
      <4>1. i \notin 1..n
        BY <3>2
      <4> QED
        BY <2>15, <4>1
    <3> QED
      BY <1>4, <2>15, <3>1, <3>2
  <2>20. \A k \in 1..N : t[k].chunk = s[w[k]].chunk
    <3> SUFFICES ASSUME NEW k \in 1..N PROVE t[k].chunk = s[w[k]].chunk
      OBVIOUS
    <3>1. CASE k \in 1..n /\ w[k] = p[k]
      BY <2>11, <2>13, <3>1
    <3>2. CASE k \in (n + 1)..N /\ w[k] = k
      BY <2>13, <3>2
    <3> QED
      BY <2>15, <3>1, <3>2
  <2>21. Standing(t, usable, best)
    <3>1. Reorders(t, s, w)
      BY <1>3, <2>13, <2>16, <2>18, <2>19, <2>20 DEF Reorders, Shuffles
    <3>2. Standing(s, usable, best)
      BY <1>2
    <3> QED
      BY ONLY <3>1, <3>2, StandingShuffles
  <2> QED
    BY <2>14, <2>21
<1>5. Standing(scored', usable, best)
  <2>1. CASE scored' = scored
    BY <1>2, <2>1
  <2>2. CASE scored' # scored
    <3>1. PICK n : /\ n = (IF Len(scored) < MarkedChunks THEN Len(scored) ELSE MarkedChunks)
                   /\ \E marks \in [1..n -> {0, 100}] : Query!RerankAll(marks)
      BY <2>2 DEF Query!Rerank, Query!Scale
    <3>2. n \in Nat /\ n <= N
      <4>1. MarkedChunks \in Nat
        BY QueryAssumption
      <4> QED
        BY <1>2, <1>3, <3>1, <4>1
    <3> QED
      BY <1>4, <3>1, <3>2
  <2> QED
    BY <2>1, <2>2
<1>6. RecallKnown'
  <2>1. RecallKnown /\ usable' \in SUBSET Chunks
    BY <1>1 DEF QueryInv, RecallKnown
  <2> QED
    BY <1>1, <2>1, RecallStays
<1>7. StandingNow'
  <2>1. \A o, a, b : o = scored' /\ a = usable' /\ b = best' => a = usable /\ b = best
    BY <1>1
  <2> QED
    BY <1>5, <2>1 DEF StandingNow
<1> QED
  BY <1>1, <1>6, <1>7 DEF QueryInv, Query!Phases

(* A final score is one in thousandths.                                    *)
LEMMA FinalIsShare ==
  ASSUME NEW c \in Cand
  PROVE  Query!Final(c) \in 0..1000
<1>1. PICK o \in 0..100, v \in 0..100, f \in 0..100, m \in 0..100 :
        o = Overlap[c.chunk] /\ v = c.vector /\ f = c.fusion /\ m = c.mark
  <2>1. Overlap \in [Chunks -> 0..100]
    BY QueryAssumption
  <2> QED
    BY <2>1 DEF Cand
<1>2. PICK h \in Int : h = (v + f) \div 2
  OBVIOUS
<1>3. h \in 0..100
  BY ONLY <1>2, v \in 0..100, f \in 0..100, h \in Int
<1>4. PICK e \in 0..100 : e = Query!Component(c)
  BY <1>1, <1>2, <1>3 DEF Query!Component
<1>5. Query!Final(c) = 5 * e + 3 * o + 2 * m \/ Query!Final(c) = 7 * e + 3 * o
  BY <1>1, <1>4 DEF Query!Final
<1>6. 5 * e + 3 * o + 2 * m \in 0..1000 /\ 7 * e + 3 * o \in 0..1000
  BY ONLY e \in 0..100, o \in 0..100, m \in 0..100
<1> QED
  BY ONLY <1>5, <1>6

(* The candidates that qualify, the best first: all of them, each once.    *)
Qualifies(q, s) ==
  /\ q \in Seq(Cand)
  /\ \A i, j \in 1..Len(q) : i < j => Query!Final(q[i]) >= Query!Final(q[j])
  /\ \A i, j \in 1..Len(q) : q[i].chunk = q[j].chunk => i = j
  /\ \A i \in 1..Len(q) : \E k \in 1..Len(s) : q[i] = s[k]
  /\ \A k \in 1..Len(s) : Query!Final(s[k]) >= MinScore => \E i \in 1..Len(q) : q[i] = s[k]

(* They are what the filter and the sort by final score leave.             *)
LEMMA QualifiedRanks ==
  ASSUME Standing(scored, usable, best)
  PROVE  Qualifies(Query!Qualified, scored)
<1>1. PICK s \in Seq(Cand) : s = scored
  BY DEF Standing
<1>2. \A i, j \in 1..Len(s) : s[i].chunk = s[j].chunk => i = j
  BY <1>1 DEF Standing
<1> DEFINE T == Query!ToSet(s)
           S == {i \in T : Query!Final(i) >= MinScore}
           key == [i \in T |-> Query!Final(i)]
<1>3. T = {s[k] : k \in 1..Len(s)}
  BY DEF Query!ToSet
<1>4. Query!Qualified = Query!Sorted(Query!Filtered(s, S), key)
  BY <1>1 DEF Query!Qualified
<1> HIDE DEF T
<1>5. \A k \in 1..Len(s) : s[k] \in T
  BY <1>3
<1>6. \A x \in T : x \in Cand /\ \E k \in 1..Len(s) : s[k] = x
  BY <1>3
<1>7. s \in Seq(T)
  BY ONLY <1>5, s \in Seq(Cand)
<1>8. \A x \in T : Query!Final(x) \in Int /\ Query!Final(x) \in 0..1000
  <2> SUFFICES ASSUME NEW x \in T PROVE Query!Final(x) \in Int /\ Query!Final(x) \in 0..1000
    OBVIOUS
  <2>1. x \in Cand
    BY <1>6
  <2>2. PICK f \in 0..1000 : f = Query!Final(x)
    BY ONLY <2>1, FinalIsShare, ZenonT(60)
  <2>3. f \in Int
    OBVIOUS
  <2> QED
    BY ONLY <2>2, <2>3
<1>9. key \in [T -> Int] /\ \A x \in T : key[x] = Query!Final(x)
  BY <1>8
<1>10. \A x : x \in S <=> x \in T /\ Query!Final(x) >= MinScore
  OBVIOUS
<1> HIDE DEF S, key
<1>11. PICK p : p = Filtered(s, S)
  OBVIOUS
<1>12. Query!Filtered(s, S) = p
  BY <1>11 DEF Query!Filtered, Filtered
<1>13. /\ p \in Seq(T)
       /\ \A j \in 1..Len(p) : p[j] \in S /\ \E m \in 1..Len(s) : s[m] = p[j]
       /\ \A m \in 1..Len(s) : s[m] \in S => \E j \in 1..Len(p) : p[j] = s[m]
       /\ (\A i, j \in 1..Len(s) : s[i] = s[j] => i = j) =>
            \A i, j \in 1..Len(p) : p[i] = p[j] => i = j
  BY ONLY <1>7, <1>11, FilterKeeps
<1>14. \A i, j \in 1..Len(p) : p[i] = p[j] => i = j
  <2>1. \A i, j \in 1..Len(s) : s[i] = s[j] => i = j
    BY ONLY <1>2
  <2> QED
    BY ONLY <1>13, <2>1
<1>15. PICK q : q = Sorted(p, key)
  OBVIOUS
<1>16. Query!Qualified = q
  BY <1>4, <1>12, <1>15, SameSorted
<1>17. Arranges(q, p, key, T)
  BY ONLY <1>9, <1>13, <1>15, SortedKeeps
<1>18. /\ q \in Seq(T) /\ Len(q) = Len(p)
       /\ \A i, j \in 1..Len(q) : i < j => key[q[i]] >= key[q[j]]
       /\ \A i \in 1..Len(q) : \E k \in 1..Len(p) : q[i] = p[k]
       /\ \A k \in 1..Len(p) : \E i \in 1..Len(q) : q[i] = p[k]
       /\ \A i, j \in 1..Len(q) : q[i] = q[j] => i = j
  BY <1>14, <1>17 DEF Arranges
<1>19. \A i \in 1..Len(q) : q[i] \in T
  BY <1>18
<1>20. q \in Seq(Cand)
  <2>1. \A i \in 1..Len(q) : q[i] \in Cand
    BY <1>6, <1>19
  <2>2. q \in Seq(T)
    BY <1>18
  <2>3. Len(q) \in Nat /\ q = [i \in 1..Len(q) |-> q[i]]
    BY ONLY <2>2
  <2> QED
    BY ONLY <2>1, <2>3
<1>21. \A i, j \in 1..Len(q) : i < j => Query!Final(q[i]) >= Query!Final(q[j])
  BY <1>9, <1>18, <1>19
<1>22. \A i \in 1..Len(q) : \E k \in 1..Len(s) : q[i] = s[k]
  BY <1>6, <1>19
<1>23. ASSUME NEW i \in 1..Len(q), NEW j \in 1..Len(q), q[i].chunk = q[j].chunk PROVE i = j
  <2>1. PICK k \in 1..Len(s), m \in 1..Len(s) : q[i] = s[k] /\ q[j] = s[m]
    BY <1>22
  <2>2. k = m
    BY <1>2, <1>23, <2>1
  <2>3. q[i] = q[j]
    BY <2>1, <2>2
  <2> QED
    BY <1>18, <2>3
<1>24. ASSUME NEW k \in 1..Len(s), Query!Final(s[k]) >= MinScore
       PROVE  \E i \in 1..Len(q) : q[i] = s[k]
  <2>1. PICK j \in 1..Len(p) : p[j] = s[k]
    BY <1>5, <1>10, <1>13, <1>24
  <2> QED
    BY <1>18, <2>1
<1>25. Qualifies(q, s)
  BY <1>20, <1>21, <1>22, <1>23, <1>24 DEF Qualifies
<1> QED
  BY <1>1, <1>16, <1>25

(* What is in the context so far.                                          *)
Acc == {a \in [items : Seq(Item), full : BOOLEAN] : Summed(a.items) <= BlockChars}

(* The first k of the qualified are in it, or else it is full.             *)
Filling(a, k) ==
  /\ Len(a.items) <= k /\ Len(a.items) <= TopK
  /\ \A j \in 1..Len(a.items) : /\ a.items[j].chunk = Query!Qualified[j].chunk
                                /\ a.items[j].score = Query!Final(Query!Qualified[j])
  /\ ~a.full => Len(a.items) = k
  /\ a.full => Len(a.items) = TopK \/ BlockChars - Summed(a.items) <= Slack

(* A part of the context is made of these.                                 *)
Makes(z, x, f, n) == z = [chunk |-> x, score |-> f, chars |-> n]

(* An item is made of a chunk, its score and its length.                   *)
LEMMA ItemMade ==
  ASSUME NEW x \in Chunks, NEW f \in Int, NEW n \in Nat, NEW z, Makes(z, x, f, n)
  PROVE  z \in Item /\ z.chars = n /\ z.chunk = x /\ z.score = f
BY DEF Item, Makes

(* One more is taken as it is, or cut, or nothing more is.                 *)
LEMMA IncludeFills ==
  ASSUME Query!Qualified \in Seq(Cand), NEW k \in 1..Len(Query!Qualified),
         NEW a \in Acc
  PROVE  /\ Query!Include(a, k) \in Acc
         /\ Filling(a, k - 1) => Filling(Query!Include(a, k), k)
<1>1. PICK c \in Cand : c = Query!Qualified[k]
  OBVIOUS
<1>2. PICK q \in Seq(Item), b \in BOOLEAN : a = [items |-> q, full |-> b]
  BY DEF Acc
<1>3. a.items = q /\ a.full = b
  BY <1>2
<1>4. \A x \in Item : x.chars \in Nat
  BY DEF Item
<1>5. << >> \in Seq(Item)
  OBVIOUS
<1>6. PICK z : z = Summed(q)
  OBVIOUS
<1>7. z \in Nat /\ z <= BlockChars /\ Query!Chars(a.items) = z
  <2>1. Query!Chars(q) = Summed(q)
    BY DEF Query!Chars, Query!FoldLeft, Query!MapThenFoldSet, Query!Max, Summed, Top
  <2>2. [chunk |-> c.chunk, score |-> 0, chars |-> 0] \in Item
    BY DEF Item, Cand
  <2>3. Summed(q) \in Nat
    BY <1>4, <2>2, SummedAppends
  <2> QED
    BY <1>3, <1>6, <2>1, <2>3 DEF Acc
<1>8. PICK size \in Nat, f \in Int : size = Query!Widened(k, c) /\ f = Query!Final(c)
  <2>1. Length[c.chunk] \in Nat /\ Passage[c.chunk] \in Nat
    BY QueryAssumption DEF Cand
  <2>2. Query!Final(c) \in 0..1000
    BY FinalIsShare, ZenonT(60)
  <2>3. Query!Widened(k, c) \in Nat
    BY <2>1 DEF Query!Widened
  <2> QED
    BY <2>2, <2>3
<1>9. TopK \in Nat /\ BlockChars \in Nat /\ Slack \in Nat
  BY QueryAssumption
<1>10. PICK room \in Nat : room = BlockChars - z
  BY <1>7, <1>9
<1> DEFINE stop == b \/ Len(q) = TopK \/ room = 0 \/ (size > room /\ room <= Slack)
           more == [chunk |-> c.chunk, score |-> f,
                    chars |-> IF size > room THEN room - 1 ELSE size]
<1>11. Query!Include(a, k) = IF stop THEN [a EXCEPT !.full = TRUE]
                             ELSE [a EXCEPT !.items = Append(q, more)]
  BY <1>1, <1>3, <1>7, <1>8, <1>10 DEF Query!Include
<1> HIDE DEF stop, more
<1>12. CASE stop
  <2>1. Query!Include(a, k) = [items |-> q, full |-> TRUE]
    BY <1>2, <1>11, <1>12
  <2>2. PICK e : e = [items |-> q, full |-> TRUE]
    OBVIOUS
  <2>3. e \in Acc /\ e.items = q /\ e.full
    BY <1>6, <1>7, <2>2 DEF Acc
  <2>4. ASSUME Filling(a, k - 1) PROVE Filling(e, k)
    <3>1. /\ Len(q) <= k - 1 /\ Len(q) <= TopK
          /\ \A j \in 1..Len(q) : /\ q[j].chunk = Query!Qualified[j].chunk
                                  /\ q[j].score = Query!Final(Query!Qualified[j])
          /\ b => Len(q) = TopK \/ BlockChars - z <= Slack
      BY <1>3, <1>6, <2>4 DEF Filling
    <3>2. Len(q) \in Nat /\ Len(q) <= k
      BY <3>1
    <3>3. Len(q) = TopK \/ BlockChars - z <= Slack
      BY <1>9, <1>10, <1>12, <3>1 DEF stop
    <3> QED
      BY <1>6, <2>3, <3>1, <3>2, <3>3 DEF Filling
  <2> QED
    BY <2>1, <2>2, <2>3, <2>4
<1>13. CASE ~stop
  <2>1. ~b /\ Len(q) # TopK /\ room # 0 /\ ~(size > room /\ room <= Slack)
    BY <1>13 DEF stop
  <2>2. PICK n \in Nat : n = IF size > room THEN room - 1 ELSE size
    BY <1>8, <1>10, <2>1
  <2>3. n <= room
    BY <1>8, <1>10, <2>2
  <2>4. PICK t \in Item : t = more /\ t.chars = n /\ t.chunk = c.chunk /\ t.score = f
    <3>1. more = [chunk |-> c.chunk, score |-> f, chars |-> n]
      BY <2>2 DEF more
    <3>2. c.chunk \in Chunks
      BY DEF Cand
    <3>3. PICK o : o = more
      OBVIOUS
    <3>4. Makes(o, c.chunk, f, n)
      BY ONLY <3>1, <3>3 DEF Makes
    <3>5. o \in Item /\ o.chars = n /\ o.chunk = c.chunk /\ o.score = f
      BY ONLY f \in Int, n \in Nat, <3>2, <3>4, ItemMade
    <3> QED
      BY <3>3, <3>5
  <2>5. PICK p \in Seq(Item) : p = Append(q, t)
    <3>1. Append(q, t) \in Seq(Item)
      BY ONLY q \in Seq(Item), t \in Item
    <3> QED
      BY <3>1
  <2>6. /\ Len(q) \in Nat /\ Len(p) = Len(q) + 1 /\ p[Len(q) + 1] = t
        /\ \A j \in 1..Len(q) : p[j] = q[j]
    BY <2>5
  <2>7. Query!Include(a, k) = [items |-> p, full |-> FALSE]
    BY <1>2, <1>11, <1>13, <2>1, <2>4, <2>5
  <2>8. PICK e : e = [items |-> p, full |-> FALSE]
    OBVIOUS
  <2>9. e.items = p /\ ~e.full
    BY <2>8
  <2>10. Summed(p) = z + n
    BY <1>4, <1>6, <2>4, <2>5, SummedAppends
  <2>11. e \in Acc
    <3>1. z + n <= BlockChars
      BY <1>7, <1>9, <1>10, <2>2, <2>3
    <3> QED
      BY <2>8, <2>10, <3>1 DEF Acc
  <2>12. ASSUME Filling(a, k - 1) PROVE Filling(e, k)
    <3>1. /\ Len(q) <= TopK /\ Len(q) = k - 1
          /\ \A j \in 1..Len(q) : /\ q[j].chunk = Query!Qualified[j].chunk
                                  /\ q[j].score = Query!Final(Query!Qualified[j])
      BY <1>3, <2>1, <2>12 DEF Filling
    <3>2. Len(p) = k /\ Len(p) <= TopK
      BY <1>9, <2>1, <2>6, <3>1
    <3>3. ASSUME NEW j \in 1..Len(p)
          PROVE  p[j].chunk = Query!Qualified[j].chunk /\ p[j].score = Query!Final(Query!Qualified[j])
      <4>1. CASE j = k
        BY <1>1, <1>8, <2>4, <2>6, <3>1, <4>1
      <4>2. CASE j # k
        <5>1. j \in 1..Len(q)
          BY <3>1, <3>2, <4>2
        <5> QED
          BY <2>6, <3>1, <5>1
      <4> QED
        BY <4>1, <4>2
    <3> QED
      BY <2>9, <3>2, <3>3 DEF Filling
  <2> QED
    BY <2>7, <2>8, <2>11, <2>12
<1> QED
  BY <1>12, <1>13

(* What the k-th of the qualified makes of the context.                    *)
Includes == [k \in 1..Len(Query!Qualified) |-> [a \in Acc |-> Query!Include(a, k)]]

(* They are taken one after the other, the best first.                     *)
LEMMA IncludedFills ==
  ASSUME Query!Qualified \in Seq(Cand)
  PROVE  \E a \in Acc : Query!Included = a.items /\ Filling(a, Len(Query!Qualified))
<1>1. PICK n \in Nat : n = Len(Query!Qualified)
  OBVIOUS
<1>2. DOMAIN Query!Qualified = 1..n
  BY <1>1
<1>3. PICK d : d = [k \in 1..n |-> k]
  OBVIOUS
<1>4. DOMAIN d = 1..n /\ \A k \in 1..n : d[k] = k
  BY <1>3
<1>5. PICK a0 : a0 = [items |-> << >>, full |-> FALSE]
  OBVIOUS
<1>6. a0 \in Acc /\ a0.items = << >> /\ ~a0.full
  <2>1. Summed(<< >>) = 0
    <3>1. PICK A : A = {[chars |-> 0]}
      OBVIOUS
    <3>2. [chars |-> 0] \in A /\ (\A a \in A : a.chars \in Nat) /\ << >> \in Seq(A)
      BY <3>1
    <3> QED
      BY ONLY <3>2, SummedAppends
  <2>2. BlockChars \in Nat
    BY QueryAssumption
  <2> QED
    BY <1>5, <2>1, <2>2 DEF Acc
<1> DEFINE Is(f) == f = [S \in SUBSET DOMAIN d |->
                           IF S = {} THEN a0 ELSE Query!Include(f[S \ {Top(S)}], d[Top(S)])]
           gain == Includes
<1>7. Query!Included = (CHOOSE f : Is(f))[DOMAIN d].items
  BY <1>2, <1>3, <1>5 DEF Query!Included, Query!FoldLeft, Query!MapThenFoldSet, Query!Max, Top
<1>8. /\ gain \in [1..n -> [Acc -> Acc]]
      /\ \A k \in 1..n, a \in Acc : gain[k][a] = Query!Include(a, k)
  <2>1. \A k \in 1..n, a \in Acc : Query!Include(a, k) \in Acc
    BY <1>1, IncludeFills
  <2> QED
    BY ONLY <1>1, <2>1 DEF Includes
<1>9. \A S \in SUBSET (1..n) : S # {} => Top(S) \in 1..n
  BY TopIsLast
<1> HIDE DEF gain
<1>10. PICK h \in [SUBSET (1..n) -> Acc] : FoldsTo(h, n, a0, gain)
  BY ONLY <1>6, <1>8, n \in Nat, FoldDefines
<1>11. Is(h)
  <2>1. ASSUME NEW S \in SUBSET (1..n), S # {}
        PROVE  gain[Top(S)][h[S \ {Top(S)}]] = Query!Include(h[S \ {Top(S)}], d[Top(S)])
    <3>1. PICK a \in Acc : a = h[S \ {Top(S)}]
      OBVIOUS
    <3>2. PICK k \in 1..n : k = Top(S)
      BY <1>9, <2>1
    <3> QED
      BY <1>4, <1>8, <3>1, <3>2
  <2>2. h = [S \in SUBSET (1..n) |->
               IF S = {} THEN a0 ELSE Query!Include(h[S \ {Top(S)}], d[Top(S)])]
    BY <1>10, <2>1 DEF FoldsTo
  <2> QED
    BY <1>4, <2>2
<1>12. PICK f : f = (CHOOSE e : Is(e)) /\ Is(f)
  <2> HIDE DEF Is
  <2> QED
    BY <1>11
<1>13. /\ f[{}] = a0
       /\ \A S \in SUBSET (1..n) : S # {} =>
            f[S] = Query!Include(f[S \ {Top(S)}], d[Top(S)])
  BY <1>4, <1>12, ZenonT(60)
<1>14. ASSUME NEW S \in SUBSET (1..n), S # {}, f[S \ {Top(S)}] \in Acc
       PROVE  f[S] = gain[Top(S)][f[S \ {Top(S)}]]
  <2>1. PICK a \in Acc : a = f[S \ {Top(S)}]
    BY <1>14
  <2>2. PICK k \in 1..n : k = Top(S)
    BY <1>9, <1>14
  <2>3. f[S] = Query!Include(a, k)
    BY <1>4, <1>13, <1>14, <2>1, <2>2
  <2> QED
    BY <1>8, <2>1, <2>2, <2>3
<1>15. PICK g \in [0..n -> Acc] : Advances(g, n, a0, gain) /\ f[1..n] = g[n]
  <2>1. Follows(f, n, a0, gain, Acc)
    BY <1>6, <1>8, <1>13, <1>14 DEF Follows
  <2> QED
    BY ONLY <2>1, n \in Nat, FoldAdvances
<1> DEFINE G == {k \in Nat : k <= n => Filling(g[k], k)}
<1>16. 0 \in G
  <2>1. TopK \in Nat
    BY QueryAssumption
  <2>2. g[0] = a0
    BY <1>15 DEF Advances
  <2>3. Filling(a0, 0)
    BY <1>6, <2>1 DEF Filling
  <2> QED
    BY <2>2, <2>3
<1>17. ASSUME NEW k \in Nat, k + 1 <= n, k \in G PROVE k + 1 \in G
  <2>1. k + 1 \in 1..n /\ (k + 1) - 1 = k /\ k \in 0..n /\ Filling(g[k], k)
    BY <1>17
  <2>2. PICK a \in Acc : a = g[k]
    BY <2>1
  <2>3. g[k + 1] = Query!Include(a, k + 1)
    BY <1>8, <1>15, <2>1, <2>2 DEF Advances
  <2>4. PICK j \in 1..n : j = k + 1 /\ Filling(a, j - 1)
    BY <2>1, <2>2
  <2>5. Filling(Query!Include(a, j), j)
    BY <1>1, <2>4, IncludeFills
  <2> QED
    BY <2>3, <2>4, <2>5
<1>18. Filling(g[n], n)
  <2>1. \A k \in 0..n : k \in G
    <3> HIDE DEF G
    <3> QED
      BY ONLY <1>16, <1>17, n \in Nat, CountUp
  <2>2. n \in 0..n
    OBVIOUS
  <2> QED
    BY <2>1, <2>2
<1>19. Query!Included = g[n].items
  <2>1. (CHOOSE e : Is(e))[DOMAIN d] = g[n]
    BY <1>4, <1>12, <1>15
  <2> HIDE DEF Is
  <2> QED
    BY <1>7, <2>1
<1>20. g[n] \in Acc
  OBVIOUS
<1> QED
  BY <1>1, <1>18, <1>19, <1>20

(* What is known when the context is full or nothing is left.              *)
AnsweredBy(q, s, u, b) ==
  /\ q \in Seq(Item) /\ Len(q) <= TopK /\ Summed(q) <= BlockChars
  /\ \A i, j \in 1..Len(q) : i < j => q[i].chunk # q[j].chunk /\ q[i].score >= q[j].score
  /\ \A i \in 1..Len(q) : q[i].chunk \in u /\ b[q[i].chunk] > 0 /\ q[i].score <= 1000
  /\ \A x \in u : b[x] > 0 /\ (\A i \in 1..Len(q) : q[i].chunk # x) =>
       \/ Len(q) = TopK \/ BlockChars - Summed(q) <= Slack
       \/ \E k \in 1..Len(s) : s[k].chunk = x /\ Query!Final(s[k]) < MinScore

(* A context that is full, or has all of the qualified, is an answer.      *)
LEMMA IncludedAnswers ==
  ASSUME Standing(scored, usable, best)
  PROVE  AnsweredBy(Query!Included, scored, usable, best)
<1>1. PICK c : c = Query!Qualified
  OBVIOUS
<1>2. Qualifies(c, scored)
  BY <1>1, QualifiedRanks
<1>3. /\ c \in Seq(Cand)
      /\ \A i, j \in 1..Len(c) : i < j => Query!Final(c[i]) >= Query!Final(c[j])
      /\ \A i, j \in 1..Len(c) : c[i].chunk = c[j].chunk => i = j
      /\ \A i \in 1..Len(c) : \E k \in 1..Len(scored) : c[i] = scored[k]
      /\ \A k \in 1..Len(scored) : Query!Final(scored[k]) >= MinScore =>
           \E i \in 1..Len(c) : c[i] = scored[k]
  BY <1>2 DEF Qualifies
<1>4. PICK a \in Acc : Query!Included = a.items /\ Filling(a, Len(c))
  BY <1>1, <1>3, IncludedFills
<1>5. PICK q \in Seq(Item) : q = a.items /\ Summed(q) <= BlockChars
  BY DEF Acc
<1>6. /\ Len(q) <= Len(c) /\ Len(q) <= TopK
      /\ \A j \in 1..Len(q) : q[j].chunk = c[j].chunk /\ q[j].score = Query!Final(c[j])
      /\ Len(q) = Len(c) \/ Len(q) = TopK \/ BlockChars - Summed(q) <= Slack
  BY <1>1, <1>4, <1>5 DEF Filling
<1>7. PICK n \in Nat, m \in Nat : n = Len(q) /\ m = Len(c)
  BY <1>3
<1>8. \A i \in 1..n : i \in 1..m
  BY <1>6, <1>7
<1>9. ASSUME NEW i \in 1..n, NEW j \in 1..n, i < j
      PROVE  q[i].chunk # q[j].chunk /\ q[i].score >= q[j].score
  <2>1. i \in 1..m /\ j \in 1..m /\ i # j
    BY <1>8, <1>9
  <2>2. c[i].chunk # c[j].chunk
    BY <1>3, <1>7, <2>1
  <2>3. Query!Final(c[i]) >= Query!Final(c[j])
    BY <1>3, <1>7, <1>9, <2>1
  <2> QED
    BY <1>6, <1>7, <2>2, <2>3
<1>10. ASSUME NEW i \in 1..n
       PROVE  q[i].chunk \in usable /\ best[q[i].chunk] > 0 /\ q[i].score <= 1000
  <2>1. PICK k \in 1..Len(scored) : c[i] = scored[k]
    BY <1>3, <1>7, <1>8
  <2>2. scored[k].chunk \in usable /\ best[scored[k].chunk] > 0
    BY DEF Standing
  <2>3. PICK e \in Cand : e = c[i]
    BY <1>3, <1>7, <1>8
  <2>4. PICK f \in 0..1000 : f = Query!Final(e)
    BY ONLY e \in Cand, FinalIsShare, ZenonT(60)
  <2>5. q[i].chunk = e.chunk /\ q[i].score = f
    BY <1>6, <1>7, <2>3, <2>4
  <2> QED
    BY <2>1, <2>2, <2>3, <2>5
<1>11. ASSUME NEW x \in usable, best[x] > 0, \A i \in 1..n : q[i].chunk # x
       PROVE  \/ n = TopK \/ BlockChars - Summed(q) <= Slack
              \/ \E k \in 1..Len(scored) : scored[k].chunk = x /\ Query!Final(scored[k]) < MinScore
  <2>1. PICK k \in 1..Len(scored) : scored[k].chunk = x
    BY <1>11 DEF Standing
  <2>2. PICK e \in Cand : e = scored[k]
    BY DEF Standing
  <2>3. PICK f \in 0..1000 : f = Query!Final(e)
    BY ONLY e \in Cand, FinalIsShare, ZenonT(60)
  <2>4. MinScore \in Int
    BY QueryAssumption
  <2>5. CASE f < MinScore
    BY <2>1, <2>2, <2>3, <2>5
  <2>6. CASE f >= MinScore
    <3>1. PICK i \in 1..Len(c) : c[i] = scored[k]
      BY <1>3, <2>2, <2>3, <2>6
    <3>2. CASE n = m
      <4>1. i \in 1..n
        BY <1>7, <3>2
      <4>2. q[i].chunk = x
        BY <1>6, <1>7, <2>1, <3>1, <4>1
      <4> QED
        BY <1>11, <4>1, <4>2
    <3> QED
      BY <1>6, <1>7, <3>2
  <2> QED
    BY <2>3, <2>4, <2>5, <2>6
<1>12. AnsweredBy(q, scored, usable, best)
  BY <1>5, <1>6, <1>7, <1>9, <1>10, <1>11 DEF AnsweredBy
<1> QED
  BY <1>4, <1>5, <1>12

(* A final score is a matter of the candidate and of the number of lists.  *)
LEMMA FinalStays ==
  ASSUME lists' = lists, NEW x
  PROVE  Query!Final(x)' = Query!Final(x)
BY DEF Query!Final, Query!Component

(* The answer is given.                                                    *)
LEMMA QueryAnswers ==
  ASSUME QueryInv, Query!Answer
  PROVE  QueryInv'
<1>1. /\ phase = "answer" /\ phase' = "done" /\ found' = Query!Included
      /\ lists' = lists /\ best' = best /\ scored' = scored /\ usable' = usable
  BY DEF Query!Answer
<1>2. Standing(scored, usable, best) /\ StandingNow
  BY <1>1 DEF QueryInv, StandingNow
<1>3. StandingNow'
  BY <1>1, <1>2 DEF StandingNow
<1>4. RecallKnown'
  <2>1. RecallKnown /\ usable' \in SUBSET Chunks
    BY <1>1 DEF QueryInv, RecallKnown
  <2> QED
    BY <1>1, <2>1, RecallStays
<1>5. AnsweredBy(Query!Included, scored, usable, best)
  BY <1>2, IncludedAnswers
<1>6. PICK q : q = found' /\ AnsweredBy(q, scored, usable, best)
  BY <1>1, <1>5
<1>7. \A x : Query!Final(x)' = Query!Final(x)
  BY <1>1, FinalStays
<1>8. Answered'
  BY <1>1, <1>6, <1>7 DEF Answered, AnsweredBy
<1> QED
  BY <1>1, <1>3, <1>4, <1>8 DEF QueryInv, Query!Phases

(* A question that is not answered yet has nothing to keep.                *)
LEMMA QueryStarts ==
  ASSUME Query!Init PROVE QueryInv
<1>1. /\ lists = << >> /\ scored = << >> /\ usable = {} /\ best = [x \in Chunks |-> 0]
      /\ phase = "start"
  BY DEF Query!Init
<1>2. Len(lists) = 0 /\ lists \in Seq(Seq(Chunks))
  BY <1>1
<1>3. RecallKnown
  <2>1. Recalled
    BY <1>2 DEF Recalled
  <2>2. \A x \in Chunks : best[x] > 0 <=> \E k \in 1..Len(lists) : Seen(lists[k], x)
    BY <1>1, <1>2
  <2>3. best \in [Chunks -> 0..100] /\ usable \in SUBSET Chunks
    BY <1>1
  <2> QED
    BY <2>1, <2>2, <2>3 DEF RecallKnown
<1> QED
  BY <1>1, <1>3 DEF QueryInv, Query!Phases

(* A step of the question keeps what is known of it.                       *)
LEMMA QuerySteps ==
  ASSUME QueryInv, Query!Next PROVE QueryInv'
<1>1. CASE Query!Expand
  <2>1. /\ phase' = "recall" /\ lists' = lists /\ best' = best /\ usable' = usable
    BY <1>1 DEF Query!Expand
  <2>2. RecallKnown /\ usable' \in SUBSET Chunks
    BY <2>1 DEF QueryInv, RecallKnown
  <2>3. RecallKnown'
    BY <2>1, <2>2, RecallStays
  <2> QED
    BY <2>1, <2>3 DEF QueryInv, Query!Phases
<1>2. ASSUME NEW s \in [Chunks -> Similar \cup {0}], Query!Recall(s) PROVE QueryInv'
  BY <1>2, QueryRecalls
<1>3. ASSUME NEW u \in SUBSET Chunks, Query!Score(u) PROVE QueryInv'
  BY <1>3, QueryScores
<1>4. CASE Query!Rerank
  BY <1>4, QueryReranks
<1>5. CASE Query!Answer
  BY <1>5, QueryAnswers
<1> QED
  BY <1>1, <1>2, <1>3, <1>4, <1>5 DEF Query!Next

(* While another component acts, nothing changes.                          *)
LEMMA QueryRests ==
  ASSUME QueryInv, UNCHANGED queryVars PROVE QueryInv'
<1>1. /\ phase' = phase /\ found' = found /\ lists' = lists /\ best' = best
      /\ scored' = scored /\ usable' = usable
  BY DEF queryVars
<1>2. RecallKnown'
  <2>1. RecallKnown /\ usable' \in SUBSET Chunks
    BY <1>1 DEF QueryInv, RecallKnown
  <2> QED
    BY <1>1, <2>1, RecallStays
<1>3. StandingNow => StandingNow'
  BY <1>1 DEF StandingNow
<1>4. \A x : Query!Final(x)' = Query!Final(x)
  BY <1>1, FinalStays
<1>5. Answered => Answered'
  BY <1>1, <1>4 DEF Answered
<1> QED
  BY <1>1, <1>2, <1>3, <1>5 DEF QueryInv

(* So an answer is sound.                                                  *)
LEMMA AnswerIsSound ==
  ASSUME QueryInv PROVE Query!RetrievalSound
<1> SUFFICES ASSUME phase = "done"
             PROVE  /\ Len(found) <= TopK /\ Query!Chars(found) <= BlockChars
                    /\ \A i, j \in DOMAIN found :
                         i < j => /\ found[i].chunk # found[j].chunk
                                  /\ found[i].score >= found[j].score
                    /\ \A i \in DOMAIN found :
                         /\ found[i].chunk \in usable /\ best[found[i].chunk] > 0
                         /\ found[i].score <= 1000
                    /\ \A x \in usable :
                         best[x] > 0 /\ x \notin {found[i].chunk : i \in DOMAIN found} =>
                           \/ Len(found) = TopK \/ BlockChars - Query!Chars(found) <= Slack
                           \/ x \in DOMAIN Query!Scores /\ Query!Scores[x] < MinScore
  <2>1. 10 * Query!Scale = 1000
    BY DEF Query!Scale
  <2> QED
    BY <2>1 DEF Query!RetrievalSound
<1>1. Answered /\ Standing(scored, usable, best)
  BY DEF QueryInv, StandingNow
<1>2. DOMAIN found = 1..Len(found)
  BY <1>1 DEF Answered
<1>3. Query!Chars(found) = Summed(found)
  BY DEF Query!Chars, Query!FoldLeft, Query!MapThenFoldSet, Query!Max, Summed, Top
<1>4. ASSUME NEW k \in 1..Len(scored)
      PROVE  /\ scored[k].chunk \in DOMAIN Query!Scores
             /\ Query!Scores[scored[k].chunk] = Query!Final(scored[k])
  <2>1. DOMAIN scored = 1..Len(scored)
    BY <1>1 DEF Standing
  <2>2. PICK x : x = scored[k].chunk
    OBVIOUS
  <2>3. PICK e : e = CHOOSE i \in DOMAIN scored : scored[i].chunk = x
    OBVIOUS
  <2>4. e \in 1..Len(scored) /\ scored[e].chunk = x
    BY <2>1, <2>2, <2>3
  <2>5. e = k
    BY <1>1, <2>2, <2>4 DEF Standing
  <2>6. x \in DOMAIN Query!Scores /\ Query!Scores[x] = Query!Final(scored[e])
    BY <2>1, <2>2, <2>3 DEF Query!Scores
  <2> QED
    BY <2>2, <2>5, <2>6
<1>5. ASSUME NEW x \in usable, best[x] > 0, x \notin {found[i].chunk : i \in DOMAIN found}
      PROVE  \/ Len(found) = TopK \/ BlockChars - Query!Chars(found) <= Slack
             \/ x \in DOMAIN Query!Scores /\ Query!Scores[x] < MinScore
  <2>1. \A i \in 1..Len(found) : found[i].chunk # x
    BY <1>2, <1>5
  <2>2. \/ Len(found) = TopK \/ BlockChars - Summed(found) <= Slack
        \/ \E k \in 1..Len(scored) : scored[k].chunk = x /\ Query!Final(scored[k]) < MinScore
    BY <1>1, <1>5, <2>1 DEF Answered
  <2>3. ASSUME NEW k \in 1..Len(scored), scored[k].chunk = x, Query!Final(scored[k]) < MinScore
        PROVE  x \in DOMAIN Query!Scores /\ Query!Scores[x] < MinScore
    BY <1>4, <2>3
  <2> QED
    BY <1>3, <2>2, <2>3
<1> QED
  BY <1>1, <1>2, <1>3, <1>5 DEF Answered

(* Whatever the store, the model and the rules answer and whatever is      *)
(* usable when the chunks are read, the context of a question stays within *)
(* its length, holds each chunk once, the better first and only chunks     *)
(* that were found and are usable, and misses none that scores enough      *)
(* unless there are enough or the context is full.                         *)
THEOREM QueriesAreSound == EdgeSpec => []RetrievalSound
<1>1. EdgeInit => QueryInv
  BY QueryStarts DEF EdgeInit
<1>2. QueryInv /\ [EdgeNext]_edgeVars => QueryInv'
  <2> SUFFICES ASSUME QueryInv, [EdgeNext]_edgeVars PROVE QueryInv'
    OBVIOUS
  <2>1. CASE Query!Next
    BY <2>1, QuerySteps
  <2>2. CASE UNCHANGED queryVars
    BY <2>2, QueryRests
  <2> QED
    BY <2>1, <2>2 DEF EdgeNext, edgeVars
<1>3. QueryInv => RetrievalSound
  BY AnswerIsSound DEF RetrievalSound
<1> QED
  BY <1>1, <1>2, <1>3, PTL DEF EdgeSpec

-----------------------------------------------------------------------------
(* Chunking.  A span, and one that stands where its range says.            *)
Extent == [from : Nat, to : Nat, at : SUBSET Nat]

Solid(x) == x.from < x.to /\ x.at = (x.from + 1)..x.to

Before == {z \in Extent \X Extent : z[1].to <= z[2].from}

(* A function on the first positions is a sequence.                        *)
LEMMA FunctionIsSeq ==
  ASSUME NEW S, NEW n, n \in Nat, NEW f \in [1..n -> S]
  PROVE  f \in Seq(S) /\ Len(f) = n
OBVIOUS

(* The least and the greatest of some positions.                           *)
LEMMA LeastIsLeast ==
  ASSUME NEW S \in SUBSET Nat, S # {}
  PROVE  Chunk!Min(S) \in S /\ \A y \in S : Chunk!Min(S) <= y
<1>1. \E x \in S : \A y \in S : x <= y
  BY LeastNumber
<1> QED
  BY <1>1 DEF Chunk!Min

(* A paragraph stands where its range says and neither begins nor ends     *)
(* with white space.                                                       *)
Paragraph(t, x) ==
  x \in Extent /\ Solid(x) /\ x.to <= Len(t) /\ t[x.from + 1] # "space"

(* Paragraphs are in order, and every letter is in one.                    *)
LEMMA ParagraphsAreTidy ==
  ASSUME NEW t \in Seq(Chunk!Kinds)
  PROVE  /\ Chunk!Paragraphs(t) \in Seq({x \in Extent : Paragraph(t, x)})
         /\ \A k, l \in 1..Len(Chunk!Paragraphs(t)) :
              k < l => Chunk!Paragraphs(t)[k].to <= Chunk!Paragraphs(t)[l].from
         /\ \A i \in 1..Len(t) : t[i] \in {"letter", "end"} =>
              \E k \in 1..Len(Chunk!Paragraphs(t)) : i \in Chunk!Paragraphs(t)[k].at
<1> DEFINE n == Len(t)
           blank(u) == \A v \in 1..u : t[v] = "space" \/ \E w \in v..u : t[w] = "break"
           starts == {z \in 0..(n - 1) : t[z + 1] \notin {"space", "break"} /\ blank(z)}
           ends(u) == {y \in (u + 1)..n : t[y] # "space" /\ \A v \in (u + 1)..y : t[v] # "break"}
           froms == Filtered([i \in 1..(n - 0) |-> 0 + i - 1], starts)
           q == Chunk!Paragraphs(t)
<1>1. n \in Nat /\ DOMAIN t = 1..n
  OBVIOUS
<1>2. q = [k \in DOMAIN froms |-> [from |-> froms[k], to |-> Top(ends(froms[k])),
                                   at |-> (froms[k] + 1)..Top(ends(froms[k]))]]
  BY DEF Chunk!Paragraphs, Chunk!InOrder, Chunk!Span, Chunk!Filtered, Filtered, Chunk!Max, Top
<1>3. Lists(froms, starts, 0, n)
  <2> HIDE DEF starts, n
  <2> QED
    BY <1>1, FilterLists
<1>4. ASSUME NEW a \in starts
      PROVE  /\ a \in 0..(n - 1) /\ t[a + 1] # "space" /\ Top(ends(a)) \in (a + 1)..n
             /\ \A i \in (a + 1)..Top(ends(a)) : t[i] # "break"
             /\ \A b \in ends(a) : b <= Top(ends(a))
  <2>1. a \in 0..(n - 1) /\ t[a + 1] \notin {"space", "break"} /\ a + 1 \in (a + 1)..n
    BY <1>1
  <2>2. a + 1 \in ends(a) /\ ends(a) \in SUBSET (1..n)
    BY <1>1, <2>1
  <2>3. Top(ends(a)) \in ends(a) /\ \A b \in ends(a) : b <= Top(ends(a))
    <3> HIDE DEF ends, starts, n
    <3> QED
      BY <1>1, <2>2, TopIsLast
  <2> QED
    BY <2>1, <2>3
<1>5. ASSUME NEW a \in starts, NEW c \in starts, a < c PROVE Top(ends(a)) <= c
  <2>1. PICK e : e = Top(ends(a))
    OBVIOUS
  <2>2. e \in (a + 1)..n /\ \A i \in (a + 1)..e : t[i] # "break"
    BY <1>4, <2>1
  <2>3. blank(c) /\ a \in 0..(n - 1) /\ c \in 0..(n - 1) /\ a + 1 \in 1..c /\ t[a + 1] # "space"
    BY <1>1, <1>4, <1>5
  <2>4. PICK j \in (a + 1)..c : t[j] = "break"
    BY <2>3
  <2>5. ~(j \in (a + 1)..e)
    BY <2>2, <2>4
  <2> QED
    BY ONLY <1>1, <2>1, <2>2, <2>3, <2>5, j \in (a + 1)..c
<1>6. ASSUME NEW i \in 1..n, t[i] \in {"letter", "end"}
      PROVE  \E a \in starts : i \in (a + 1)..Top(ends(a))
  <2> DEFINE T == {z \in 0..(i - 1) : t[z + 1] # "space" /\ \A v \in (z + 1)..i : t[v] # "break"}
  <2>1. i - 1 \in T /\ T \in SUBSET Nat
    BY <1>1, <1>6
  <2>2. PICK a \in T : \A b \in T : a <= b
    <3> HIDE DEF T
    <3> QED
      BY <2>1, LeastNumber
  <2>3. a \in 0..(i - 1) /\ t[a + 1] # "space" /\ \A j \in (a + 1)..i : t[j] # "break"
    OBVIOUS
  <2>4. blank(a)
    <3> SUFFICES ASSUME NEW m \in 1..a, t[m] # "space", \A j \in m..a : t[j] # "break" PROVE FALSE
      OBVIOUS
    <3>1. m - 1 \in 0..(i - 1) /\ (m - 1) + 1 = m /\ ~(a <= m - 1)
      BY ONLY <1>1, <2>3, m \in 1..a, i \in 1..n
    <3>2. \A j \in m..i : j \in m..a \/ j \in (a + 1)..i
      BY ONLY <1>1, <2>3, m \in 1..a, i \in 1..n
    <3>3. m - 1 \in T
      BY <2>3, <3>1, <3>2
    <3> QED
      BY <2>2, <3>1, <3>3
  <2>5. a \in starts
    <3>1. a \in 0..(n - 1) /\ a + 1 \in (a + 1)..i
      BY ONLY <1>1, <2>3, i \in 1..n
    <3> QED
      BY <2>3, <2>4, <3>1
  <2>6. i \in ends(a)
    <3>1. i \in (a + 1)..n
      BY ONLY <1>1, <2>3, i \in 1..n
    <3> QED
      BY <1>6, <2>3, <3>1
  <2>7. i <= Top(ends(a)) /\ Top(ends(a)) \in (a + 1)..n
    BY <1>4, <2>5, <2>6
  <2>8. i \in (a + 1)..Top(ends(a))
    <3> HIDE DEF ends, starts
    <3> QED
      BY ONLY <1>1, <2>3, <2>7, i \in 1..n
  <2> HIDE DEF ends, starts
  <2> QED
    BY ONLY <2>5, <2>8
<1> HIDE DEF starts, ends, n, q
<1>7. /\ froms \in Seq(Int) /\ DOMAIN froms = 1..Len(froms) /\ Len(froms) \in Nat
      /\ \A k \in 1..Len(froms) : froms[k] \in starts
      /\ \A x \in starts : Seen(froms, x)
      /\ \A k, l \in 1..Len(froms) : k < l => froms[k] < froms[l]
  <2> HIDE DEF froms
  <2>1. froms \in Seq(Int)
    BY <1>3 DEF Lists
  <2>2. ASSUME NEW x \in starts PROVE x \in Int /\ 0 <= x /\ x < n
    BY <1>1, <1>4
  <2> QED
    BY <1>3, <2>1, <2>2 DEF Lists
<1> HIDE DEF froms
<1>8. /\ q \in Seq({x \in Extent : Paragraph(t, x)}) /\ Len(q) = Len(froms)
      /\ \A k \in 1..Len(froms) : q[k].from = froms[k] /\ q[k].to = Top(ends(froms[k]))
  <2>1. ASSUME NEW k \in 1..Len(froms)
        PROVE  /\ q[k].from = froms[k] /\ q[k].to = Top(ends(froms[k]))
               /\ q[k] \in Extent /\ Paragraph(t, q[k])
    <3>1. PICK a, e : a \in starts /\ a = froms[k] /\ e = Top(ends(froms[k]))
      BY <1>7
    <3>2. a \in Nat /\ e \in (a + 1)..n /\ t[a + 1] # "space"
      BY <1>1, <1>4, <3>1
    <3>3. q[k] = [from |-> a, to |-> e, at |-> (a + 1)..e]
      BY <1>2, <1>7, <3>1
    <3>4. a \in Nat /\ e \in Nat /\ (a + 1)..e \subseteq Nat /\ a < e /\ e <= n
      BY ONLY <1>1, <3>2
    <3> QED
      BY <3>1, <3>2, <3>3, <3>4 DEF Extent, Paragraph, Solid, n
  <2>2. DOMAIN q = 1..Len(froms) /\ q = [k \in 1..Len(froms) |-> q[k]]
    BY <1>2, <1>7
  <2>3. q \in [1..Len(froms) -> {x \in Extent : Paragraph(t, x)}]
    BY <2>1, <2>2
  <2>4. q \in Seq({x \in Extent : Paragraph(t, x)}) /\ Len(q) = Len(froms)
    BY ONLY <1>7, <2>3, FunctionIsSeq
  <2> QED
    BY ONLY <2>1, <2>4
<1>9. \A k, l \in 1..Len(q) : k < l => q[k].to <= q[l].from
  BY <1>5, <1>7, <1>8
<1>10. ASSUME NEW i \in 1..n, t[i] \in {"letter", "end"} PROVE \E k \in 1..Len(q) : i \in q[k].at
  <2>1. PICK a \in starts : i \in (a + 1)..Top(ends(a))
    BY <1>6, <1>10
  <2>2. PICK k \in 1..Len(froms) : froms[k] = a
    BY <1>7 DEF Seen
  <2>3. q[k].at = (a + 1)..Top(ends(a))
    BY <1>2, <1>7, <2>2
  <2> QED
    BY <1>8, <2>1, <2>3
<1> QED
  BY <1>8, <1>9, <1>10 DEF n, q

(* White space follows no sentence end.                                    *)
Gapless(t) == Chunk!Gaps(t) = {}

(* The parts of a paragraph are in order within it; without gaps each      *)
(* begins where the one before ends, and they are all of it.               *)
LEMMA PartsAreTidy ==
  ASSUME NEW t \in Seq(Chunk!Kinds), NEW p \in Extent, Paragraph(t, p)
  PROVE  /\ Chunk!Parts(t, p) \in Seq({x \in Extent : Solid(x) /\ p.from <= x.from /\ x.to <= p.to})
         /\ \A k, l \in 1..Len(Chunk!Parts(t, p)) :
              k < l => Chunk!Parts(t, p)[k].to <= Chunk!Parts(t, p)[l].from
         /\ Gapless(t) =>
              /\ Len(Chunk!Parts(t, p)) > 0
              /\ Chunk!Parts(t, p)[1].from = p.from
              /\ Chunk!Parts(t, p)[Len(Chunk!Parts(t, p))].to = p.to
              /\ \A k \in 1..(Len(Chunk!Parts(t, p)) - 1) :
                   Chunk!Parts(t, p)[k].to = Chunk!Parts(t, p)[k + 1].from
<1> DEFINE f == p.from
           m == p.to
           follows(u) == \E v \in (f + 1)..u :
                           t[v] = "end" /\ \A w \in (v + 1)..u : t[w] = "space"
           starts == {z \in f..(m - 1) : t[z + 1] # "space" /\ (z = f \/ follows(z))}
           ends(u) == {y \in (u + 1)..m : t[y] = "end" \/ y = m}
           froms == Filtered([i \in 1..(m - f) |-> f + i - 1], starts)
           q == Chunk!Parts(t, p)
<1>1. /\ f \in Nat /\ m \in Nat /\ f < m /\ t[f + 1] # "space"
      /\ \A i \in (f + 1)..m : i \in DOMAIN t
  BY DEF Paragraph, Solid, Extent
<1>2. q = [k \in DOMAIN froms |-> [from |-> froms[k], to |-> Chunk!Min(ends(froms[k])),
                                   at |-> (froms[k] + 1)..Chunk!Min(ends(froms[k]))]]
  BY DEF Chunk!Parts, Chunk!InOrder, Chunk!Span, Chunk!Filtered, Filtered
<1> HIDE DEF f, m
<1>3. Lists(froms, starts, f, m)
  <2> HIDE DEF starts
  <2> QED
    BY <1>1, FilterLists
<1>4. ASSUME NEW a \in starts
      PROVE  /\ a \in f..(m - 1) /\ t[a + 1] # "space" /\ (a = f \/ follows(a))
             /\ Chunk!Min(ends(a)) \in (a + 1)..m
             /\ t[Chunk!Min(ends(a))] = "end" \/ Chunk!Min(ends(a)) = m
             /\ \A b \in ends(a) : Chunk!Min(ends(a)) <= b
  <2>1. a \in f..(m - 1) /\ t[a + 1] # "space" /\ (a = f \/ follows(a))
    OBVIOUS
  <2>2. m \in ends(a) /\ ends(a) \in SUBSET Nat
    BY <1>1, <2>1
  <2>3. Chunk!Min(ends(a)) \in ends(a) /\ \A b \in ends(a) : Chunk!Min(ends(a)) <= b
    <3> HIDE DEF ends, starts
    <3> QED
      BY <2>2, LeastIsLeast
  <2> QED
    BY <2>1, <2>3
<1>5. ASSUME NEW a \in starts, NEW c \in starts, a < c PROVE Chunk!Min(ends(a)) <= c
  <2>1. a \in f..(m - 1) /\ c \in f..(m - 1) /\ t[a + 1] # "space" /\ follows(c)
    BY <1>1, <1>4, <1>5
  <2>2. PICK j \in (f + 1)..c : t[j] = "end" /\ \A w \in (j + 1)..c : t[w] = "space"
    BY <2>1
  <2>3. ~(a + 1 \in (j + 1)..c)
    BY <2>1, <2>2
  <2>4. j \in (a + 1)..m /\ j <= c
    BY ONLY <1>1, <1>5, <2>1, <2>3, j \in (f + 1)..c
  <2>5. j \in ends(a) /\ Chunk!Min(ends(a)) \in (a + 1)..m /\ Chunk!Min(ends(a)) <= j
    BY <1>4, <2>2, <2>4
  <2> HIDE DEF ends, starts
  <2> QED
    BY ONLY <1>1, <2>1, <2>4, <2>5
<1>6. Gapless(t) => \A a \in starts :
        Chunk!Min(ends(a)) = m \/ Chunk!Min(ends(a)) \in starts
  <2> SUFFICES ASSUME Gapless(t), NEW a \in starts, Chunk!Min(ends(a)) # m
               PROVE  Chunk!Min(ends(a)) \in starts
    OBVIOUS
  <2>1. PICK e : e = Chunk!Min(ends(a))
    OBVIOUS
  <2>2. a \in f..(m - 1) /\ e \in (a + 1)..m /\ t[e] = "end"
    BY <1>4, <2>1
  <2>3. /\ e \in f..(m - 1) /\ e + 1 > 1 /\ (e + 1) - 1 = e /\ e + 1 \in (f + 1)..m
        /\ e \in (f + 1)..e /\ \A w \in (e + 1)..e : FALSE
    <3>1. e # m
      BY <2>1
    <3>2. a \in Int /\ e \in Int /\ f <= a /\ a < e /\ e <= m
      <4> HIDE DEF ends, starts
      <4> QED
        BY ONLY <1>1, <2>2
    <3> HIDE DEF ends, starts
    <3> QED
      BY ONLY <1>1, <3>1, <3>2
  <2>4. t[e + 1] # "space"
    BY <1>1, <2>2, <2>3 DEF Gapless, Chunk!Gaps
  <2>5. follows(e)
    BY <2>2, <2>3
  <2> QED
    BY <2>1, <2>3, <2>4, <2>5
<1>7. f \in starts
  BY <1>1
<1> HIDE DEF starts, ends, q
<1>8. /\ froms \in Seq(Int) /\ DOMAIN froms = 1..Len(froms) /\ Len(froms) \in Nat
      /\ \A k \in 1..Len(froms) : froms[k] \in starts
      /\ \A x \in starts : Seen(froms, x)
      /\ \A k, l \in 1..Len(froms) : k < l => froms[k] < froms[l]
  <2> HIDE DEF froms
  <2>1. froms \in Seq(Int)
    BY <1>3 DEF Lists
  <2>2. ASSUME NEW x \in starts PROVE x \in Int /\ f <= x /\ x < m
    BY <1>1, <1>4
  <2> QED
    BY <1>3, <2>1, <2>2 DEF Lists
<1> HIDE DEF froms
<1>9. /\ q \in Seq({x \in Extent : Solid(x) /\ f <= x.from /\ x.to <= m}) /\ Len(q) = Len(froms)
      /\ \A k \in 1..Len(froms) :
           q[k].from = froms[k] /\ q[k].to = Chunk!Min(ends(froms[k])) /\ q[k].to <= m
  <2>1. ASSUME NEW k \in 1..Len(froms)
        PROVE  /\ q[k].from = froms[k] /\ q[k].to = Chunk!Min(ends(froms[k]))
               /\ q[k] \in {x \in Extent : Solid(x) /\ f <= x.from /\ x.to <= m}
               /\ q[k].to <= m
    <3>1. PICK a, e : a \in starts /\ a = froms[k] /\ e = Chunk!Min(ends(froms[k]))
      BY <1>8
    <3>2. a \in f..(m - 1) /\ e \in (a + 1)..m
      BY <1>4, <3>1
    <3>3. q[k] = [from |-> a, to |-> e, at |-> (a + 1)..e]
      BY <1>2, <1>8, <3>1
    <3>4. a \in Nat /\ e \in Nat /\ (a + 1)..e \subseteq Nat /\ a < e /\ e <= m /\ f <= a
      BY ONLY <1>1, <3>2
    <3> QED
      BY <3>1, <3>3, <3>4 DEF Extent, Solid
  <2>2. DOMAIN q = 1..Len(froms) /\ q = [k \in 1..Len(froms) |-> q[k]]
    BY <1>2, <1>8
  <2>3. q \in [1..Len(froms) -> {x \in Extent : Solid(x) /\ f <= x.from /\ x.to <= m}]
    BY <2>1, <2>2
  <2>4. q \in Seq({x \in Extent : Solid(x) /\ f <= x.from /\ x.to <= m}) /\ Len(q) = Len(froms)
    BY ONLY <1>8, <2>3, FunctionIsSeq
  <2> QED
    BY ONLY <2>1, <2>4
<1>10. Gapless(t) => \A k \in 1..Len(froms) :
         q[k].to = m \/ \E l \in 1..Len(froms) : q[k].to = froms[l] /\ k < l
  <2> SUFFICES ASSUME Gapless(t), NEW k \in 1..Len(froms), q[k].to # m
               PROVE  \E l \in 1..Len(froms) : q[k].to = froms[l] /\ k < l
    OBVIOUS
  <2>1. PICK a \in starts, e \in starts : a = froms[k] /\ e = q[k].to /\ a < e
    <3>1. froms[k] \in starts
      BY <1>8
    <3>2. PICK a, e : a \in starts /\ a = froms[k] /\ e = q[k].to /\ e = Chunk!Min(ends(a))
      BY <1>9, <3>1
    <3>3. e \in starts /\ e \in (a + 1)..m /\ a \in f..(m - 1)
      BY <1>4, <1>6, <3>2
    <3>4. a < e
      BY ONLY <1>1, <3>3
    <3> QED
      BY <3>2, <3>3, <3>4
  <2>2. PICK l \in 1..Len(froms) : froms[l] = e
    BY <1>8 DEF Seen
  <2>3. k < l
    <3>1. froms[k] < froms[l] /\ l # k
      BY ONLY <1>8, <2>1, <2>2, k \in 1..Len(froms)
    <3>2. l < k => froms[l] < froms[k]
      BY <1>8
    <3>3. froms[k] \in Int /\ froms[l] \in Int
      BY <1>8
    <3> QED
      BY ONLY <1>8, <3>1, <3>2, <3>3, k \in 1..Len(froms), l \in 1..Len(froms)
  <2> QED
    BY <2>1, <2>2, <2>3
<1>11. ASSUME Gapless(t)
       PROVE  /\ Len(q) > 0 /\ q[1].from = f /\ q[Len(q)].to = m
              /\ \A k \in 1..(Len(q) - 1) : q[k].to = q[k + 1].from
  <2>1. PICK l \in 1..Len(froms) : froms[l] = f
    BY <1>7, <1>8 DEF Seen
  <2>2. 1 \in 1..Len(froms) /\ Len(froms) \in 1..Len(froms)
    BY <1>8
  <2>3. froms[1] = f
    <3>1. froms[1] \in Int /\ f <= froms[1]
      BY <1>1, <1>4, <1>8, <2>2
    <3>2. l # 1 => froms[1] < f
      BY <1>8, <2>1, <2>2
    <3> QED
      BY ONLY <1>1, <2>1, <3>1, <3>2
  <2>4. q[Len(froms)].to = m
    BY <1>8, <1>10, <1>11, <2>2
  <2>5. ASSUME NEW k \in 1..(Len(froms) - 1) PROVE q[k].to = q[k + 1].from
    <3>1. k \in 1..Len(froms) /\ k + 1 \in 1..Len(froms) /\ k < k + 1
      BY <1>8
    <3>2. PICK a, c, e : a \in starts /\ c \in starts /\ a = froms[k] /\ c = froms[k + 1]
                      /\ e = q[k].to
      BY <1>8, <3>1
    <3>3. a < c /\ e = Chunk!Min(ends(a))
      BY <1>8, <1>9, <3>1, <3>2
    <3>4. e <= c /\ c \in f..(m - 1) /\ e \in (a + 1)..m
      BY <1>4, <1>5, <3>2, <3>3
    <3>5. e # m
      BY ONLY <1>1, <3>4
    <3>6. PICK l2 \in 1..Len(froms) : e = froms[l2] /\ k < l2
      BY <1>10, <1>11, <3>1, <3>2, <3>5
    <3>7. l2 # k + 1 => c < e
      BY <1>8, <3>1, <3>2, <3>6
    <3>8. e = c
      BY ONLY <1>1, <3>2, <3>4, <3>6, <3>7
    <3> QED
      BY <1>9, <3>1, <3>2, <3>8
  <2>6. Len(q) = Len(froms) /\ Len(froms) > 0 /\ q[1].from = f
    <3>1. Len(q) = Len(froms) /\ q[1].from = froms[1]
      BY <1>9, <2>2
    <3> QED
      BY ONLY <1>8, <2>2, <2>3, <3>1
  <2> QED
    BY ONLY <2>4, <2>5, <2>6
<1>12. \A k, l \in 1..Len(q) : k < l => q[k].to <= q[l].from
  BY <1>5, <1>8, <1>9
<1> QED
  BY <1>9, <1>11, <1>12 DEF q, f, m

(* Sentences are as long as the parts they come from; without gaps they    *)
(* are those parts.                                                        *)
LEMMA SentencesFollowParts ==
  ASSUME NEW t \in Seq(Chunk!Kinds), NEW p \in Extent, Paragraph(t, p)
  PROVE  /\ Chunk!Sentences(t, p) \in Seq(Extent)
         /\ Len(Chunk!Sentences(t, p)) = Len(Chunk!Parts(t, p))
         /\ \A k \in 1..Len(Chunk!Parts(t, p)) :
              /\ Chunk!Sentences(t, p)[k].at = Chunk!Parts(t, p)[k].at
              /\ Chunk!Sentences(t, p)[k].to - Chunk!Sentences(t, p)[k].from
                   = Chunk!Parts(t, p)[k].to - Chunk!Parts(t, p)[k].from
              /\ Gapless(t) => Chunk!Sentences(t, p)[k] = Chunk!Parts(t, p)[k]
<1>1. PICK q : q = Chunk!Parts(t, p)
  OBVIOUS
<1>2. /\ q \in Seq({x \in Extent : Solid(x) /\ p.from <= x.from /\ x.to <= p.to})
      /\ Gapless(t) => q[1].from = p.from /\ \A k \in 1..(Len(q) - 1) : q[k].to = q[k + 1].from
  BY <1>1, PartsAreTidy
<1>3. PICK f \in Nat : f = p.from
  BY DEF Extent
<1>4. PICK n \in Nat : n = Len(q)
  BY <1>2
<1>5. /\ DOMAIN q = 1..n
      /\ \A k \in 1..n : q[k] \in Extent /\ Solid(q[k])
      /\ \A k \in 1..n : q[k].from \in Nat /\ q[k].to \in Nat /\ q[k].from < q[k].to
  <2>1. DOMAIN q = 1..n /\ \A k \in 1..n : q[k] \in Extent /\ Solid(q[k])
    BY <1>2, <1>4
  <2> QED
    BY <2>1 DEF Extent, Solid
<1> DEFINE Is(h) == h = [k \in 0..n |->
                           IF k = 0 THEN f ELSE h[k - 1] + (q[k].to - q[k].from)]
           cursor == CHOOSE h : Is(h)
           X == 0..n
           m == [k \in X |-> k]
           next == [k \in X |-> IF k = 0 THEN 0 ELSE k - 1]
           gain == [k \in X \ {0} |-> [r \in Nat |-> r + (q[k].to - q[k].from)]]
           s == Chunk!Sentences(t, p)
<1>6. s = [k \in DOMAIN q |-> [from |-> cursor[k - 1], to |-> cursor[k], at |-> q[k].at]]
  BY <1>1, <1>3, <1>4 DEF Chunk!Sentences
<1>7. \E h \in [X -> Nat] : Recurses(h, X, next, {0}, f, gain)
  <2>1. m \in [X -> 0..n] /\ next \in [X -> X] /\ {0} \in SUBSET X
    OBVIOUS
  <2>2. gain \in [X \ {0} -> [Nat -> Nat]]
    <3> SUFFICES ASSUME NEW k \in X \ {0}, NEW r \in Nat PROVE r + (q[k].to - q[k].from) \in Nat
      OBVIOUS
    <3>1. PICK u \in Nat, v \in Nat : u = q[k].from /\ v = q[k].to /\ u < v
      <4> HIDE DEF X
      <4>1. k \in 1..n
        BY DEF X
      <4> QED
        BY ONLY <1>5, <4>1
    <3> QED
      BY ONLY <3>1, r \in Nat
  <2>3. \A k \in X \ {0} : m[next[k]] < m[k]
    OBVIOUS
  <2> HIDE DEF X, m, next, gain
  <2> QED
    BY ONLY n \in Nat, f \in Nat, <2>1, <2>2, <2>3, DescentDefines
<1>8. PICK h \in [X -> Nat] : Recurses(h, X, next, {0}, f, gain)
  BY <1>7
<1>9. Is(h)
  <2>1. h = [k \in X |-> IF k \in {0} THEN f ELSE gain[k][h[next[k]]]]
    BY <1>8 DEF Recurses
  <2>2. ASSUME NEW k \in X, k # 0 PROVE gain[k][h[next[k]]] = h[k - 1] + (q[k].to - q[k].from)
    <3>1. next[k] = k - 1 /\ k - 1 \in X
      BY <2>2
    <3>2. PICK r \in Nat : r = h[k - 1]
      BY <3>1
    <3> QED
      BY <2>2, <3>1, <3>2
  <2> HIDE DEF gain, next
  <2> QED
    BY <2>1, <2>2
<1>10. PICK g : g = cursor /\ Is(g)
  <2> HIDE DEF Is
  <2> QED
    BY <1>9
<1>11. g[0] = f /\ \A k \in 1..n : g[k] = g[k - 1] + (q[k].to - q[k].from)
  <2>1. 0 \in 0..n /\ \A k \in 1..n : k \in 0..n /\ k # 0
    OBVIOUS
  <2>2. \A k \in 0..n : g[k] = IF k = 0 THEN f ELSE g[k - 1] + (q[k].to - q[k].from)
    BY <1>10
  <2> QED
    BY ONLY <2>1, <2>2
<1> HIDE DEF cursor, Is, X, m, next, gain
<1> DEFINE K(k) == g[k] \in Nat /\ (Gapless(t) => g[k] = IF k = 0 THEN f ELSE q[k].to)
           G == {k \in Nat : k <= n => K(k)}
<1>12. ASSUME NEW k \in 1..n, K(k - 1)
       PROVE  K(k) /\ (Gapless(t) => g[k - 1] = q[k].from)
  <2>1. PICK u \in Nat, v \in Nat, c \in Nat : u = q[k].from /\ v = q[k].to /\ u < v /\ c = g[k - 1]
    BY <1>5, <1>12
  <2>2. g[k] = c + (v - u)
    BY <1>11, <2>1
  <2>3. Gapless(t) => c = u
    <3>1. CASE k = 1
      BY <1>2, <1>3, <1>12, <2>1, <3>1
    <3>2. CASE k # 1
      <4>1. k - 1 \in 1..(n - 1) /\ (k - 1) + 1 = k /\ k - 1 # 0
        BY ONLY k \in 1..n, n \in Nat, <3>2
      <4> QED
        BY <1>2, <1>4, <1>12, <2>1, <4>1
    <3> QED
      BY <3>1, <3>2
  <2>4. c + (v - u) \in Nat /\ (c = u => c + (v - u) = v) /\ k # 0
    <3>1. u < v
      BY <2>1
    <3>2. c + (v - u) \in Nat /\ (c = u => c + (v - u) = v)
      BY ONLY <3>1, u \in Nat, v \in Nat, c \in Nat
    <3> QED
      BY ONLY <3>2, k \in 1..n, n \in Nat
  <2> QED
    BY <2>1, <2>2, <2>3, <2>4
<1>13. \A k \in 0..n : K(k)
  <2>1. 0 \in G
    BY <1>11
  <2>2. ASSUME NEW k \in Nat, k + 1 <= n, k \in G PROVE k + 1 \in G
    <3>1. k + 1 \in 1..n /\ (k + 1) - 1 = k /\ k <= n
      BY <2>2
    <3>2. K((k + 1) - 1)
      BY <2>2, <3>1
    <3>3. K(k + 1)
      <4> HIDE DEF K
      <4> QED
        BY <1>12, <3>1, <3>2
    <3> HIDE DEF K
    <3> QED
      BY <3>1, <3>3
  <2> HIDE DEF G
  <2>3. \A k \in 0..n : k \in G
    BY <2>1, <2>2, CountUp
  <2> HIDE DEF K
  <2> QED
    BY <2>3 DEF G
<1>14. ASSUME NEW k \in 1..n
       PROVE  /\ s[k] \in Extent /\ s[k].at = q[k].at
              /\ s[k].to - s[k].from = q[k].to - q[k].from
              /\ Gapless(t) => s[k] = q[k]
  <2>1. k - 1 \in 0..n /\ k \in 0..n /\ k # 0
    BY ONLY k \in 1..n, n \in Nat
  <2>2. g[k - 1] \in Nat /\ g[k] \in Nat /\ (Gapless(t) => g[k - 1] = q[k].from /\ g[k] = q[k].to)
    <3>1. K(k - 1) /\ K(k) /\ (Gapless(t) => g[k - 1] = q[k].from)
      <4> HIDE DEF K
      <4> QED
        BY <1>12, <1>13, <2>1
    <3> QED
      BY <2>1, <3>1
  <2>3. s[k] = [from |-> g[k - 1], to |-> g[k], at |-> q[k].at]
    BY <1>5, <1>6, <1>10
  <2>4. PICK u \in Nat, v \in Nat, c \in Nat : u = q[k].from /\ v = q[k].to /\ c = g[k - 1]
    BY <1>5, <2>2
  <2>5. g[k] = c + (v - u)
    BY <1>11, <2>4
  <2>6. s[k].to - s[k].from = v - u
    <3>1. (c + (v - u)) - c = v - u
      BY ONLY u \in Nat, v \in Nat, c \in Nat
    <3> QED
      BY <2>3, <2>4, <2>5, <3>1
  <2>7. q[k] = [from |-> u, to |-> v, at |-> q[k].at] /\ q[k].at \in SUBSET Nat
    BY <1>5, <2>4 DEF Extent
  <2>8. s[k] \in Extent
    BY <2>2, <2>3, <2>7 DEF Extent
  <2> QED
    BY <2>2, <2>3, <2>4, <2>6, <2>7, <2>8
<1>15. s \in Seq(Extent) /\ Len(s) = n
  <2>1. DOMAIN s = 1..n /\ s = [k \in 1..n |-> s[k]]
    BY <1>5, <1>6
  <2>2. s \in [1..n -> Extent]
    BY <1>14, <2>1
  <2> QED
    BY ONLY n \in Nat, <2>2, FunctionIsSeq
<1> QED
  BY <1>1, <1>4, <1>14, <1>15

(* A span that is no longer than a chunk may be.                           *)
Fit(x, size) ==
  /\ x \in Extent /\ x.to - x.from <= size
  /\ IsFiniteSet(x.at) /\ Cardinality(x.at) <= size

(* How many windows cover a length, and where they begin.                  *)
LEMMA WindowsCover ==
  ASSUME NEW size \in Nat \ {0}, NEW length \in Nat \ {0}, NEW n,
         n = (length + size - 1) \div size
  PROVE  /\ n \in Nat
         /\ \A k \in 1..n : (k - 1) * size \in Nat /\ k * size = (k - 1) * size + size
         /\ \A k \in 1..n : (k - 1) * size < length
         /\ \A k, l \in 1..n : k < l => k * size <= (l - 1) * size /\ k * size < length
         /\ \A x \in 0..(length - 1) :
              \E k \in 1..n : (k - 1) * size <= x /\ x < k * size
<1>1. PICK d \in Nat : d = length + size - 1
  OBVIOUS
<1>2. /\ n \in Nat /\ n * size <= d /\ d < n * size + size
  BY ONLY <1>1, n = (length + size - 1) \div size, size \in Nat \ {0}
<1>3. ASSUME NEW k \in Nat, NEW l \in Nat, k <= l
      PROVE  k * size <= l * size /\ k * size \in Nat /\ (k + 1) * size = k * size + size
  BY ONLY <1>3, k \in Nat, l \in Nat, size \in Nat \ {0}
<1>4. ASSUME NEW k \in 1..n
      PROVE  /\ (k - 1) * size \in Nat /\ k * size = (k - 1) * size + size
             /\ (k - 1) * size < length
  <2>1. k - 1 \in Nat /\ k \in Nat /\ k - 1 <= k /\ (k - 1) + 1 = k /\ k <= n
    BY ONLY <1>2, k \in 1..n
  <2>2. (k - 1) * size \in Nat /\ k * size = (k - 1) * size + size /\ k * size <= n * size
    BY ONLY <1>2, <1>3, <2>1
  <2>6. n * size \in Nat
    BY ONLY <1>2, size \in Nat \ {0}
  <2>7. PICK u \in Nat : u = (k - 1) * size
    BY ONLY <2>2, Zenon
  <2>8. PICK v \in Nat : v = n * size
    BY ONLY <2>6, Zenon
  <2>3. u = (k - 1) * size /\ v = n * size /\ v \in Int
    BY <2>7, <2>8
  <2>4. u + size <= v /\ v <= length + size - 1
    BY ONLY <1>1, <1>2, <2>2, <2>3
  <2>5. u < length
    BY ONLY <2>4, u \in Nat, v \in Int, size \in Nat \ {0}, length \in Nat \ {0}
  <2> QED
    BY <2>2, <2>3, <2>5
<1>5. ASSUME NEW k \in 1..n, NEW l \in 1..n, k < l
      PROVE  k * size <= (l - 1) * size /\ k * size < length
  <2>1. k \in Nat /\ l - 1 \in Nat /\ k <= l - 1
    BY ONLY <1>2, <1>5, k \in 1..n, l \in 1..n
  <2>2. k * size <= (l - 1) * size /\ k * size \in Nat
    BY ONLY <1>3, <2>1
  <2>3. (l - 1) * size \in Nat /\ (l - 1) * size < length
    BY <1>4
  <2> QED
    BY ONLY <2>2, <2>3, length \in Nat \ {0}
<1>6. ASSUME NEW x \in 0..(length - 1)
      PROVE  \E k \in 1..n : (k - 1) * size <= x /\ x < k * size
  <2>1. PICK e : e = x \div size
    OBVIOUS
  <2>2. x \in Nat /\ x < length
    BY ONLY x \in 0..(length - 1), length \in Nat \ {0}
  <2>3. e \in Nat /\ e * size <= x /\ x < e * size + size
    BY ONLY <2>1, <2>2, size \in Nat \ {0}
  <2>4. ~(n <= e)
    <3> SUFFICES ASSUME n <= e PROVE FALSE
      OBVIOUS
    <3>1. n * size <= e * size /\ n * size \in Nat
      BY ONLY <1>2, <1>3, <2>3, n <= e
    <3>2. PICK u \in Nat, v \in Int : u = n * size /\ v = e * size
      BY <2>3, <3>1
    <3>3. u <= v /\ v <= x /\ length + size - 1 < u + size
      BY ONLY <1>1, <1>2, <2>3, <3>1, <3>2
    <3> QED
      BY ONLY <2>2, <3>3, u \in Nat, v \in Int, size \in Nat \ {0}, length \in Nat \ {0}
  <2>5. e + 1 \in 1..n /\ (e + 1) - 1 = e /\ (e + 1) * size = e * size + size
    <3>1. e + 1 \in 1..n /\ (e + 1) - 1 = e
      BY ONLY <1>2, <2>3, <2>4
    <3> QED
      BY ONLY <1>3, <2>3, <3>1
  <2> QED
    BY <2>3, <2>5
<1> QED
  BY <1>2, <1>4, <1>5, <1>6

(* The spans of q are in order, and all of the span s.                     *)
Tidy(q, s) ==
  /\ \A k \in 1..Len(q) : Solid(q[k]) /\ s.from <= q[k].from /\ q[k].to <= s.to
  /\ \A k, l \in 1..Len(q) : k < l => q[k].to <= q[l].from
  /\ \A i \in s.at : \E k \in 1..Len(q) : i \in q[k].at

(* The windows of a span fit into a chunk; those of a solid span are       *)
(* solid, in order, and all of it.                                         *)
LEMMA WindowsFit ==
  ASSUME NEW size \in Nat \ {0}, NEW s \in Extent, s.from < s.to,
         NEW a \in Nat, s.at = (a + 1)..(a + (s.to - s.from))
  PROVE  /\ Chunk!Windows(s, size) \in Seq({x \in Extent : Fit(x, size)})
         /\ Solid(s) => Tidy(Chunk!Windows(s, size), s)
<1>1. PICK f \in Nat, m \in Nat, length \in Nat \ {0} :
        f = s.from /\ m = s.to /\ length = m - f /\ m = f + length
  BY DEF Extent
<1>2. s.at = (a + 1)..(a + length) /\ IsFiniteSet(s.at) /\ Cardinality(s.at) = length
  <2>1. s.at = (a + 1)..(a + length) /\ a + 1 \in Int /\ a + length \in Int
    BY <1>1
  <2>2. /\ IsFiniteSet(s.at)
        /\ Cardinality(s.at) = IF a + 1 > a + length THEN 0 ELSE (a + length) - (a + 1) + 1
    BY ONLY <2>1, FS_Interval
  <2>3. ~(a + 1 > a + length) /\ (a + length) - (a + 1) + 1 = length
    BY ONLY a \in Nat, length \in Nat \ {0}
  <2> QED
    BY <2>1, <2>2, <2>3
<1> DEFINE q == Chunk!Windows(s, size)
<1>3. Chunk!Cardinality(s.at) = length
  BY <1>2 DEF Chunk!Cardinality, Cardinality
<1>4. CASE length <= size
  <2>1. q = <<s>> /\ Len(<<s>>) = 1 /\ <<s>>[1] = s
    BY <1>3, <1>4 DEF Chunk!Windows
  <2>2. Fit(s, size)
    BY <1>1, <1>2, <1>4 DEF Fit
  <2>3. \A k \in 1..1 : k = 1
    OBVIOUS
  <2>4. <<s>> \in Seq({x \in Extent : Fit(x, size)})
    BY <2>2
  <2>5. s.from <= s.from /\ s.to <= s.to
    BY ONLY <1>1, f \in Nat, m \in Nat
  <2> HIDE DEF q
  <2>6. Len(q) = 1 /\ q[1] = s
    BY <2>1
  <2>7. \A k \in 1..Len(q) : k = 1
    BY <2>3, <2>6
  <2>8. \A k, l \in 1..Len(q) : ~(k < l)
    BY <2>6
  <2>9. Solid(s) => Tidy(q, s)
    BY ONLY <2>5, <2>6, <2>7, <2>8 DEF Tidy
  <2> QED
    BY <2>1, <2>4, <2>9 DEF q
<1>5. CASE ~(length <= size)
  <2> DEFINE n == (length + size - 1) \div size
             end(k) == Chunk!Min({k * size, length})
  <2>1. /\ n \in Nat
        /\ \A k \in 1..n : (k - 1) * size \in Nat /\ k * size = (k - 1) * size + size
        /\ \A k \in 1..n : (k - 1) * size < length
        /\ \A k, l \in 1..n : k < l => k * size <= (l - 1) * size /\ k * size < length
        /\ \A x \in 0..(length - 1) :
             \E k \in 1..n : (k - 1) * size <= x /\ x < k * size
    <3>1. PICK u : u = n
      OBVIOUS
    <3> QED
      BY ONLY <3>1, WindowsCover, size \in Nat \ {0}, length \in Nat \ {0}
  <2>2. Chunk!Min(s.at) = a + 1
    <3>1. a + 1 \in s.at /\ s.at \in SUBSET Nat /\ \A y \in s.at : a + 1 <= y
      <4>1. s.at = (a + 1)..(a + length)
        BY <1>2
      <4>2. /\ a + 1 \in (a + 1)..(a + length) /\ (a + 1)..(a + length) \in SUBSET Nat
            /\ \A y \in (a + 1)..(a + length) : a + 1 <= y
        BY ONLY a \in Nat, length \in Nat \ {0}
      <4> QED
        BY ONLY <4>1, <4>2
    <3>2. PICK e : e = Chunk!Min(s.at)
      OBVIOUS
    <3>3. e \in s.at /\ e <= a + 1
      BY <3>1, <3>2, LeastIsLeast
    <3> QED
      BY ONLY <3>1, <3>2, <3>3, a \in Nat
  <2>3. q = [k \in 1..n |-> [from |-> f + (k - 1) * size, to |-> f + end(k),
                             at |-> ((a + 1) + (k - 1) * size)..((a + 1) + end(k) - 1)]]
    BY <1>1, <1>3, <1>5, <2>2 DEF Chunk!Windows
  <2> HIDE DEF n, q
  <2>4. ASSUME NEW k \in 1..n
        PROVE  \E u \in Nat, v \in Nat :
                 /\ u = (k - 1) * size /\ v = end(k) /\ u < v /\ v <= u + size /\ v <= length
                 /\ v = u + size \/ v = length
                 /\ k * size = u + size
    <3>0. /\ (k - 1) * size \in Nat /\ k * size = (k - 1) * size + size
          /\ (k - 1) * size < length
      BY ONLY <2>1, k \in 1..n
    <3>1. PICK u \in Nat, w \in Nat : u = (k - 1) * size /\ w = k * size /\ w = u + size /\ u < length
      <4>1. PICK u \in Nat : u = (k - 1) * size
        BY <3>0
      <4>2. k * size = u + size /\ u < length
        BY <3>0, <4>1
      <4>3. u + size \in Nat
        BY ONLY u \in Nat, size \in Nat \ {0}
      <4> QED
        BY ONLY <4>1, <4>2, <4>3
    <3>2. PICK v : v = end(k)
      OBVIOUS
    <3>3. {w, length} \in SUBSET Nat /\ {w, length} # {} /\ v = Chunk!Min({w, length})
      BY <3>1, <3>2
    <3>4. (v = w \/ v = length) /\ v <= w /\ v <= length
      BY <3>3, LeastIsLeast
    <3>5. v \in Nat /\ u < v /\ v <= u + size /\ (v = u + size \/ v = length)
      BY ONLY <3>1, <3>4, size \in Nat \ {0}, length \in Nat \ {0}, u \in Nat, w \in Nat
    <3> QED
      BY <3>1, <3>2, <3>4, <3>5
  <2> HIDE DEF end
  <2>5. ASSUME NEW k \in 1..n
        PROVE  /\ q[k] \in Extent /\ Fit(q[k], size)
               /\ Solid(s) => Solid(q[k]) /\ f <= q[k].from /\ q[k].to <= m
    <3>1. PICK u \in Nat, v \in Nat :
            u = (k - 1) * size /\ v = end(k) /\ u < v /\ v <= u + size /\ v <= length
      BY <2>4
    <3>2. q[k] = [from |-> f + u, to |-> f + v, at |-> ((a + 1) + u)..((a + 1) + v - 1)]
      BY <2>3, <3>1
    <3>3. /\ f + u \in Nat /\ f + v \in Nat /\ f + u < f + v /\ (f + v) - (f + u) <= size
          /\ f <= f + u /\ f + v <= f + length
          /\ ((a + 1) + u)..((a + 1) + v - 1) \in SUBSET Nat
          /\ (a + 1) + u \in Int /\ (a + 1) + v - 1 \in Int
          /\ ~((a + 1) + u > (a + 1) + v - 1)
          /\ ((a + 1) + v - 1) - ((a + 1) + u) + 1 <= size
          /\ (f + 1) + v - 1 = f + v /\ (f + 1) + u = (f + u) + 1
      BY ONLY <3>1, f \in Nat, a \in Nat, length \in Nat \ {0}, size \in Nat \ {0}, u \in Nat, v \in Nat
    <3>4. IsFiniteSet(q[k].at) /\ Cardinality(q[k].at) <= size
      <4>1. q[k].at = ((a + 1) + u)..((a + 1) + v - 1)
        BY <3>2
      <4> QED
        BY ONLY <3>3, <4>1, FS_Interval
    <3>5. q[k] \in Extent
      BY <3>2, <3>3 DEF Extent
    <3>6. Fit(q[k], size)
      BY <3>2, <3>3, <3>4, <3>5 DEF Fit
    <3>7. Solid(s) => a = f
      <4>1. Solid(s) => (f + 1)..m = (a + 1)..(a + length)
        BY <1>1, <1>2 DEF Solid
      <4>2. (f + 1)..m = (a + 1)..(a + length) => a = f
        <5> SUFFICES ASSUME (f + 1)..m = (a + 1)..(a + length) PROVE a = f
          OBVIOUS
        <5>1. f + 1 \in (a + 1)..(a + length) /\ a + 1 \in (f + 1)..m
          <6>1. f + 1 \in (f + 1)..m /\ a + 1 \in (a + 1)..(a + length)
            BY ONLY <1>1, f \in Nat, a \in Nat, length \in Nat \ {0}
          <6> QED
            BY <6>1
        <5> QED
          BY ONLY <5>1, f \in Nat, a \in Nat, m \in Nat, length \in Nat \ {0}
      <4> QED
        BY <4>1, <4>2
    <3>8. Solid(s) => Solid(q[k])
      BY <3>2, <3>3, <3>7 DEF Solid
    <3> QED
      BY <1>1, <3>2, <3>3, <3>5, <3>6, <3>8
  <2>6. q \in Seq({x \in Extent : Fit(x, size)}) /\ Len(q) = n
    <3>1. DOMAIN q = 1..n /\ q = [k \in 1..n |-> q[k]]
      BY <2>3
    <3>2. q \in [1..n -> {x \in Extent : Fit(x, size)}]
      BY <2>5, <3>1
    <3> QED
      BY ONLY <2>1, <3>2, FunctionIsSeq
  <2>7. ASSUME NEW k \in 1..n, NEW l \in 1..n, k < l PROVE q[k].to <= q[l].from
    <3>1. PICK u \in Nat, v \in Nat :
            u = (k - 1) * size /\ v = end(k) /\ v <= u + size /\ k * size = u + size
      BY <2>4
    <3>2. PICK w \in Nat : w = (l - 1) * size
      BY <2>1
    <3>3. u + size <= w
      BY <2>1, <2>7, <3>1, <3>2
    <3>4. q[k].to = f + v /\ q[l].from = f + w
      BY <2>3, <3>1, <3>2
    <3>5. f + v <= f + w
      BY ONLY <3>1, <3>3, f \in Nat, u \in Nat, v \in Nat, w \in Nat, size \in Nat \ {0}
    <3> QED
      BY <3>4, <3>5
  <2>8. ASSUME NEW i \in s.at PROVE \E k \in 1..n : i \in q[k].at
    <3>1. PICK x \in 0..(length - 1) : i = (a + 1) + x
      <4>0. i \in (a + 1)..(a + length)
        BY <1>2
      <4>1. i - (a + 1) \in 0..(length - 1) /\ i = (a + 1) + (i - (a + 1))
        BY ONLY <4>0, a \in Nat, length \in Nat \ {0}
      <4> QED
        BY <4>1
    <3>2. PICK k \in 1..n : (k - 1) * size <= x /\ x < k * size
      BY <2>1
    <3>3. PICK u \in Nat, v \in Nat :
            u = (k - 1) * size /\ v = end(k) /\ (v = u + size \/ v = length) /\ k * size = u + size
      BY <2>4
    <3>4. q[k].at = ((a + 1) + u)..((a + 1) + v - 1)
      BY <2>3, <3>3
    <3>5. u <= x /\ x < u + size
      BY <3>2, <3>3
    <3>6. (a + 1) + x \in ((a + 1) + u)..((a + 1) + v - 1)
      <4>1. v = u + size \/ v = length
        BY <3>3
      <4> QED
        BY ONLY <3>5, <4>1, a \in Nat, u \in Nat, v \in Nat, x \in 0..(length - 1),
                length \in Nat \ {0}, size \in Nat \ {0}
    <3> QED
      BY <3>1, <3>4, <3>6
  <2>9. Solid(s) => Tidy(q, s)
    BY <1>1, <2>5, <2>6, <2>7, <2>8 DEF Tidy
  <2> QED
    BY <2>6, <2>9 DEF q
<1> QED
  BY <1>4, <1>5

(* Without gaps the parts are all of the paragraph.                        *)
LEMMA PartsCover ==
  ASSUME NEW t \in Seq(Chunk!Kinds), NEW p \in Extent, Paragraph(t, p), Gapless(t)
  PROVE  Tidy(Chunk!Parts(t, p), p)
<1>1. PICK q : q = Chunk!Parts(t, p)
  OBVIOUS
<1>2. /\ q \in Seq({x \in Extent : Solid(x) /\ p.from <= x.from /\ x.to <= p.to})
      /\ \A k, l \in 1..Len(q) : k < l => q[k].to <= q[l].from
      /\ Len(q) > 0 /\ q[1].from = p.from /\ q[Len(q)].to = p.to
      /\ \A k \in 1..(Len(q) - 1) : q[k].to = q[k + 1].from
  BY <1>1, PartsAreTidy, SMTT(40)
<1>3. PICK n \in Nat : n = Len(q) /\ n > 0
  BY <1>2
<1>4. /\ \A k \in 1..n : q[k] \in Extent /\ Solid(q[k]) /\ p.from <= q[k].from /\ q[k].to <= p.to
      /\ \A k \in 1..n : q[k].from \in Nat /\ q[k].to \in Nat
                         /\ q[k].at = (q[k].from + 1)..q[k].to
  <2>1. \A k \in 1..n : q[k] \in Extent /\ Solid(q[k]) /\ p.from <= q[k].from /\ q[k].to <= p.to
    BY <1>2, <1>3
  <2>2. \A x \in Extent : Solid(x) => x.from \in Nat /\ x.to \in Nat /\ x.at = (x.from + 1)..x.to
    BY DEF Extent, Solid
  <2> QED
    BY <2>1, <2>2
<1>5. PICK f \in Nat, m \in Nat : f = p.from /\ m = p.to /\ p.at = (f + 1)..m
  BY DEF Paragraph, Solid, Extent
<1>6. ASSUME NEW i \in (f + 1)..m PROVE \E k \in 1..n : i \in q[k].at
  <2> DEFINE S == {k \in 1..n : q[k].from < i}
  <2>1. 1 \in S /\ S \in SUBSET (1..n)
    BY <1>2, <1>3, <1>5
  <2>2. PICK k \in S : \A l \in S : l <= k
    <3> HIDE DEF S
    <3> QED
      BY <2>1, LastPosition
  <2>3. k \in 1..n /\ q[k].from < i /\ (k + 1 \in 1..n => ~(q[k + 1].from < i))
    BY <2>2
  <2>4. PICK u \in Nat, v \in Nat : u = q[k].from /\ v = q[k].to /\ q[k].at = (u + 1)..v
    BY <1>4, <2>3
  <2>5. i <= v
    <3>1. CASE k = n
      BY <1>2, <1>3, <1>5, <2>4, <3>1
    <3>2. CASE k # n
      <4>1. k \in 1..(n - 1) /\ k + 1 \in 1..n
        BY ONLY <2>3, <3>2, n \in Nat
      <4>2. q[k + 1].from = v
        BY <1>2, <1>3, <2>4, <4>1
      <4>3. ~(v < i)
        BY <2>3, <4>1, <4>2
      <4> QED
        BY ONLY <4>3, v \in Nat, i \in (f + 1)..m, f \in Nat, m \in Nat
    <3> QED
      BY <3>1, <3>2
  <2>6. u < i
    BY <2>3, <2>4
  <2>7. i \in (u + 1)..v
    BY ONLY <2>5, <2>6, u \in Nat, v \in Nat, i \in (f + 1)..m, f \in Nat, m \in Nat
  <2> QED
    BY <2>3, <2>4, <2>7
<1> QED
  BY <1>1, <1>2, <1>3, <1>4, <1>5, <1>6 DEF Tidy

(* The ends of the spans of a tidy sequence are numbers.                   *)
LEMMA SpanEnds ==
  ASSUME NEW x \in Extent
  PROVE  x.from \in Nat /\ x.to \in Nat /\ (Solid(x) => x.from < x.to)
BY DEF Extent, Solid

(* If the spans of d are all of p, and those of s[k] are all of d[k], then *)
(* those of s, one after the other, are all of p.                          *)
LEMMA TidyJoins ==
  ASSUME NEW A \in SUBSET Extent, NEW d \in Seq(Extent), NEW s \in Seq(Seq(A)),
         Len(s) = Len(d), NEW p, p.from \in Nat, p.to \in Nat,
         Tidy(d, p), \A k \in 1..Len(s) : Tidy(s[k], d[k])
  PROVE  Tidy(Joined(s), p)
<1>1. PICK n \in Nat : n = Len(s) /\ n = Len(d)
  OBVIOUS
<1>2. PICK q : q = Joined(s)
  OBVIOUS
<1>3. /\ \A k \in 1..n : d[k] \in Extent /\ Solid(d[k]) /\ p.from <= d[k].from /\ d[k].to <= p.to
      /\ \A k, l \in 1..n : k < l => d[k].to <= d[l].from
      /\ \A i \in p.at : \E k \in 1..n : i \in d[k].at
  BY <1>1 DEF Tidy
<1>4. /\ \A k \in 1..n : \A i \in 1..Len(s[k]) :
            s[k][i] \in A /\ Solid(s[k][i]) /\ d[k].from <= s[k][i].from /\ s[k][i].to <= d[k].to
      /\ \A k \in 1..n : \A i, j \in 1..Len(s[k]) : i < j => s[k][i].to <= s[k][j].from
      /\ \A k \in 1..n : \A i \in d[k].at : \E j \in 1..Len(s[k]) : i \in s[k][j].at
  <2>1. \A k \in 1..n : s[k] \in Seq(A) /\ Tidy(s[k], d[k])
    BY <1>1
  <2>2. \A k \in 1..n : \A i \in 1..Len(s[k]) : s[k][i] \in A
    BY <2>1
  <2> QED
    BY <2>1, <2>2 DEF Tidy
<1>5. ASSUME NEW k \in 1..n, NEW x, Seen(s[k], x)
      PROVE  /\ x \in Extent /\ Solid(x)
             /\ d[k].from <= x.from /\ x.to <= d[k].to
             /\ p.from <= x.from /\ x.to <= p.to
  <2>1. PICK i \in 1..Len(s[k]) : s[k][i] = x
    BY <1>5 DEF Seen
  <2>2. x \in Extent /\ Solid(x) /\ d[k].from <= x.from /\ x.to <= d[k].to
    BY <1>4, <2>1
  <2>3. PICK u \in Nat, v \in Nat : u = x.from /\ v = x.to
    BY <2>2, SpanEnds
  <2>4. PICK b \in Nat, c \in Nat : b = d[k].from /\ c = d[k].to
    BY <1>3, SpanEnds
  <2>5. p.from <= b /\ c <= p.to /\ b <= u /\ v <= c
    BY <1>3, <2>2, <2>3, <2>4
  <2>7. b <= u /\ v <= c
    BY <2>5
  <2>6. p.from <= u /\ v <= p.to
    <3>1. \A w \in Nat, z \in Nat : w <= b /\ c <= z => w <= u /\ v <= z
      BY ONLY <2>7, u \in Nat, v \in Nat, b \in Nat, c \in Nat
    <3> QED
      BY ONLY <2>5, <3>1, p.from \in Nat, p.to \in Nat
  <2> QED
    BY <2>2, <2>3, <2>6
<1>6. /\ \A k \in 1..n : \A i, j \in 1..Len(s[k]) : i < j => <<s[k][i], s[k][j]>> \in Before
      /\ \A k, l \in 1..n : k < l =>
           \A x, y : Seen(s[k], x) /\ Seen(s[l], y) => <<x, y>> \in Before
  <2>1. ASSUME NEW x \in Extent, NEW y \in Extent, x.to <= y.from PROVE <<x, y>> \in Before
    BY <2>1 DEF Before
  <2>2. ASSUME NEW k \in 1..n, NEW i \in 1..Len(s[k]), NEW j \in 1..Len(s[k]), i < j
        PROVE  <<s[k][i], s[k][j]>> \in Before
    BY <1>4, <2>1, <2>2
  <2>3. ASSUME NEW k \in 1..n, NEW l \in 1..n, k < l, NEW x, NEW y, Seen(s[k], x), Seen(s[l], y)
        PROVE  <<x, y>> \in Before
    <3>1. /\ x \in Extent /\ y \in Extent /\ x.to <= d[k].to /\ d[l].from <= y.from
          /\ d[k].to <= d[l].from
      BY <1>3, <1>5, <2>3
    <3>2. PICK u \in Nat, v \in Nat, b \in Nat, c \in Nat :
            u = x.to /\ v = y.from /\ b = d[k].to /\ c = d[l].from
      BY <1>3, <3>1, SpanEnds
    <3>4. u <= b /\ b <= c /\ c <= v
      BY ONLY <3>1, <3>2
    <3>3. u <= v
      BY ONLY <3>4, u \in Nat, v \in Nat, b \in Nat, c \in Nat
    <3> QED
      BY <2>1, <3>1, <3>2, <3>3
  <2> QED
    BY <2>2, <2>3
<1>7. /\ \A x : Seen(q, x) <=> \E k \in 1..n : Seen(s[k], x)
      /\ \A i, j \in 1..Len(q) : i < j => <<q[i], q[j]>> \in Before
  <2> HIDE DEF Before
  <2> QED
    BY <1>1, <1>2, <1>6, JoinedKeeps
<1>8. \A k \in 1..Len(q) : Solid(q[k]) /\ p.from <= q[k].from /\ q[k].to <= p.to
  <2> SUFFICES ASSUME NEW k \in 1..Len(q)
               PROVE  Solid(q[k]) /\ p.from <= q[k].from /\ q[k].to <= p.to
    OBVIOUS
  <2>1. Seen(q, q[k])
    BY DEF Seen
  <2> QED
    BY <1>5, <1>7, <2>1
<1>9. \A k, l \in 1..Len(q) : k < l => q[k].to <= q[l].from
  BY <1>7 DEF Before
<1>10. \A i \in p.at : \E k \in 1..Len(q) : i \in q[k].at
  <2> SUFFICES ASSUME NEW i \in p.at PROVE \E k \in 1..Len(q) : i \in q[k].at
    OBVIOUS
  <2>1. PICK k \in 1..n : i \in d[k].at
    BY <1>3
  <2>2. PICK j \in 1..Len(s[k]) : i \in s[k][j].at
    BY <1>4, <2>1
  <2>3. Seen(q, s[k][j])
    <3>1. Seen(s[k], s[k][j])
      BY DEF Seen
    <3> QED
      BY <1>7, <3>1
  <2> QED
    BY <2>2, <2>3 DEF Seen
<1> QED
  BY <1>2, <1>8, <1>9, <1>10 DEF Tidy

Fitting(size) == {x \in Extent : Fit(x, size)}

(* A long paragraph is split into spans that fit, and without gaps they    *)
(* are all of it.                                                          *)
LEMMA SplitFits ==
  ASSUME NEW t \in Seq(Chunk!Kinds), NEW p \in Extent, Paragraph(t, p), NEW size \in Nat \ {0}
  PROVE  /\ Chunk!SplitLong(t, p, size) \in Seq(Fitting(size))
         /\ Gapless(t) => Tidy(Chunk!SplitLong(t, p, size), p)
<1>1. PICK q, d : q = Chunk!Parts(t, p) /\ d = Chunk!Sentences(t, p)
  OBVIOUS
<1>2. /\ q \in Seq({x \in Extent : Solid(x) /\ p.from <= x.from /\ x.to <= p.to})
      /\ d \in Seq(Extent) /\ Len(d) = Len(q)
      /\ \A k \in 1..Len(q) : /\ d[k].at = q[k].at
                              /\ d[k].to - d[k].from = q[k].to - q[k].from
                              /\ Gapless(t) => d[k] = q[k]
  BY <1>1, PartsAreTidy, SentencesFollowParts
<1>3. PICK n \in Nat : n = Len(d) /\ n = Len(q)
  BY <1>2
<1>4. PICK s : s = [k \in 1..n |-> Chunk!Windows(d[k], size)]
  OBVIOUS
<1>5. \A k \in 1..n : q[k] \in Extent /\ Solid(q[k])
  BY <1>2, <1>3
<1>6. ASSUME NEW k \in 1..n
      PROVE  /\ d[k] \in Extent /\ s[k] \in Seq(Fitting(size))
             /\ Gapless(t) => Tidy(s[k], d[k])
  <2>1. PICK x \in Extent : x = d[k]
    BY <1>2, <1>3
  <2>2. PICK a \in Nat, b \in Nat : a = q[k].from /\ b = q[k].to /\ a < b
    BY <1>5, SpanEnds
  <2>3. PICK u \in Nat, v \in Nat : u = x.from /\ v = x.to
    BY SpanEnds
  <2>4. v - u = b - a /\ x.at = (a + 1)..b
    BY <1>2, <1>3, <1>5, <2>1, <2>2, <2>3 DEF Solid
  <2>5. u < v /\ a + (v - u) = b
    <3>1. a < b /\ v - u = b - a
      BY <2>2, <2>4
    <3> QED
      BY ONLY <3>1, a \in Nat, b \in Nat, u \in Nat, v \in Nat
  <2>6. x.from < x.to /\ x.at = (a + 1)..(a + (x.to - x.from))
    BY <2>3, <2>4, <2>5
  <2>7. Chunk!Windows(x, size) \in Seq({y \in Extent : Fit(y, size)})
        /\ (Solid(x) => Tidy(Chunk!Windows(x, size), x))
    BY ONLY <2>6, WindowsFit, size \in Nat \ {0}, x \in Extent, a \in Nat
  <2>8. Gapless(t) => Solid(x)
    BY <1>2, <1>3, <1>5, <2>1
  <2> QED
    BY <1>4, <2>1, <2>7, <2>8 DEF Fitting
<1>7. s \in Seq(Seq(Fitting(size))) /\ Len(s) = n
  <2>1. s \in [1..n -> Seq(Fitting(size))]
    BY <1>4, <1>6
  <2> QED
    BY ONLY <2>1, n \in Nat, FunctionIsSeq
<1>8. Chunk!SplitLong(t, p, size) = Joined(s)
  <2>1. DOMAIN d = 1..n
    BY <1>2, <1>3
  <2>2. Chunk!SplitLong(t, p, size) = Chunk!FlattenSeq([k \in DOMAIN d |-> Chunk!Windows(d[k], size)])
    BY <1>1 DEF Chunk!SplitLong
  <2> QED
    BY <1>4, <2>1, <2>2 DEF Chunk!FlattenSeq, Joined
<1>9. Joined(s) \in Seq(Fitting(size))
  BY <1>7, JoinedKeeps
<1>10. ASSUME Gapless(t) PROVE Tidy(Joined(s), p)
  <2>1. Tidy(q, p)
    BY <1>1, <1>10, PartsCover
  <2>2. d = q
    BY <1>2, <1>10
  <2>3. \A k \in 1..Len(s) : Tidy(s[k], d[k])
    BY <1>6, <1>7, <1>10
  <2>4. Fitting(size) \in SUBSET Extent /\ p.from \in Nat /\ p.to \in Nat
    BY SpanEnds DEF Fitting
  <2> QED
    BY ONLY <1>2, <1>3, <1>7, <2>1, <2>2, <2>3, <2>4, TidyJoins
<1> QED
  BY <1>8, <1>9, <1>10

(* The letters of a text, as a span to be covered.                         *)
Letters(t) == [from |-> 0, to |-> Len(t), at |-> {i \in DOMAIN t : t[i] \in {"letter", "end"}}]

(* So the pieces of a text fit, and without gaps they have all its letters.*)
LEMMA PiecesFit ==
  ASSUME NEW t \in Seq(Chunk!Kinds), NEW size \in Nat \ {0}
  PROVE  /\ Chunk!Pieces(t, size) \in Seq(Fitting(size))
         /\ Gapless(t) => Tidy(Chunk!Pieces(t, size), Letters(t))
<1>1. PICK d : d = Chunk!Paragraphs(t)
  OBVIOUS
<1>2. /\ d \in Seq({x \in Extent : Paragraph(t, x)})
      /\ \A k, l \in 1..Len(d) : k < l => d[k].to <= d[l].from
      /\ \A i \in 1..Len(t) : t[i] \in {"letter", "end"} => \E k \in 1..Len(d) : i \in d[k].at
  BY <1>1, ParagraphsAreTidy
<1>3. PICK n \in Nat : n = Len(d) /\ DOMAIN d = 1..n
  BY <1>2
<1>4. \A k \in 1..n : d[k] \in Extent /\ Paragraph(t, d[k])
  BY <1>2, <1>3
<1>5. PICK s : s = [k \in 1..n |-> IF Cardinality(d[k].at) <= size THEN <<d[k]>>
                                   ELSE Chunk!SplitLong(t, d[k], size)]
  OBVIOUS
<1>6. ASSUME NEW k \in 1..n
      PROVE  s[k] \in Seq(Fitting(size)) /\ (Gapless(t) => Tidy(s[k], d[k]))
  <2>1. PICK x \in Extent : x = d[k] /\ Paragraph(t, x)
    BY <1>4
  <2>2. CASE Cardinality(d[k].at) <= size
    <3>1. s[k] = <<x>>
      BY <1>5, <2>1, <2>2
    <3>2. PICK u \in Nat, v \in Nat : u = x.from /\ v = x.to /\ u < v /\ x.at = (u + 1)..v
      BY <2>1, SpanEnds DEF Paragraph, Solid
    <3>3. IsFiniteSet((u + 1)..v) /\ Cardinality((u + 1)..v) = v - u
      <4>1. /\ IsFiniteSet((u + 1)..v)
            /\ Cardinality((u + 1)..v) = IF u + 1 > v THEN 0 ELSE v - (u + 1) + 1
        BY ONLY u + 1 \in Int, v \in Int, FS_Interval
      <4>2. ~(u + 1 > v) /\ v - (u + 1) + 1 = v - u
        BY ONLY <3>2, u \in Nat, v \in Nat
      <4> QED
        BY <4>1, <4>2
    <3>4. x \in Fitting(size)
      BY <2>1, <2>2, <3>2, <3>3 DEF Fitting, Fit
    <3>5. <<x>> \in Seq(Fitting(size)) /\ Len(<<x>>) = 1 /\ <<x>>[1] = x
      BY <3>4
    <3>6. PICK q : q = <<x>>
      OBVIOUS
    <3>7. /\ q \in Seq(Fitting(size)) /\ \A l \in 1..Len(q) : q[l] = x
          /\ 1 \in 1..Len(q) /\ \A l, m \in 1..Len(q) : ~(l < m)
      BY <3>5, <3>6
    <3>8. x.from <= x.from /\ x.to <= x.to
      BY <3>2
    <3>9. Tidy(q, x)
      BY <2>1, <3>7, <3>8 DEF Tidy, Paragraph
    <3> QED
      BY <2>1, <3>1, <3>6, <3>7, <3>9
  <2>3. CASE ~(Cardinality(d[k].at) <= size)
    <3>1. s[k] = Chunk!SplitLong(t, x, size)
      BY <1>5, <2>1, <2>3
    <3> QED
      BY <2>1, <3>1, SplitFits
  <2> QED
    BY <2>2, <2>3
<1>7. s \in Seq(Seq(Fitting(size))) /\ Len(s) = n
  <2>1. s \in [1..n -> Seq(Fitting(size))]
    <3>1. s = [k \in 1..n |-> s[k]]
      BY <1>5
    <3> QED
      BY <1>6, <3>1
  <2> QED
    BY ONLY <2>1, n \in Nat, FunctionIsSeq
<1>8. Chunk!Pieces(t, size) = Joined(s)
  <2>1. \A S : Chunk!Cardinality(S) = Cardinality(S)
    BY DEF Chunk!Cardinality, Cardinality
  <2>2. Chunk!Pieces(t, size)
          = Chunk!FlattenSeq([k \in DOMAIN d |->
              IF Chunk!Cardinality(d[k].at) <= size THEN <<d[k]>>
              ELSE Chunk!SplitLong(t, d[k], size)])
    BY <1>1 DEF Chunk!Pieces
  <2>3. Chunk!Pieces(t, size) = Chunk!FlattenSeq(s)
    BY <1>3, <1>5, <2>1, <2>2
  <2> QED
    BY <2>3 DEF Chunk!FlattenSeq, Joined
<1>9. Joined(s) \in Seq(Fitting(size))
  BY <1>7, JoinedKeeps
<1>10. ASSUME Gapless(t) PROVE Tidy(Joined(s), Letters(t))
  <2>1. /\ Letters(t).from = 0 /\ Letters(t).to = Len(t) /\ Len(t) \in Nat
        /\ \A i \in Letters(t).at : i \in 1..Len(t) /\ t[i] \in {"letter", "end"}
    BY DEF Letters
  <2>2. \A k \in 1..n : Solid(d[k]) /\ 0 <= d[k].from /\ d[k].to <= Len(t)
    BY <1>4, SpanEnds DEF Paragraph
  <2>3. Tidy(d, Letters(t))
    BY <1>2, <1>3, <2>1, <2>2 DEF Tidy
  <2>4. \A k \in 1..Len(s) : Tidy(s[k], d[k])
    BY <1>6, <1>7, <1>10
  <2>5. Fitting(size) \in SUBSET Extent /\ d \in Seq(Extent)
    BY <1>2 DEF Fitting
  <2>6. Letters(t).from \in Nat /\ Letters(t).to \in Nat
    BY <2>1
  <2> QED
    BY ONLY <1>3, <1>7, <2>3, <2>4, <2>5, <2>6, TidyJoins
<1> QED
  BY <1>8, <1>9, <1>10

-----------------------------------------------------------------------------
(* The last element of a sequence replaced by another one.                 *)
Topped(r, x) == Append(SubSeq(r, 1, Len(r) - 1), x)

KeepsFront(p, r, x) ==
  /\ Len(r) \in Nat \ {0} /\ Len(p) = Len(r) /\ p[Len(r)] = x
  /\ \A i \in 1..(Len(r) - 1) : p[i] = r[i]

LEMMA ToppedKeeps ==
  ASSUME NEW A, NEW r \in Seq(A), r # << >>, NEW x \in A
  PROVE  Topped(r, x) \in Seq(A) /\ KeepsFront(Topped(r, x), r, x)
<1>1. PICK n \in Nat : n = Len(r) /\ n > 0 /\ \A i \in 1..n : r[i] \in A
  OBVIOUS
<1>2. PICK f : f = SubSeq(r, 1, n - 1)
  OBVIOUS
<1>3. /\ f \in Seq(A) /\ Len(f) = IF 1 <= n - 1 THEN (n - 1) - 1 + 1 ELSE 0
      /\ \A i \in 1..((n - 1) - 1 + 1) : f[i] = r[1 + i - 1]
  <2>1. 1 \in Int /\ n - 1 \in Int /\ \A i \in 1..(n - 1) : r[i] \in A
    BY <1>1
  <2> QED
    BY ONLY <1>2, <2>1, SubSeqProperties
<1>4. Len(f) = n - 1 /\ \A i \in 1..(n - 1) : f[i] = r[i]
  <2>1. (n - 1) - 1 + 1 = n - 1 /\ (~(1 <= n - 1) => n - 1 = 0) /\ \A i \in 1..(n - 1) : 1 + i - 1 = i
    BY <1>1
  <2>2. Len(f) = n - 1
    BY ONLY <1>3, <2>1
  <2>3. \A i \in 1..(n - 1) : f[i] = r[1 + i - 1]
    BY ONLY <1>3, <2>1
  <2> QED
    BY <2>1, <2>2, <2>3
<1>5. Topped(r, x) = Append(f, x)
  BY <1>1, <1>2 DEF Topped
<1>6. /\ Append(f, x) \in Seq(A) /\ Len(Append(f, x)) = (n - 1) + 1
      /\ Append(f, x)[(n - 1) + 1] = x
      /\ \A i \in 1..(n - 1) : Append(f, x)[i] = f[i]
  BY ONLY x \in A, <1>3, <1>4, AppendProperties
<1>7. (n - 1) + 1 = n
  BY <1>1
<1> QED
  BY <1>1, <1>4, <1>5, <1>6, <1>7 DEF KeepsFront

(* Pack, one step: a span is merged into the last one, or put after it.    *)
Merged(l, s) == [from |-> l.from, to |-> s.to, at |-> (l.from + 1)..s.to]

Packed(r, s, size) ==
  IF r # << >> /\ s.to - r[Len(r)].from <= size
  THEN Topped(r, Merged(r[Len(r)], s))
  ELSE Append(r, s)

\* Spans that stand where their ranges say, the last of them up to e.
Stacked(r, e) ==
  /\ r # << >> => r[Len(r)].to = e
  /\ \A k \in 1..Len(r) : Solid(r[k])

\* Every position of x is in a span of r.
Inside(r, x) == \E k \in 1..Len(r) : x.at \subseteq r[k].at

(* It keeps the spans small, and what they cover covered.                  *)
LEMMA PackedFits ==
  ASSUME NEW size \in Nat \ {0}, NEW r \in Seq(Fitting(size)), NEW s \in Fitting(size)
  PROVE  /\ Packed(r, s, size) \in Seq(Fitting(size))
         /\ \A e \in Nat : Stacked(r, e) /\ Solid(s) /\ e <= s.from =>
              /\ Stacked(Packed(r, s, size), s.to)
              /\ Inside(Packed(r, s, size), s)
              /\ \A x : Inside(r, x) => Inside(Packed(r, s, size), x)
<1> DEFINE A == Fitting(size)
<1>1. \A x \in A : x \in Extent /\ x.from \in Nat /\ x.to \in Nat
  BY SpanEnds DEF Fitting
<1>2. PICK n \in Nat : n = Len(r) /\ (r # << >> <=> n > 0) /\ \A k \in 1..n : r[k] \in A
  OBVIOUS
<1> HIDE DEF A
<1>3. CASE r # << >> /\ s.to - r[Len(r)].from <= size
  <2>1. n \in 1..n /\ r[n] \in A /\ n > 0
    BY <1>2, <1>3
  <2>2. PICK u \in Nat, v \in Nat, b \in Nat, c \in Nat :
          u = r[n].from /\ v = r[n].to /\ b = s.from /\ c = s.to
    BY <1>1, <2>1 DEF A
  <2>3. c - u <= size
    BY <1>2, <1>3, <2>2
  <2>4. PICK m : m = Merged(r[n], s)
    OBVIOUS
  <2>5. m = [from |-> u, to |-> c, at |-> (u + 1)..c]
    BY <2>2, <2>4 DEF Merged
  <2>6. IsFiniteSet((u + 1)..c) /\ Cardinality((u + 1)..c) <= size
    <3>1. /\ IsFiniteSet((u + 1)..c)
          /\ Cardinality((u + 1)..c) = IF u + 1 > c THEN 0 ELSE c - (u + 1) + 1
      BY ONLY u + 1 \in Int, c \in Int, FS_Interval
    <3>2. 0 <= size /\ c - (u + 1) + 1 <= size
      BY ONLY <2>3, u \in Nat, c \in Nat, size \in Nat \ {0}
    <3> QED
      BY <3>1, <3>2
  <2>7. m \in A
    <3>1. (u + 1)..c \in SUBSET Nat
      BY ONLY u \in Nat, c \in Nat
    <3>2. m \in Extent
      BY ONLY <2>5, <3>1, u \in Nat, c \in Nat DEF Extent
    <3>3. m.from = u /\ m.to = c /\ m.at = (u + 1)..c
      BY ONLY <2>5
    <3> QED
      BY ONLY <2>3, <2>6, <3>2, <3>3 DEF A, Fitting, Fit
  <2>8. PICK p : p = Topped(r, m)
    OBVIOUS
  <2>9. Packed(r, s, size) = p
    BY <1>2, <1>3, <2>4, <2>8 DEF Packed
  <2>10. /\ p \in Seq(A) /\ Len(p) = n /\ p[n] = m
         /\ \A k \in 1..(n - 1) : p[k] = r[k]
    <3>1. r \in Seq(A) /\ r # << >>
      BY <1>3 DEF A
    <3>2. p \in Seq(A) /\ KeepsFront(p, r, m)
      BY <2>7, <2>8, <3>1, ToppedKeeps
    <3> QED
      BY <1>2, <3>2 DEF KeepsFront
  <2>11. ASSUME NEW e \in Nat, Stacked(r, e), Solid(s), e <= s.from
         PROVE  /\ Stacked(p, s.to) /\ Inside(p, s)
                /\ \A x : Inside(r, x) => Inside(p, x)
    <3>1. v = e /\ Solid(r[n]) /\ u < v /\ r[n].at = (u + 1)..v
      BY <1>2, <1>3, <2>1, <2>2, <2>11 DEF Stacked, Solid
    <3>2. b < c /\ s.at = (b + 1)..c
      BY <2>2, <2>11 DEF Solid
    <3>3. v <= b
      BY <2>2, <2>11, <3>1
    <3>4. u < c /\ (u + 1)..v \subseteq (u + 1)..c /\ (b + 1)..c \subseteq (u + 1)..c
      BY ONLY <3>1, <3>2, <3>3, u \in Nat, v \in Nat, b \in Nat, c \in Nat
    <3>5. Solid(m) /\ m.to = c /\ m.at = (u + 1)..c
      BY <2>5, <3>4 DEF Solid
    <3>6. \A k \in 1..n : k \in 1..(n - 1) \/ k = n
      BY <1>2
    <3>7. Stacked(p, s.to)
      <4>1. \A k \in 1..n : Solid(p[k])
        BY <1>2, <2>10, <2>11, <3>5, <3>6 DEF Stacked
      <4> QED
        BY <2>2, <2>10, <3>5, <4>1 DEF Stacked
    <3>8. Inside(p, s)
      BY <2>1, <2>10, <3>2, <3>4, <3>5 DEF Inside
    <3>9. ASSUME NEW x, Inside(r, x) PROVE Inside(p, x)
      <4>1. PICK k \in 1..n : x.at \subseteq r[k].at
        BY <1>2, <3>9 DEF Inside
      <4>2. CASE k = n
        BY <2>1, <2>10, <3>1, <3>4, <3>5, <4>1, <4>2 DEF Inside
      <4>3. CASE k \in 1..(n - 1)
        BY <2>10, <4>1, <4>3 DEF Inside
      <4> QED
        BY <3>6, <4>2, <4>3
    <3> QED
      BY <3>7, <3>8, <3>9
  <2> QED
    BY <2>9, <2>10, <2>11 DEF A
<1>4. CASE ~(r # << >> /\ s.to - r[Len(r)].from <= size)
  <2>1. PICK p : p = Append(r, s)
    OBVIOUS
  <2>2. Packed(r, s, size) = p
    BY <1>4, <2>1 DEF Packed
  <2>3. /\ p \in Seq(A) /\ Len(p) = n + 1 /\ p[n + 1] = s
        /\ \A k \in 1..n : p[k] = r[k]
    <3>1. r \in Seq(A) /\ s \in A
      BY DEF A
    <3> QED
      BY ONLY <1>2, <2>1, <3>1, AppendProperties
  <2>4. /\ n + 1 \in 1..(n + 1) /\ \A k \in 1..n : k \in 1..(n + 1)
        /\ \A k \in 1..(n + 1) : k \in 1..n \/ k = n + 1
    BY <1>2
  <2>5. ASSUME NEW e \in Nat, Stacked(r, e), Solid(s), e <= s.from
        PROVE  /\ Stacked(p, s.to) /\ Inside(p, s)
               /\ \A x : Inside(r, x) => Inside(p, x)
    <3>1. \A k \in 1..(n + 1) : Solid(p[k])
      BY <1>2, <2>3, <2>4, <2>5 DEF Stacked
    <3>2. Stacked(p, s.to)
      BY <2>3, <3>1 DEF Stacked
    <3>3. Inside(p, s)
      BY <2>3, <2>4 DEF Inside
    <3>4. \A x : Inside(r, x) => Inside(p, x)
      BY <1>2, <2>3, <2>4 DEF Inside
    <3> QED
      BY <3>2, <3>3, <3>4
  <2> QED
    BY <2>2, <2>3, <2>5 DEF A
<1> QED
  BY <1>3, <1>4

(* So do all the steps: the packed spans are small, and without gaps they  *)
(* are solid and cover what the pieces cover.                              *)
LEMMA PackFits ==
  ASSUME NEW size \in Nat \ {0}, NEW q \in Seq(Fitting(size))
  PROVE  /\ Chunk!Pack(q, size) \in Seq(Fitting(size))
         /\ \A s : Tidy(q, s) =>
              /\ \A k \in 1..Len(Chunk!Pack(q, size)) : Solid(Chunk!Pack(q, size)[k])
              /\ \A i \in s.at : \E k \in 1..Len(Chunk!Pack(q, size)) :
                   i \in Chunk!Pack(q, size)[k].at
<1> DEFINE A == Fitting(size)
           n == Len(q)
           Is(f) == f = [S \in SUBSET DOMAIN q |->
                           IF S = {} THEN << >>
                           ELSE Packed(f[S \ {Top(S)}], q[Top(S)], size)]
           gain == [k \in 1..n |-> [r \in Seq(A) |-> Packed(r, q[k], size)]]
<1>1. n \in Nat /\ DOMAIN q = 1..n /\ \A k \in 1..n : q[k] \in A
  OBVIOUS
<1>2. gain \in [1..n -> [Seq(A) -> Seq(A)]]
  <2> SUFFICES ASSUME NEW k \in 1..n, NEW r \in Seq(A) PROVE Packed(r, q[k], size) \in Seq(A)
    OBVIOUS
  <2> QED
    BY <1>1, PackedFits
<1>3. \A k \in 1..n, r \in Seq(A) : gain[k][r] = Packed(r, q[k], size)
  OBVIOUS
<1>4. \A S \in SUBSET (1..n) : S # {} => Top(S) \in 1..n
  BY <1>1, TopIsLast
<1>5. Chunk!Pack(q, size) = (CHOOSE f : Is(f))[DOMAIN q]
  BY DEF Chunk!Pack, Chunk!FoldLeft, Chunk!MapThenFoldSet, Chunk!Max, Top, Packed, Topped,
         Merged, Chunk!Last, Chunk!Front, Chunk!Span
<1> HIDE DEF n, gain, A
<1>6. PICK h \in [SUBSET (1..n) -> Seq(A)] : FoldsTo(h, n, << >>, gain)
  BY ONLY <1>1, <1>2, << >> \in Seq(A), FoldDefines
<1>7. Is(h)
  <2>1. ASSUME NEW S \in SUBSET (1..n), S # {}
        PROVE  gain[Top(S)][h[S \ {Top(S)}]] = Packed(h[S \ {Top(S)}], q[Top(S)], size)
    <3>1. PICK r \in Seq(A) : r = h[S \ {Top(S)}]
      OBVIOUS
    <3> QED
      BY <1>3, <1>4, <2>1, <3>1
  <2>2. h = [S \in SUBSET (1..n) |->
               IF S = {} THEN << >> ELSE Packed(h[S \ {Top(S)}], q[Top(S)], size)]
    BY <1>6, <2>1 DEF FoldsTo
  <2> QED
    BY <1>1, <2>2
<1>8. PICK f : f = (CHOOSE e : Is(e)) /\ Is(f)
  <2> HIDE DEF Is
  <2> QED
    BY <1>7
<1>9. /\ f[{}] = << >>
      /\ \A S \in SUBSET (1..n) : S # {} => f[S] = Packed(f[S \ {Top(S)}], q[Top(S)], size)
  BY <1>1, <1>8
<1>10. \A S \in SUBSET (1..n) : S # {} /\ f[S \ {Top(S)}] \in Seq(A) =>
         f[S] = gain[Top(S)][f[S \ {Top(S)}]]
  BY <1>3, <1>4, <1>9
<1>11. PICK g \in [0..n -> Seq(A)] : Advances(g, n, << >>, gain) /\ f[1..n] = g[n]
  <2>1. f[{}] = << >> /\ << >> \in Seq(A) /\ n \in Nat
    BY <1>1, <1>9
  <2>2. Follows(f, n, << >>, gain, Seq(A)) /\ n \in Nat
    BY ONLY <1>2, <1>10, <2>1 DEF Follows
  <2> QED
    BY ONLY <2>2, FoldAdvances
<1>12. g[0] = << >> /\ \A k \in 1..n : g[k] = Packed(g[k - 1], q[k], size)
  <2>1. g[0] = << >> /\ \A k \in 1..n : g[k] = gain[k][g[k - 1]]
    BY <1>11 DEF Advances
  <2>2. \A k \in 1..n : k - 1 \in 0..n
    BY <1>1
  <2> QED
    BY <1>3, <2>1, <2>2
<1>13. Chunk!Pack(q, size) = g[n] /\ g[n] \in Seq(A)
  BY <1>1, <1>5, <1>8, <1>11
<1>14. ASSUME NEW s, Tidy(q, s)
       PROVE  /\ \A k \in 1..Len(g[n]) : Solid(g[n][k])
              /\ \A i \in s.at : \E k \in 1..Len(g[n]) : i \in g[n][k].at
  <2>1. /\ \A k \in 1..n : Solid(q[k]) /\ q[k].from \in Nat /\ q[k].to \in Nat
        /\ \A k, l \in 1..n : k < l => q[k].to <= q[l].from
        /\ \A i \in s.at : \E k \in 1..n : i \in q[k].at
    <3>1. \A k \in 1..n : q[k].from \in Nat /\ q[k].to \in Nat
      BY <1>1, SpanEnds DEF A, Fitting
    <3> QED
      BY <1>14, <3>1 DEF Tidy, n
  <2> DEFINE Kept(k) == /\ \E e \in Nat : /\ Stacked(g[k], e)
                                          /\ \A l \in 1..n : k < l => e <= q[l].from
                        /\ \A l \in 1..k : Inside(g[k], q[l])
             G == {k \in Nat : k <= n => Kept(k)}
  <2>2. 0 \in G
    <3>1. Len(<< >>) = 0 /\ 1..0 = {}
      OBVIOUS
    <3>2. Stacked(g[0], 0)
      BY <1>12, <3>1 DEF Stacked
    <3>3. \A l \in 1..n : 0 <= q[l].from
      BY <2>1
    <3> QED
      BY <3>1, <3>2, <3>3
  <2>3. ASSUME NEW k \in Nat, k + 1 <= n, k \in G PROVE k + 1 \in G
    <3>1. k + 1 \in 1..n /\ (k + 1) - 1 = k /\ k \in 0..n /\ k <= n
      BY <1>1, <2>3
    <3>2. Kept(k)
      <4> HIDE DEF Kept
      <4> QED
        BY <2>3, <3>1
    <3>3. PICK e \in Nat : Stacked(g[k], e) /\ \A l \in 1..n : k < l => e <= q[l].from
      BY <3>2
    <3>4. PICK r \in Seq(A), x \in A : r = g[k] /\ x = q[k + 1]
      BY <1>1, <3>1
    <3>5. g[k + 1] = Packed(r, x, size)
      BY <1>12, <3>1, <3>4
    <3>6. k < k + 1 /\ e <= x.from /\ Solid(x)
      BY <2>1, <3>1, <3>3, <3>4
    <3>7. /\ Stacked(Packed(r, x, size), x.to)
          /\ Inside(Packed(r, x, size), x)
          /\ \A y : Inside(r, y) => Inside(Packed(r, x, size), y)
      <4>1. Stacked(r, e)
        BY <3>3, <3>4
      <4> QED
        BY <3>6, <4>1, PackedFits DEF A
    <3>8. PICK c \in Nat : c = x.to
      BY <2>1, <3>1, <3>4
    <3>9. \A l \in 1..n : k + 1 < l => c <= q[l].from
      BY <2>1, <3>1, <3>4, <3>8
    <3>10. \A l \in 1..(k + 1) : Inside(g[k + 1], q[l])
      <4>1. \A l \in 1..(k + 1) : l \in 1..k \/ l = k + 1
        OBVIOUS
      <4>2. \A l \in 1..k : Inside(r, q[l])
        BY <3>2, <3>4
      <4> QED
        BY <3>4, <3>5, <3>7, <4>1, <4>2
    <3>11. Stacked(g[k + 1], c)
      BY <3>5, <3>7, <3>8
    <3>12. Kept(k + 1)
      BY <3>9, <3>10, <3>11
    <3> HIDE DEF Kept
    <3> QED
      BY <3>12
  <2>4. Kept(n)
    <3> HIDE DEF G
    <3>1. \A k \in 0..n : k \in G
      BY <1>1, <2>2, <2>3, CountUp
    <3>2. n \in 0..n /\ n <= n
      BY <1>1
    <3> HIDE DEF Kept
    <3>3. n \in G
      BY <3>1, <3>2
    <3> QED
      BY <3>2, <3>3 DEF G
  <2>5. \A k \in 1..Len(g[n]) : Solid(g[n][k])
    BY <2>4 DEF Stacked
  <2>6. ASSUME NEW i \in s.at PROVE \E k \in 1..Len(g[n]) : i \in g[n][k].at
    <3>1. PICK l \in 1..n : i \in q[l].at
      BY <2>1
    <3>2. Inside(g[n], q[l])
      BY <2>4
    <3> QED
      BY <3>1, <3>2 DEF Inside
  <2> QED
    BY <2>5, <2>6
<1> QED
  BY <1>13, <1>14 DEF A

(* The overlap makes a span longer by no more than itself, and a solid one *)
(* is still all of what it was.                                            *)
LEMMA OverlapKeeps ==
  ASSUME NEW size \in Nat \ {0}, NEW overlap \in Nat, NEW q \in Seq(Fitting(size)),
         NEW d, d = Chunk!ApplyOverlap(q, overlap)
  PROVE  /\ DOMAIN d = 1..Len(q)
         /\ \A k \in 1..Len(q) : /\ Cardinality(d[k].at) <= size + overlap
                                 /\ Solid(q[k]) => q[k].at \subseteq d[k].at
<1>1. PICK n \in Nat : n = Len(q) /\ DOMAIN q = 1..n
  OBVIOUS
<1>2. \A k \in 1..n : Fit(q[k], size)
  BY <1>1 DEF Fitting
<1>3. \A k \in 1..n : /\ Cardinality(q[k].at) \in Nat /\ Cardinality(q[k].at) <= size
                      /\ q[k].from \in Nat /\ q[k].to \in Nat /\ q[k].to - q[k].from <= size
  <2> SUFFICES ASSUME NEW k \in 1..n
               PROVE  /\ Cardinality(q[k].at) \in Nat /\ Cardinality(q[k].at) <= size
                      /\ q[k].from \in Nat /\ q[k].to \in Nat /\ q[k].to - q[k].from <= size
    OBVIOUS
  <2>1. /\ IsFiniteSet(q[k].at) /\ Cardinality(q[k].at) <= size
        /\ q[k] \in Extent /\ q[k].to - q[k].from <= size
    BY <1>2 DEF Fit
  <2> QED
    BY <2>1, SpanEnds, FS_CardinalityType
<1>4. CASE overlap = 0
  <2>1. d = q
    BY <1>4 DEF Chunk!ApplyOverlap
  <2>2. \A c \in Nat : c <= size => c <= size + overlap
    OBVIOUS
  <2> QED
    BY <1>1, <1>3, <2>1, <2>2
<1>5. CASE overlap # 0
  <2>1. d = [k \in 1..n |->
               IF k = 1 THEN q[k]
               ELSE Chunk!Span(IF q[k].from > overlap THEN q[k].from - overlap ELSE 0, q[k].to)]
    BY <1>1, <1>5 DEF Chunk!ApplyOverlap
  <2>2. ASSUME NEW k \in 1..n
        PROVE  /\ Cardinality(d[k].at) <= size + overlap
               /\ Solid(q[k]) => q[k].at \subseteq d[k].at
    <3>1. CASE k = 1
      <4>1. d[k] = q[k]
        BY <2>1, <3>1
      <4>2. \A c \in Nat : c <= size => c <= size + overlap
        OBVIOUS
      <4> QED
        BY <1>3, <4>1, <4>2
    <3>2. CASE k # 1
      <4>1. PICK u \in Nat, v \in Nat : u = q[k].from /\ v = q[k].to /\ v - u <= size
        BY <1>3
      <4>2. PICK w \in Nat : w = (IF u > overlap THEN u - overlap ELSE 0)
        <5>1. u > overlap => u - overlap \in Nat
          BY ONLY u \in Nat, overlap \in Nat
        <5>2. 0 \in Nat
          OBVIOUS
        <5> QED
          BY ONLY <5>1, <5>2
      <4>3. w <= u /\ u - w <= overlap
        BY <4>2
      <4>4. d[k] = [from |-> w, to |-> v, at |-> (w + 1)..v]
        BY <2>1, <3>2, <4>1, <4>2 DEF Chunk!Span
      <4>5. Cardinality((w + 1)..v) <= size + overlap
        <5>1. Cardinality((w + 1)..v) = IF w + 1 > v THEN 0 ELSE v - (w + 1) + 1
          BY ONLY w + 1 \in Int, v \in Int, FS_Interval
        <5>2. v - u <= size
          BY <4>1
        <5>3. 0 <= size + overlap /\ v - (w + 1) + 1 <= size + overlap
          BY ONLY <4>3, <5>2, u \in Nat, v \in Nat, w \in Nat, size \in Nat \ {0}, overlap \in Nat
        <5> QED
          BY <5>1, <5>3
      <4>6. ASSUME Solid(q[k]) PROVE q[k].at \subseteq d[k].at
        <5>1. q[k].at = (u + 1)..v /\ d[k].at = (w + 1)..v
          BY <4>1, <4>4, <4>6 DEF Solid
        <5>2. (u + 1)..v \subseteq (w + 1)..v
          BY ONLY <4>3, u \in Nat, v \in Nat, w \in Nat
        <5> QED
          BY <5>1, <5>2
      <4>7. d[k].at = (w + 1)..v
        BY <4>4
      <4> QED
        BY <4>5, <4>6, <4>7
    <3> QED
      BY <3>1, <3>2
  <2> QED
    BY <1>1, <2>1, <2>2
<1> QED
  BY <1>4, <1>5

(* So the chunks of a text are small, and without gaps all its letters are *)
(* in them.                                                                *)
LEMMA SplitIsFaithful ==
  ASSUME NEW t \in Seq(Chunk!Kinds), NEW size \in Nat \ {0}, NEW overlap \in Nat,
         NEW d, d = Chunk!SplitText(t, size, overlap)
  PROVE  /\ \A k \in DOMAIN d : Cardinality(d[k].at) <= size + overlap
         /\ Gapless(t) => \A i \in DOMAIN t : t[i] \in {"letter", "end"} =>
                            \E k \in DOMAIN d : i \in d[k].at
<1>1. PICK q, r : q = Chunk!Pieces(t, size) /\ r = Chunk!Pack(q, size)
  OBVIOUS
<1>2. q \in Seq(Fitting(size)) /\ (Gapless(t) => Tidy(q, Letters(t)))
  BY <1>1, PiecesFit
<1>3. /\ r \in Seq(Fitting(size))
      /\ \A s : Tidy(q, s) => /\ \A k \in 1..Len(r) : Solid(r[k])
                              /\ \A i \in s.at : \E k \in 1..Len(r) : i \in r[k].at
  BY ONLY <1>1, <1>2, PackFits, size \in Nat \ {0}
<1>4. /\ DOMAIN d = 1..Len(r)
      /\ \A k \in 1..Len(r) : /\ Cardinality(d[k].at) <= size + overlap
                              /\ Solid(r[k]) => r[k].at \subseteq d[k].at
  <2>1. d = Chunk!ApplyOverlap(r, overlap)
    BY <1>1 DEF Chunk!SplitText
  <2> QED
    BY <1>3, <2>1, OverlapKeeps
<1>5. ASSUME Gapless(t), NEW i \in DOMAIN t, t[i] \in {"letter", "end"}
      PROVE  \E k \in DOMAIN d : i \in d[k].at
  <2>1. i \in Letters(t).at
    BY <1>5 DEF Letters
  <2>2. PICK k \in 1..Len(r) : i \in r[k].at /\ Solid(r[k])
    BY <1>2, <1>3, <1>5, <2>1
  <2> QED
    BY <1>4, <2>2
<1> QED
  BY <1>4, <1>5

(* Once a document is split, the chunks are those of its text.             *)
ChunkInv ==
  part = "chunk" =>
    /\ text \in Seq(Chunk!Kinds) /\ config \in Chunk!Configs
    /\ text = << >> => chunks = << >>
    /\ chunks = << >> \/ chunks = Chunk!SplitText(text, config.size, config.overlap)

(* So no chunk is too long, and no letter is lost.                         *)
LEMMA ChunksAreOfTheText ==
  ASSUME ChunkInv
  PROVE  ChunksFaithful
<1> SUFFICES ASSUME part = "chunk" PROVE Chunk!ChunksFaithful
  BY DEF ChunksFaithful
<1>1. \A S : Chunk!Cardinality(S) = Cardinality(S)
  BY DEF Chunk!Cardinality, Cardinality
<1>2. CASE chunks = << >>
  BY <1>2 DEF Chunk!ChunksFaithful
<1>3. CASE chunks # << >>
  <2>1. PICK n \in Nat \ {0}, o \in Nat : n = config.size /\ o = config.overlap
    BY ChunkAssumption DEF ChunkInv, Chunk!Configs
  <2>2. text \in Seq(Chunk!Kinds) /\ chunks = Chunk!SplitText(text, n, o)
    BY <1>3, <2>1 DEF ChunkInv
  <2>3. /\ \A k \in DOMAIN chunks : Cardinality(chunks[k].at) <= n + o
        /\ Gapless(text) => \A i \in DOMAIN text : text[i] \in {"letter", "end"} =>
                              \E k \in DOMAIN chunks : i \in chunks[k].at
    BY <2>2, SplitIsFaithful
  <2> QED
    BY <1>1, <2>1, <2>3 DEF Chunk!ChunksFaithful, Gapless
<1> QED
  BY <1>2, <1>3

(* However long a text is and whatever it is made of, no chunk of it is    *)
(* longer than the size and the overlap together, and if no white space    *)
(* follows a sentence end all its letters are in the chunks (split_text).  *)
THEOREM ChunksAreFaithful == EdgeSpec => []ChunksFaithful
<1>1. EdgeInit => ChunkInv
  <2> SUFFICES ASSUME EdgeInit PROVE ChunkInv
    OBVIOUS
  <2>1. text = << >> /\ chunks = << >> /\ config = CHOOSE c \in Chunk!Configs : TRUE
    BY DEF EdgeInit, Chunk!Init
  <2>2. config \in Chunk!Configs
    BY <2>1, ChunkAssumption
  <2>3. << >> \in Seq(Chunk!Kinds)
    OBVIOUS
  <2> QED
    BY <2>1, <2>2, <2>3 DEF ChunkInv
<1>2. ChunkInv /\ [EdgeNext]_edgeVars => ChunkInv'
  <2> SUFFICES ASSUME ChunkInv, [EdgeNext]_edgeVars, part' = "chunk" PROVE ChunkInv'
    BY DEF ChunkInv
  <2>1. part = "chunk" /\ (Chunk!Next \/ UNCHANGED chunkVars)
    BY DEF EdgeNext, edgeVars
  <2>2. CASE Chunk!Call
    <3>1. text' \in Chunk!Texts /\ config' \in Chunk!Configs /\ chunks' = << >>
      BY <2>1, <2>2 DEF ChunkInv, Chunk!Call
    <3>2. PICK n \in Nat : text' \in [1..n -> Chunk!Kinds]
      BY <3>1 DEF Chunk!Texts
    <3>3. text' \in Seq(Chunk!Kinds)
      BY <3>2, FunctionIsSeq
    <3> QED
      BY <3>1, <3>3 DEF ChunkInv
  <2>3. CASE Chunk!Return
    BY <2>1, <2>3 DEF ChunkInv, Chunk!Return
  <2>4. CASE UNCHANGED chunkVars
    BY <2>1, <2>4 DEF ChunkInv, chunkVars
  <2> QED
    BY <2>1, <2>2, <2>3, <2>4 DEF Chunk!Next
<1>3. ChunkInv => ChunksFaithful
  BY ChunksAreOfTheText
<1> QED
  BY <1>1, <1>2, <1>3, PTL DEF EdgeSpec
=============================================================================
