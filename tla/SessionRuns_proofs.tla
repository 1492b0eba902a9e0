-------------------------- MODULE SessionRuns_proofs --------------------------
(***************************************************************************)
(* Theorems about SessionRuns, for any number of runs, of any kinds, and   *)
(* plans of any length.                                                    *)
(***************************************************************************)
EXTENDS SessionRuns, ProofLemmas

USE SessionAssumption

-----------------------------------------------------------------------------
(* What is read from the log *)

(* The reset kind of an ended run is a kind. *)
LEMMA AnyKindType == AnyKind \in Kinds
  BY DEF AnyKind

(* Positions of the log are numbers up to its length, and a set of them    *)
(* that is not empty has a last one.                                       *)
LEMMA LogPositions ==
  ASSUME TypeOK
  PROVE  /\ Len(log) \in Nat
         /\ DOMAIN log = 1..Len(log)
         /\ \A i \in 1..Len(log) : log[i] \in Event
         /\ \A type : Positions(type) \in SUBSET (1..Len(log))
         /\ FailedRuns \in SUBSET (1..Len(log))
  BY DEF TypeOK, Positions, FailedRuns

(* The plan a run is prepared with is a plan of the log.                   *)
LEMMA LatestPlanIn ==
  ASSUME TypeOK, Positions("plan_created") # {}
  PROVE  LatestPlan \in Positions("plan_created")
  <1> DEFINE P == Positions("plan_created")
  <1>1. P \in SUBSET (1..Len(log)) /\ Len(log) \in Nat
    BY LogPositions
  <1>2. \E x \in P : \A y \in P : y <= x
    BY <1>1, LastPosition
  <1> QED  BY <1>2 DEF LatestPlan

(* The run to resume from is one that failed with its id in the log.       *)
LEMMA LastFailedIn ==
  ASSUME TypeOK, LastFailedRun # NoRun
  PROVE  \E i \in FailedRuns : log[i].run = LastFailedRun
  <1>1. FailedRuns \in SUBSET (1..Len(log)) /\ Len(log) \in Nat
    BY LogPositions
  <1>2. FailedRuns # {}
    BY DEF LastFailedRun
  <1>3. \E x \in FailedRuns : \A y \in FailedRuns : y <= x
    BY <1>1, <1>2, LastPosition
  <1> QED  BY <1>2, <1>3 DEF LastFailedRun

(* One more event in the log. *)
LEMMA LogGrows ==
  ASSUME TypeOK, NEW e \in Event, log' = Append(log, e)
  PROVE  /\ log' \in Seq(Event)
         /\ Len(log') = Len(log) + 1
         /\ DOMAIN log' = 1..(Len(log) + 1)
         /\ \A i \in 1..Len(log) : log'[i] = log[i]
         /\ log'[Len(log) + 1] = e
  BY DEF TypeOK

-----------------------------------------------------------------------------
(* The runs and the log *)

(* Places in which a run has not begun to execute.                         *)
Early == {"new", "opened", "preparing", "prepared"}

(* A plan of the log has steps. *)
PlansHaveSteps ==
  \A i \in DOMAIN log : log[i].type = "plan_created" => log[i].index \in PlanSteps

(* A run's plan is a plan of the log; one is held from Prepare on.         *)
PlansHeld ==
  \A r \in Runs :
    /\ run[r].plan # 0 => log[run[r].plan].type = "plan_created"
    /\ run[r].place \in {"prepared", "executing"} => run[r].plan # 0

(* The events with a run's id are written by a run that has begun; what a  *)
(* run completed is written with its id.                                   *)
EventsHaveAuthors ==
  \A i \in DOMAIN log :
    /\ log[i].type = "step_completed" => log[i].run \in Runs
    /\ log[i].run \in Runs => /\ run[log[i].run].place \notin Early
                              /\ run[log[i].run].plan # 0

NothingDoneEarly ==
  \A r \in Runs : run[r].place \in Early => run[r].next = 0

LogInv ==
  TypeOK /\ PlansHaveSteps /\ PlansHeld /\ EventsHaveAuthors /\ NothingDoneEarly

(* An executing run has a plan with at least one step.                     *)
LEMMA PlanOfRun ==
  ASSUME LogInv, NEW r \in Runs, run[r].plan # 0
  PROVE  /\ run[r].plan \in 1..Len(log)
         /\ Steps(r) \in PlanSteps /\ Steps(r) \in Nat \ {0}
  <1>1. run[r].plan \in 0..Len(log) /\ Len(log) \in Nat
    BY DEF LogInv, TypeOK
  <1>2. run[r].plan \in DOMAIN log
    BY <1>1, LogPositions DEF LogInv
  <1>3. log[run[r].plan].type = "plan_created"
    BY DEF LogInv, PlansHeld
  <1>4. Steps(r) \in PlanSteps
    BY <1>2, <1>3 DEF LogInv, PlansHaveSteps, Steps
  <1> QED  BY <1>1, <1>2, <1>4, LogPositions DEF LogInv

(* A session starts with an empty log and no run. *)
LEMMA LogInit == Init => LogInv
  <1> SUFFICES ASSUME Init PROVE LogInv
    OBVIOUS
  <1> DEFINE fresh == [place |-> "new", kind |-> AnyKind, plan |-> 0,
                       next |-> 0, refusals |-> 0, faithful |-> TRUE]
  <1>1. log = <<>> /\ run = [r \in Runs |-> fresh]
    BY DEF Init
  <1>2. fresh \in Record
    BY AnyKindType DEF Record, Places
  <1>3. run \in [Runs -> Record]
    BY <1>1, <1>2
  <1>4. TypeOK
    <2>1. \A r \in Runs : run[r].plan = 0
      BY <1>1
    <2>2. Len(log) = 0 /\ log \in Seq(Event)
      BY <1>1
    <2>3. cuts = 0 /\ cuts \in 0..MaxCuts
      <3>1. cuts = 0
        BY DEF Init
      <3> QED  BY <3>1
    <2>4. status \in SessionStatus /\ deleted \in BOOLEAN /\ orphaned \in BOOLEAN
      BY DEF Init, SessionStatus
    <2> QED  BY <1>3, <2>1, <2>2, <2>3, <2>4 DEF TypeOK
  <1> QED  BY <1>1, <1>4 DEF LogInv, PlansHaveSteps, PlansHeld,
                             EventsHaveAuthors, NothingDoneEarly

(* The record of an ended run is a record. *)
LEMMA EndedType ==
  ASSUME NEW record \in Record, NEW place \in Places
  PROVE  Ended(record, place) \in Record
  <1>1. 0 \in 0..MaxRefusals
    OBVIOUS
  <1> QED  BY <1>1, AnyKindType DEF Ended, Record

(* Replacing the record of one run keeps the types of all.                 *)
LEMMA RunTyped ==
  ASSUME TypeOK, NEW r \in Runs, NEW record \in Record,
         run' = [run EXCEPT ![r] = record],
         \/ UNCHANGED log
         \/ \E e \in Event : log' = Append(log, e),
         record.plan \in 0..Len(log)
  PROVE  /\ run' \in [Runs -> Record]
         /\ log' \in Seq(Event)
         /\ \A q \in Runs : run'[q].plan \in 0..Len(log')
         /\ run'[r] = record
         /\ \A q \in Runs \ {r} : run'[q] = run[q]
  <1>1. /\ log' \in Seq(Event)
        /\ Len(log) \in Nat /\ Len(log') \in Nat /\ Len(log) <= Len(log')
    BY LogGrows DEF TypeOK
  <1>2. \A q \in Runs : run'[q].plan \in 0..Len(log)
    BY DEF TypeOK
  <1> QED  BY <1>1, <1>2 DEF TypeOK

(* A step of which only where runs stand, the log's new event and the      *)
(* status tell: no run gets a plan, begins, or changes its next step.      *)
Quiet ==
  /\ \A q \in Runs :
       /\ run'[q].plan = run[q].plan
       /\ run'[q].next = run[q].next
       /\ run'[q].faithful = run[q].faithful
       /\ run[q].place \notin Early => run'[q].place \notin Early
       /\ run'[q].place \in {"prepared", "executing"} => run[q].place = run'[q].place
  /\ \/ UNCHANGED log
     \/ \E e \in Event :
          /\ log' = Append(log, e)
          /\ e.type # "step_completed"
          /\ e.type = "plan_created" => e.index \in PlanSteps
          /\ e.run \in Runs => run[e.run].place = "executing"

(* One run moves, with a record that only tells where it stands.           *)
LEMMA QuietMove ==
  ASSUME LogInv, NEW r \in Runs, NEW record \in Record,
         run' = [run EXCEPT ![r] = record],
         record.plan = run[r].plan, record.next = run[r].next,
         record.faithful = run[r].faithful,
         run[r].place \notin Early => record.place \notin Early,
         record.place \in {"prepared", "executing"} => run[r].place = record.place,
         \/ UNCHANGED log
         \/ \E e \in Event :
              /\ log' = Append(log, e)
              /\ e.type # "step_completed"
              /\ e.type = "plan_created" => e.index \in PlanSteps
              /\ e.run \in Runs => run[e.run].place = "executing",
         status' \in SessionStatus, deleted' \in BOOLEAN,
         cuts' \in 0..MaxCuts, orphaned' \in BOOLEAN
  PROVE  TypeOK' /\ Quiet
  <1>1. record.plan \in 0..Len(log)
    BY DEF LogInv, TypeOK
  <1>2. /\ run' \in [Runs -> Record]
        /\ log' \in Seq(Event)
        /\ \A q \in Runs : run'[q].plan \in 0..Len(log')
        /\ run'[r] = record
        /\ \A q \in Runs \ {r} : run'[q] = run[q]
    BY <1>1, RunTyped DEF LogInv
  <1>3. TypeOK'
    BY <1>2 DEF TypeOK
  <1>4. Quiet
    BY <1>2 DEF Quiet
  <1> QED  BY <1>3, <1>4

(* Setting or keeping the status keeps its type. *)
LEMMA StatusType ==
  ASSUME TypeOK, KeepStatus \/ \E s \in SessionStatus : SetStatus(s)
  PROVE  status' \in SessionStatus /\ orphaned' \in BOOLEAN
  BY DEF TypeOK, KeepStatus, SetStatus

(* Moving a run to a place, and ending it. *)
LEMMA Movements ==
  ASSUME LogInv, NEW r \in Runs
  PROVE  /\ run[r] \in Record
         /\ \A p \in Places : [run[r] EXCEPT !.place = p] \in Record
         /\ \A p \in Places : Ended(run[r], p) \in Record
         /\ \A p : GoTo(r, p) <=>
              run' = [run EXCEPT ![r] = [run[r] EXCEPT !.place = p]]
         /\ Leave(r) => \E p \in {"leaving", "over"} :
              run' = [run EXCEPT ![r] = Ended(run[r], p)]
         /\ End(r) <=> run' = [run EXCEPT ![r] = Ended(run[r], "over")]
  <1>1. run \in [Runs -> Record]
    BY DEF LogInv, TypeOK
  <1>2. run[r] \in Record
    BY <1>1
  <1>3. \A p \in Places : [run[r] EXCEPT !.place = p] \in Record
    BY <1>2 DEF Record
  <1>4. \A p \in Places : Ended(run[r], p) \in Record
    BY <1>2, EndedType
  <1>5. \A p : GoTo(r, p) <=>
              run' = [run EXCEPT ![r] = [run[r] EXCEPT !.place = p]]
    BY <1>1 DEF GoTo
  <1>6. Leave(r) => \E p \in {"leaving", "over"} :
              run' = [run EXCEPT ![r] = Ended(run[r], p)]
    BY <1>1 DEF Leave
  <1>7. End(r) <=> run' = [run EXCEPT ![r] = Ended(run[r], "over")]
    BY <1>1 DEF End
  <1> QED  BY <1>2, <1>3, <1>4, <1>5, <1>6, <1>7

(* Leaving or ending a run, with the events of its last step.              *)
LEMMA QuietEnd ==
  ASSUME LogInv, NEW r \in Runs, Leave(r) \/ End(r),
         \/ UNCHANGED log
         \/ \E e \in Event :
              /\ log' = Append(log, e)
              /\ e.type \in {"task_done", "task_error"}
              /\ e.run \in Runs => run[e.run].place = "executing",
         \/ KeepStatus
         \/ \E s \in SessionStatus : SetStatus(s)
         \/ status' = status /\ orphaned' \in BOOLEAN,
         deleted' = deleted, cuts' = cuts \/ cuts' \in 0..MaxCuts
  PROVE  TypeOK' /\ Quiet
  <1>1. PICK p \in {"leaving", "over"} :
          run' = [run EXCEPT ![r] = Ended(run[r], p)]
    BY Movements
  <1> DEFINE record == Ended(run[r], p)
  <1>2. /\ record \in Record
        /\ record.plan = run[r].plan /\ record.next = run[r].next
        /\ record.faithful = run[r].faithful /\ record.place = p
    <2>1. run[r] \in Record /\ p \in Places
      BY Movements DEF Places
    <2> QED  BY <2>1, EndedType DEF Ended, Record
  <1>3. record.place \notin Early /\ record.place \notin {"prepared", "executing"}
    BY <1>1, <1>2 DEF Early
  <1>4. status' \in SessionStatus /\ orphaned' \in BOOLEAN
    BY StatusType DEF LogInv, TypeOK
  <1>5. \/ UNCHANGED log
        \/ \E e \in Event :
             /\ log' = Append(log, e)
             /\ e.type # "step_completed"
             /\ e.type = "plan_created" => e.index \in PlanSteps
             /\ e.run \in Runs => run[e.run].place = "executing"
    OBVIOUS
  <1>6. deleted' \in BOOLEAN /\ cuts' \in 0..MaxCuts
    BY DEF LogInv, TypeOK
  <1> HIDE DEF record
  <1>7. run' = [run EXCEPT ![r] = record]
    BY <1>1 DEF record
  <1> QED  BY <1>2, <1>3, <1>4, <1>5, <1>6, <1>7, QuietMove

(* Moving a run to a place, without an event or with the one of a plan.    *)
LEMMA QuietGoTo ==
  ASSUME LogInv, NEW r \in Runs, NEW p \in Places, GoTo(r, p),
         run[r].place \notin Early => p \notin Early,
         p \notin {"prepared", "executing"},
         \/ UNCHANGED log
         \/ \E e \in Event :
              /\ log' = Append(log, e)
              /\ e.type = "plan_created" /\ e.index \in PlanSteps
              /\ e.run \notin Runs,
         KeepStatus \/ \E s \in SessionStatus : SetStatus(s),
         deleted' = deleted, cuts' = cuts
  PROVE  TypeOK' /\ Quiet
  <1> DEFINE record == [run[r] EXCEPT !.place = p]
  <1>1. run[r] \in Record /\ record \in Record
    BY Movements
  <1>2. /\ record.plan = run[r].plan /\ record.next = run[r].next
        /\ record.faithful = run[r].faithful /\ record.place = p
    BY <1>1 DEF Record
  <1>3. run' = [run EXCEPT ![r] = record]
    BY Movements
  <1>4. /\ status' \in SessionStatus /\ orphaned' \in BOOLEAN
        /\ deleted' \in BOOLEAN /\ cuts' \in 0..MaxCuts
    BY StatusType DEF LogInv, TypeOK
  <1>5. \/ UNCHANGED log
        \/ \E e \in Event :
             /\ log' = Append(log, e)
             /\ e.type # "step_completed"
             /\ e.type = "plan_created" => e.index \in PlanSteps
             /\ e.run \in Runs => run[e.run].place = "executing"
    OBVIOUS
  <1> HIDE DEF record
  <1> QED  BY <1>1, <1>2, <1>3, <1>4, <1>5, QuietMove

(* An event is a record of its fields. *)
LEMMA EventType ==
  ASSUME NEW type \in {"plan_created", "step_completed", "task_error", "task_done"},
         NEW q \in Runs \cup {NoRun}, NEW index \in Nat
  PROVE  [type |-> type, run |-> q, index |-> index] \in Event
  BY DEF Event

(* The steps of a session that are not one run's. *)
LEMMA QuietSession ==
  ASSUME LogInv, StopSession \/ DeleteSession \/ Restart
  PROVE  TypeOK' /\ Quiet
  <1>1. CASE StopSession \/ DeleteSession
    <2>1. UNCHANGED <<log, run, cuts>> /\ deleted' \in BOOLEAN
      BY <1>1 DEF StopSession, DeleteSession, LogInv, TypeOK
    <2>2. status' \in SessionStatus /\ orphaned' \in BOOLEAN
      BY <1>1, StatusType DEF StopSession, DeleteSession, LogInv, SessionStatus
    <2>3. TypeOK'
      BY <2>1, <2>2 DEF LogInv, TypeOK
    <2> QED  BY <2>1, <2>3 DEF Quiet
  <1>2. CASE Restart
    <2>1. run' = [r \in Runs |-> IF Live(r) THEN Ended(run[r], "over") ELSE run[r]]
      BY <1>2 DEF Restart
    <2>2. ASSUME NEW r \in Runs
          PROVE  /\ run'[r] \in Record
                 /\ run'[r].plan = run[r].plan /\ run'[r].next = run[r].next
                 /\ run'[r].faithful = run[r].faithful
                 /\ \/ run'[r].place = "over"
                    \/ run'[r].place = run[r].place
      <3>1. run[r] \in Record /\ Ended(run[r], "over") \in Record
        BY Movements DEF Places
      <3>2. CASE Live(r)
        <4>1. run'[r] = Ended(run[r], "over")
          BY <2>1, <3>2
        <4> QED  BY <3>1, <4>1 DEF Ended, Record
      <3>3. CASE ~Live(r)
        BY <2>1, <3>1, <3>3
      <3> QED  BY <3>2, <3>3
    <2>3. UNCHANGED <<log, deleted>> /\ cuts' \in 0..MaxCuts
      BY <1>2 DEF Restart, LogInv, TypeOK
    <2>4. status' \in SessionStatus /\ orphaned' \in BOOLEAN
      BY <1>2 DEF Restart, LogInv, TypeOK, SessionStatus
    <2>5. TypeOK'
      <3>1. run' \in [Runs -> Record]
        BY <2>1, <2>2
      <3>2. \A r \in Runs : run'[r].plan \in 0..Len(log)
        BY <2>2 DEF LogInv, TypeOK
      <3> QED  BY <2>3, <2>4, <3>1, <3>2 DEF LogInv, TypeOK
    <2>6. Quiet
      BY <2>2, <2>3 DEF Quiet, Early
    <2> QED  BY <2>5, <2>6
  <1> QED  BY <1>1, <1>2

(* Opening a stream and starting in the background. *)
LEMMA QuietStart ==
  ASSUME LogInv, NEW r \in Runs,
         (\E kind \in Kinds : OpenStream(r, kind)) \/ StartInBackground(r)
  PROVE  TypeOK' /\ Quiet
  <1>0. run[r] \in Record /\ run \in [Runs -> Record]
    BY Movements DEF LogInv, TypeOK
  <1>1. PICK record \in Record :
          /\ run' = [run EXCEPT ![r] = record]
          /\ record.plan = run[r].plan /\ record.next = run[r].next
          /\ record.faithful = run[r].faithful
          /\ record.place \in {"leaving", "preparing", "opened"}
    <2>1. ASSUME NEW kind \in Kinds, NEW place \in {"preparing", "opened"},
                 run' = [run EXCEPT ![r] = [@ EXCEPT !.kind = kind, !.place = place]]
          PROVE  \E record \in Record :
                   /\ run' = [run EXCEPT ![r] = record]
                   /\ record.plan = run[r].plan /\ record.next = run[r].next
                   /\ record.faithful = run[r].faithful
                   /\ record.place \in {"leaving", "preparing", "opened"}
      <3> DEFINE record == [run[r] EXCEPT !.kind = kind, !.place = place]
      <3>1. record \in Record
        BY <1>0, <2>1 DEF Record, Places
      <3>2. /\ record.plan = run[r].plan /\ record.next = run[r].next
            /\ record.faithful = run[r].faithful
            /\ record.place \in {"leaving", "preparing", "opened"}
        BY <1>0, <2>1 DEF Record
      <3>3. run' = [run EXCEPT ![r] = record]
        BY <2>1
      <3> QED  BY <3>1, <3>2, <3>3
    <2>2. CASE StartInBackground(r)
      <3>1. run' = [run EXCEPT ![r] = [@ EXCEPT !.kind = "background",
                                                !.place = "preparing"]]
        BY <1>0, <2>2 DEF StartInBackground
      <3> QED  BY <2>1, <2>2, <3>1 DEF StartInBackground
    <2>3. ASSUME NEW kind \in Kinds, OpenStream(r, kind)
          PROVE  \E record \in Record :
                   /\ run' = [run EXCEPT ![r] = record]
                   /\ record.plan = run[r].plan /\ record.next = run[r].next
                   /\ record.faithful = run[r].faithful
                   /\ record.place \in {"leaving", "preparing", "opened"}
      <3>1. CASE deleted
        <4> DEFINE record == Ended(run[r], "leaving")
        <4>1. run' = [run EXCEPT ![r] = record]
          BY <2>3, <3>1 DEF OpenStream
        <4>2. record \in Record
          BY Movements DEF Places
        <4>3. /\ record.plan = run[r].plan /\ record.next = run[r].next
              /\ record.faithful = run[r].faithful /\ record.place = "leaving"
          BY <1>0 DEF Ended, Record
        <4> QED  BY <4>1, <4>2, <4>3
      <3>2. CASE ~deleted
        <4>1. run' = [run EXCEPT ![r] =
                        [@ EXCEPT !.kind = kind,
                                  !.place = IF kind = "resume" THEN "preparing"
                                            ELSE "opened"]]
          BY <2>3, <3>2 DEF OpenStream
        <4> QED  BY <2>1, <4>1
      <3> QED  BY <3>1, <3>2
    <2> QED  BY <2>2, <2>3
  <1>2. run[r].place = "new" /\ UNCHANGED <<deleted, log, cuts>>
    BY DEF OpenStream, StartInBackground, New
  <1>3. status' \in SessionStatus /\ orphaned' \in BOOLEAN
    <2>1. KeepStatus \/ SetStatus("running")
      BY DEF OpenStream, StartInBackground
    <2> QED  BY <2>1, StatusType DEF LogInv, SessionStatus
  <1> QED  BY <1>1, <1>2, <1>3, QuietMove DEF LogInv, TypeOK, Early

(* What the other quiet steps of a run do.                                 *)
LEMMA QuietRun ==
  ASSUME LogInv, NEW r \in Runs,
         \/ ChatAnswer(r) \/ MakePlan(r) \/ FailEarly(r) \/ Answer(r)
         \/ Block(r) \/ Fail(r) \/ Disconnect(r) \/ ResetRead(r)
         \/ ResetWrite(r) \/ CutOff(r)
  PROVE  TypeOK' /\ Quiet
  <1> DEFINE Told(type, q) == [type |-> type, run |-> q, index |-> 0]
  <1>1. \A type \in {"task_error", "task_done"}, q \in Runs \cup {NoRun} :
          Told(type, q) \in Event /\ Told(type, q).type = type /\ Told(type, q).run = q
    BY EventType
  <1>2. cuts \in 0..MaxCuts /\ orphaned \in BOOLEAN /\ status \in SessionStatus
    BY DEF LogInv, TypeOK
  <1>3. CASE ChatAnswer(r)
    BY <1>2, <1>3, QuietEnd DEF ChatAnswer, SessionStatus
  <1>4. CASE MakePlan(r)
    <2>1. PICK n \in PlanSteps : Write("plan_created", NoRun, n)
      BY <1>4 DEF MakePlan
    <2> DEFINE e == [type |-> "plan_created", run |-> NoRun, index |-> n]
    <2>2. e \in Event /\ e.type = "plan_created" /\ e.index \in PlanSteps /\ e.run = NoRun
      BY EventType
    <2>3. log' = Append(log, e)
      BY <2>1 DEF Write
    <2> HIDE DEF e
    <2> QED  BY <1>4, <2>2, <2>3, QuietGoTo DEF MakePlan, At, Early, Places
  <1>5. CASE FailEarly(r)
    <2>1. Leave(r) /\ UNCHANGED <<deleted, cuts>>
      BY <1>5 DEF FailEarly
    <2>2. \/ log' = Append(log, Told("task_error", NoRun)) /\ SetStatus("failed")
          \/ UNCHANGED log /\ KeepStatus
      BY <1>5 DEF FailEarly, Write
    <2> HIDE DEF Told
    <2> QED  BY <1>1, <1>2, <2>1, <2>2, QuietEnd DEF SessionStatus
  <1>6. CASE Answer(r)
    <2>1. /\ Leave(r) /\ SetStatus("idle") /\ UNCHANGED <<deleted, cuts>>
          /\ log' = Append(log, Told("task_done", r)) /\ run[r].place = "executing"
      BY <1>6 DEF Answer, Write, At
    <2> HIDE DEF Told
    <2> QED  BY <1>1, <1>2, <2>1, QuietEnd DEF SessionStatus
  <1>7. CASE Block(r)
    BY <1>2, <1>7, QuietEnd DEF Block, SessionStatus
  <1>8. CASE Fail(r)
    <2>1. /\ Leave(r) /\ SetStatus("failed") /\ UNCHANGED <<deleted, cuts>>
          /\ log' = Append(log, Told("task_error", r)) /\ run[r].place = "executing"
      BY <1>8 DEF Fail, Write, At
    <2> HIDE DEF Told
    <2> QED  BY <1>1, <1>2, <2>1, QuietEnd DEF SessionStatus
  <1>9. CASE Disconnect(r)
    BY <1>2, <1>9, QuietEnd DEF Disconnect
  <1>10. CASE ResetRead(r)
    BY <1>10, QuietGoTo DEF ResetRead, Places, Early
  <1>11. CASE ResetWrite(r)
    BY <1>11, QuietGoTo DEF ResetWrite, Places, Early, SessionStatus
  <1>12. CASE CutOff(r)
    <2>1. cuts' \in 0..MaxCuts
      BY <1>2, <1>12 DEF CutOff
    <2>2. orphaned' \in BOOLEAN
      BY <1>2, <1>12 DEF CutOff
    <2> QED  BY <1>12, <2>1, <2>2, QuietEnd DEF CutOff
  <1> QED  BY <1>3, <1>4, <1>5, <1>6, <1>7, <1>8, <1>9, <1>10, <1>11, <1>12

(* The steps of a run that are not quiet. *)
Prepares(r) ==
  /\ run[r].place = "preparing"
  /\ run'[r].place = "prepared" /\ run'[r].next = run[r].next
  /\ run'[r].faithful = run[r].faithful
  /\ run'[r].plan \in Positions("plan_created")
  /\ UNCHANGED log

Begins(r) ==
  /\ run[r].place = "prepared"
  /\ run'[r].place = "executing" /\ run'[r].plan = run[r].plan
  /\ LET from == IF run[r].kind = "resume" THEN LastFailedRun ELSE NoRun
     IN  /\ run'[r].next = IF from = NoRun THEN 0 ELSE ResumeStep(from)
         /\ run'[r].faithful =
              (from = NoRun \/ (run[from].plan = run[r].plan /\ run[from].faithful))
  /\ UNCHANGED log

Accepts(r) ==
  /\ run[r].place = "executing"
  /\ run'[r].place = "executing" /\ run'[r].plan = run[r].plan
  /\ run'[r].faithful = run[r].faithful
  /\ run[r].next < Steps(r) /\ run'[r].next = run[r].next + 1
  /\ log' = Append(log, [type |-> "step_completed", run |-> r,
                         index |-> run[r].next + 1])

Refuses(r) ==
  /\ run[r].place = "executing"
  /\ run'[r].place = "executing" /\ run'[r].plan = run[r].plan
  /\ run'[r].faithful = run[r].faithful
  /\ run[r].next = Steps(r) /\ run'[r].next = run[r].next - 1
  /\ UNCHANGED log

OthersStay(r) == \A q \in Runs \ {r} : run'[q] = run[q]

(* The step to resume at is a number: a log has finitely many positions.   *)
LEMMA CompletedCount ==
  ASSUME TypeOK, NEW r
  PROVE  /\ CompletedBy(r) \in SUBSET (1..Len(log))
         /\ Cardinality(CompletedBy(r)) \in Nat
  <1>1. CompletedBy(r) \in SUBSET (1..Len(log)) /\ Len(log) \in Nat
    BY LogPositions DEF CompletedBy
  <1> QED  BY <1>1, SelectionGrows

(* A prepared run has the types. *)
LEMMA PrepareType ==
  ASSUME LogInv, NEW r \in Runs, Prepare(r)
  PROVE  TypeOK' /\ OthersStay(r) /\ Prepares(r)
  <1> DEFINE record == [run[r] EXCEPT !.place = "prepared", !.plan = LatestPlan]
  <1>1. LatestPlan \in Positions("plan_created")
    BY LatestPlanIn DEF LogInv, Prepare
  <1>2. LatestPlan \in 0..Len(log) /\ LatestPlan \in Nat
    BY <1>1, LogPositions DEF LogInv
  <1>3. run[r] \in Record /\ run \in [Runs -> Record]
    BY Movements DEF LogInv, TypeOK
  <1>4. record \in Record
    BY <1>2, <1>3 DEF Record, Places
  <1>5. /\ record.plan = LatestPlan /\ record.next = run[r].next
        /\ record.faithful = run[r].faithful /\ record.place = "prepared"
    BY <1>3 DEF Record
  <1>6. run' = [run EXCEPT ![r] = record]
    BY <1>3 DEF Prepare
  <1>7. UNCHANGED <<status, deleted, log, cuts, orphaned>>
    BY DEF Prepare, KeepStatus
  <1> HIDE DEF record
  <1>8. /\ run' \in [Runs -> Record]
        /\ \A q \in Runs : run'[q].plan \in 0..Len(log')
        /\ run'[r] = record
        /\ \A q \in Runs \ {r} : run'[q] = run[q]
    BY <1>2, <1>4, <1>5, <1>6, <1>7, RunTyped DEF LogInv
  <1>9. TypeOK'
    BY <1>7, <1>8 DEF LogInv, TypeOK
  <1>10. Prepares(r)
    BY <1>1, <1>5, <1>7, <1>8 DEF Prepare, Prepares, At
  <1> QED  BY <1>8, <1>9, <1>10 DEF OthersStay

(* A run that begins has the types. *)
LEMMA BeginType ==
  ASSUME LogInv, NEW r \in Runs, Begin(r)
  PROVE  TypeOK' /\ OthersStay(r) /\ Begins(r)
  <1> DEFINE from == IF run[r].kind = "resume" THEN LastFailedRun ELSE NoRun
             next == IF from = NoRun THEN 0 ELSE ResumeStep(from)
             kept == from = NoRun \/ (run[from].plan = run[r].plan /\ run[from].faithful)
             record == [run[r] EXCEPT !.place = "executing", !.next = next,
                                      !.faithful = kept]
  <1>1. next \in Nat
    BY CompletedCount DEF LogInv, ResumeStep
  <1>2. run[r] \in Record /\ run \in [Runs -> Record]
    BY Movements DEF LogInv, TypeOK
  <1>3. kept \in BOOLEAN
    <2>1. CASE from = NoRun
      BY <2>1
    <2>2. CASE from # NoRun
      <3>1. \E i \in FailedRuns : log[i].run = from
        BY <2>2, LastFailedIn DEF LogInv
      <3>2. from \in Runs
        BY <2>2, <3>1, LogPositions DEF LogInv, Event
      <3> QED  BY <1>2, <2>2, <3>2 DEF Record
    <2> QED  BY <2>1, <2>2
  <1>4. run' = [run EXCEPT ![r] = record]
    BY <1>2 DEF Begin
  <1> HIDE DEF next, kept
  <1>5. record \in Record
    BY <1>1, <1>2, <1>3 DEF Record, Places
  <1>6. /\ record.plan = run[r].plan /\ record.next = next
        /\ record.faithful = kept /\ record.place = "executing"
    BY <1>2 DEF Record
  <1>7. SetStatus("running") /\ UNCHANGED <<deleted, log, cuts>>
    BY DEF Begin
  <1>8. status' \in SessionStatus /\ orphaned' \in BOOLEAN
    BY <1>7, StatusType DEF LogInv, SessionStatus
  <1> HIDE DEF record
  <1>9. run[r].plan \in 0..Len(log)
    BY DEF LogInv, TypeOK
  <1>10. /\ run' \in [Runs -> Record]
         /\ \A q \in Runs : run'[q].plan \in 0..Len(log')
         /\ run'[r] = record
         /\ \A q \in Runs \ {r} : run'[q] = run[q]
    BY <1>4, <1>5, <1>6, <1>7, <1>9, RunTyped DEF LogInv
  <1>11. TypeOK'
    BY <1>7, <1>8, <1>10 DEF LogInv, TypeOK
  <1>12. Begins(r)
    BY <1>6, <1>7, <1>10 DEF Begin, Begins, At, next, kept
  <1> QED  BY <1>10, <1>11, <1>12 DEF OthersStay

(* An executing run that accepts a step, or is refused, has the types.     *)
LEMMA StepType ==
  ASSUME LogInv, NEW r \in Runs, AcceptStep(r) \/ RefuseResult(r)
  PROVE  TypeOK' /\ OthersStay(r) /\ (Accepts(r) \/ Refuses(r))
  <1>1. run[r] \in Record /\ run \in [Runs -> Record]
    BY Movements DEF LogInv, TypeOK
  <1>2. run[r].place = "executing" /\ UNCHANGED <<status, deleted, cuts, orphaned>>
    BY DEF AcceptStep, RefuseResult, At, KeepStatus
  <1>3. Steps(r) \in Nat \ {0} /\ run[r].plan \in 0..Len(log)
    BY <1>2, PlanOfRun DEF LogInv, PlansHeld, TypeOK
  <1>4. ASSUME NEW record \in Record, run' = [run EXCEPT ![r] = record],
               record.plan = run[r].plan,
               UNCHANGED log \/ \E e \in Event : log' = Append(log, e)
        PROVE  TypeOK' /\ OthersStay(r) /\ run'[r] = record
    <2>1. /\ run' \in [Runs -> Record] /\ log' \in Seq(Event)
          /\ \A q \in Runs : run'[q].plan \in 0..Len(log')
          /\ run'[r] = record
          /\ \A q \in Runs \ {r} : run'[q] = run[q]
      BY <1>3, <1>4, RunTyped DEF LogInv
    <2> QED  BY <1>2, <2>1 DEF LogInv, TypeOK, OthersStay
  <1>5. CASE AcceptStep(r)
    <2> DEFINE record == [run[r] EXCEPT !.next = @ + 1]
               e == [type |-> "step_completed", run |-> r, index |-> run[r].next + 1]
    <2>1. record \in Record
      BY <1>1 DEF Record
    <2>2. /\ record.plan = run[r].plan /\ record.next = run[r].next + 1
          /\ record.faithful = run[r].faithful /\ record.place = run[r].place
      BY <1>1 DEF Record
    <2>3. run' = [run EXCEPT ![r] = record] /\ log' = Append(log, e)
      BY <1>1, <1>5 DEF AcceptStep, Write
    <2>4. e \in Event
      BY <1>1, EventType DEF Record
    <2>5. TypeOK' /\ OthersStay(r) /\ run'[r] = record
      <3> HIDE DEF record, e
      <3> QED  BY <1>4, <2>1, <2>2, <2>3, <2>4
    <2>6. Accepts(r)
      BY <1>2, <1>5, <2>2, <2>3, <2>5 DEF AcceptStep, Accepts
    <2> QED  BY <2>5, <2>6
  <1>6. CASE RefuseResult(r)
    <2> DEFINE record == [run[r] EXCEPT !.next = @ - 1, !.refusals = @ + 1]
    <2>1. /\ run[r].next = Steps(r) /\ run[r].refusals < MaxRefusals
          /\ run' = [run EXCEPT ![r] = record] /\ UNCHANGED log
      BY <1>1, <1>6 DEF RefuseResult
    <2>2. run[r].next - 1 \in Nat
      BY <1>3, <2>1
    <2>3. run[r].refusals + 1 \in 0..MaxRefusals
      BY <1>1, <2>1 DEF Record
    <2>4. record \in Record
      BY <1>1, <2>2, <2>3 DEF Record
    <2>5. /\ record.plan = run[r].plan /\ record.next = run[r].next - 1
          /\ record.faithful = run[r].faithful /\ record.place = run[r].place
      BY <1>1 DEF Record
    <2>6. TypeOK' /\ OthersStay(r) /\ run'[r] = record
      <3> HIDE DEF record
      <3> QED  BY <1>4, <2>1, <2>4, <2>5
    <2>7. Refuses(r)
      BY <1>2, <2>1, <2>5, <2>6 DEF Refuses
    <2> QED  BY <2>6, <2>7
  <1> QED  BY <1>5, <1>6

(* Every step keeps the types, and is quiet or one of the four.            *)
LEMMA StepKinds ==
  ASSUME LogInv, [Next]_vars
  PROVE  /\ TypeOK'
         /\ \/ Quiet
            \/ \E r \in Runs :
                 /\ OthersStay(r)
                 /\ Prepares(r) \/ Begins(r) \/ Accepts(r) \/ Refuses(r)
  <1>1. CASE StopSession \/ DeleteSession \/ Restart
    BY <1>1, QuietSession
  <1>2. ASSUME NEW r \in Runs,
               (\E kind \in Kinds : OpenStream(r, kind)) \/ StartInBackground(r)
        PROVE  TypeOK' /\ Quiet
    BY <1>2, QuietStart
  <1>3. ASSUME NEW r \in Runs,
               \/ ChatAnswer(r) \/ MakePlan(r) \/ FailEarly(r) \/ Answer(r)
               \/ Block(r) \/ Fail(r) \/ Disconnect(r) \/ ResetRead(r)
               \/ ResetWrite(r) \/ CutOff(r)
        PROVE  TypeOK' /\ Quiet
    BY <1>3, QuietRun
  <1>4. CASE UNCHANGED vars
    BY <1>4 DEF vars, LogInv, TypeOK, Quiet
  <1> QED
    BY <1>1, <1>2, <1>3, <1>4, PrepareType, BeginType, StepType DEF Next

(* The bookkeeping of plans and events is kept by every step.              *)
LEMMA LogNext == LogInv /\ [Next]_vars => LogInv'
  <1> SUFFICES ASSUME LogInv, [Next]_vars PROVE LogInv'
    OBVIOUS
  <1>1. TypeOK'
    BY StepKinds
  <1>2. /\ Len(log) \in Nat /\ DOMAIN log = 1..Len(log)
        /\ \A i \in 1..Len(log) : log[i] \in Event
        /\ run \in [Runs -> Record] /\ run' \in [Runs -> Record]
        /\ \A q \in Runs : run[q].plan \in 0..Len(log)
    BY <1>1, LogPositions DEF LogInv, TypeOK
  <1>3. CASE Quiet
    <2>1. ASSUME UNCHANGED log
          PROVE  LogInv'
      BY <1>1, <1>3, <2>1
      DEF Quiet, LogInv, PlansHaveSteps, PlansHeld, EventsHaveAuthors,
          NothingDoneEarly, Early
    <2>2. ASSUME NEW e \in Event, log' = Append(log, e),
                 e.type # "step_completed",
                 e.type = "plan_created" => e.index \in PlanSteps,
                 e.run \in Runs => run[e.run].place = "executing"
          PROVE  LogInv'
      <3>1. /\ DOMAIN log' = 1..(Len(log) + 1)
            /\ \A i \in 1..Len(log) : log'[i] = log[i]
            /\ log'[Len(log) + 1] = e
        BY <2>2, LogGrows DEF LogInv
      <3>2. PlansHaveSteps'
        BY <1>2, <2>2, <3>1 DEF LogInv, PlansHaveSteps
      <3>3. PlansHeld'
        BY <1>2, <1>3, <3>1 DEF LogInv, PlansHeld, Quiet
      <3>4. EventsHaveAuthors'
        <4>1. ASSUME NEW q \in Runs, run[q].place \notin Early, run[q].plan # 0
              PROVE  run'[q].place \notin Early /\ run'[q].plan # 0
          BY <1>3, <4>1 DEF Quiet
        <4>2. ASSUME NEW i \in 1..Len(log), log[i].run \in Runs
              PROVE  run'[log[i].run].place \notin Early /\ run'[log[i].run].plan # 0
          <5>1. /\ run[log[i].run].place \notin Early
                /\ run[log[i].run].plan # 0
            BY <1>2, <4>2 DEF LogInv, EventsHaveAuthors
          <5> QED  BY <4>1, <4>2, <5>1
        <4>3. ASSUME e.run \in Runs
              PROVE  run'[e.run].place \notin Early /\ run'[e.run].plan # 0
          <5>1. run[e.run].place = "executing" /\ run[e.run].plan # 0
            BY <2>2, <4>3 DEF LogInv, PlansHeld
          <5>2. run[e.run].place \notin Early
            BY <5>1 DEF Early
          <5> QED  BY <4>1, <4>3, <5>1, <5>2
        <4> QED  BY <1>2, <2>2, <3>1, <4>2, <4>3 DEF LogInv, EventsHaveAuthors
      <3>5. NothingDoneEarly'
        BY <1>3 DEF LogInv, NothingDoneEarly, Quiet, Early
      <3> QED  BY <1>1, <3>2, <3>3, <3>4, <3>5 DEF LogInv
    <2> QED  BY <1>3, <2>1, <2>2 DEF Quiet
  <1>4. ASSUME NEW r \in Runs, OthersStay(r),
               Prepares(r) \/ Begins(r) \/ Refuses(r)
        PROVE  LogInv'
    <2>1. UNCHANGED log
      BY <1>4 DEF Prepares, Begins, Refuses
    <2>2. /\ run'[r].plan # 0 => log[run'[r].plan].type = "plan_created"
          /\ run'[r].plan # 0
      <3>1. CASE Prepares(r)
        BY <1>2, <3>1 DEF Prepares, Positions
      <3>2. CASE Begins(r) \/ Refuses(r)
        BY <3>2 DEF Begins, Refuses, LogInv, PlansHeld
      <3> QED  BY <1>4, <3>1, <3>2
    <2>3. PlansHaveSteps' /\ PlansHeld'
      BY <1>4, <2>1, <2>2 DEF LogInv, PlansHaveSteps, PlansHeld, OthersStay
    <2>4. EventsHaveAuthors'
      <3>1. run[r].place \notin Early => run'[r].place \notin Early
        BY <1>4 DEF Prepares, Begins, Refuses, Early
      <3> QED  BY <1>4, <2>1, <2>2, <3>1
               DEF LogInv, EventsHaveAuthors, OthersStay
    <2>5. NothingDoneEarly'
      BY <1>4 DEF LogInv, NothingDoneEarly, OthersStay, Prepares, Begins,
                  Refuses, Early
    <2> QED  BY <1>1, <2>3, <2>4, <2>5 DEF LogInv
  <1>5. ASSUME NEW r \in Runs, OthersStay(r), Accepts(r)
        PROVE  LogInv'
    <2> DEFINE e == [type |-> "step_completed", run |-> r, index |-> run[r].next + 1]
    <2>1. /\ e \in Event /\ log' = Append(log, e)
          /\ e.type = "step_completed" /\ e.run = r
      BY <1>2, <1>5, EventType DEF Accepts, Record
    <2> HIDE DEF e
    <2>2. /\ DOMAIN log' = 1..(Len(log) + 1)
          /\ \A i \in 1..Len(log) : log'[i] = log[i]
          /\ log'[Len(log) + 1] = e
      BY <2>1, LogGrows DEF LogInv
    <2>3. /\ run[r].place = "executing" /\ run'[r].place = "executing"
          /\ run'[r].plan = run[r].plan /\ run[r].plan # 0
      BY <1>5 DEF Accepts, LogInv, PlansHeld
    <2>4. PlansHaveSteps' /\ PlansHeld'
      BY <1>2, <1>5, <2>1, <2>2, <2>3
      DEF LogInv, PlansHaveSteps, PlansHeld, OthersStay
    <2>5. EventsHaveAuthors'
      BY <1>2, <1>5, <2>1, <2>2, <2>3
      DEF LogInv, EventsHaveAuthors, OthersStay, Early
    <2>6. NothingDoneEarly'
      BY <1>5, <2>3 DEF LogInv, NothingDoneEarly, OthersStay, Early
    <2> QED  BY <1>1, <2>4, <2>5, <2>6 DEF LogInv
  <1> QED  BY <1>3, <1>4, <1>5, StepKinds

(* Every variable of a session keeps its type, and a run's plan is always  *)
(* in the log, whatever runs overlap.                                      *)
THEOREM TypeCorrect == Spec => []TypeOK
  <1>1. LogInv => TypeOK
    BY DEF LogInv
  <1> QED  BY <1>1, LogInit, LogNext, PTL DEF Spec

-----------------------------------------------------------------------------
(* Resuming a plan *)

(* The steps a run stands behind, and the steps it completed, have been    *)
(* completed by some run of its plan.  A run completes more steps than it  *)
(* stands behind only after the chain refused its last one, when all of    *)
(* them are done.                                                          *)
AllDone(r) == \A k \in 1..Steps(r) : StepDone(run[r].plan, k)
DoneUpTo(r, n) == \A k \in 1..Steps(r) : k <= n => StepDone(run[r].plan, k)

Resumable ==
  \A r \in Runs :
    run[r].plan # 0 /\ run[r].faithful =>
      /\ DoneUpTo(r, run[r].next)
      /\ Cardinality(CompletedBy(r)) <= run[r].next \/ AllDone(r)

ResumeInv == LogInv /\ Resumable

(* No run has done anything at the start. *)
LEMMA ResumeInit == Init => ResumeInv
  BY LogInit DEF Init, ResumeInv, Resumable

(* The invariant tells what is promised. *)
LEMMA ResumeImplies == ResumeInv => ResumeSkipsNothing
  <1> SUFFICES ASSUME ResumeInv, NEW r \in Runs, Begun(r), run[r].faithful,
                      NEW k \in 1..run[r].next, k <= Steps(r)
               PROVE  StepDone(run[r].plan, k)
    BY DEF ResumeSkipsNothing
  <1>1. run[r].plan # 0 /\ run[r].next \in Nat
    BY DEF Begun, ResumeInv, LogInv, TypeOK, Record
  <1>2. Steps(r) \in Nat
    BY <1>1, PlanOfRun DEF ResumeInv
  <1> QED  BY <1>1, <1>2 DEF ResumeInv, Resumable, DoneUpTo

(* A completed step stays completed: its run has its plan for good.        *)
LEMMA DoneStays ==
  ASSUME LogInv, NEW p, NEW k,
         UNCHANGED log \/ \E e \in Event : log' = Append(log, e),
         \A q \in Runs : run[q].place \notin Early => run'[q].plan = run[q].plan
  PROVE  StepDone(p, k) => StepDone(p, k)'
  <1> SUFFICES ASSUME StepDone(p, k) PROVE StepDone(p, k)'
    OBVIOUS
  <1>1. PICK i \in Positions("step_completed") :
          log[i].index = k /\ run[log[i].run].plan = p
    BY DEF StepDone
  <1>2. i \in DOMAIN log /\ log[i].type = "step_completed"
    BY <1>1 DEF Positions
  <1>3. log[i].run \in Runs
    BY <1>2 DEF LogInv, EventsHaveAuthors
  <1>4. run[log[i].run].place \notin Early
    BY <1>2, <1>3 DEF LogInv, EventsHaveAuthors
  <1>5. run'[log[i].run].plan = p
    BY <1>1, <1>3, <1>4
  <1>6. i \in DOMAIN log' /\ log'[i] = log[i]
    <2>1. Len(log) \in Nat /\ DOMAIN log = 1..Len(log)
      BY LogPositions DEF LogInv
    <2>2. CASE UNCHANGED log
      BY <1>2, <2>2
    <2>3. ASSUME NEW e \in Event, log' = Append(log, e)
          PROVE  i \in DOMAIN log' /\ log'[i] = log[i]
      <3>1. /\ DOMAIN log' = 1..(Len(log) + 1)
            /\ \A j \in 1..Len(log) : log'[j] = log[j]
        BY <2>3, LogGrows DEF LogInv
      <3> QED  BY <1>2, <2>1, <3>1
    <2> QED  BY <2>2, <2>3
  <1> QED  BY <1>1, <1>2, <1>5, <1>6 DEF StepDone, Positions

(* What a run has completed does not change by other events.               *)
LEMMA CompletedStays ==
  ASSUME LogInv, NEW r,
         \/ UNCHANGED log
         \/ \E e \in Event : /\ log' = Append(log, e)
                             /\ e.type # "step_completed" \/ e.run # r
  PROVE  CompletedBy(r)' = CompletedBy(r)
  <1>1. CASE UNCHANGED log
    BY <1>1 DEF CompletedBy, Positions
  <1>2. ASSUME NEW e \in Event, log' = Append(log, e),
               e.type # "step_completed" \/ e.run # r
        PROVE  CompletedBy(r)' = CompletedBy(r)
    <2>1. Len(log) \in Nat /\ DOMAIN log = 1..Len(log)
      BY LogPositions DEF LogInv
    <2>2. /\ DOMAIN log' = 1..(Len(log) + 1)
          /\ \A i \in 1..Len(log) : log'[i] = log[i]
          /\ log'[Len(log) + 1] = e
      BY <1>2, LogGrows DEF LogInv
    <2>3. \A i : i \in CompletedBy(r)' <=>
                  /\ i \in DOMAIN log'
                  /\ log'[i].type = "step_completed" /\ log'[i].run = r
      BY DEF CompletedBy, Positions
    <2>4. \A i : i \in CompletedBy(r) <=>
                  /\ i \in DOMAIN log
                  /\ log[i].type = "step_completed" /\ log[i].run = r
      BY DEF CompletedBy, Positions
    <2>5. \A i : i \in 1..(Len(log) + 1) <=> i \in 1..Len(log) \/ i = Len(log) + 1
      BY <2>1
    <2>6. \A i \in 1..Len(log) : i \in CompletedBy(r)' <=> i \in CompletedBy(r)
      BY <2>1, <2>2, <2>3, <2>4, <2>5
    <2>7. Len(log) + 1 \notin CompletedBy(r)'
      BY <1>2, <2>2, <2>3
    <2>8. \A i : i \in CompletedBy(r)' => i \in 1..Len(log)
      BY <2>2, <2>3, <2>5, <2>7
    <2>9. \A i : i \in CompletedBy(r) => i \in 1..Len(log)
      BY <2>1, <2>4
    <2> QED  BY <2>6, <2>8, <2>9
  <1> QED  BY <1>1, <1>2

(* The steps of a held plan stay as many. *)
LEMMA StepsStay ==
  ASSUME LogInv, NEW r \in Runs, run[r].plan # 0, run'[r].plan = run[r].plan,
         UNCHANGED log \/ \E e \in Event : log' = Append(log, e)
  PROVE  Steps(r)' = Steps(r)
  <1>1. run[r].plan \in 1..Len(log)
    BY PlanOfRun
  <1>2. CASE UNCHANGED log
    BY <1>2 DEF Steps
  <1>3. ASSUME NEW e \in Event, log' = Append(log, e)
        PROVE  Steps(r)' = Steps(r)
    BY <1>1, <1>3, LogGrows DEF LogInv, Steps
  <1> QED  BY <1>2, <1>3

(* A run that the step leaves as it is stays resumable.                    *)
LEMMA ResumableStays ==
  ASSUME ResumeInv, NEW r \in Runs, run[r].plan # 0, run[r].faithful,
         run'[r].plan = run[r].plan, run'[r].next = run[r].next,
         \A q \in Runs : run[q].place \notin Early => run'[q].plan = run[q].plan,
         \/ UNCHANGED log
         \/ \E e \in Event : /\ log' = Append(log, e)
                             /\ e.type # "step_completed" \/ e.run # r
  PROVE  /\ DoneUpTo(r, run[r].next)'
         /\ Cardinality(CompletedBy(r))' <= run'[r].next \/ AllDone(r)'
  <1> DEFINE p == run[r].plan
  <1>1. UNCHANGED log \/ \E e \in Event : log' = Append(log, e)
    OBVIOUS
  <1>2. Steps(r)' = Steps(r)
    BY <1>1, StepsStay DEF ResumeInv
  <1>3. ASSUME NEW k \in 1..Steps(r), StepDone(run[r].plan, k)
        PROVE  StepDone(run[r].plan, k)'
    <2>1. PICK plan : plan = run[r].plan
      OBVIOUS
    <2>2. StepDone(plan, k)'
      BY <1>1, <1>3, <2>1, DoneStays DEF ResumeInv
    <2> QED  BY <2>1, <2>2 DEF StepDone
  <1>4. CompletedBy(r)' = CompletedBy(r)
    BY CompletedStays DEF ResumeInv
  <1>5. DoneUpTo(r, run[r].next)'
    BY <1>2, <1>3 DEF ResumeInv, Resumable, DoneUpTo
  <1>6. AllDone(r) => AllDone(r)'
    BY <1>2, <1>3 DEF AllDone
  <1> QED  BY <1>4, <1>5, <1>6 DEF ResumeInv, Resumable

(* A run that has not begun has completed nothing. *)
LEMMA EarlyNothing ==
  ASSUME LogInv, NEW r \in Runs, run[r].place \in Early
  PROVE  CompletedBy(r) = {} /\ Cardinality(CompletedBy(r)) = 0 /\ run[r].next = 0
  <1>1. CompletedBy(r) = {}
    BY DEF LogInv, EventsHaveAuthors, CompletedBy, Positions
  <1> QED  BY <1>1, FS_EmptySet DEF LogInv, NothingDoneEarly

(* Every step keeps every run of a plan resumable. *)
LEMMA ResumeNext == ResumeInv /\ [Next]_vars => ResumeInv'
  <1> SUFFICES ASSUME ResumeInv, [Next]_vars PROVE ResumeInv'
    OBVIOUS
  <1>0. LogInv /\ LogInv'
    BY LogNext DEF ResumeInv
  <1>1. \A q \in Runs : run[q] \in Record
    BY <1>0 DEF LogInv, TypeOK
  <1> SUFFICES ASSUME NEW q \in Runs, run'[q].plan # 0, run'[q].faithful
               PROVE  /\ DoneUpTo(q, run[q].next)'
                      /\ Cardinality(CompletedBy(q))' <= run'[q].next \/ AllDone(q)'
    BY <1>0 DEF ResumeInv, Resumable
  <1>2. CASE Quiet
    <2>1. /\ run'[q].plan = run[q].plan /\ run'[q].next = run[q].next
          /\ run'[q].faithful = run[q].faithful
          /\ \A o \in Runs : run[o].place \notin Early => run'[o].plan = run[o].plan
      BY <1>2 DEF Quiet
    <2>2. \/ UNCHANGED log
          \/ \E e \in Event : /\ log' = Append(log, e)
                              /\ e.type # "step_completed" \/ e.run # q
      BY <1>2 DEF Quiet
    <2> QED  BY <2>1, <2>2, ResumableStays
  <1>3. ASSUME NEW r \in Runs, OthersStay(r),
               Prepares(r) \/ Begins(r) \/ Accepts(r) \/ Refuses(r)
        PROVE  /\ DoneUpTo(q, run[q].next)'
               /\ Cardinality(CompletedBy(q))' <= run'[q].next \/ AllDone(q)'
    <2>1. \A o \in Runs : run[o].place \notin Early => run'[o].plan = run[o].plan
      BY <1>3 DEF OthersStay, Prepares, Begins, Accepts, Refuses, Early
    <2> DEFINE e == [type |-> "step_completed", run |-> r, index |-> run[r].next + 1]
    <2>2. /\ e \in Event /\ e.type = "step_completed"
          /\ e.run = r /\ e.index = run[r].next + 1
      BY <1>1, EventType DEF Record
    <2>3. UNCHANGED log \/ log' = Append(log, e)
      BY <1>3 DEF Prepares, Begins, Accepts, Refuses
    <2>4. Accepts(r) => log' = Append(log, e)
      BY DEF Accepts
    <2> HIDE DEF e
    <2>5. UNCHANGED log \/ \E f \in Event : log' = Append(log, f)
      BY <2>2, <2>3
    <2>6. ASSUME NEW p, NEW k, StepDone(p, k)
          PROVE  StepDone(p, k)'
      BY <1>0, <2>1, <2>5, <2>6, DoneStays
    <2>7. CASE q # r
      <3>1. run'[q] = run[q]
        BY <1>3, <2>7 DEF OthersStay
      <3>2. \/ UNCHANGED log
            \/ \E f \in Event : /\ log' = Append(log, f)
                                /\ f.type # "step_completed" \/ f.run # q
        BY <2>2, <2>3, <2>7
      <3> QED  BY <2>1, <3>1, <3>2, ResumableStays
    <2>8. CASE q = r /\ Prepares(r)
      <3>1. UNCHANGED log /\ run'[q].next = 0 /\ CompletedBy(q) = {}
        BY <1>0, <2>8, EarlyNothing DEF Prepares, Early
      <3>2. CompletedBy(q)' = {}
        BY <1>0, <3>1, CompletedStays
      <3>3. Cardinality(CompletedBy(q))' <= run'[q].next
        BY <3>1, <3>2, FS_EmptySet
      <3>4. Steps(q)' \in Nat
        <4>1. run'[q].plan \in Positions("plan_created")
          BY <2>8 DEF Prepares
        <4>2. Steps(q)' = log[run'[q].plan].index
          BY <3>1 DEF Steps
        <4>3. log[run'[q].plan].index \in PlanSteps
          BY <1>0, <4>1 DEF Positions, LogInv, PlansHaveSteps
        <4> QED  BY <4>2, <4>3
      <3>5. DoneUpTo(q, run[q].next)'
        BY <3>1, <3>4 DEF DoneUpTo
      <3> QED  BY <3>3, <3>5
    <2>9. CASE q = r /\ ~Prepares(r)
      <3>1. run'[q].plan = run[q].plan /\ run[q].plan # 0
        BY <1>3, <2>9 DEF Begins, Accepts, Refuses
      <3>2. Steps(q)' = Steps(q) /\ Steps(q) \in Nat \ {0}
        BY <1>0, <2>5, <3>1, StepsStay, PlanOfRun
      <3> DEFINE p == run[q].plan
      <3>3. \A k : StepDone(run[q].plan, k) => StepDone(run[q].plan, k)'
        <4> SUFFICES ASSUME NEW k, StepDone(run[q].plan, k)
                     PROVE  StepDone(run[q].plan, k)'
          OBVIOUS
        <4>1. PICK plan : plan = run[q].plan
          OBVIOUS
        <4>2. StepDone(plan, k)'
          BY <2>6, <4>1
        <4> QED  BY <3>1, <4>1, <4>2 DEF StepDone
      <3>4. CASE Begins(r)
        <4> DEFINE from == IF run[r].kind = "resume" THEN LastFailedRun ELSE NoRun
        <4>1. /\ UNCHANGED log
              /\ run'[q].next = IF from = NoRun THEN 0 ELSE ResumeStep(from)
              /\ run'[q].faithful =
                   (from = NoRun \/ (run[from].plan = run[q].plan /\ run[from].faithful))
          BY <2>9, <3>4 DEF Begins
        <4>2. Cardinality(CompletedBy(q))' = 0
          <5>1. CompletedBy(q) = {}
            BY <1>0, <2>9, <3>4, EarlyNothing DEF Begins, Early
          <5>2. CompletedBy(q)' = {}
            BY <1>0, <4>1, <5>1, CompletedStays
          <5> QED  BY <5>2, FS_EmptySet
        <4>3. CASE from = NoRun
          BY <3>2, <4>1, <4>2, <4>3 DEF DoneUpTo
        <4>4. CASE from # NoRun
          <5>1. \E i \in FailedRuns : log[i].run = from
            BY <1>0, <4>4, LastFailedIn DEF LogInv
          <5>2. from \in Runs
            BY <1>0, <4>4, <5>1, LogPositions DEF LogInv, Event
          <5>3. run[from].plan = run[q].plan /\ run[from].faithful
            BY <4>1, <4>4
          <5>4. Steps(from) = Steps(q)
            BY <5>3 DEF Steps
          <5>5. /\ DoneUpTo(from, run[from].next)
                /\ Cardinality(CompletedBy(from)) <= run[from].next \/ AllDone(from)
            BY <3>1, <5>2, <5>3 DEF ResumeInv, Resumable
          <5>6. /\ run'[q].next = Cardinality(CompletedBy(from))
                /\ Cardinality(CompletedBy(from)) \in Nat
            BY <1>0, <4>1, <4>4, CompletedCount DEF ResumeStep, LogInv
          <5>7. run[from].next \in Nat
            BY <1>1, <5>2 DEF Record
          <5>8. \A k \in 1..Steps(q) :
                  k <= Cardinality(CompletedBy(from)) => StepDone(run[q].plan, k)
            BY <3>2, <5>3, <5>4, <5>5, <5>6, <5>7 DEF DoneUpTo, AllDone
          <5>9. DoneUpTo(q, run[q].next)'
            BY <3>2, <3>3, <5>6, <5>8 DEF DoneUpTo
          <5> QED  BY <4>2, <5>6, <5>9
        <4> QED  BY <4>3, <4>4
      <3>5. CASE Accepts(r)
        <4>1. /\ run'[q].next = run[q].next + 1 /\ run[q].faithful
              /\ run[q].next \in Nat
          BY <1>1, <2>9, <3>5 DEF Accepts, Record
        <4>2. /\ DoneUpTo(q, run[q].next)
              /\ Cardinality(CompletedBy(q)) <= run[q].next \/ AllDone(q)
          BY <3>1, <4>1 DEF ResumeInv, Resumable
        <4>3. /\ Len(log) \in Nat /\ DOMAIN log = 1..Len(log)
              /\ DOMAIN log' = 1..(Len(log) + 1)
              /\ \A i \in 1..Len(log) : log'[i] = log[i]
              /\ log'[Len(log) + 1] = e
          BY <1>0, <2>2, <2>4, <3>5, LogPositions, LogGrows DEF LogInv
        <4>4. StepDone(run[q].plan, run[q].next)'
          <5>1. Len(log) + 1 \in Positions("step_completed")'
            BY <2>2, <4>3 DEF Positions
          <5>2. /\ log'[Len(log) + 1].index = run'[q].next
                /\ run'[log'[Len(log) + 1].run].plan = run'[q].plan
            BY <2>2, <2>9, <4>1, <4>3
          <5>3. PICK i : i = Len(log) + 1
            OBVIOUS
          <5>4. \E j \in Positions("step_completed")' :
                  log'[j].index = run'[q].next /\ run'[log'[j].run].plan = run'[q].plan
            BY <5>1, <5>2
          <5>5. PICK k : k = run'[q].next
            OBVIOUS
          <5>6. StepDone(run[q].plan, k)'
            BY <5>4, <5>5 DEF StepDone
          <5> QED  BY <5>5, <5>6
        <4>5. DoneUpTo(q, run[q].next)'
          BY <3>2, <3>3, <4>1, <4>2, <4>4 DEF DoneUpTo
        <4>6. /\ Cardinality(CompletedBy(q)) \in Nat
              /\ Cardinality(CompletedBy(q)') \in Nat
              /\ Cardinality(CompletedBy(q)') <= Cardinality(CompletedBy(q)) + 1
          <5>1. CompletedBy(q)' = CompletedBy(q) \cup {Len(log) + 1}
            BY <2>2, <2>9, <4>3 DEF CompletedBy, Positions
          <5>2. CompletedBy(q) \in SUBSET (1..Len(log))
            BY <1>0, CompletedCount DEF LogInv
          <5> QED  BY <4>3, <5>1, <5>2, SelectionGrows
        <4>7. AllDone(q) => AllDone(q)'
          BY <3>1, <3>2, <3>3 DEF AllDone
        <4> QED  BY <4>1, <4>2, <4>5, <4>6, <4>7
      <3>6. CASE Refuses(r)
        <4>1. /\ run[q].next = Steps(q) /\ run'[q].next = Steps(q) - 1
              /\ run[q].faithful
          BY <2>9, <3>6 DEF Refuses
        <4>2. AllDone(q)
          BY <3>1, <3>2, <4>1 DEF ResumeInv, Resumable, DoneUpTo, AllDone
        <4>3. AllDone(q)'
          BY <3>1, <3>2, <3>3, <4>2 DEF AllDone
        <4> QED  BY <4>3 DEF AllDone, DoneUpTo
      <3> QED  BY <1>3, <2>9, <3>4, <3>5, <3>6
    <2> QED  BY <2>7, <2>8, <2>9
  <1> QED  BY <1>0, <1>2, <1>3, StepKinds

(* However often a plan is resumed and refused, a faithful run passes over *)
(* no step that no run of the plan completed.                              *)
THEOREM ResumeIsSound == Spec => []ResumeSkipsNothing
  BY ResumeInit, ResumeNext, ResumeImplies, PTL DEF Spec

-----------------------------------------------------------------------------
(* Who owns a running status *)

(* A run that will write the status, or leave through the finally that     *)
(* resets it.  A background run owns nothing before it has begun: it may   *)
(* end then without touching the status.                                   *)
Owner(r) ==
  \/ run[r].place \in {"executing", "leaving", "resetting"}
  \/ run[r].place \in {"opened", "preparing", "prepared"} /\ IsStream(r)

Owned ==
  status = "running" /\ ~deleted => orphaned \/ \E r \in Runs : Owner(r)

OwnedInv == LogInv /\ Owned

(* A session is idle at the start. *)
LEMMA OwnedInit == Init => OwnedInv
  BY LogInit DEF Init, OwnedInv, Owned

(* An owner is a run in progress. *)
LEMMA OwnedImplies == OwnedInv => RunningIsOwned
  BY DEF OwnedInv, Owned, RunningIsOwned, Owner, Live

(* A step that sets another status, or finds the session deleted.          *)
LEMMA NotRunning ==
  ASSUME NEW s \in SessionStatus \ {"running"}, SetStatus(s), deleted' = deleted
  PROVE  Owned'
  BY DEF SetStatus, Owned

(* A step of a run that stays an owner, if it was one.                     *)
LEMMA OwnerStays ==
  ASSUME Owned, NEW r \in Runs, OthersStay(r), Owner(r) => Owner(r)',
         UNCHANGED <<status, deleted, orphaned>>
  PROVE  Owned'
  BY DEF Owned, Owner, IsStream, OthersStay

(* Where the record of a run goes, and that no other run's changes.        *)
LEMMA OwnMoves ==
  ASSUME LogInv, NEW r \in Runs
  PROVE  /\ \A p : GoTo(r, p) => /\ OthersStay(r)
                                 /\ run'[r].place = p
                                 /\ run'[r].kind = run[r].kind
         /\ Leave(r) => /\ OthersStay(r)
                        /\ IsStream(r) => run'[r].place = "leaving"
         /\ End(r) => OthersStay(r)
  <1>1. run \in [Runs -> Record] /\ run[r] \in Record
    BY Movements DEF LogInv, TypeOK
  <1>2. ASSUME NEW p, GoTo(r, p)
        PROVE  /\ OthersStay(r)
               /\ run'[r].place = p /\ run'[r].kind = run[r].kind
    BY <1>1, <1>2 DEF GoTo, OthersStay, Record
  <1>3. ASSUME Leave(r)
        PROVE  OthersStay(r) /\ (IsStream(r) => run'[r].place = "leaving")
    BY <1>1, <1>3 DEF Leave, OthersStay, Ended, Record
  <1>4. ASSUME End(r) PROVE OthersStay(r)
    BY <1>1, <1>4 DEF End, OthersStay
  <1> QED  BY <1>2, <1>3, <1>4

(* Every step leaves a running status with an owner, or sets another.      *)
LEMMA OwnedNext == OwnedInv /\ [Next]_vars => OwnedInv'
  <1> SUFFICES ASSUME OwnedInv, [Next]_vars PROVE Owned'
    BY LogNext DEF OwnedInv
  <1>0. /\ LogInv /\ Owned
        /\ run \in [Runs -> Record] /\ \A r \in Runs : run[r] \in Record
    BY Movements DEF OwnedInv, LogInv, TypeOK
  <1>1. CASE StopSession
    BY <1>1, NotRunning DEF StopSession, SessionStatus
  <1>2. CASE DeleteSession
    BY <1>2 DEF DeleteSession, Owned
  <1>3. CASE Restart
    BY <1>3 DEF Restart, Owned
  <1>4. ASSUME NEW r \in Runs, NEW kind \in Kinds, OpenStream(r, kind)
        PROVE  Owned'
    <2>1. CASE deleted
      BY <1>4, <2>1 DEF OpenStream, Owned
    <2>2. CASE ~deleted
      <3>1. run'[r] = [run[r] EXCEPT !.kind = kind,
                                     !.place = IF kind = "resume" THEN "preparing"
                                               ELSE "opened"]
        BY <1>0, <1>4, <2>2 DEF OpenStream
      <3>2. /\ run'[r].kind = kind /\ kind # "background"
            /\ run'[r].place \in {"preparing", "opened"}
        BY <1>0, <1>4, <3>1 DEF OpenStream, Record
      <3>3. Owner(r)'
        BY <3>2 DEF Owner, IsStream
      <3> QED  BY <3>3 DEF Owned
    <2> QED  BY <2>1, <2>2
  <1>5. ASSUME NEW r \in Runs, StartInBackground(r)
        PROVE  Owned'
    <2>1. OthersStay(r) /\ ~Owner(r)
      BY <1>0, <1>5 DEF StartInBackground, OthersStay, New, Owner
    <2> QED  BY <1>0, <1>5, <2>1, OwnerStays DEF StartInBackground, KeepStatus
  <1>6. ASSUME NEW r \in Runs,
               \/ ChatAnswer(r) \/ Answer(r) \/ Block(r) \/ Fail(r)
               \/ ResetWrite(r)
        PROVE  Owned'
    BY <1>6, NotRunning
    DEF ChatAnswer, Answer, Block, Fail, ResetWrite, SessionStatus
  <1>7. ASSUME NEW r \in Runs, FailEarly(r)
        PROVE  Owned'
    <2>1. CASE IsStream(r)
      BY <1>7, <2>1, NotRunning DEF FailEarly, SessionStatus
    <2>2. CASE ~IsStream(r)
      <3>1. OthersStay(r) /\ ~Owner(r)
        BY <1>0, <1>7, <2>2, OwnMoves DEF FailEarly, Owner
      <3> QED  BY <1>0, <1>7, <2>2, <3>1, OwnerStays DEF FailEarly, KeepStatus
    <2> QED  BY <2>1, <2>2
  <1>8. ASSUME NEW r \in Runs, MakePlan(r)
        PROVE  Owned'
    <2>1. /\ OthersStay(r)
          /\ run'[r].place = "preparing" /\ run'[r].kind = run[r].kind
          /\ run[r].kind = "pipeline"
      BY <1>0, <1>8, OwnMoves DEF MakePlan
    <2>2. Owner(r)'
      BY <2>1 DEF Owner, IsStream
    <2> QED  BY <1>0, <1>8, <2>1, <2>2, OwnerStays DEF MakePlan, KeepStatus
  <1>9. ASSUME NEW r \in Runs, Prepare(r)
        PROVE  Owned'
    <2>1. /\ OthersStay(r) /\ run[r].place = "preparing"
          /\ run'[r].place = "prepared" /\ run'[r].kind = run[r].kind
      BY <1>0, <1>9 DEF Prepare, OthersStay, At, Record
    <2>2. Owner(r) => Owner(r)'
      BY <2>1 DEF Owner, IsStream
    <2> QED  BY <1>0, <1>9, <2>1, <2>2, OwnerStays DEF Prepare, KeepStatus
  <1>10. ASSUME NEW r \in Runs, Begin(r)
         PROVE  Owned'
    <2>1. run'[r].place = "executing"
      BY <1>0, <1>10, BeginType DEF Begins
    <2> QED  BY <2>1 DEF Owned, Owner
  <1>11. ASSUME NEW r \in Runs, AcceptStep(r) \/ RefuseResult(r)
         PROVE  Owned'
    <2>1. OthersStay(r) /\ run'[r].place = "executing"
      BY <1>0, <1>11, StepType DEF Accepts, Refuses
    <2> QED  BY <2>1 DEF Owned, Owner
  <1>12. ASSUME NEW r \in Runs, Disconnect(r)
         PROVE  Owned'
    <2>1. run'[r].place = "leaving"
      BY <1>0, <1>12, OwnMoves DEF Disconnect
    <2> QED  BY <2>1 DEF Owned, Owner
  <1>13. ASSUME NEW r \in Runs, ResetRead(r)
         PROVE  Owned'
    <2>1. CASE ~deleted /\ status = "running"
      <3>1. run'[r].place = "resetting"
        BY <1>0, <1>13, <2>1, OwnMoves DEF ResetRead
      <3> QED  BY <3>1 DEF Owned, Owner
    <2>2. CASE deleted \/ status # "running"
      BY <1>13, <2>2 DEF ResetRead, KeepStatus, Owned
    <2> QED  BY <2>1, <2>2
  <1>14. ASSUME NEW r \in Runs, CutOff(r)
         PROVE  Owned'
    BY <1>14 DEF CutOff, Owned
  <1>15. CASE UNCHANGED vars
    BY <1>0, <1>15 DEF vars, Owned, Owner, IsStream
  <1> QED
    BY <1>1, <1>2, <1>3, <1>4, <1>5, <1>6, <1>7, <1>8, <1>9, <1>10, <1>11,
       <1>12, <1>13, <1>14, <1>15 DEF Next

(* Whatever streams and background executions overlap, stop and            *)
(* disconnect, a session left running has a run in progress or lost one    *)
(* without its clean-up.                                                   *)
THEOREM RunningHasOwner == Spec => []RunningIsOwned
  BY OwnedInit, OwnedNext, OwnedImplies, PTL DEF Spec
=============================================================================
