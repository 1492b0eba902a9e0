------------------------ MODULE StoreServices_proofs ------------------------
(***************************************************************************)
(* Proofs about the services that keep something: the invocations of       *)
(* tools, the versions of skills, the settings, the memories and the       *)
(* knowledge bases, and about what of it a context is put together from.   *)
(***************************************************************************)
EXTENDS StoreServices, ProofLemmas, Sequences, SequenceTheorems

-----------------------------------------------------------------------------
(* ToolCalls.  A slot is a tool with a key.  The row of a slot is inserted *)
(* once, by the call that then works on it, and stays `running' as long as *)
(* that call has not finished.                                             *)
Slots == Tools \X Keys

Working(c) == Tool!Keyed(c) /\ call[c].place \in {"invoke", "running", "finish"}
Primary(c) == <<call[c].primary, call[c].key>>

CallSound(c) ==
  /\ call[c].outcome \in Tool!Outcomes \cup {"none"}
  /\ call[c].place = "finish" => call[c].outcome \in Tool!Outcomes
  /\ call[c].place # "over" => call[c].answer = "none"
  /\ call[c].place = "new" => \A r \in Slots : started[r][c] = 0
  /\ \A r \in Slots : started[r][c] > 0 => r \in {Tool!RowOf(c), Primary(c)}
  /\ Tool!Keyed(c) /\ call[c].place \in {"lookup", "record"} =>
       started[Tool!RowOf(c)][c] = 0
  /\ Working(c) => row[Tool!RowOf(c)] = [status |-> "running", hash |-> call[c].hash]
  /\ Working(c) /\ call[c].place # "invoke" => started[Tool!RowOf(c)][c] > 0
  /\ Working(c) /\ call[c].place = "invoke" =>
       /\ started[Tool!RowOf(c)][c] <= call[c].attempt
       /\ call[c].tool \notin Idempotent => started[Tool!RowOf(c)][c] = 0
  /\ Working(c) /\ call[c].place = "running" =>
       started[Tool!RowOf(c)][c] <= call[c].attempt + 1
  /\ call[c].place \in {"invoke", "running"} /\ call[c].tool \in Risky => call[c].approved
  /\ \A t \in Tools, k \in Keys :
       /\ t \notin Idempotent => started[<<t, k>>][c] <= 1
       /\ t \in Risky /\ started[<<t, k>>][c] > 0 => call[c].approved

Deduplicated(c) ==
  call[c].answer = "deduplicated" =>
    /\ Tool!RowOf(c) \in Slots
    /\ row[Tool!RowOf(c)].status = "succeeded"
    /\ \E d \in Calls \ {c} : /\ started[Tool!RowOf(c)][d] > 0
                              /\ call[d].hash = call[c].hash

Holds(c, r) == started[r][c] > 0 \/ (Working(c) /\ Tool!RowOf(c) = r)

SlotSound(r) ==
  /\ \A c \in Calls : Holds(c, r) => row[r] # Tool!NoRow
  /\ \A c, d \in Calls : Holds(c, r) /\ Holds(d, r) => c = d
  /\ row[r].status = "succeeded" =>
       \E d \in Calls : started[r][d] > 0 /\ call[d].hash = row[r].hash

ToolInv ==
  /\ Tool!TypeOK
  /\ \A c \in Calls : CallSound(c) /\ Deduplicated(c)
  /\ \A r \in Slots : SlotSound(r)

(* Before the first request, no row and no handler exists.                 *)
LEMMA ToolInit == Tool!Init => ToolInv
<1> SUFFICES ASSUME Tool!Init PROVE ToolInv
  OBVIOUS
<1>1. PICK tool \in Tools, hash \in Hashes :
        tool = (CHOOSE t \in Tools : TRUE) /\ hash = CHOOSE h \in Hashes : TRUE
  BY StoreAssumption
<1>2. FALSE \in BOOLEAN /\ 0 \in 0..MaxRetries /\ 0 \in 0..(MaxRetries + 1) /\ 0 \in 0..MaxCrashes
  BY StoreAssumption
<1>3. \A c \in Calls : call[c] =
       [place |-> "new", primary |-> tool, tool |-> tool, key |-> None, hash |-> hash,
        approved |-> FALSE, attempt |-> 0, outcome |-> "none", answer |-> "none"]
  BY <1>1 DEF Tool!Init
<1>4. \A r \in Slots : row[r] = Tool!NoRow /\ \A c \in Calls : started[r][c] = 0
  BY DEF Tool!Init, Slots
<1>5. Tool!TypeOK
  <2>1. row \in [Tools \X Keys -> Tool!Rows \cup {Tool!NoRow}]
    BY DEF Tool!Init
  <2>2. "none" \in Tool!Answers /\ "new" \in Tool!Places /\ None \in Keys \cup {None}
    BY DEF Tool!Answers, Tool!Places
  <2>5. ASSUME NEW c \in Calls PROVE call[c] \in Tool!Call
    <3>1. [place |-> "new", primary |-> tool, tool |-> tool, key |-> None, hash |-> hash,
           approved |-> FALSE, attempt |-> 0, outcome |-> "none", answer |-> "none"]
            \in Tool!Call
      BY <1>2, <2>2 DEF Tool!Call
    <3> QED
      BY <1>3, <3>1
  <2>3. call \in [Calls -> Tool!Call]
    BY <2>5 DEF Tool!Init
  <2>4. started \in [Tools \X Keys -> [Calls -> 0..(MaxRetries + 1)]]
    BY <1>2 DEF Tool!Init
  <2> QED
    BY <1>2, <2>1, <2>3, <2>4 DEF Tool!Init, Tool!TypeOK
<1>6. ASSUME NEW c \in Calls PROVE CallSound(c) /\ Deduplicated(c)
  BY <1>3, <1>4 DEF CallSound, Deduplicated, Working, Tool!Keyed, Tool!Outcomes, Slots
<1>7. ASSUME NEW r \in Slots PROVE SlotSound(r)
  <2>1. \A c \in Calls : ~Holds(c, r)
    BY <1>3, <1>4 DEF Holds, Working
  <2>2. row[r].status = "none"
    BY <1>4 DEF Tool!NoRow
  <2> QED
    BY <2>1, <2>2 DEF SlotSound
<1> QED
  BY <1>5, <1>6, <1>7 DEF ToolInv

(* What a step of one call leaves to the others: their calls, what they    *)
(* have started, and every row that is there, but the one it works on.     *)
ToolFrame(c) ==
  /\ \A e \in Calls \ {c} : call'[e] = call[e]
  /\ \A r \in Slots :
       /\ \A e \in Calls \ {c} : started'[r][e] = started[r][e]
       /\ started'[r][c] \in Nat /\ started'[r][c] >= started[r][c]
       /\ started[r][c] > 0 => call'[c].hash = call[c].hash
       /\ \/ row'[r] = row[r]
          \/ row[r] = Tool!NoRow
          \/ Working(c) /\ r = Tool!RowOf(c)

(* A call with a key is about a slot.                                      *)
LEMMA RowOfIsSlot ==
  ASSUME Tool!TypeOK, NEW c \in Calls
  PROVE  /\ Tool!Keyed(c) => Tool!RowOf(c) \in Slots
         /\ call[c] \in Tool!Call
BY DEF Tool!TypeOK, Tool!Call, Tool!Keyed, Tool!RowOf, Slots

(* A row is changed by its holder alone.                                   *)
LEMMA HeldRowKept ==
  ASSUME ToolInv, NEW c \in Calls, ToolFrame(c), NEW e \in Calls \ {c},
         NEW r \in Slots, Holds(e, r)
  PROVE  row'[r] = row[r]
<1>1. SlotSound(r)
  BY DEF ToolInv
<1>2. row[r] # Tool!NoRow
  BY <1>1 DEF SlotSound
<1>3. ~(Working(c) /\ r = Tool!RowOf(c))
  <2>1. ~Holds(c, r)
    BY <1>1 DEF SlotSound
  <2> QED
    BY <2>1 DEF Holds
<1> QED
  BY <1>2, <1>3 DEF ToolFrame

(* The other calls stay sound.                                             *)
LEMMA OthersSound ==
  ASSUME ToolInv, NEW c \in Calls, ToolFrame(c), NEW e \in Calls \ {c}
  PROVE  CallSound(e)' /\ Deduplicated(e)'
<1>1. CallSound(e) /\ Deduplicated(e) /\ Tool!TypeOK
  BY DEF ToolInv
<1>2. call'[e] = call[e] /\ \A r \in Slots : started'[r][e] = started[r][e]
  BY DEF ToolFrame
<1>3. /\ Tool!RowOf(e)' = Tool!RowOf(e) /\ Primary(e)' = Primary(e)
      /\ Working(e)' = Working(e) /\ Tool!Keyed(e)' = Tool!Keyed(e)
  BY <1>2 DEF Tool!RowOf, Primary, Working, Tool!Keyed
<1>4. Tool!Keyed(e) => Tool!RowOf(e) \in Slots
  BY <1>1, RowOfIsSlot
<1>5. Working(e) => row'[Tool!RowOf(e)] = row[Tool!RowOf(e)]
  <2>1. Working(e) => Holds(e, Tool!RowOf(e)) /\ Tool!RowOf(e) \in Slots
    BY <1>4 DEF Working, Holds
  <2> QED
    BY <2>1, HeldRowKept
<1>6. \A tool \in Tools, key \in Keys : started'[<<tool, key>>][e] = started[<<tool, key>>][e]
  BY <1>2 DEF Slots
<1>7. Tool!Keyed(e) => started'[Tool!RowOf(e)][e] = started[Tool!RowOf(e)][e]
  BY <1>2, <1>4
<1>8. CallSound(e)'
  <2>1. Working(e) => started'[Tool!RowOf(e)][e] = started[Tool!RowOf(e)][e]
    BY <1>7 DEF Working
  <2> QED
    BY <1>1, <1>2, <1>3, <1>5, <1>6, <1>7, <2>1 DEF CallSound
<1>9. Deduplicated(e)'
  <2> SUFFICES ASSUME call[e].answer = "deduplicated" PROVE Deduplicated(e)'
    BY <1>2 DEF Deduplicated
  <2>1. PICK r \in Slots : r = Tool!RowOf(e) /\ row[r].status = "succeeded"
    BY <1>1 DEF Deduplicated
  <2>2. PICK d \in Calls \ {e} : started[r][d] > 0 /\ call[d].hash = call[e].hash
    BY <1>1, <2>1 DEF Deduplicated
  <2>3. row'[r] = row[r]
    <3>1. row[r] # Tool!NoRow
      BY <2>1 DEF Tool!NoRow
    <3>2. ASSUME Working(c), r = Tool!RowOf(c) PROVE FALSE
      <4>1. CallSound(c)
        BY DEF ToolInv
      <4>2. row[r].status = "running"
        BY <3>2, <4>1 DEF CallSound
      <4> QED
        BY <2>1, <4>2
    <3> QED
      BY <2>1, <3>1, <3>2 DEF ToolFrame
  <2>4. started'[r][d] > 0 /\ call'[d].hash = call[d].hash
    <3>1. started[r][d] \in Nat
      BY <1>1 DEF Tool!TypeOK, Slots
    <3>2. CASE d = c
      BY <2>2, <3>1, <3>2 DEF ToolFrame
    <3>3. CASE d # c
      BY <2>2, <3>3 DEF ToolFrame
    <3> QED
      BY <3>2, <3>3
  <2>5. Tool!RowOf(e)' = r
    BY <1>3, <2>1
  <2> QED
    BY <1>2, <2>1, <2>2, <2>3, <2>4, <2>5 DEF Deduplicated
<1> QED
  BY <1>8, <1>9

(* What a step does to the slot of its call: a row is inserted where there *)
(* was none, and becomes a success by a call that ran its handler.         *)
SlotFrame(c) ==
  \A r \in Slots :
    /\ Holds(c, r)' => (Holds(c, r) \/ row[r] = Tool!NoRow) /\ row'[r] # Tool!NoRow
    /\ row'[r].status = "succeeded" =>
         row'[r] = row[r] \/ (started'[r][c] > 0 /\ row'[r].hash = call'[c].hash)

(* Such a step keeps one holder for every slot.                            *)
LEMMA SlotsStaySound ==
  ASSUME ToolInv, NEW c \in Calls, ToolFrame(c), SlotFrame(c), NEW r \in Slots
  PROVE  SlotSound(r)'
<1>1. SlotSound(r) /\ Tool!TypeOK
  BY DEF ToolInv
<1>2. \A e \in Calls \ {c} : Holds(e, r)' <=> Holds(e, r)
  BY DEF ToolFrame, Holds, Working, Tool!Keyed, Tool!RowOf
<1>3. ASSUME NEW e \in Calls, Holds(e, r)' PROVE row'[r] # Tool!NoRow
  <2>1. CASE e = c
    BY <1>3, <2>1 DEF SlotFrame
  <2>2. CASE e # c
    <3>1. Holds(e, r)
      BY <1>2, <1>3, <2>2
    <3>2. row'[r] = row[r]
      BY <2>2, <3>1, HeldRowKept
    <3> QED
      BY <1>1, <3>1, <3>2 DEF SlotSound
  <2> QED
    BY <2>1, <2>2
<1>4. ASSUME NEW d \in Calls, NEW e \in Calls, Holds(d, r)', Holds(e, r)' PROVE d = e
  <2>1. CASE Holds(c, r)
    <3>1. Holds(d, r) /\ Holds(e, r)
      BY <1>2, <1>4, <2>1
    <3> QED
      BY <1>1, <3>1 DEF SlotSound
  <2>2. CASE ~Holds(c, r) /\ d # c /\ e # c
    <3>1. Holds(d, r) /\ Holds(e, r)
      BY <1>2, <1>4, <2>2
    <3> QED
      BY <1>1, <3>1 DEF SlotSound
  <2>3. CASE ~Holds(c, r) /\ (d = c \/ e = c)
    <3>1. row[r] = Tool!NoRow
      BY <1>4, <2>3 DEF SlotFrame
    <3>2. \A f \in Calls : ~Holds(f, r)
      BY <1>1, <3>1 DEF SlotSound
    <3> QED
      BY <1>2, <1>4, <3>2
  <2> QED
    BY <2>1, <2>2, <2>3
<1>5. ASSUME row'[r].status = "succeeded"
      PROVE  \E d \in Calls : started'[r][d] > 0 /\ call'[d].hash = row'[r].hash
  <2>1. CASE started'[r][c] > 0 /\ row'[r].hash = call'[c].hash
    BY <2>1
  <2>2. CASE row'[r] = row[r]
    <3>1. PICK d \in Calls : started[r][d] > 0 /\ call[d].hash = row[r].hash
      BY <1>1, <1>5, <2>2 DEF SlotSound
    <3>2. started[r][d] \in Nat
      BY <1>1 DEF Tool!TypeOK, Slots
    <3>3. CASE d = c
      BY <2>2, <3>1, <3>2, <3>3 DEF ToolFrame
    <3>4. CASE d # c
      BY <2>2, <3>1, <3>4 DEF ToolFrame
    <3> QED
      BY <3>3, <3>4
  <2> QED
    BY <1>5, <2>1, <2>2 DEF SlotFrame
<1> QED
  BY <1>3, <1>4, <1>5 DEF SlotSound

(* So a step has to be looked at for its own call and slot only.           *)
LEMMA ToolStep ==
  ASSUME ToolInv, NEW c \in Calls, ToolFrame(c), SlotFrame(c),
         Tool!TypeOK', CallSound(c)', Deduplicated(c)'
  PROVE  ToolInv'
<1>1. \A e \in Calls : CallSound(e)' /\ Deduplicated(e)'
  BY OthersSound
<1>2. \A r \in Slots : SlotSound(r)'
  BY SlotsStaySound
<1> QED
  BY <1>1, <1>2 DEF ToolInv

(* A step that writes neither a row nor starts a handler, and takes no     *)
(* slot up that it did not hold.                                           *)
LEMMA QuietStep ==
  ASSUME ToolInv, NEW c \in Calls, NEW new \in Tool!Call,
         call' = [call EXCEPT ![c] = new], UNCHANGED <<row, started>>,
         crashes' \in 0..MaxCrashes,
         new.hash = call[c].hash \/ call[c].place = "new",
         Working(c)' => Working(c) /\ Tool!RowOf(c)' = Tool!RowOf(c),
         CallSound(c)', Deduplicated(c)'
  PROVE  ToolInv'
<1>1. Tool!TypeOK /\ CallSound(c)
  BY DEF ToolInv
<1>2. \A r \in Slots : started[r][c] \in Nat
  BY <1>1 DEF Tool!TypeOK, Slots
<1>3. call'[c] = new /\ \A e \in Calls \ {c} : call'[e] = call[e]
  BY <1>1 DEF Tool!TypeOK
<1>4. ToolFrame(c)
  BY <1>1, <1>2, <1>3 DEF ToolFrame, CallSound
<1>5. SlotFrame(c)
  <2> SUFFICES ASSUME NEW r \in Slots
               PROVE  Holds(c, r)' => Holds(c, r) /\ row[r] # Tool!NoRow
    BY DEF SlotFrame
  <2>1. Holds(c, r)' => Holds(c, r)
    BY DEF Holds
  <2>2. Holds(c, r) => row[r] # Tool!NoRow
    BY DEF ToolInv, SlotSound
  <2> QED
    BY <2>1, <2>2
<1>6. Tool!TypeOK'
  BY <1>1 DEF Tool!TypeOK
<1> QED
  BY <1>4, <1>5, <1>6, ToolStep

(* What a call may be answered with, when it is not a replay of its own.   *)
MayAnswer(c, answer) ==
  /\ answer \in Tool!Answers
  /\ answer = "deduplicated" =>
       /\ Tool!Keyed(c) /\ row[Tool!RowOf(c)].status = "succeeded"
       /\ row[Tool!RowOf(c)].hash = call[c].hash
       /\ started[Tool!RowOf(c)][c] = 0

(* An answer ends a call and changes nothing else.                         *)
LEMMA AnswerStep ==
  ASSUME ToolInv, NEW c \in Calls, NEW answer, Tool!AnswerWith(c, answer),
         MayAnswer(c, answer), call[c].place # "new",
         UNCHANGED <<row, started>>, crashes' \in 0..MaxCrashes
  PROVE  ToolInv'
<1> DEFINE new == [call[c] EXCEPT !.place = "over", !.answer = answer,
                                  !.attempt = 0, !.outcome = "none"]
<1>1. Tool!TypeOK /\ CallSound(c) /\ call[c] \in Tool!Call
  BY RowOfIsSlot DEF ToolInv
<1>2. call' = [call EXCEPT ![c] = new] /\ call'[c] = new
  BY <1>1 DEF Tool!AnswerWith, Tool!TypeOK
<1>3. new \in Tool!Call
  <2>1. 0 \in 0..MaxRetries /\ "over" \in Tool!Places /\ "none" \in Tool!Answers
    BY StoreAssumption DEF Tool!Places, Tool!Answers
  <2> QED
    BY <1>1, <2>1 DEF Tool!Call, MayAnswer
<1>4. /\ new.place = "over" /\ new.answer = answer /\ new.outcome = "none"
      /\ new.tool = call[c].tool /\ new.primary = call[c].primary /\ new.key = call[c].key
      /\ new.hash = call[c].hash /\ new.approved = call[c].approved
  BY <1>1 DEF Tool!Call
<1> HIDE DEF new
<1>5. ~Working(c)' /\ Tool!RowOf(c)' = Tool!RowOf(c) /\ Primary(c)' = Primary(c)
  BY <1>2, <1>4 DEF Working, Tool!RowOf, Primary
<1>6. CallSound(c)'
  BY <1>1, <1>2, <1>4, <1>5 DEF CallSound
<1>7. Deduplicated(c)'
  <2> SUFFICES ASSUME answer = "deduplicated" PROVE Deduplicated(c)'
    BY <1>2, <1>4 DEF Deduplicated
  <2>1. PICK r \in Slots : /\ r = Tool!RowOf(c) /\ row[r].status = "succeeded"
                           /\ row[r].hash = call[c].hash /\ started[r][c] = 0
    BY <1>1, RowOfIsSlot DEF MayAnswer
  <2>2. PICK d \in Calls : started[r][d] > 0 /\ call[d].hash = row[r].hash
    BY <2>1 DEF ToolInv, SlotSound
  <2>3. d # c
    BY <2>1, <2>2
  <2>4. call'[d] = call[d]
    BY <1>2, <2>3
  <2> QED
    BY <1>2, <1>4, <1>5, <2>1, <2>2, <2>3, <2>4 DEF Deduplicated
<1> QED
  BY <1>2, <1>3, <1>4, <1>5, <1>6, <1>7, QuietStep

(* A request is taken up.                                                  *)
LEMMA RequestStep ==
  ASSUME ToolInv, NEW c \in Calls, NEW tool \in Tools, NEW key \in Keys \cup {None},
         NEW hash \in Hashes, NEW approved \in BOOLEAN,
         Tool!Request(c, tool, key, hash, approved)
  PROVE  ToolInv'
<1> DEFINE new == [call[c] EXCEPT !.place = "lookup", !.primary = tool, !.tool = tool,
                                  !.key = key, !.hash = hash, !.approved = approved]
<1>1. /\ Tool!TypeOK /\ CallSound(c) /\ Deduplicated(c) /\ call[c] \in Tool!Call
      /\ call[c].place = "new" /\ \A r \in Slots : started[r][c] = 0
  BY RowOfIsSlot DEF ToolInv, Tool!Request, Tool!At, CallSound
<1>2. call' = [call EXCEPT ![c] = new] /\ call'[c] = new
  BY <1>1 DEF Tool!Request, Tool!TypeOK
<1>3. new \in Tool!Call
  BY <1>1 DEF Tool!Call, Tool!Places
<1>4. /\ new.place = "lookup" /\ new.outcome = call[c].outcome
      /\ new.tool = tool /\ new.key = key /\ new.answer = call[c].answer
  BY <1>1 DEF Tool!Call
<1>5. UNCHANGED <<row, started, crashes>>
  BY DEF Tool!Request
<1> HIDE DEF new
<1>6. ~Working(c)' /\ ~Working(c)
  BY <1>1, <1>2, <1>4 DEF Working
<1>7. \A r \in Slots : started'[r][c] = 0
  BY <1>1, <1>5
<1>8. CallSound(c)'
  BY <1>1, <1>2, <1>4, <1>5, <1>6, <1>7 DEF CallSound, Tool!Keyed, Tool!RowOf, Slots
<1>9. Deduplicated(c)'
  <2>1. call[c].answer = "none"
    BY <1>1 DEF CallSound
  <2> QED
    BY <1>1, <1>2, <1>4, <1>5, <2>1 DEF Deduplicated
<1> QED
  BY <1>1, <1>2, <1>3, <1>5, <1>6, <1>8, <1>9, QuietStep DEF Tool!TypeOK

(* The table is looked up.                                                 *)
LEMMA LookUpStep ==
  ASSUME ToolInv, NEW c \in Calls, Tool!LookUp(c)
  PROVE  ToolInv'
<1>1. /\ Tool!TypeOK /\ CallSound(c) /\ Deduplicated(c) /\ call[c] \in Tool!Call
      /\ call[c].place = "lookup" /\ UNCHANGED <<row, started, crashes>>
  BY RowOfIsSlot DEF ToolInv, Tool!LookUp, Tool!At
<1>2. CASE ~Tool!Keyed(c) \/ row[Tool!RowOf(c)] = Tool!NoRow
  <2> DEFINE new == [call[c] EXCEPT !.place = "record"]
  <2>1. call' = [call EXCEPT ![c] = new] /\ call'[c] = new
    BY <1>1, <1>2 DEF Tool!LookUp, Tool!TypeOK
  <2>2. new \in Tool!Call
    BY <1>1 DEF Tool!Call, Tool!Places
  <2>3. /\ new.place = "record" /\ new.outcome = call[c].outcome
        /\ new.tool = call[c].tool /\ new.primary = call[c].primary
        /\ new.key = call[c].key /\ new.hash = call[c].hash
        /\ new.answer = call[c].answer /\ new.approved = call[c].approved
    BY <1>1 DEF Tool!Call
  <2> HIDE DEF new
  <2>4. /\ ~Working(c)' /\ Tool!RowOf(c)' = Tool!RowOf(c) /\ Primary(c)' = Primary(c)
        /\ Tool!Keyed(c)' = Tool!Keyed(c)
    BY <2>1, <2>3 DEF Working, Tool!RowOf, Primary, Tool!Keyed
  <2>5. CallSound(c)'
    BY <1>1, <2>1, <2>3, <2>4 DEF CallSound
  <2>6. Deduplicated(c)'
    BY <1>1, <2>1, <2>3, <2>4 DEF Deduplicated, CallSound
  <2> QED
    BY <1>1, <2>1, <2>2, <2>3, <2>4, <2>5, <2>6, QuietStep DEF Tool!TypeOK
<1>3. CASE ~(~Tool!Keyed(c) \/ row[Tool!RowOf(c)] = Tool!NoRow)
  <2>1. row[Tool!RowOf(c)] \in Tool!Rows
    BY <1>1, <1>3, RowOfIsSlot DEF Tool!TypeOK, Slots
  <2> DEFINE conflict == IF Tool!FellBack(c) THEN call[c].outcome ELSE "conflict"
             replay == Tool!Replay(row[Tool!RowOf(c)].status)
  <2>2. MayAnswer(c, conflict)
    BY <1>1 DEF MayAnswer, CallSound, Tool!Answers, Tool!Outcomes
  <2>3. row[Tool!RowOf(c)].hash = call[c].hash => MayAnswer(c, replay)
    BY <1>1, <1>3, <2>1 DEF MayAnswer, CallSound, Tool!Replay, Tool!Answers, Tool!Rows,
                            Tool!Outcomes, Tool!Decisions
  <2>4. \/ Tool!AnswerWith(c, conflict)
        \/ row[Tool!RowOf(c)].hash = call[c].hash /\ Tool!AnswerWith(c, replay)
    BY <1>3 DEF Tool!LookUp, Tool!AnswerConflict
  <2> HIDE DEF conflict, replay
  <2> QED
    BY <1>1, <2>2, <2>3, <2>4, AnswerStep DEF Tool!TypeOK
<1> QED
  BY <1>2, <1>3

(* A refused argument, and a death, answer and change nothing else.        *)
LEMMA InvalidStep ==
  ASSUME ToolInv, NEW c \in Calls, Tool!Invalid(c) \/ Tool!Die(c)
  PROVE  ToolInv'
<1>1. /\ Tool!TypeOK /\ CallSound(c) /\ call[c] \in Tool!Call
      /\ call[c].place # "new" /\ UNCHANGED <<row, started>>
  BY RowOfIsSlot DEF ToolInv, Tool!Invalid, Tool!Die, Tool!At
<1>2. crashes' \in 0..MaxCrashes
  BY <1>1, StoreAssumption DEF Tool!Invalid, Tool!Die, Tool!TypeOK
<1> DEFINE conflict == IF Tool!FellBack(c) THEN call[c].outcome ELSE "conflict"
<1>3. MayAnswer(c, conflict) /\ MayAnswer(c, "error")
  BY <1>1 DEF MayAnswer, CallSound, Tool!Answers, Tool!Outcomes
<1>4. Tool!AnswerWith(c, conflict) \/ Tool!AnswerWith(c, "error")
  BY DEF Tool!Invalid, Tool!Die, Tool!AnswerConflict
<1> HIDE DEF conflict
<1> QED
  BY <1>1, <1>2, <1>3, <1>4, AnswerStep

(* The row is inserted, if there is none, and the call may go on.          *)
LEMMA RecordStartStep ==
  ASSUME ToolInv, NEW c \in Calls, NEW granted \in BOOLEAN, Tool!RecordStart(c, granted)
  PROVE  ToolInv'
<1> DEFINE decision == Tool!Decision(c, granted)
<1>1. /\ Tool!TypeOK /\ CallSound(c) /\ Deduplicated(c) /\ call[c] \in Tool!Call
      /\ call[c].place = "record" /\ UNCHANGED <<started, crashes>>
  BY RowOfIsSlot DEF ToolInv, Tool!RecordStart, Tool!At
<1>2. /\ decision \in Tool!Decisions
      /\ decision = "running" /\ call[c].tool \in Risky => call[c].approved
  BY DEF Tool!Decision, Tool!Decisions
<1> HIDE DEF decision
<1>3. MayAnswer(c, "error") /\ MayAnswer(c, decision) /\ crashes' \in 0..MaxCrashes
  BY <1>1, <1>2 DEF MayAnswer, Tool!Answers, Tool!Decisions, Tool!TypeOK
<1>4. CASE Tool!Keyed(c) /\ row[Tool!RowOf(c)] # Tool!NoRow
  <2>1. Tool!AnswerWith(c, "error") /\ UNCHANGED row
    BY <1>4 DEF Tool!RecordStart
  <2> QED
    BY <1>1, <1>3, <2>1, AnswerStep
<1>5. CASE ~(Tool!Keyed(c) /\ row[Tool!RowOf(c)] # Tool!NoRow)
  <2>1. Tool!Insert(c, decision)
    BY <1>5 DEF Tool!RecordStart, decision
  <2>2. CASE ~Tool!Keyed(c) /\ decision # "running"
    BY <1>1, <1>3, <2>1, <2>2, AnswerStep DEF Tool!Insert
  <2> DEFINE new == IF decision = "running" THEN [call[c] EXCEPT !.place = "invoke"]
                    ELSE [call[c] EXCEPT !.place = "over", !.answer = decision,
                                         !.attempt = 0, !.outcome = "none"]
  <2>3. CASE Tool!Keyed(c) \/ decision = "running"
    <3>1. call' = [call EXCEPT ![c] = new]
      BY <2>1 DEF Tool!Insert, Tool!AnswerWith
    <3>2. call'[c] = new /\ \A e \in Calls \ {c} : call'[e] = call[e]
      BY <1>1, <3>1 DEF Tool!TypeOK
    <3>3. new \in Tool!Call
      <4>1. /\ 0 \in 0..MaxRetries /\ {"over", "invoke"} \subseteq Tool!Places
            /\ "none" \in Tool!Answers /\ decision \in Tool!Answers
        BY <1>2, StoreAssumption DEF Tool!Places, Tool!Answers
      <4> QED
        BY <1>1, <4>1 DEF Tool!Call
    <3>4. /\ new.place = (IF decision = "running" THEN "invoke" ELSE "over")
          /\ new.outcome = (IF decision = "running" THEN call[c].outcome ELSE "none")
          /\ new.answer = (IF decision = "running" THEN call[c].answer ELSE decision)
          /\ new.tool = call[c].tool /\ new.primary = call[c].primary
          /\ new.key = call[c].key /\ new.hash = call[c].hash
          /\ new.approved = call[c].approved /\ new.attempt \in Nat
      BY <1>1, StoreAssumption DEF Tool!Call
    <3> HIDE DEF new
    <3>5. /\ Tool!RowOf(c)' = Tool!RowOf(c) /\ Primary(c)' = Primary(c)
          /\ Tool!Keyed(c)' = Tool!Keyed(c)
          /\ Working(c)' <=> Tool!Keyed(c) /\ decision = "running"
      BY <3>2, <3>4 DEF Working, Tool!RowOf, Primary, Tool!Keyed
    <3> DEFINE inserted == [status |-> decision, hash |-> call[c].hash]
    <3>6. inserted \in Tool!Rows
      BY <1>1, <1>2 DEF Tool!Rows, Tool!Call
    <3>7. row' = IF Tool!Keyed(c) THEN [row EXCEPT ![Tool!RowOf(c)] = inserted] ELSE row
      BY <2>1 DEF Tool!Insert
    <3>8. /\ Tool!Keyed(c) => Tool!RowOf(c) \in Slots /\ row[Tool!RowOf(c)] = Tool!NoRow
      BY <1>1, <1>5, RowOfIsSlot
    <3>9. \A r \in Slots : row'[r] = IF Tool!Keyed(c) /\ r = Tool!RowOf(c)
                                     THEN inserted ELSE row[r]
      BY <1>1, <3>7, <3>8 DEF Tool!TypeOK, Slots
    <3>10. /\ inserted.status = decision /\ inserted.hash = call[c].hash
           /\ inserted # Tool!NoRow
      BY <1>2 DEF Tool!NoRow, Tool!Decisions
    <3>11. \A r \in Slots : started'[r] = started[r] /\ started[r][c] \in Nat
      BY <1>1 DEF Tool!TypeOK, Slots
    <3>12. Tool!TypeOK'
      <4>1. call' \in [Calls -> Tool!Call]
        BY <1>1, <3>1, <3>3 DEF Tool!TypeOK
      <4>2. row' \in [Tools \X Keys -> Tool!Rows \cup {Tool!NoRow}]
        BY <1>1, <3>6, <3>7 DEF Tool!TypeOK
      <4> QED
        BY <1>1, <1>3, <4>1, <4>2 DEF Tool!TypeOK
    <3>13. CallSound(c)'
      <4>1. Working(c)' => row'[Tool!RowOf(c)] = [status |-> "running", hash |-> call[c].hash]
        BY <3>5, <3>8, <3>9
      <4>2. Tool!Keyed(c) => started[Tool!RowOf(c)][c] = 0
        BY <1>1 DEF CallSound
      <4>3. new.place = "invoke" /\ call[c].tool \in Risky => call[c].approved
        BY <1>2, <3>4
      <4>4. \A tool \in Tools, key \in Keys :
              /\ tool \notin Idempotent => started[<<tool, key>>][c] <= 1
              /\ tool \in Risky /\ started[<<tool, key>>][c] > 0 => call[c].approved
        BY <1>1 DEF CallSound
      <4>5. \A r \in Slots : started[r][c] > 0 => r \in {Tool!RowOf(c), Primary(c)}
        BY <1>1 DEF CallSound
      <4>6. /\ new.outcome \in Tool!Outcomes \cup {"none"}
            /\ new.place # "over" => new.answer = "none"
        BY <1>1, <3>4 DEF CallSound
      <4> QED
        BY <1>1, <3>2, <3>4, <3>5, <4>1, <4>2, <4>3, <4>4, <4>5, <4>6 DEF CallSound
    <3>14. Deduplicated(c)'
      <4>1. new.answer # "deduplicated"
        BY <1>1, <1>2, <3>4 DEF CallSound, Tool!Decisions
      <4> QED
        BY <3>2, <4>1 DEF Deduplicated
    <3>15. ToolFrame(c)
      BY <3>2, <3>4, <3>8, <3>9, <3>11 DEF ToolFrame
    <3>16. SlotFrame(c)
      <4> SUFFICES ASSUME NEW r \in Slots
                   PROVE  /\ Holds(c, r)' => (Holds(c, r) \/ row[r] = Tool!NoRow)
                                             /\ row'[r] # Tool!NoRow
                          /\ row'[r].status = "succeeded" => row'[r] = row[r]
        BY DEF SlotFrame
      <4>1. CASE Tool!Keyed(c) /\ r = Tool!RowOf(c)
        BY <1>2, <3>8, <3>9, <3>10, <4>1 DEF Tool!Decisions
      <4>2. CASE ~(Tool!Keyed(c) /\ r = Tool!RowOf(c))
        <5>1. Holds(c, r)' => Holds(c, r)
          BY <3>5, <3>11, <4>2 DEF Holds
        <5>2. Holds(c, r) => row[r] # Tool!NoRow
          BY DEF ToolInv, SlotSound
        <5> QED
          BY <3>9, <4>2, <5>1, <5>2
      <4> QED
        BY <4>1, <4>2
    <3> QED
      BY <3>12, <3>13, <3>14, <3>15, <3>16, ToolStep
  <2> QED
    BY <2>2, <2>3
<1> QED
  BY <1>4, <1>5

(* The handler starts.                                                     *)
LEMMA InvokeStep ==
  ASSUME ToolInv, NEW c \in Calls, Tool!Invoke(c)
  PROVE  ToolInv'
<1> DEFINE new == [call[c] EXCEPT !.place = "running"]
<1>1. /\ Tool!TypeOK /\ CallSound(c) /\ call[c] \in Tool!Call
      /\ call[c].place = "invoke" /\ UNCHANGED <<row, crashes>>
      /\ call' = [call EXCEPT ![c] = new]
      /\ Tool!Keyed(c) => Tool!RowOf(c) \in Slots
  BY RowOfIsSlot DEF ToolInv, Tool!Invoke, Tool!At
<1>2. call'[c] = new /\ \A e \in Calls \ {c} : call'[e] = call[e]
  BY <1>1 DEF Tool!TypeOK
<1>3. new \in Tool!Call
  BY <1>1 DEF Tool!Call, Tool!Places
<1>4. /\ new.place = "running" /\ new.outcome = call[c].outcome
      /\ new.tool = call[c].tool /\ new.primary = call[c].primary
      /\ new.key = call[c].key /\ new.hash = call[c].hash
      /\ new.answer = call[c].answer /\ new.approved = call[c].approved
      /\ new.attempt = call[c].attempt /\ call[c].attempt \in 0..MaxRetries
  BY <1>1 DEF Tool!Call
<1> HIDE DEF new
<1>5. /\ Tool!RowOf(c)' = Tool!RowOf(c) /\ Primary(c)' = Primary(c)
      /\ Tool!Keyed(c)' = Tool!Keyed(c)
      /\ Working(c)' = Tool!Keyed(c) /\ Working(c) = Tool!Keyed(c)
  BY <1>1, <1>2, <1>4 DEF Working, Tool!RowOf, Primary, Tool!Keyed
<1>6. \A r \in Slots : /\ started[r] \in [Calls -> 0..(MaxRetries + 1)]
                       /\ started[r][c] \in Nat
  BY <1>1, StoreAssumption DEF Tool!TypeOK, Slots
<1>7. \A r \in Slots : started'[r] = IF Tool!Keyed(c) /\ r = Tool!RowOf(c)
                                     THEN [started[r] EXCEPT ![c] = @ + 1] ELSE started[r]
  BY <1>1 DEF Tool!Invoke, Tool!TypeOK, Slots
<1>8. \A r \in Slots : started'[r][c] = IF Tool!Keyed(c) /\ r = Tool!RowOf(c)
                                        THEN started[r][c] + 1 ELSE started[r][c]
  BY <1>6, <1>7
<1>9. \A r \in Slots, e \in Calls \ {c} : started'[r][e] = started[r][e]
  BY <1>6, <1>7
<1>10. Tool!Keyed(c) => /\ started[Tool!RowOf(c)][c] <= call[c].attempt
                        /\ call[c].tool \notin Idempotent => started[Tool!RowOf(c)][c] = 0
  BY <1>1, <1>5 DEF CallSound
<1>11. Tool!TypeOK'
  <2>1. call' \in [Calls -> Tool!Call]
    BY <1>1, <1>3 DEF Tool!TypeOK
  <2>2. started' \in [Tools \X Keys -> [Calls -> 0..(MaxRetries + 1)]]
    <3>1. DOMAIN started' = Slots /\ started' = [r \in Slots |-> started'[r]]
      BY <1>1 DEF Tool!Invoke, Tool!TypeOK, Slots
    <3>2. ASSUME NEW r \in Slots PROVE started'[r] \in [Calls -> 0..(MaxRetries + 1)]
      <4>1. CASE Tool!Keyed(c) /\ r = Tool!RowOf(c)
        <5>1. started[r][c] + 1 \in 0..(MaxRetries + 1)
          BY <1>4, <1>6, <1>10, <4>1, StoreAssumption
        <5> QED
          BY <1>6, <1>7, <4>1, <5>1
      <4>2. CASE ~(Tool!Keyed(c) /\ r = Tool!RowOf(c))
        BY <1>6, <1>7, <4>2
      <4> QED
        BY <4>1, <4>2
    <3> QED
      BY <3>1, <3>2 DEF Slots
  <2> QED
    BY <1>1, <2>1, <2>2 DEF Tool!TypeOK
<1>12. CallSound(c)'
  <2>1. ASSUME NEW r \in Slots, started'[r][c] > 0
        PROVE  r \in {Tool!RowOf(c), Primary(c)}
    BY <1>1, <1>8, <2>1 DEF CallSound
  <2>2. Tool!Keyed(c) => /\ row[Tool!RowOf(c)] = [status |-> "running", hash |-> call[c].hash]
                         /\ started'[Tool!RowOf(c)][c] > 0
                         /\ started'[Tool!RowOf(c)][c] <= call[c].attempt + 1
    BY <1>1, <1>4, <1>5, <1>6, <1>8, <1>10 DEF CallSound
  <2>3. call[c].tool \in Risky => call[c].approved
    BY <1>1 DEF CallSound
  <2>4. ASSUME NEW tool \in Tools, NEW key \in Keys
        PROVE  /\ tool \notin Idempotent => started'[<<tool, key>>][c] <= 1
               /\ tool \in Risky /\ started'[<<tool, key>>][c] > 0 => call[c].approved
    <3>1. <<tool, key>> \in Slots
      BY DEF Slots
    <3>2. <<tool, key>> = Tool!RowOf(c) => tool = call[c].tool
      BY DEF Tool!RowOf
    <3>3. /\ tool \notin Idempotent => started[<<tool, key>>][c] <= 1
          /\ tool \in Risky /\ started[<<tool, key>>][c] > 0 => call[c].approved
      BY <1>1 DEF CallSound
    <3> QED
      BY <1>6, <1>8, <1>10, <2>3, <3>1, <3>2, <3>3
  <2>5. call[c].answer = "none" /\ call[c].outcome \in Tool!Outcomes \cup {"none"}
    BY <1>1 DEF CallSound
  <2> QED
    BY <1>1, <1>2, <1>4, <1>5, <2>1, <2>2, <2>3, <2>4, <2>5 DEF CallSound
<1>13. Deduplicated(c)'
  BY <1>1, <1>2, <1>4 DEF Deduplicated, CallSound
<1>14. ToolFrame(c)
  BY <1>1, <1>2, <1>4, <1>6, <1>8, <1>9 DEF ToolFrame
<1>15. SlotFrame(c)
  <2> SUFFICES ASSUME NEW r \in Slots
               PROVE  Holds(c, r)' => Holds(c, r) /\ row[r] # Tool!NoRow
    BY <1>1 DEF SlotFrame
  <2>1. Holds(c, r)' => Holds(c, r)
    BY <1>5, <1>8 DEF Holds
  <2>2. Holds(c, r) => row[r] # Tool!NoRow
    BY DEF ToolInv, SlotSound
  <2> QED
    BY <2>1, <2>2
<1> QED
  BY <1>11, <1>12, <1>13, <1>14, <1>15, ToolStep

(* The handler ends: it is tried again, or its outcome is to be recorded.  *)
LEMMA ReturnStep ==
  ASSUME ToolInv, NEW c \in Calls, NEW error \in Tool!Errors, Tool!Return(c, error)
  PROVE  ToolInv'
<1> DEFINE new == IF Tool!Retryable(error) /\ Tool!MayRetry(c)
                  THEN [call[c] EXCEPT !.place = "invoke", !.attempt = @ + 1]
                  ELSE [call[c] EXCEPT !.place = "finish", !.outcome = Tool!StatusOf(error)]
<1>1. /\ Tool!TypeOK /\ CallSound(c) /\ call[c] \in Tool!Call
      /\ call[c].place = "running" /\ UNCHANGED <<row, started, crashes>>
  BY RowOfIsSlot DEF ToolInv, Tool!Return, Tool!At
<1>2. call' = [call EXCEPT ![c] = new] /\ call'[c] = new
  BY <1>1 DEF Tool!Return, Tool!TypeOK
<1>3. Tool!StatusOf(error) \in Tool!Outcomes /\ Tool!StatusOf(error) \in Tool!Answers
  BY DEF Tool!StatusOf, Tool!Outcomes, Tool!Answers
<1>4. /\ call[c].attempt \in 0..MaxRetries
      /\ Tool!MayRetry(c) => call[c].attempt + 1 \in 0..MaxRetries
      /\ Tool!MayRetry(c) => call[c].tool \in Idempotent
  BY <1>1, StoreAssumption DEF Tool!Call, Tool!MayRetry
<1>5. new \in Tool!Call
  BY <1>1, <1>3, <1>4 DEF Tool!Call, Tool!Places
<1>6. /\ new.place \in {"invoke", "finish"}
      /\ new.place = "invoke" => /\ call[c].tool \in Idempotent
                                 /\ new.attempt = call[c].attempt + 1
      /\ new.place = "finish" => new.outcome \in Tool!Outcomes
      /\ new.outcome \in Tool!Outcomes \cup {"none"}
      /\ new.tool = call[c].tool /\ new.primary = call[c].primary
      /\ new.key = call[c].key /\ new.hash = call[c].hash
      /\ new.answer = call[c].answer /\ new.approved = call[c].approved
  BY <1>1, <1>3, <1>4 DEF Tool!Call, CallSound
<1> HIDE DEF new
<1>7. /\ Tool!RowOf(c)' = Tool!RowOf(c) /\ Primary(c)' = Primary(c)
      /\ Tool!Keyed(c)' = Tool!Keyed(c)
      /\ Working(c)' = Tool!Keyed(c) /\ Working(c) = Tool!Keyed(c)
  BY <1>1, <1>2, <1>6 DEF Working, Tool!RowOf, Primary, Tool!Keyed
<1>8. CallSound(c)'
  BY <1>1, <1>2, <1>6, <1>7 DEF CallSound
<1>9. Deduplicated(c)'
  BY <1>1, <1>2, <1>6 DEF Deduplicated, CallSound
<1> QED
  BY <1>1, <1>2, <1>5, <1>6, <1>7, <1>8, <1>9, QuietStep DEF Tool!TypeOK

(* The outcome is recorded, and a failed call may fall back.               *)
LEMMA RecordFinishStep ==
  ASSUME ToolInv, NEW c \in Calls, Tool!RecordFinish(c)
  PROVE  ToolInv'
<1> DEFINE new == IF Tool!FallsBack(c)
                  THEN [call[c] EXCEPT !.place = "lookup", !.attempt = 0,
                                       !.tool = Fallback[call[c].tool]]
                  ELSE [call[c] EXCEPT !.place = "over", !.answer = call[c].outcome,
                                       !.attempt = 0, !.outcome = "none"]
           finished == [status |-> call[c].outcome, hash |-> call[c].hash]
<1>1. /\ Tool!TypeOK /\ CallSound(c) /\ call[c] \in Tool!Call
      /\ call[c].place = "finish" /\ call[c].outcome \in Tool!Outcomes
      /\ call[c].answer = "none" /\ UNCHANGED <<started, crashes>>
      /\ Tool!Keyed(c) => Tool!RowOf(c) \in Slots
  BY RowOfIsSlot DEF ToolInv, Tool!RecordFinish, Tool!At, CallSound
<1>2. call' = [call EXCEPT ![c] = new]
  BY DEF Tool!RecordFinish, Tool!AnswerWith
<1>3. call'[c] = new /\ \A e \in Calls \ {c} : call'[e] = call[e]
  BY <1>1, <1>2 DEF Tool!TypeOK
<1>4. new \in Tool!Call
  <2>1. /\ 0 \in 0..MaxRetries /\ {"over", "lookup"} \subseteq Tool!Places
        /\ "none" \in Tool!Answers /\ call[c].outcome \in Tool!Answers
        /\ Fallback[call[c].tool] \in Tools
    BY <1>1, StoreAssumption DEF Tool!Places, Tool!Answers, Tool!Call
  <2> QED
    BY <1>1, <2>1 DEF Tool!Call
<1>5. /\ new.primary = call[c].primary /\ new.key = call[c].key
      /\ new.hash = call[c].hash /\ new.approved = call[c].approved
      /\ new.outcome \in Tool!Outcomes \cup {"none"}
      /\ \/ /\ new.place = "lookup" /\ new.answer = "none"
            /\ call[c].primary = call[c].tool /\ new.tool # call[c].tool
         \/ /\ new.place = "over" /\ new.answer \in Tool!Outcomes
            /\ new.tool = call[c].tool
  BY <1>1 DEF Tool!Call, Tool!FallsBack, Tool!FellBack
<1> HIDE DEF new
<1>6. ~Working(c)' /\ Primary(c)' = Primary(c) /\ Tool!Keyed(c)' = Tool!Keyed(c)
  BY <1>3, <1>5 DEF Working, Primary, Tool!Keyed
<1>7. Tool!Keyed(c) => /\ row[Tool!RowOf(c)] = [status |-> "running", hash |-> call[c].hash]
                       /\ started[Tool!RowOf(c)][c] > 0
                       /\ Holds(c, Tool!RowOf(c))
  BY <1>1 DEF CallSound, Working, Holds
<1>8. \A r \in Slots : row'[r] = IF Tool!Keyed(c) /\ r = Tool!RowOf(c)
                                 THEN finished ELSE row[r]
  <2>1. row' = IF Tool!Keyed(c) THEN [row EXCEPT ![Tool!RowOf(c)].status = call[c].outcome]
               ELSE row
    BY DEF Tool!RecordFinish
  <2>2. CASE Tool!Keyed(c)
    <3>1. row' = [row EXCEPT ![Tool!RowOf(c)] = [row[Tool!RowOf(c)] EXCEPT !.status = call[c].outcome]]
      BY <2>1, <2>2
    <3>2. [row[Tool!RowOf(c)] EXCEPT !.status = call[c].outcome] = finished
      BY <1>7, <2>2
    <3> QED
      BY <1>1, <2>2, <3>1, <3>2 DEF Tool!TypeOK, Slots
  <2> QED
    BY <2>1, <2>2
<1>9. /\ finished.status = call[c].outcome /\ finished.hash = call[c].hash
      /\ finished \in Tool!Rows /\ finished # Tool!NoRow
  BY <1>1 DEF Tool!Rows, Tool!NoRow, Tool!Call, Tool!Outcomes
<1> HIDE DEF finished
<1>10. \A r \in Slots : started'[r] = started[r] /\ started[r][c] \in Nat
  BY <1>1, StoreAssumption DEF Tool!TypeOK, Slots
<1>11. Tool!TypeOK'
  <2>1. call' \in [Calls -> Tool!Call]
    BY <1>1, <1>2, <1>4 DEF Tool!TypeOK
  <2>2. row' \in [Tools \X Keys -> Tool!Rows \cup {Tool!NoRow}]
    <3>1. row' = [r \in Slots |-> row'[r]]
      BY <1>1 DEF Tool!RecordFinish, Tool!TypeOK, Slots
    <3>2. \A r \in Slots : row'[r] \in Tool!Rows \cup {Tool!NoRow}
      BY <1>1, <1>8, <1>9 DEF Tool!TypeOK, Slots
    <3> QED
      BY <3>1, <3>2 DEF Slots
  <2> QED
    BY <1>1, <2>1, <2>2 DEF Tool!TypeOK
<1>12. CallSound(c)'
  <2>1. ASSUME NEW r \in Slots, started[r][c] > 0
        PROVE  r \in {Tool!RowOf(c)', Primary(c)'}
    <3>1. r = Tool!RowOf(c) \/ r = Primary(c)
      BY <1>1, <2>1 DEF CallSound
    <3>2. CASE new.place = "lookup"
      <4>1. Tool!RowOf(c) = Primary(c)
        BY <1>5, <3>2 DEF Tool!RowOf, Primary, Tool!Outcomes
      <4> QED
        BY <1>6, <3>1, <4>1
    <3>3. CASE new.place = "over"
      <4>1. Tool!RowOf(c)' = Tool!RowOf(c)
        BY <1>3, <1>5, <3>3 DEF Tool!RowOf
      <4> QED
        BY <1>6, <3>1, <4>1
    <3> QED
      BY <1>5, <3>2, <3>3
  <2>2. ASSUME Tool!Keyed(c), new.place = "lookup" PROVE started[Tool!RowOf(c)'][c] = 0
    <3>1. Tool!RowOf(c)' \in Slots
      BY <1>3, <1>4, <1>5, <2>2 DEF Tool!RowOf, Tool!Keyed, Tool!Call, Slots
    <3>2. Tool!RowOf(c)' = <<new.tool, call[c].key>>
      BY <1>3, <1>5 DEF Tool!RowOf
    <3>3. new.tool # call[c].tool /\ call[c].primary = call[c].tool
      BY <1>5, <2>2
    <3>4. Tool!RowOf(c)' # Tool!RowOf(c) /\ Tool!RowOf(c)' # Primary(c)
      BY <3>2, <3>3 DEF Tool!RowOf, Primary
    <3>5. ~(started[Tool!RowOf(c)'][c] > 0)
      BY <1>1, <3>1, <3>4 DEF CallSound
    <3> QED
      BY <1>10, <3>1, <3>5
  <2>3. ASSUME NEW tool \in Tools, NEW key \in Keys
        PROVE  /\ tool \notin Idempotent => started[<<tool, key>>][c] <= 1
               /\ tool \in Risky /\ started[<<tool, key>>][c] > 0 => call[c].approved
    BY <1>1 DEF CallSound
  <2>4. new.place \in {"lookup", "over"} /\ (new.place # "over" => new.answer = "none")
    BY <1>5
  <2>5. started' = started
    BY <1>1
  <2>6. Tool!Keyed(c)' /\ new.place = "lookup" => started'[Tool!RowOf(c)'][c] = 0
    BY <1>6, <2>2, <2>5
  <2>7. \A r \in Slots : started'[r][c] > 0 => r \in {Tool!RowOf(c)', Primary(c)'}
    BY <2>1, <2>5
  <2>8. \A tool \in Tools, key \in Keys :
          /\ tool \notin Idempotent => started'[<<tool, key>>][c] <= 1
          /\ tool \in Risky /\ started'[<<tool, key>>][c] > 0 => call'[c].approved
    BY <1>3, <1>5, <2>3, <2>5
  <2> QED
    BY <1>3, <1>5, <1>6, <2>4, <2>6, <2>7, <2>8 DEF CallSound
<1>13. Deduplicated(c)'
  <2>1. new.answer # "deduplicated"
    BY <1>5 DEF Tool!Outcomes
  <2> QED
    BY <1>3, <2>1 DEF Deduplicated
<1>14. ToolFrame(c)
  <2>1. ASSUME NEW r \in Slots, row'[r] # row[r] PROVE Working(c) /\ r = Tool!RowOf(c)
    BY <1>1, <1>8, <2>1 DEF Working
  <2> QED
    BY <1>3, <1>5, <1>10, <2>1 DEF ToolFrame
<1>15. SlotFrame(c)
  <2> SUFFICES ASSUME NEW r \in Slots
               PROVE  /\ Holds(c, r)' => Holds(c, r) /\ row'[r] # Tool!NoRow
                      /\ row'[r].status = "succeeded" =>
                           row'[r] = row[r] \/ (started'[r][c] > 0 /\ row'[r].hash = call'[c].hash)
    BY DEF SlotFrame
  <2>1. Holds(c, r)' => Holds(c, r)
    BY <1>6, <1>10 DEF Holds
  <2>2. Holds(c, r) => row[r] # Tool!NoRow
    BY DEF ToolInv, SlotSound
  <2>3. Holds(c, r) => row'[r] # Tool!NoRow
    BY <1>8, <1>9, <2>2
  <2>4. row'[r] = row[r] \/ (started'[r][c] > 0 /\ row'[r].hash = call'[c].hash)
    BY <1>3, <1>5, <1>7, <1>8, <1>9, <1>10
  <2> QED
    BY <2>1, <2>3, <2>4
<1> QED
  BY <1>11, <1>12, <1>13, <1>14, <1>15, ToolStep

(* Every step of the tool runtime keeps the invariant,                     *)
LEMMA ToolNext == ASSUME ToolInv, Tool!Next PROVE ToolInv'
BY RequestStep, InvalidStep, LookUpStep, RecordStartStep, InvokeStep, ReturnStep,
   RecordFinishStep DEF Tool!Next

(* and with it the handler of a tool runs once for a key.                  *)
LEMMA ToolInvImplies == ToolInv => Tool!EffectOnce
<1> SUFFICES ASSUME ToolInv PROVE Tool!EffectOnce
  OBVIOUS
<1>1. ASSUME NEW tool \in Tools, NEW key \in Keys
      PROVE  LET by == {c \in Calls : started[<<tool, key>>][c] > 0} IN
             /\ \A c, d \in by : c = d
             /\ tool \notin Idempotent => \A c \in by : started[<<tool, key>>][c] = 1
  <2> DEFINE by == {c \in Calls : started[<<tool, key>>][c] > 0}
  <2>1. <<tool, key>> \in Slots
    BY DEF Slots
  <2>2. \A c, d \in by : c = d
    BY <2>1 DEF ToolInv, SlotSound, Holds
  <2>5. ASSUME tool \notin Idempotent, NEW c \in by PROVE started[<<tool, key>>][c] = 1
    <3>1. started[<<tool, key>>][c] \in Nat
      BY <2>1, StoreAssumption DEF ToolInv, Tool!TypeOK, Slots
    <3>2. started[<<tool, key>>][c] <= 1
      BY <2>5 DEF ToolInv, CallSound
    <3> QED
      BY <3>1, <3>2
  <2> QED
    BY <2>2, <2>5
<1>2. ASSUME NEW c \in Calls
      PROVE  /\ call[c].answer = "deduplicated" =>
                  \E d \in Calls \ {c} : /\ started[Tool!RowOf(c)][d] > 0
                                         /\ call[d].hash = call[c].hash
                                         /\ row[Tool!RowOf(c)].status = "succeeded"
             /\ \A tool \in Risky, key \in Keys :
                  started[<<tool, key>>][c] > 0 => call[c].approved
  <2>1. CallSound(c) /\ Deduplicated(c)
    BY DEF ToolInv
  <2>2. \A tool \in Risky, key \in Keys :
          started[<<tool, key>>][c] > 0 => call[c].approved
    BY <2>1, StoreAssumption DEF CallSound
  <2> QED
    BY <2>1, <2>2 DEF Deduplicated
<1> QED
  BY <1>1, <1>2 DEF Tool!EffectOnce

(* For any calls, tools, keys and crashes: however many calls carry a key, *)
(* the handler of a tool is run for one of them only.                      *)
THEOREM EffectsHappenOnce == StoreSpec => []ToolEffectOnce
<1>1. StoreInit => (part = "tool" => ToolInv)
  BY ToolInit DEF StoreInit
<1>2. (part = "tool" => ToolInv) /\ [StoreNext]_storeVars => (part = "tool" => ToolInv)'
  <2> SUFFICES ASSUME part = "tool", ToolInv, [StoreNext]_storeVars PROVE ToolInv'
    BY DEF StoreNext, storeVars
  <2>1. CASE StoreNext
    BY <2>1, ToolNext DEF StoreNext
  <2>2. CASE UNCHANGED storeVars
    <3>1. UNCHANGED <<row, call, started, crashes>>
      BY <2>2 DEF storeVars, toolVars
    <3>2. \A c \in Calls : /\ CallSound(c)' = CallSound(c)
                           /\ Deduplicated(c)' = Deduplicated(c)
      BY <3>1 DEF CallSound, Deduplicated, Working, Primary, Tool!Keyed, Tool!RowOf
    <3>3. \A r \in Slots : SlotSound(r)' = SlotSound(r)
      BY <3>1 DEF SlotSound, Holds, Working, Tool!Keyed, Tool!RowOf
    <3> QED
      BY <3>1, <3>2, <3>3 DEF ToolInv, Tool!TypeOK
  <2> QED
    BY <2>1, <2>2
<1>3. (part = "tool" => ToolInv) => ToolEffectOnce
  BY ToolInvImplies DEF ToolEffectOnce
<1> QED
  BY <1>1, <1>2, <1>3, PTL DEF StoreSpec

-----------------------------------------------------------------------------
(* SkillVersion.  Until a publication overtakes it, the deprecation is     *)
(* what the row says.                                                      *)
SkillInv ==
  /\ Skill!TypeOK
  /\ deprecated /\ ~republished => skill.status = "deprecated"

(* For any number of requests that overlap: a deprecated version is not    *)
(* injected again, unless a publication overtook the deprecation.          *)
THEOREM DeprecationLasts == StoreSpec => []DeprecatedStaysOut
<1>1. StoreInit => SkillInv
  <2>1. FALSE \in BOOLEAN /\ "draft" \in Skill!Status
    BY DEF Skill!Status
  <2>2. ASSUME Skill!Init PROVE Skill!TypeOK
    BY <2>1, <2>2 DEF Skill!Init, Skill!TypeOK
  <2> QED
    BY <2>2 DEF StoreInit, Skill!Init, SkillInv
<1>2. SkillInv /\ [StoreNext]_storeVars => SkillInv'
  <2> SUFFICES ASSUME SkillInv, [StoreNext]_storeVars PROVE SkillInv'
    OBVIOUS
  <2>1. ASSUME NEW c \in Editors, NEW what \in Skill!Operations, Skill!Read(c, what)
        PROVE  SkillInv'
    BY <2>1 DEF Skill!Read, SkillInv, Skill!TypeOK
  <2>2. ASSUME NEW c \in Editors, Skill!Write(c) PROVE SkillInv'
    <3>1. PICK what \in Skill!Operations : what = operation[c]
      BY <2>2 DEF Skill!Write, SkillInv, Skill!TypeOK
    <3>2. CASE skill.deleted
      BY <2>2, <3>2 DEF Skill!Write, SkillInv, Skill!TypeOK
    <3>3. CASE ~skill.deleted
      <4>1. /\ skill' = Skill!Written(what)
            /\ deprecated' = (deprecated \/ what = "deprecate")
            /\ republished' = \/ what = "publish" /\ deprecated
                              \/ what # "deprecate" /\ republished
            /\ operation' = [operation EXCEPT ![c] = None]
        BY <2>2, <3>1, <3>3 DEF Skill!Write
      <4>2. /\ skill' \in [status : Skill!Status, enabled : BOOLEAN, deleted : BOOLEAN]
            /\ skill'.status = CASE what = "publish" -> "published"
                                 [] what = "deprecate" -> "deprecated"
                                 [] OTHER -> skill.status
        BY <3>1, <4>1 DEF Skill!Written, Skill!Operations, Skill!Status, SkillInv,
                          Skill!TypeOK
      <4>3. Skill!TypeOK'
        BY <4>1, <4>2 DEF SkillInv, Skill!TypeOK
      <4>4. deprecated' /\ ~republished' => skill'.status = "deprecated"
        BY <4>1, <4>2 DEF SkillInv, Skill!TypeOK
      <4> QED
        BY <4>3, <4>4 DEF SkillInv
    <3> QED
      BY <3>2, <3>3
  <2>3. CASE UNCHANGED skillVars
    BY <2>3 DEF skillVars, SkillInv, Skill!TypeOK
  <2> QED
    BY <2>1, <2>2, <2>3 DEF StoreNext, Skill!Next, storeVars
<1>3. SkillInv => DeprecatedStaysOut
  BY DEF SkillInv, DeprecatedStaysOut, Skill!DeprecatedStaysOut, Skill!Injectable
<1> QED
  BY <1>1, <1>2, <1>3, PTL DEF StoreSpec

-----------------------------------------------------------------------------
(* Settings.  Every file is one with which the services can be built, and  *)
(* the services have read the file as it is.                               *)
SettingInv ==
  /\ Setting!TypeOK
  /\ \A sort \in Setting!Kinds : Setting!Loads(file[sort])
  /\ loaded = file

(* Files that load are loaded by a reload.                                 *)
LEMMA ReloadReads ==
  ASSUME NEW f \in [Setting!Kinds -> Setting!Config],
         \A sort \in Setting!Kinds : Setting!Loads(f[sort])
  PROVE  Setting!Reloaded(f) = f
BY DEF Setting!Reloaded

(* A file that loads is written, and read.                                 *)
LEMMA SaveStep ==
  ASSUME SettingInv, NEW sort \in Setting!Kinds, NEW c \in Setting!Config,
         Setting!Loads(c), Setting!Save(sort, c)
  PROVE  SettingInv'
<1>1. /\ file' \in [Setting!Kinds -> Setting!Config]
      /\ \A other \in Setting!Kinds : Setting!Loads(file'[other])
  BY DEF SettingInv, Setting!TypeOK, Setting!Save
<1>2. loaded' = file'
  BY <1>1, ReloadReads DEF Setting!Save
<1> QED
  BY <1>1, <1>2 DEF SettingInv, Setting!TypeOK, Setting!Save, Setting!Loads, Setting!Valid

(* A request that changes nothing.                                         *)
LEMMA SettingsStutter == ASSUME SettingInv, UNCHANGED settingsVars PROVE SettingInv'
BY DEF SettingInv, settingsVars, Setting!TypeOK, Setting!Loads, Setting!Valid

(* A reload of files that all load reads them.                             *)
LEMMA ReloadStep ==
  ASSUME SettingInv, UNCHANGED file, loaded' = Setting!Reloaded(file),
         switch' \in [Setting!Modules -> BOOLEAN]
  PROVE  SettingInv'
<1>1. loaded' = file'
  BY ReloadReads DEF SettingInv, Setting!TypeOK
<1> QED
  BY <1>1 DEF SettingInv, Setting!TypeOK, Setting!Loads, Setting!Valid

(* Each request of the settings page keeps that.                           *)
LEMMA SettingNext == ASSUME SettingInv, Setting!Next PROVE SettingInv'
<1>1. \A sort \in Setting!Kinds :
        /\ file[sort] \in Setting!Config /\ file[sort].enabled \subseteq file[sort].fit
        /\ file[sort].default \in file[sort].items
  BY DEF SettingInv, Setting!TypeOK, Setting!Loads, Setting!Valid
<1>2. ASSUME NEW n \in ItemNames, Setting!SaveProvider(n) PROVE SettingInv'
  <2> DEFINE c == [file["llm"] EXCEPT !.items = @ \cup {n}, !.enabled = @ \cup {n},
                                      !.fit = @ \cup {n}, !.default = n]
  <2>1. c \in Setting!Config /\ Setting!Loads(c)
    BY <1>1 DEF Setting!Kinds, Setting!Config, Setting!Loads, Setting!Valid
  <2> QED
    BY <1>2, <2>1, SaveStep DEF Setting!SaveProvider, Setting!Kinds
<1>3. ASSUME NEW n \in ItemNames, NEW fit \in BOOLEAN, Setting!SaveAgent(n, fit)
      PROVE  SettingInv'
  <2> DEFINE c == [file["a2a"] EXCEPT !.items = @ \cup {n}, !.enabled = @ \cup {n},
                                      !.fit = IF fit THEN @ \cup {n} ELSE @ \ {n},
                                      !.default = n]
  <2>1. c \in Setting!Config /\ (Setting!Valid(c) => Setting!Loads(c))
    BY <1>1 DEF Setting!Kinds, Setting!Config, Setting!Loads
  <2>2. (Setting!Valid(c) /\ Setting!Save("a2a", c)) \/ UNCHANGED settingsVars
    BY <1>3 DEF Setting!SaveAgent, Setting!Refuse, Setting!vars, settingsVars
  <2> HIDE DEF c
  <2> QED
    BY <2>1, <2>2, SaveStep, SettingsStutter DEF Setting!Kinds
<1>4. ASSUME NEW names \in SUBSET ItemNames, NEW on \in SUBSET names, NEW fit \in SUBSET names,
             NEW first \in names, Setting!SaveServers(names, on, fit, first)
      PROVE  SettingInv'
  <2> DEFINE c == [file["mcp"] EXCEPT !.items = @ \cup names,
                                      !.enabled = (@ \ names) \cup on,
                                      !.fit = (@ \ names) \cup fit, !.default = first]
  <2>1. c \in Setting!Config /\ (Setting!Valid(c) => Setting!Loads(c))
    BY <1>1 DEF Setting!Kinds, Setting!Config, Setting!Loads
  <2>2. (Setting!Valid(c) /\ Setting!Save("mcp", c)) \/ UNCHANGED settingsVars
    BY <1>4 DEF Setting!SaveServers, Setting!Refuse, Setting!vars, settingsVars
  <2> HIDE DEF c
  <2> QED
    BY <2>1, <2>2, SaveStep, SettingsStutter DEF Setting!Kinds
<1>5. ASSUME NEW sort \in Setting!Kinds, NEW n \in ItemNames, NEW on \in BOOLEAN,
             Setting!SwitchItem(sort, n, on)
      PROVE  SettingInv'
  <2> DEFINE c == [file[sort] EXCEPT !.enabled = IF on THEN @ \cup {n} ELSE @ \ {n}]
  <2>1. c \in Setting!Config /\ (Setting!Valid(c) => Setting!Loads(c))
    BY <1>1 DEF Setting!Config, Setting!Loads
  <2>2. (Setting!Valid(c) /\ Setting!Save(sort, c)) \/ UNCHANGED settingsVars
    BY <1>5 DEF Setting!SwitchItem, Setting!Refuse, Setting!vars, settingsVars
  <2> HIDE DEF c
  <2> QED
    BY <2>1, <2>2, SaveStep, SettingsStutter
<1>6. ASSUME NEW sort \in Setting!Kinds, NEW n \in ItemNames, Setting!DeleteItem(sort, n)
      PROVE  SettingInv'
  <2>1. CASE UNCHANGED settingsVars
    BY <2>1, SettingsStutter
  <2>2. CASE ~UNCHANGED settingsVars
    <3>1. PICK heir \in file[sort].items \ {n} :
            Setting!Save(sort, Setting!Without(file[sort], n, heir))
      BY <1>6, <2>2 DEF Setting!DeleteItem, Setting!Refuse, Setting!vars, settingsVars
    <3> DEFINE c == Setting!Without(file[sort], n, heir)
    <3>2. heir \in ItemNames
      BY <1>1 DEF Setting!Config
    <3>3. c \in Setting!Config /\ Setting!Loads(c)
      BY <1>1, <3>2 DEF Setting!Config, Setting!Loads, Setting!Valid, Setting!Without
    <3> HIDE DEF c
    <3> QED
      BY <3>1, <3>3, SaveStep DEF c
  <2> QED
    BY <2>1, <2>2
<1>7. ASSUME NEW sort \in Setting!Modules, NEW on \in BOOLEAN, NEW n \in ItemNames,
             Setting!UpdateModule(sort, on, n)
      PROVE  SettingInv'
  <2>1. switch' \in [Setting!Modules -> BOOLEAN] /\ sort \in Setting!Kinds
    BY <1>7 DEF Setting!UpdateModule, Setting!SetSwitch, SettingInv, Setting!TypeOK,
                Setting!Modules
  <2>2. CASE n \in file[sort].items
    <3> DEFINE f == [file EXCEPT ![sort].default = n]
    <3>1. file' = f /\ loaded' = Setting!Reloaded(f)
      BY <1>7, <2>2 DEF Setting!UpdateModule
    <3>2. f \in [Setting!Kinds -> Setting!Config]
      BY <1>1, <2>1 DEF SettingInv, Setting!TypeOK, Setting!Config
    <3>3. \A other \in Setting!Kinds : Setting!Loads(f[other])
      BY <1>1, <2>1, <2>2 DEF SettingInv, Setting!TypeOK, Setting!Config, Setting!Loads,
                              Setting!Valid
    <3>4. Setting!Reloaded(f) = f
      BY <3>2, <3>3, ReloadReads
    <3> HIDE DEF f
    <3> QED
      BY <2>1, <3>1, <3>2, <3>3, <3>4 DEF SettingInv, Setting!TypeOK, Setting!Loads,
                                          Setting!Valid
  <2>3. CASE n \notin file[sort].items
    BY <1>7, <2>1, <2>3 DEF Setting!UpdateModule, SettingInv, Setting!TypeOK, Setting!Loads,
                            Setting!Valid
  <2> QED
    BY <2>2, <2>3
<1>8. ASSUME NEW sort \in Setting!Modules, NEW on \in BOOLEAN, Setting!SwitchModule(sort, on)
      PROVE  SettingInv'
  BY <1>8, ReloadStep DEF Setting!SwitchModule, Setting!SetSwitch, SettingInv, Setting!TypeOK
<1>9. ASSUME Setting!Restart PROVE SettingInv'
  BY <1>9, ReloadStep DEF Setting!Restart, SettingInv, Setting!TypeOK
<1> QED
  BY <1>2, <1>3, <1>4, <1>5, <1>6, <1>7, <1>8, <1>9 DEF Setting!Next

(* For any names, and whatever is saved, switched and deleted: the         *)
(* services can be built from the files at any time.                       *)
THEOREM FilesAlwaysLoad == StoreSpec => []FilesLoad
<1>1. StoreInit => SettingInv
  <2> SUFFICES ASSUME StoreInit PROVE SettingInv
    OBVIOUS
  <2>1. /\ TRUE \in BOOLEAN
        /\ [items |-> {BuiltIn}, enabled |-> {BuiltIn}, fit |-> {BuiltIn},
            default |-> BuiltIn] \in Setting!Config
    BY StoreAssumption DEF Setting!Config
  <2>2. Setting!TypeOK /\ loaded = file
    BY <2>1 DEF StoreInit, Setting!Init, Setting!TypeOK
  <2>3. \A sort \in Setting!Kinds : Setting!Loads(file[sort])
    BY DEF StoreInit, Setting!Init, Setting!Loads, Setting!Valid
  <2> QED
    BY <2>2, <2>3 DEF SettingInv
<1>2. SettingInv /\ [StoreNext]_storeVars => SettingInv'
  BY SettingNext, SettingsStutter DEF StoreNext, storeVars
<1>3. SettingInv => FilesLoad
  BY StoreAssumption DEF SettingInv, FilesLoad, Setting!FilesLoad, Setting!TypeOK
<1> QED
  BY <1>1, <1>2, <1>3, PTL DEF StoreSpec

-----------------------------------------------------------------------------
(* MemoryStore.  A memory is verified only with evidence, it is retired    *)
(* only once it is stored, and without a deadline of its own the deadline  *)
(* that its replacement gave it is not taken back.                         *)
MemorySound(m) ==
  /\ m \in Memory!Stored /\ memory[m].status = "verified" => memory[m].proven
  /\ m \in retired => m \in Memory!Stored
  /\ m \in retired \ dated => memory[m].until = "past"
  /\ m \notin dated => /\ m \in Memory!Stored => memory[m].until # "future"
                       /\ verifying[m] # None => verifying[m].until # "future"
                       /\ creating[m] # None => creating[m].row.until # "future"
  /\ verifying[m] # None => m \in Memory!Stored
  /\ creating[m] # None =>
       /\ m \notin Memory!Stored
       /\ creating[m].row.status = "verified" => creating[m].row.proven
       /\ creating[m].losers \subseteq Memory!Stored \cup {m}

MemoryInv == Memory!TypeOK /\ \A m \in Memories : MemorySound(m)

(* Steps that concern one memory leave the others sound.                   *)
MemoryFrame(m) ==
  /\ \A o \in Memories \ {m} : /\ memory'[o] = memory[o] /\ creating'[o] = creating[o]
                               /\ verifying'[o] = verifying[o]
                               /\ o \in dated' <=> o \in dated
  /\ retired' = retired
  /\ m \in Memory!Stored => m \in Memory!Stored'

(* A memory that a step does not concern stays sound.                      *)
LEMMA OtherMemories ==
  ASSUME MemoryInv, NEW m \in Memories, MemoryFrame(m), NEW o \in Memories \ {m}
  PROVE  MemorySound(o)'
<1>1. MemorySound(o)
  BY DEF MemoryInv
<1>2. Memory!Stored \subseteq Memory!Stored'
  BY DEF MemoryFrame, Memory!Stored
<1>3. o \in Memory!Stored' <=> o \in Memory!Stored
  BY DEF MemoryFrame, Memory!Stored
<1> QED
  BY <1>1, <1>2, <1>3 DEF MemoryFrame, MemorySound

(* The first request.                                                      *)
LEMMA MemoryInit == Memory!Init => MemoryInv
BY DEF Memory!Init, MemoryInv, Memory!TypeOK, MemorySound, Memory!Stored

(* A memory is proposed.                                                   *)
LEMMA ProposeStep ==
  ASSUME MemoryInv, NEW m \in Memories, NEW asked_for \in {"candidate", "verified"},
         NEW inferred \in BOOLEAN, NEW proven \in BOOLEAN, NEW until \in {"open", "future"},
         Memory!Propose(m, asked_for, inferred, proven, until)
  PROVE  MemoryInv'
<1> DEFINE r == [status |-> Memory!GateStatus(asked_for, inferred, proven),
                 enabled |-> TRUE, deleted |-> FALSE, until |-> until, proven |-> proven]
<1>1. Memory!TypeOK /\ MemorySound(m) /\ memory[m] = None /\ creating[m] = None
  BY DEF MemoryInv, Memory!Propose
<1>2. PICK losers \in Memory!Losers(m), named \in {{}} \cup {{o} : o \in Memory!Stored} :
        creating' = [creating EXCEPT ![m] = [row |-> r, losers |-> losers \cup named]]
  BY DEF Memory!Propose
<1>3. losers \cup named \subseteq Memory!Stored \cup {m}
  BY DEF Memory!Losers, Memory!Conflicts, Memory!Live
<1>4. /\ r \in Memory!Row /\ r.until = until
      /\ r.status = "verified" => r.proven
  BY DEF Memory!Row, Memory!GateStatus, Memory!Passes, Memory!Status, Memory!Until
<1> HIDE DEF r
<1>5. [row |-> r, losers |-> losers \cup named] \in Memory!Creation
  BY <1>3, <1>4 DEF Memory!Creation, Memory!Stored
<1>6. Memory!TypeOK'
  BY <1>1, <1>2, <1>5 DEF Memory!TypeOK, Memory!Propose
<1>7. /\ creating'[m] = [row |-> r, losers |-> losers \cup named]
      /\ UNCHANGED <<memory, verifying, retired>>
      /\ Memory!Stored' = Memory!Stored /\ m \notin Memory!Stored
      /\ m \notin dated' => until # "future"
  BY <1>1, <1>2 DEF Memory!TypeOK, Memory!Propose, Memory!Stored
<1>8. MemorySound(m)'
  BY <1>1, <1>3, <1>4, <1>7 DEF MemorySound
<1>9. MemoryFrame(m)
  BY <1>1, <1>2, <1>7 DEF MemoryFrame, Memory!TypeOK, Memory!Propose
<1> QED
  BY <1>6, <1>8, <1>9, OtherMemories DEF MemoryInv

(* It is committed, and the memories that lose against it are retired.     *)
LEMMA CommitStep ==
  ASSUME MemoryInv, NEW m \in Memories, Memory!Commit(m)
  PROVE  MemoryInv'
<1>1. /\ Memory!TypeOK /\ creating[m] # None /\ creating[m] \in Memory!Creation
      /\ \A o \in Memories : MemorySound(o)
  BY DEF MemoryInv, Memory!Commit, Memory!TypeOK
<1>2. PICK losers \in SUBSET Memories, r \in Memory!Row :
        losers = creating[m].losers /\ r = creating[m].row
  BY <1>1 DEF Memory!Creation
<1> DEFINE new == [memory EXCEPT ![m] = r]
<1>3. /\ memory' = [o \in Memories |-> IF o \in losers THEN Memory!Retire(new[o]) ELSE new[o]]
      /\ retired' = retired \cup losers
      /\ creating' = [creating EXCEPT ![m] = None]
      /\ UNCHANGED <<verifying, dated>>
  BY <1>2 DEF Memory!Commit
<1>4. /\ losers \subseteq Memory!Stored \cup {m} /\ m \notin Memory!Stored
      /\ r.status = "verified" => r.proven
      /\ m \notin dated => r.until # "future"
  BY <1>1, <1>2 DEF MemorySound
<1>5. ASSUME NEW x \in Memory!Row
      PROVE  /\ Memory!Retire(x) \in Memory!Row /\ Memory!Retire(x).until = "past"
             /\ Memory!Retire(x).status = "superseded"
  BY DEF Memory!Retire, Memory!Row, Memory!Status, Memory!Until
<1>6. \A o \in Memories : new[o] = IF o = m THEN r ELSE memory[o]
  BY <1>1 DEF Memory!TypeOK
<1>7. ASSUME NEW o \in Memories, o \in Memory!Stored \cup {m}
      PROVE  /\ new[o] \in Memory!Row
             /\ memory'[o] = (IF o \in losers THEN Memory!Retire(new[o]) ELSE new[o])
             /\ memory'[o] \in Memory!Row /\ o \in Memory!Stored'
  BY <1>1, <1>3, <1>5, <1>6, <1>7, StoreAssumption DEF Memory!Stored, Memory!TypeOK
<1>8. ASSUME NEW o \in Memories, o \notin Memory!Stored \cup {m}
      PROVE  memory'[o] = None /\ o \notin Memory!Stored' /\ o \notin losers
  BY <1>3, <1>4, <1>6, <1>8 DEF Memory!Stored
<1> HIDE DEF new
<1>9. \A o \in Memories : creating'[o] = IF o = m THEN None ELSE creating[o]
  BY <1>1, <1>3 DEF Memory!TypeOK
<1>10. Memory!TypeOK'
  <2>1. \A o \in Memories : memory'[o] \in Memory!Row \cup {None}
    BY <1>7, <1>8
  <2>2. memory' \in [Memories -> Memory!Row \cup {None}]
    BY <1>3, <2>1
  <2> QED
    BY <1>1, <1>3, <2>2 DEF Memory!TypeOK
<1>11. ASSUME NEW o \in Memories PROVE MemorySound(o)'
  <2>1. Memory!Stored' = Memory!Stored \cup {m}
    BY <1>7, <1>8 DEF Memory!Stored
  <2>2. creating'[o] # None => o # m /\ creating'[o] = creating[o]
    BY <1>9
  <2>3. /\ verifying'[o] = verifying[o] /\ (o \in dated' <=> o \in dated)
        /\ o \in retired' <=> o \in retired \cup losers
    BY <1>3
  <2>4. CASE o \in losers
    <3>1. memory'[o].until = "past" /\ memory'[o].status = "superseded" /\ o \in Memory!Stored'
      BY <1>4, <1>5, <1>7, <2>4
    <3>2. creating'[o] # None => FALSE
      BY <1>1, <1>4, <2>2, <2>4 DEF MemorySound
    <3> QED
      BY <1>1, <2>1, <2>3, <3>1, <3>2 DEF MemorySound
  <2>5. CASE o = m /\ o \notin losers
    <3>1. memory'[o] = r /\ creating'[o] = None /\ o \in Memory!Stored' /\ o \notin retired
      BY <1>1, <1>4, <1>6, <1>7, <1>9, <2>5 DEF MemorySound
    <3> QED
      BY <1>1, <1>4, <2>3, <2>5, <3>1 DEF MemorySound
  <2>6. CASE o # m /\ o \notin losers
    <3>1. memory'[o] = memory[o]
      BY <1>3, <1>6, <2>6
    <3>2. o \in Memory!Stored' <=> o \in Memory!Stored
      BY <2>1, <2>6
    <3>3. creating'[o] = creating[o] /\ Memory!Stored \subseteq Memory!Stored'
      BY <1>9, <2>1, <2>6
    <3>4. o \in retired' <=> o \in retired
      BY <2>3, <2>6
    <3>5. creating'[o] # None => o \notin Memory!Stored'
                                 /\ creating'[o].losers \subseteq Memory!Stored' \cup {o}
      BY <1>1, <3>2, <3>3 DEF MemorySound
    <3> QED
      BY <1>1, <2>3, <3>1, <3>2, <3>3, <3>4, <3>5 DEF MemorySound
  <2> QED
    BY <2>4, <2>5, <2>6
<1> QED
  BY <1>10, <1>11 DEF MemoryInv

(* A verification reads the memory, and loads it again.                    *)
LEMMA VerifyStep ==
  ASSUME MemoryInv, NEW m \in Memories,
         (\E i, p \in BOOLEAN : Memory!StartVerify(m, i, p)) \/ Memory!LoadVerify(m)
  PROVE  MemoryInv'
<1>1. /\ Memory!TypeOK /\ MemorySound(m)
      /\ UNCHANGED <<memory, creating, dated, retired>> /\ Memory!Stored' = Memory!Stored
  BY DEF MemoryInv, Memory!StartVerify, Memory!LoadVerify, Memory!Stored
<1>2. PICK v \in Memory!Verification \cup {None} :
        /\ verifying' = [verifying EXCEPT ![m] = v]
        /\ v # None => m \in Memory!Stored /\ (m \notin dated => v.until # "future")
  <2>1. CASE \E i, p \in BOOLEAN : Memory!StartVerify(m, i, p)
    <3> DEFINE v == [until |-> memory[m].until, seen |-> None]
    <3>1. m \in Memory!Stored /\ verifying' = [verifying EXCEPT ![m] = v]
      BY <2>1 DEF Memory!StartVerify, Memory!Live
    <3>2. memory[m] \in Memory!Row
      BY <1>1, <3>1 DEF Memory!TypeOK, Memory!Stored
    <3>3. v \in Memory!Verification
      BY <3>2 DEF Memory!Verification, Memory!Row
    <3>4. m \notin dated => v.until # "future"
      BY <1>1, <3>1 DEF MemorySound
    <3> QED
      BY <3>1, <3>3, <3>4
  <2>2. CASE Memory!LoadVerify(m)
    <3> DEFINE now == [status |-> memory[m].status, until |-> memory[m].until]
    <3>1. verifying[m] \in Memory!Verification /\ verifying[m] # None
      BY <1>1, <2>2 DEF Memory!LoadVerify, Memory!TypeOK
    <3>2. m \in Memory!Stored /\ (m \notin dated => verifying[m].until # "future")
      BY <1>1, <3>1 DEF MemorySound
    <3>3. CASE m \in Memory!Live
      <4>1. now \in [status : Memory!Status, until : Memory!Until]
        BY <1>1, <3>2 DEF Memory!TypeOK, Memory!Stored, Memory!Row
      <4> DEFINE v == [verifying[m] EXCEPT !.seen = now]
      <4>2. v \in Memory!Verification /\ v.until = verifying[m].until
        BY <3>1, <4>1 DEF Memory!Verification
      <4>3. verifying' = [verifying EXCEPT ![m] = v]
        BY <2>2, <3>3 DEF Memory!LoadVerify
      <4> QED
        BY <3>2, <4>2, <4>3
    <3>4. CASE m \notin Memory!Live
      BY <2>2, <3>4 DEF Memory!LoadVerify
    <3> QED
      BY <3>3, <3>4
  <2> QED
    BY <2>1, <2>2
<1>3. Memory!TypeOK'
  BY <1>1, <1>2 DEF Memory!TypeOK
<1>4. verifying'[m] = v /\ \A o \in Memories \ {m} : verifying'[o] = verifying[o]
  BY <1>1, <1>2 DEF Memory!TypeOK
<1>5. MemorySound(m)'
  BY <1>1, <1>2, <1>4 DEF MemorySound
<1>6. MemoryFrame(m)
  BY <1>1, <1>4 DEF MemoryFrame
<1> QED
  BY <1>3, <1>5, <1>6, OtherMemories DEF MemoryInv

(* The row of one memory is written, with evidence if it is then verified, *)
(* and without taking a deadline back that its own did not set.            *)
LEMMA WriteStep ==
  ASSUME MemoryInv, NEW m \in Memories, m \in Memory!Stored,
         NEW r \in Memory!Row, memory' = [memory EXCEPT ![m] = r],
         verifying' = verifying \/ verifying' = [verifying EXCEPT ![m] = None],
         UNCHANGED <<creating, dated, retired>>,
         r.status = "verified" => r.proven,
         m \notin dated => /\ r.until # "future"
                           /\ memory[m].until = "past" => r.until = "past"
  PROVE  MemoryInv'
<1>1. Memory!TypeOK /\ MemorySound(m)
  BY DEF MemoryInv
<1>2. memory'[m] = r /\ \A o \in Memories \ {m} : memory'[o] = memory[o]
  BY <1>1 DEF Memory!TypeOK
<1>3. /\ \A o \in Memories \ {m} : verifying'[o] = verifying[o]
      /\ verifying'[m] \in {verifying[m], None}
  BY <1>1 DEF Memory!TypeOK
<1>4. Memory!TypeOK'
  BY <1>1 DEF Memory!TypeOK
<1>5. m \in Memory!Stored' /\ Memory!Stored' = Memory!Stored
  BY <1>2, StoreAssumption DEF Memory!Stored
<1>6. MemorySound(m)'
  BY <1>1, <1>2, <1>3, <1>5 DEF MemorySound
<1>7. MemoryFrame(m)
  BY <1>2, <1>3, <1>5 DEF MemoryFrame
<1> QED
  BY <1>4, <1>6, <1>7, OtherMemories DEF MemoryInv

(* The end of a verification, a switch and a deletion write so.            *)
LEMMA RowWritten ==
  ASSUME MemoryInv, NEW m \in Memories,
         \/ Memory!EndVerify(m) \/ Memory!Delete(m)
         \/ \E enabled \in BOOLEAN : Memory!Enable(m, enabled)
  PROVE  MemoryInv'
<1>1. /\ Memory!TypeOK /\ MemorySound(m) /\ m \in Memory!Stored
      /\ UNCHANGED <<creating, dated, retired>>
  BY DEF MemoryInv, Memory!EndVerify, Memory!Delete, Memory!Enable, MemorySound, Memory!Live
<1>2. memory[m] \in Memory!Row
  BY <1>1 DEF Memory!TypeOK, Memory!Stored
<1>3. CASE Memory!EndVerify(m)
  <2> DEFINE v == verifying[m]
             r == [memory[m] EXCEPT
                    !.proven = TRUE,
                    !.status = IF v.seen.status = "verified" THEN @ ELSE "verified",
                    !.until = IF v.until \in {"open", v.seen.until} THEN @ ELSE v.until]
  <2>1. v \in Memory!Verification /\ v # None
    BY <1>1, <1>3 DEF Memory!EndVerify, Memory!TypeOK
  <2>2. memory' = [memory EXCEPT ![m] = r] /\ verifying' = [verifying EXCEPT ![m] = None]
    BY <1>1, <1>3 DEF Memory!EndVerify, Memory!TypeOK
  <2>3. /\ r \in Memory!Row /\ r.proven
        /\ r.until \in {memory[m].until, v.until}
        /\ v.until = "open" => r.until = memory[m].until
    BY <1>2, <2>1 DEF Memory!Row, Memory!Verification, Memory!Status
  <2>4. m \notin dated => v.until \in {"open", "past"}
    BY <1>1, <2>1 DEF MemorySound, Memory!Verification, Memory!Until
  <2> HIDE DEF r, v
  <2>5. m \notin dated => memory[m].until # "future"
    BY <1>1 DEF MemorySound
  <2> QED
    BY <1>1, <2>2, <2>3, <2>4, <2>5, WriteStep
<1>4. CASE \E enabled \in BOOLEAN : Memory!Enable(m, enabled)
  <2> PICK enabled \in BOOLEAN : Memory!Enable(m, enabled)
    BY <1>4
  <2> DEFINE r == [memory[m] EXCEPT !.enabled = enabled]
  <2>1. memory' = [memory EXCEPT ![m] = r] /\ verifying' = verifying
    BY DEF Memory!Enable
  <2>2. /\ r \in Memory!Row /\ r.status = memory[m].status
        /\ r.proven = memory[m].proven /\ r.until = memory[m].until
    BY <1>2 DEF Memory!Row
  <2> HIDE DEF r
  <2> QED
    BY <1>1, <2>1, <2>2, WriteStep DEF MemorySound
<1>5. CASE Memory!Delete(m)
  <2> DEFINE r == [memory[m] EXCEPT !.status = "deleted", !.deleted = TRUE]
  <2>1. memory' = [memory EXCEPT ![m] = r] /\ verifying' = verifying
    BY <1>5 DEF Memory!Delete
  <2>2. r \in Memory!Row /\ r.status = "deleted" /\ r.until = memory[m].until
    BY <1>2 DEF Memory!Row, Memory!Status
  <2> HIDE DEF r
  <2> QED
    BY <1>1, <2>1, <2>2, WriteStep DEF MemorySound
<1> QED
  BY <1>3, <1>4, <1>5

(* A deadline passes: only a memory that was given one has one.            *)
LEMMA ExpireStep ==
  ASSUME MemoryInv, NEW m \in Memories, Memory!Expire(m)
  PROVE  MemoryInv'
<1> DEFINE r == [memory[m] EXCEPT !.until = Memory!Passed(@)]
           v == IF verifying[m] = None THEN None
                ELSE [until |-> Memory!Passed(verifying[m].until),
                      seen |-> IF verifying[m].seen = None THEN None
                               ELSE [status |-> verifying[m].seen.status,
                                     until |-> Memory!Passed(verifying[m].seen.until)]]
<1>1. /\ Memory!TypeOK /\ MemorySound(m) /\ m \in Memory!Stored /\ m \in dated
      /\ UNCHANGED <<creating, dated, retired>>
  BY DEF MemoryInv, Memory!Expire
<1>2. memory[m] \in Memory!Row
  BY <1>1 DEF Memory!TypeOK, Memory!Stored
<1>3. memory' = [memory EXCEPT ![m] = r] /\ verifying' = [verifying EXCEPT ![m] = v]
  BY <1>1 DEF Memory!Expire, Memory!TypeOK
<1>4. /\ r \in Memory!Row /\ r.status = memory[m].status /\ r.proven = memory[m].proven
  BY <1>2 DEF Memory!Row, Memory!Passed, Memory!Until
<1>5. v \in Memory!Verification \cup {None}
  <2>1. ASSUME NEW until \in Memory!Until PROVE Memory!Passed(until) \in Memory!Until
    BY DEF Memory!Passed, Memory!Until
  <2>2. CASE verifying[m] # None
    <3>1. /\ verifying[m].until \in Memory!Until
          /\ verifying[m].seen \in [status : Memory!Status, until : Memory!Until] \cup {None}
      BY <1>1, <2>2 DEF Memory!TypeOK, Memory!Verification
    <3> DEFINE before == IF verifying[m].seen = None THEN None
                         ELSE [status |-> verifying[m].seen.status,
                               until |-> Memory!Passed(verifying[m].seen.until)]
    <3>2. before \in [status : Memory!Status, until : Memory!Until] \cup {None}
      BY <2>1, <3>1
    <3> HIDE DEF before
    <3>3. [until |-> Memory!Passed(verifying[m].until), seen |-> before] \in Memory!Verification
      BY <2>1, <3>1, <3>2 DEF Memory!Verification
    <3> QED
      BY <2>2, <3>3 DEF before
  <2> QED
    BY <2>2
<1>6. v # None => verifying[m] # None
  OBVIOUS
<1> HIDE DEF r, v
<1>7. /\ memory'[m] = r /\ verifying'[m] = v
      /\ \A o \in Memories \ {m} : memory'[o] = memory[o] /\ verifying'[o] = verifying[o]
  BY <1>1, <1>3 DEF Memory!TypeOK
<1>8. Memory!Stored' = Memory!Stored
  BY <1>1, <1>4, <1>7, StoreAssumption DEF Memory!Stored
<1>9. Memory!TypeOK'
  BY <1>1, <1>3, <1>4, <1>5 DEF Memory!TypeOK
<1>10. MemorySound(m)'
  BY <1>1, <1>4, <1>6, <1>7, <1>8 DEF MemorySound
<1>11. MemoryFrame(m)
  BY <1>1, <1>7, <1>8 DEF MemoryFrame
<1> QED
  BY <1>9, <1>10, <1>11, OtherMemories DEF MemoryInv

(* Every step keeps the invariant,                                         *)
LEMMA MemoryNext == ASSUME MemoryInv, Memory!Next PROVE MemoryInv'
BY ProposeStep, CommitStep, VerifyStep, RowWritten, ExpireStep DEF Memory!Next

(* and so does one of another component.                                   *)
LEMMA MemoryStutter == ASSUME MemoryInv, UNCHANGED memoryVars PROVE MemoryInv'
<1>1. UNCHANGED <<memory, creating, verifying, dated, retired>>
  BY DEF memoryVars
<1>2. Memory!Stored' = Memory!Stored
  BY <1>1 DEF Memory!Stored
<1>3. \A m \in Memories : MemorySound(m)'
  BY <1>1, <1>2 DEF MemoryInv, MemorySound
<1> QED
  BY <1>1, <1>3 DEF MemoryInv, Memory!TypeOK

-----------------------------------------------------------------------------
(* MemoryLife.  What a pass has read was once true: no more hits than      *)
(* there were, no less confidence than the floor leaves, and no more than  *)
(* at the start as long as the memory has not been promoted.               *)
LeastConf(m) == Life!LesserOf(start[m], Floor)

NoteSound(m) ==
  /\ note[m].count <= hits[m]
  /\ note[m].authority = "verified" => hits[m] >= MinHits
  /\ note[m].authority # "verified" => note[m].conf <= start[m]
  /\ note[m].conf >= LeastConf(m)

ReadSound(p, m) ==
  pass[p] # Life!Sleeping =>
    /\ pass[p].read[m].count <= hits[m]
    /\ note[m].authority # "verified" => pass[p].read[m].conf <= start[m]
    /\ pass[p].read[m].conf >= LeastConf(m)

LifeInv ==
  /\ Life!TypeOK
  /\ \A m \in Notes : NoteSound(m) /\ \A p \in LifePasses : ReadSound(p, m)

(* The numbers of the life cycle.                                          *)
LEMMA LifeNumbers ==
  /\ MaxConf \in Nat /\ MinHits \in Nat /\ Promoted \in Nat /\ Floor \in Nat /\ MaxDays \in Nat
  /\ Promoted <= MaxConf /\ Pace \in [Notes -> Nat] /\ Confs \subseteq 0..MaxConf
BY StoreAssumption

(* Before the first memory is remembered, and when nothing happens.        *)
LEMMA LifeInit == Life!Init => LifeInv
<1> SUFFICES ASSUME Life!Init PROVE LifeInv
  OBVIOUS
<1>1. /\ FALSE \in BOOLEAN /\ 0 \in 0..MaxConf /\ 0 \in 0..MinHits /\ 0 \in 0..MaxDays
  BY LifeNumbers
<1>2. Life!TypeOK
  BY <1>1 DEF Life!Init, Life!TypeOK, Life!Row, Life!Authority
<1>3. ASSUME NEW m \in Notes PROVE NoteSound(m)
  BY LifeNumbers DEF Life!Init, NoteSound, LeastConf, Life!LesserOf
<1>4. ASSUME NEW m \in Notes, NEW p \in LifePasses PROVE ReadSound(p, m)
  BY DEF Life!Init, ReadSound
<1> QED
  BY <1>2, <1>3, <1>4 DEF LifeInv

(* The range of what is counted.                                           *)
LEMMA LifeTypes ==
  ASSUME Life!TypeOK, NEW m \in Notes
  PROVE  /\ note[m] \in Life!Row /\ note[m].conf \in 0..MaxConf
         /\ note[m].count \in 0..MinHits /\ note[m].authority \in Life!Authority
         /\ start[m] \in 0..MaxConf /\ hits[m] \in 0..MinHits
         /\ LeastConf(m) \in Nat /\ LeastConf(m) <= Floor
         /\ \A p \in LifePasses : pass[p] # Life!Sleeping =>
              /\ pass[p] \in Life!Pass /\ pass[p].read[m] \in Life!Row
              /\ pass[p].read[m].conf \in 0..MaxConf /\ pass[p].read[m].count \in 0..MinHits
BY LifeNumbers DEF Life!TypeOK, Life!Row, Life!Pass, LeastConf, Life!LesserOf

(* What a retrieval and the user do to one memory.                         *)
LEMMA NoteStep ==
  ASSUME LifeInv, NEW m \in Notes,
         \/ \E conf \in Confs, authority \in {"suggested", "other"} :
              Life!Remember(m, conf, authority)
         \/ \E b \in BOOLEAN : Life!Prove(m, b) \/ Life!Hit(m, b)
  PROVE  LifeInv'
<1>1. Life!TypeOK /\ UNCHANGED pass
  BY DEF LifeInv, Life!Remember, Life!Prove, Life!Hit
<1>2. /\ note[m] \in Life!Row /\ note[m].conf \in 0..MaxConf /\ note[m].count \in 0..MinHits
      /\ start[m] \in 0..MaxConf /\ hits[m] \in 0..MinHits /\ MinHits \in Nat
      /\ NoteSound(m) /\ \A p \in LifePasses : ReadSound(p, m)
  BY <1>1, LifeTypes, LifeNumbers DEF LifeInv
<1>3. PICK r \in Life!Row, first \in 0..MaxConf, least_hits \in 0..MinHits :
        /\ note' = [note EXCEPT ![m] = r] /\ start' = [start EXCEPT ![m] = first]
        /\ hits' = [hits EXCEPT ![m] = least_hits] /\ least_hits >= hits[m]
        /\ r.authority = "verified" <=> note[m].authority = "verified"
        /\ r.count <= least_hits
        /\ \/ first = start[m] /\ r.conf = note[m].conf
           \/ first = r.conf /\ \A p \in LifePasses : pass[p] = Life!Sleeping
  <2>1. start = [start EXCEPT ![m] = start[m]] /\ hits = [hits EXCEPT ![m] = hits[m]]
    BY <1>1 DEF Life!TypeOK
  <2>2. ASSUME NEW conf \in Confs, NEW authority \in {"suggested", "other"},
               Life!Remember(m, conf, authority)
        PROVE  \E r \in Life!Row, first \in 0..MaxConf :
                 /\ note' = [note EXCEPT ![m] = r] /\ start' = [start EXCEPT ![m] = first]
                 /\ hits' = [hits EXCEPT ![m] = hits[m]]
                 /\ r.authority = "verified" <=> note[m].authority = "verified"
                 /\ r.count <= hits[m]
                 /\ first = r.conf /\ \A p \in LifePasses : pass[p] = Life!Sleeping
    <3> DEFINE r == [note[m] EXCEPT !.conf = conf, !.authority = authority]
    <3>1. conf \in 0..MaxConf
      BY LifeNumbers
    <3>2. /\ r \in Life!Row /\ r.conf = conf /\ r.authority = authority
          /\ r.count = note[m].count
      BY <1>2, <3>1 DEF Life!Row, Life!Authority
    <3>3. note' = [note EXCEPT ![m] = r] /\ start' = [start EXCEPT ![m] = conf] /\ hits' = hits
      BY <2>2 DEF Life!Remember
    <3>4. note[m].authority = "other" /\ \A p \in LifePasses : pass[p] = Life!Sleeping
      BY <2>2 DEF Life!Remember
    <3> HIDE DEF r
    <3> QED
      BY <1>2, <2>1, <3>1, <3>2, <3>3, <3>4 DEF NoteSound
  <2>3. ASSUME NEW b \in BOOLEAN, Life!Prove(m, b)
        PROVE  \E r \in Life!Row :
                 /\ note' = [note EXCEPT ![m] = r] /\ start' = start /\ hits' = hits
                 /\ r.authority = note[m].authority /\ r.count = note[m].count
                 /\ r.conf = note[m].conf
    <3> DEFINE r == [note[m] EXCEPT !.proven = b]
    <3>1. /\ r \in Life!Row /\ r.conf = note[m].conf /\ r.authority = note[m].authority
          /\ r.count = note[m].count
      BY <1>2 DEF Life!Row
    <3>2. note' = [note EXCEPT ![m] = r] /\ start' = start /\ hits' = hits
      BY <2>3 DEF Life!Prove
    <3> HIDE DEF r
    <3> QED
      BY <3>1, <3>2
  <2>4. ASSUME NEW b \in BOOLEAN, Life!Hit(m, b)
        PROVE  \E r \in Life!Row, least_hits \in 0..MinHits :
                 /\ note' = [note EXCEPT ![m] = r] /\ start' = start
                 /\ hits' = [hits EXCEPT ![m] = least_hits] /\ least_hits >= hits[m]
                 /\ r.authority = note[m].authority /\ r.count <= least_hits
                 /\ r.conf = note[m].conf
    <3> DEFINE n == IF b THEN Life!LesserOf(MinHits, note[m].count + 1) ELSE note[m].count
               h == Life!LesserOf(MinHits, hits[m] + 1)
               r == [note[m] EXCEPT !.days = 0, !.count = n]
    <3>1. n \in 0..MinHits /\ h \in 0..MinHits /\ h >= hits[m] /\ n <= h /\ 0 \in 0..MaxDays
      BY <1>2, LifeNumbers DEF Life!LesserOf, NoteSound
    <3> HIDE DEF n, h
    <3>2. /\ r \in Life!Row /\ r.conf = note[m].conf /\ r.authority = note[m].authority
          /\ r.count = n
      BY <1>2, <3>1 DEF Life!Row
    <3>3. note' = [note EXCEPT ![m] = r] /\ start' = start /\ hits' = [hits EXCEPT ![m] = h]
      BY <2>4 DEF Life!Hit, n, h
    <3> HIDE DEF r
    <3> QED
      BY <3>1, <3>2, <3>3
  <2>5. CASE \E conf \in Confs, authority \in {"suggested", "other"} :
               Life!Remember(m, conf, authority)
    BY <1>2, <2>2, <2>5
  <2>6. CASE \E b \in BOOLEAN : Life!Prove(m, b)
    BY <1>2, <2>1, <2>3, <2>6 DEF NoteSound
  <2>7. CASE \E b \in BOOLEAN : Life!Hit(m, b)
    BY <1>2, <2>1, <2>4, <2>7
  <2> QED
    BY <2>5, <2>6, <2>7
<1>4. /\ note'[m] = r /\ start'[m] = first /\ hits'[m] = least_hits
      /\ \A o \in Notes \ {m} : note'[o] = note[o] /\ start'[o] = start[o] /\ hits'[o] = hits[o]
  BY <1>1, <1>3 DEF Life!TypeOK
<1>5. Life!TypeOK'
  BY <1>1, <1>3 DEF Life!TypeOK
<1>6. r.conf \in 0..MaxConf /\ r.count \in 0..MinHits
  BY DEF Life!Row
<1>7. NoteSound(m)' /\ \A p \in LifePasses : ReadSound(p, m)'
  BY <1>1, <1>2, <1>3, <1>4, <1>5, <1>6, LifeTypes, LifeNumbers
  DEF NoteSound, ReadSound, LeastConf, Life!LesserOf
<1>8. ASSUME NEW o \in Notes \ {m} PROVE NoteSound(o)' /\ \A p \in LifePasses : ReadSound(p, o)'
  BY <1>1, <1>4 DEF LifeInv, NoteSound, ReadSound, LeastConf
<1> QED
  BY <1>5, <1>7, <1>8 DEF LifeInv

(* A day without a hit.                                                    *)
LEMMA DayStep == ASSUME LifeInv, Life!Day PROVE LifeInv'
<1>1. Life!TypeOK /\ UNCHANGED <<start, hits, pass>>
  BY DEF LifeInv, Life!Day
<1>2. ASSUME NEW m \in Notes
      PROVE  /\ note'[m] \in Life!Row /\ note'[m].conf = note[m].conf
             /\ note'[m].count = note[m].count /\ note'[m].authority = note[m].authority
  <2>1. note'[m] = [note[m] EXCEPT !.days = Life!LesserOf(MaxDays, note[m].days + 1)]
    BY DEF Life!Day
  <2>2. note[m] \in Life!Row
    BY <1>1, LifeTypes
  <2>3. Life!LesserOf(MaxDays, note[m].days + 1) \in 0..MaxDays
    BY <2>2, LifeNumbers DEF Life!Row, Life!LesserOf
  <2> QED
    BY <2>1, <2>2, <2>3 DEF Life!Row
<1>3. note' \in [Notes -> Life!Row]
  BY <1>2 DEF Life!Day
<1> QED
  BY <1>1, <1>2, <1>3 DEF LifeInv, Life!TypeOK, NoteSound, ReadSound, LeastConf

(* A pass reads the memories, or gives up.                                 *)
LEMMA ScanStep ==
  ASSUME LifeInv, NEW p \in LifePasses, Life!Scan(p) \/ Life!GiveUp(p)
  PROVE  LifeInv'
<1>1. Life!TypeOK /\ UNCHANGED <<note, start, hits>>
  BY DEF LifeInv, Life!Scan, Life!GiveUp
<1> DEFINE new == [at |-> "decay", read |-> note, left |-> Notes]
<1>2. new \in Life!Pass
  BY <1>1 DEF Life!Pass, Life!TypeOK
<1>3. pass' = [pass EXCEPT ![p] = new] \/ pass' = [pass EXCEPT ![p] = Life!Sleeping]
  BY DEF Life!Scan, Life!GiveUp
<1>4. Life!TypeOK'
  BY <1>1, <1>2, <1>3 DEF Life!TypeOK
<1>5. /\ pass'[p] \in {new, Life!Sleeping}
      /\ \A q \in LifePasses \ {p} : pass'[q] = pass[q]
  BY <1>1, <1>3 DEF Life!TypeOK
<1>6. ASSUME NEW m \in Notes PROVE NoteSound(m)' /\ \A q \in LifePasses : ReadSound(q, m)'
  <2>1. NoteSound(m)'
    BY <1>1 DEF LifeInv, NoteSound, LeastConf
  <2>2. ReadSound(p, m)'
    BY <1>1, <1>5, <2>1 DEF NoteSound, ReadSound, LeastConf
  <2>3. \A q \in LifePasses \ {p} : ReadSound(q, m)'
    BY <1>1, <1>5 DEF LifeInv, ReadSound, LeastConf
  <2> QED
    BY <2>2, <2>3, <2>1
<1> QED
  BY <1>4, <1>6 DEF LifeInv

(* A pass that is awake stays sound when only its place changes.           *)
LEMMA PassMoves ==
  ASSUME LifeInv, NEW p \in LifePasses, pass[p] # Life!Sleeping, NEW new,
         new = Life!Sleeping \/ (new \in Life!Pass /\ new.read = pass[p].read),
         pass' = [pass EXCEPT ![p] = new]
  PROVE  /\ pass' \in [LifePasses -> Life!Pass \cup {Life!Sleeping}]
         /\ \A q \in LifePasses : pass'[q] # Life!Sleeping =>
              pass[q] # Life!Sleeping /\ pass'[q].read = pass[q].read
<1>1. Life!TypeOK
  BY DEF LifeInv
<1> QED
  BY <1>1 DEF Life!TypeOK

(* The decay: less confidence than was read, but not less than the floor.  *)
LEMMA DecayStep == ASSUME LifeInv, NEW p \in LifePasses, Life!ApplyDecay(p) PROVE LifeInv'
<1> DEFINE read == pass[p].read
           new == [pass[p] EXCEPT !.at = "promote"]
<1>1. /\ Life!TypeOK /\ pass[p] # Life!Sleeping /\ pass[p] \in Life!Pass
      /\ UNCHANGED <<start, hits>>
  BY DEF LifeInv, Life!TypeOK, Life!ApplyDecay, Life!Sleeping
<1>2. pass' = [pass EXCEPT ![p] = new]
  BY <1>1 DEF Life!ApplyDecay, Life!TypeOK
<1>3. new \in Life!Pass /\ new.read = pass[p].read
  BY <1>1 DEF Life!Pass
<1> HIDE DEF new
<1>4. /\ pass' \in [LifePasses -> Life!Pass \cup {Life!Sleeping}]
      /\ \A q \in LifePasses : pass'[q] # Life!Sleeping =>
           pass[q] # Life!Sleeping /\ pass'[q].read = pass[q].read
  BY <1>1, <1>2, <1>3, PassMoves
<1>5. ASSUME NEW m \in Notes
      PROVE  /\ note'[m] \in Life!Row
             /\ note'[m].count = note[m].count /\ note'[m].authority = note[m].authority
             /\ \/ note'[m].conf = note[m].conf
                \/ note'[m].conf >= Floor /\ note'[m].conf < read[m].conf
  <2>1. /\ note[m] \in Life!Row /\ read[m] \in Life!Row /\ Floor \in Nat
        /\ read[m].conf \in 0..MaxConf /\ MaxConf \in Nat
    BY <1>1, LifeTypes, LifeNumbers
  <2>2. note'[m] = IF Life!Fade(m, read[m]) < read[m].conf
                   THEN [note[m] EXCEPT !.conf = Life!Fade(m, read[m])]
                   ELSE note[m]
    BY DEF Life!ApplyDecay
  <2>3. Life!Decayed(m, read[m]) \in Int
    <3>1. Pace[m] \in Nat /\ read[m].days \in Nat
      BY <2>1, LifeNumbers DEF Life!Row
    <3>2. Pace[m] * read[m].days \in Nat
      BY <3>1
    <3>3. 1 + Pace[m] * read[m].days \in Nat \ {0}
      BY <3>2
    <3> QED
      BY <2>1, <3>3 DEF Life!Decayed
  <2>4. Life!Fade(m, read[m]) \in Int /\ Life!Fade(m, read[m]) >= Floor
    BY <2>1, <2>3 DEF Life!Fade, Life!GreaterOf
  <2>5. CASE Life!Fade(m, read[m]) < read[m].conf
    <3>1. Life!Fade(m, read[m]) \in 0..MaxConf
      BY <2>1, <2>4, <2>5
    <3> QED
      BY <2>1, <2>2, <2>4, <2>5, <3>1 DEF Life!Row
  <2>6. CASE ~(Life!Fade(m, read[m]) < read[m].conf)
    BY <2>1, <2>2, <2>6
  <2> QED
    BY <2>5, <2>6
<1>6. Life!TypeOK'
  <2>1. note' \in [Notes -> Life!Row]
    BY <1>5 DEF Life!ApplyDecay
  <2> QED
    BY <1>1, <1>4, <2>1 DEF Life!TypeOK
<1>7. ASSUME NEW m \in Notes PROVE NoteSound(m)' /\ \A q \in LifePasses : ReadSound(q, m)'
  <2>1. NoteSound(m) /\ \A q \in LifePasses : ReadSound(q, m)
    BY DEF LifeInv
  <2>2. /\ start[m] \in 0..MaxConf /\ LeastConf(m) \in Nat /\ LeastConf(m) <= Floor
        /\ read[m].conf \in 0..MaxConf /\ note'[m].conf \in 0..MaxConf
    BY <1>1, <1>5, LifeTypes DEF Life!Row
  <2>3. LeastConf(m)' = LeastConf(m)
    BY <1>1 DEF LeastConf
  <2>4. note[m].authority # "verified" => read[m].conf <= start[m]
    BY <1>1, <2>1 DEF ReadSound
  <2>5. NoteSound(m)'
    BY <1>1, <1>5, <2>1, <2>2, <2>3, <2>4, LifeNumbers DEF NoteSound
  <2>6. \A q \in LifePasses : ReadSound(q, m)'
    BY <1>1, <1>4, <1>5, <2>1, <2>3 DEF ReadSound
  <2> QED
    BY <2>5, <2>6
<1> QED
  BY <1>6, <1>7 DEF LifeInv

(* The promotion: only of a memory that had its hits when it was read.     *)
LEMMA ConsolidateStep ==
  ASSUME LifeInv, NEW p \in LifePasses, NEW m \in Notes, Life!Consolidate(p, m)
  PROVE  LifeInv'
<1> DEFINE old == pass[p].read[m]
           new == IF pass[p].left = {m} THEN Life!Sleeping
                  ELSE [pass[p] EXCEPT !.left = pass[p].left \ {m}]
<1>1. /\ Life!TypeOK /\ pass[p] # Life!Sleeping /\ pass[p] \in Life!Pass
      /\ UNCHANGED <<start, hits>>
  BY DEF LifeInv, Life!TypeOK, Life!Consolidate, Life!Sleeping
<1>2. pass' = [pass EXCEPT ![p] = new]
  BY <1>1 DEF Life!Consolidate, Life!TypeOK
<1>3. new = Life!Sleeping \/ (new \in Life!Pass /\ new.read = pass[p].read)
  BY <1>1 DEF Life!Pass
<1> HIDE DEF new
<1>4. /\ pass' \in [LifePasses -> Life!Pass \cup {Life!Sleeping}]
      /\ \A q \in LifePasses : pass'[q] # Life!Sleeping =>
           pass[q] # Life!Sleeping /\ pass'[q].read = pass[q].read
  BY <1>1, <1>2, <1>3, PassMoves
<1>5. /\ NoteSound(m) /\ \A q \in LifePasses : ReadSound(q, m)
      /\ old \in Life!Row /\ old.conf \in 0..MaxConf /\ old.count \in 0..MinHits
      /\ note[m] \in Life!Row /\ hits[m] \in 0..MinHits
      /\ LeastConf(m) \in Nat
      /\ Promoted \in Nat /\ MaxConf \in Nat /\ MinHits \in Nat /\ Promoted <= MaxConf
  BY <1>1, LifeTypes, LifeNumbers DEF LifeInv
<1>6. CASE ~Life!Eligible(old)
  <2>1. note' = note
    BY <1>6 DEF Life!Consolidate
  <2>2. Life!TypeOK'
    BY <1>1, <1>4, <2>1 DEF Life!TypeOK
  <2>3. \A n \in Notes : NoteSound(n)'
    BY <1>1, <2>1 DEF LifeInv, NoteSound, LeastConf
  <2>4. \A n \in Notes, q \in LifePasses : ReadSound(q, n)'
    BY <1>1, <1>4, <2>1 DEF LifeInv, ReadSound, LeastConf
  <2> QED
    BY <2>2, <2>3, <2>4 DEF LifeInv
<1>7. CASE Life!Eligible(old)
  <2> DEFINE r == [note[m] EXCEPT !.authority = "verified",
                                  !.conf = Life!GreaterOf(old.conf, Promoted)]
  <2>1. /\ Life!GreaterOf(old.conf, Promoted) \in 0..MaxConf
        /\ Life!GreaterOf(old.conf, Promoted) >= old.conf
    BY <1>5 DEF Life!GreaterOf
  <2>2. /\ r \in Life!Row /\ r.authority = "verified" /\ r.count = note[m].count
        /\ r.conf \in 0..MaxConf /\ r.conf >= old.conf
    BY <1>5, <2>1 DEF Life!Row, Life!Authority
  <2>3. note' = [note EXCEPT ![m] = r]
    BY <1>1, <1>7 DEF Life!Consolidate, Life!TypeOK
  <2> HIDE DEF r
  <2>4. note'[m] = r /\ \A o \in Notes \ {m} : note'[o] = note[o]
    BY <1>1, <2>3 DEF Life!TypeOK
  <2>5. Life!TypeOK'
    BY <1>1, <1>4, <2>2, <2>3 DEF Life!TypeOK
  <2>6. /\ old.count >= MinHits /\ old.count <= hits[m]
        /\ old.conf >= LeastConf(m) /\ LeastConf(m)' = LeastConf(m)
    BY <1>1, <1>5, <1>7 DEF Life!Eligible, ReadSound, LeastConf
  <2>7. NoteSound(m)'
    BY <1>1, <1>5, <2>2, <2>4, <2>6 DEF NoteSound
  <2>8. ASSUME NEW q \in LifePasses PROVE ReadSound(q, m)'
    BY <1>1, <1>4, <1>5, <2>2, <2>4, <2>6 DEF ReadSound
  <2>9. ASSUME NEW o \in Notes \ {m} PROVE NoteSound(o)' /\ \A q \in LifePasses : ReadSound(q, o)'
    BY <1>1, <1>4, <2>4 DEF LifeInv, NoteSound, ReadSound, LeastConf
  <2> QED
    BY <2>5, <2>7, <2>8, <2>9 DEF LifeInv
<1> QED
  BY <1>6, <1>7

(* Every step of the passes and the retrievals keeps the invariant.        *)
LEMMA LifeNext == ASSUME LifeInv, Life!Next PROVE LifeInv'
BY NoteStep, DayStep, ScanStep, DecayStep, ConsolidateStep DEF Life!Next

(* For any number of memories, passes and requests, and any settings: what *)
(* is injected is verified and not replaced, and the passes forget and     *)
(* promote within their bounds.                                            *)
THEOREM MemoriesStaySound == StoreSpec => []MemoriesSound
<1> DEFINE Inv == MemoryInv /\ LifeInv
<1>1. StoreInit => Inv
  BY MemoryInit, LifeInit DEF StoreInit
<1>2. Inv /\ [StoreNext]_storeVars => Inv'
  <2> SUFFICES ASSUME Inv, [StoreNext]_storeVars PROVE Inv'
    OBVIOUS
  <2>1. MemoryInv'
    BY MemoryNext, MemoryStutter DEF StoreNext, storeVars
  <2>2. UNCHANGED lifeVars => LifeInv'
    BY DEF lifeVars, LifeInv, Life!TypeOK, NoteSound, ReadSound, LeastConf
  <2>3. LifeInv'
    BY <2>2, LifeNext DEF StoreNext, storeVars
  <2> QED
    BY <2>1, <2>3
<1>3. Inv => MemoriesSound
  <2>1. MemoryInv => Memory!InjectedIsCurrent
    BY DEF MemoryInv, MemorySound, Memory!InjectedIsCurrent, Memory!Retrievable, Memory!Live
  <2>2. LifeInv => Life!ForgettingBounded
    BY DEF LifeInv, NoteSound, LeastConf, Life!ForgettingBounded
  <2> QED
    BY <2>1, <2>2 DEF MemoriesSound
<1> QED
  BY <1>1, <1>2, <1>3, PTL DEF StoreSpec

-----------------------------------------------------------------------------
(* Knowledge.  A document that was not ingested has left no trace.         *)
Traced ==
  /\ \A d \in Docs : /\ status[d] # None => d \in spent
                     /\ d \notin spent => vectors[d] = {}
  /\ \A c \in Clients : job[c] # None => job[c].doc \in spent

(* The rows of a document are those of one build, and a request that has   *)
(* rows to commit is the only one and finds none.                          *)
Carries(c) == job[c] # None /\ job[c].at \in {"stored", "indexed"}

Exclusive ==
  /\ \A d \in Docs : \A x, y \in rows[d] : x = y
  /\ \A c \in Clients : Carries(c) => rows[job[c].doc] = {} /\ job[c].build \in Builds
  /\ \A c, e \in Clients : Carries(c) /\ Carries(e) /\ job[c].doc = job[e].doc => c = e

(* A request that is alone on its document knows what the service holds.   *)
Undisturbed ==
  \A c \in Clients : job[c] # None /\ job[c].alone =>
    /\ \A e \in Clients : job[e] # None /\ job[e].doc = job[c].doc => e = c
    /\ external =>
         /\ job[c].at \in {"erase", "mark", "embed", "stored"} => vectors[job[c].doc] = {}
         /\ job[c].at = "indexed" => vectors[job[c].doc] = {job[c].build}

(* A document that is ready, undamaged and not touched yet is complete.    *)
Complete ==
  \A d \in Docs :
    /\ base /\ status[d] = "ready" /\ d \notin damaged
    /\ \A c \in Clients : job[c] # None /\ job[c].doc = d => job[c].at = "clear"
    => rows[d] # {} /\ Base!Indexed(d) = rows[d]

BaseInv == Base!TypeOK /\ Traced /\ Exclusive /\ Undisturbed /\ Complete

(* What the parts of an action do to the requests under way.               *)
Rest(c) == \A o \in Clients : o # c => job'[o] = job[o]

(* A request goes on to a call, and stays what it is.                      *)
LEMMA JobGoes ==
  ASSUME BaseAssumption, Base!TypeOK, NEW c \in Clients, job[c] # None,
         NEW at \in Base!Steps, Base!Goes(c, at)
  PROVE  /\ job' \in [Clients -> Base!Op \cup {None}] /\ Rest(c) /\ job'[c] # None
         /\ job'[c].at = at /\ job'[c].doc = job[c].doc /\ job'[c].build = job[c].build
         /\ job'[c].alone = job[c].alone
<1>1. PICK old \in Base!Op : old = job[c]
  BY DEF Base!TypeOK
<1> DEFINE new == [old EXCEPT !.at = at]
<1>2. job' = [job EXCEPT ![c] = new]
  BY <1>1 DEF Base!Goes
<1>3. /\ new \in Base!Op /\ new.at = at /\ new.doc = old.doc /\ new.build = old.build
      /\ new.alone = old.alone
  BY <1>1 DEF Base!Op
<1>4. new # None
  BY <1>3, BaseAssumption
<1>5. job \in [Clients -> Base!Op \cup {None}]
  BY DEF Base!TypeOK
<1> HIDE DEF new
<1>6. /\ job' \in [Clients -> Base!Op \cup {None}] /\ job'[c] = new
      /\ \A o \in Clients : o # c => job'[o] = job[o]
  BY <1>2, <1>3, <1>5
<1> QED
  BY <1>1, <1>3, <1>4, <1>6 DEF Rest

(* A request is over: nothing is under way at its client.                  *)
LEMMA JobEnds ==
  ASSUME Base!TypeOK, NEW c \in Clients, job' = [job EXCEPT ![c] = None]
  PROVE  job' \in [Clients -> Base!Op \cup {None}] /\ Rest(c) /\ job'[c] = None
  BY DEF Rest, Base!TypeOK

(* A request begins: those on its document are no longer alone.            *)
LEMMA JobBegins ==
  ASSUME BaseAssumption, Base!TypeOK, NEW c \in Clients, NEW d \in Docs, NEW k \in Base!Kinds,
         NEW at \in Base!Steps, job[c] = None, Base!Begin(c, k, d, at)
  PROVE  /\ job' \in [Clients -> Base!Op \cup {None}]
         /\ job'[c] # None /\ job'[c].doc = d /\ job'[c].at = at
         /\ job'[c].alone => \A o \in Clients : job[o] # None => job[o].doc # d
         /\ \A o \in Clients : o # c =>
              \/ job'[o] = job[o] /\ (job[o] # None => job[o].doc # d)
              \/ /\ job[o] # None /\ job'[o] # None /\ job[o].doc = d /\ job'[o].doc = d
                 /\ job'[o].at = job[o].at /\ job'[o].build = job[o].build /\ ~job'[o].alone
<1> DEFINE free == Base!On(d) = {}
           new == [kind |-> k, doc |-> d, at |-> at, build |-> None, alone |-> free]
<1>1. job' = [o \in Clients |->
               IF o = c THEN new
               ELSE IF o \in Base!On(d) THEN [job[o] EXCEPT !.alone = FALSE] ELSE job[o]]
  BY DEF Base!Begin
<1>2. PICK alone \in BOOLEAN : alone = free
  BY DEF Base!On
<1>3. new = [kind |-> k, doc |-> d, at |-> at, build |-> None, alone |-> alone]
  BY <1>2
<1>4. new \in Base!Op /\ new.doc = d /\ new.at = at /\ new.alone = alone
  BY <1>3 DEF Base!Op
<1>5. new # None
  BY <1>4, BaseAssumption
<1>6. alone => \A o \in Clients : job[o] # None => job[o].doc # d
  BY <1>2 DEF Base!On
<1> HIDE DEF new
<1>7. ASSUME NEW o \in Clients, o # c
      PROVE  /\ job'[o] \in Base!Op \cup {None}
             /\ \/ job'[o] = job[o] /\ (job[o] # None => job[o].doc # d)
                \/ /\ job[o] # None /\ job'[o] # None /\ job[o].doc = d /\ job'[o].doc = d
                   /\ job'[o].at = job[o].at /\ job'[o].build = job[o].build /\ ~job'[o].alone
  <2>1. CASE o \in Base!On(d)
    <3>1. PICK old \in Base!Op : old = job[o] /\ old.doc = d /\ job[o] # None
      BY <2>1 DEF Base!On, Base!TypeOK
    <3> DEFINE after == [old EXCEPT !.alone = FALSE]
    <3>2. job'[o] = after
      BY <1>1, <1>7, <2>1, <3>1
    <3>3. /\ after \in Base!Op /\ after.doc = d /\ after.at = old.at /\ after.build = old.build
          /\ ~after.alone
      BY <3>1 DEF Base!Op
    <3>4. after # None
      BY <3>3, BaseAssumption
    <3> QED
      BY <3>1, <3>2, <3>3, <3>4
  <2>2. CASE o \notin Base!On(d)
    <3>1. job'[o] = job[o] /\ (job[o] # None => job[o].doc # d)
      BY <1>1, <1>7, <2>2 DEF Base!On
    <3> QED
      BY <3>1 DEF Base!TypeOK
  <2> QED
    BY <2>1, <2>2
<1>8. job'[c] = new /\ DOMAIN job' = Clients /\ job' = [o \in Clients |-> job'[o]]
  BY <1>1
<1>9. job' \in [Clients -> Base!Op \cup {None}]
  BY <1>4, <1>7, <1>8
<1> QED
  BY <1>4, <1>5, <1>6, <1>7, <1>8, <1>9

(* A request on a document begins.                                         *)
LEMMA BaseIngests ==
  ASSUME BaseAssumption, BaseInv, NEW c \in Clients, NEW d \in Docs, Base!Ingest(c, d)
  PROVE  BaseInv'
<1>1. /\ job[c] = None /\ d \notin spent /\ Base!Begin(c, "build", d, "mark")
      /\ status' = [status EXCEPT ![d] = "pending"] /\ spent' = spent \cup {d}
      /\ UNCHANGED <<external, base, rows, vectors, damaged>>
  BY DEF Base!Ingest
<1>2. Base!TypeOK /\ Traced /\ Exclusive /\ Undisturbed /\ Complete
  BY DEF BaseInv
<1>3. "build" \in Base!Kinds /\ "mark" \in Base!Steps /\ "pending" \in Base!Status
  BY DEF Base!Kinds, Base!Steps, Base!Status
<1>4. /\ job' \in [Clients -> Base!Op \cup {None}]
      /\ job'[c] # None /\ job'[c].doc = d /\ job'[c].at = "mark"
      /\ job'[c].alone => \A o \in Clients : job[o] # None => job[o].doc # d
      /\ \A o \in Clients : o # c =>
           \/ job'[o] = job[o] /\ (job[o] # None => job[o].doc # d)
           \/ /\ job[o] # None /\ job'[o] # None /\ job[o].doc = d /\ job'[o].doc = d
              /\ job'[o].at = job[o].at /\ job'[o].build = job[o].build /\ ~job'[o].alone
  BY <1>1, <1>2, <1>3, JobBegins
<1>5. status' \in [Docs -> Base!Status \cup {None}] /\ status'[d] = "pending"
      /\ \A e \in Docs : e # d => status'[e] = status[e]
  BY <1>1, <1>2, <1>3 DEF Base!TypeOK
<1>6. \A o \in Clients : job[o] # None => job[o].doc # d
  BY <1>1, <1>2 DEF Traced
<1>7. \A o \in Clients : o # c => job'[o] = job[o]
  BY <1>4, <1>6
<1>8. Base!TypeOK'
  BY <1>1, <1>2, <1>4, <1>5 DEF Base!TypeOK
<1>9. Traced'
  BY <1>1, <1>2, <1>4, <1>5, <1>7 DEF Traced
<1>10. Exclusive'
  BY <1>1, <1>2, <1>4, <1>7 DEF Exclusive, Carries
<1>11. Undisturbed'
  <2>1. vectors[d] = {}
    BY <1>1, <1>2 DEF Traced
  <2> QED
    BY <1>1, <1>2, <1>4, <1>6, <1>7, <2>1 DEF Undisturbed
<1>12. Complete'
  <2> SUFFICES ASSUME NEW e \in Docs, base', status'[e] = "ready", e \notin damaged',
                      \A o \in Clients : job'[o] # None /\ job'[o].doc = e => job'[o].at = "clear"
               PROVE  rows'[e] # {} /\ Base!Indexed(e)' = rows'[e]
    BY DEF Complete
  <2>1. e # d /\ status[e] = "ready"
    BY <1>5
  <2>2. \A o \in Clients : job[o] # None /\ job[o].doc = e => job[o].at = "clear"
    BY <1>1, <1>7
  <2> QED
    BY <1>1, <1>2, <2>1, <2>2 DEF Complete, Base!Indexed
<1> QED
  BY <1>8, <1>9, <1>10, <1>11, <1>12 DEF BaseInv

(* A request for a rebuild or a deletion reads the document first.         *)
LEMMA BaseRequests ==
  ASSUME BaseAssumption, BaseInv, NEW c \in Clients, NEW d \in Docs,
         NEW k \in {"rebuild", "delete"}, Base!Request(c, k, d)
  PROVE  BaseInv'
<1>1. /\ job[c] = None /\ status[d] # None /\ Base!Begin(c, k, d, "clear")
      /\ UNCHANGED <<external, base, status, rows, vectors, spent, damaged>>
  BY DEF Base!Request, Base!Exists
<1>2. Base!TypeOK /\ Traced /\ Exclusive /\ Undisturbed /\ Complete
  BY DEF BaseInv
<1>3. k \in Base!Kinds /\ "clear" \in Base!Steps
  BY DEF Base!Kinds, Base!Steps
<1>4. /\ job' \in [Clients -> Base!Op \cup {None}]
      /\ job'[c] # None /\ job'[c].doc = d /\ job'[c].at = "clear"
      /\ job'[c].alone => \A o \in Clients : job[o] # None => job[o].doc # d
      /\ \A o \in Clients : o # c =>
           \/ job'[o] = job[o] /\ (job[o] # None => job[o].doc # d)
           \/ /\ job[o] # None /\ job'[o] # None /\ job[o].doc = d /\ job'[o].doc = d
              /\ job'[o].at = job[o].at /\ job'[o].build = job[o].build /\ ~job'[o].alone
  BY <1>1, <1>2, <1>3, JobBegins
<1>5. \A o \in Clients : o # c =>
        /\ job'[o] # None <=> job[o] # None
        /\ job[o] # None => /\ job'[o].doc = job[o].doc /\ job'[o].at = job[o].at
                            /\ job'[o].build = job[o].build
                            /\ job'[o].alone => job[o].alone /\ job[o].doc # d
  BY <1>4
<1>6. /\ job' \in [Clients -> Base!Op \cup {None}]
      /\ job'[c] # None /\ job'[c].doc = d /\ job'[c].at = "clear"
      /\ job'[c].alone => \A o \in Clients : job[o] # None => job[o].doc # d
  BY <1>4
<1>7. Base!TypeOK'
  BY <1>1, <1>2, <1>6 DEF Base!TypeOK
<1>8. Traced'
  BY <1>1, <1>2, <1>5, <1>6 DEF Traced
<1>9. Exclusive'
  <2>1. \A o \in Clients : Carries(o)' => o # c /\ Carries(o)
    BY <1>5, <1>6 DEF Carries
  <2>2. \A o \in Clients : Carries(o) => job[o] # None
    BY DEF Carries
  <2> QED
    BY <1>1, <1>2, <1>5, <2>1, <2>2 DEF Exclusive
<1>10. Undisturbed'
  BY <1>1, <1>2, <1>5, <1>6 DEF Undisturbed
<1>11. Complete'
  <2> SUFFICES ASSUME NEW e \in Docs, base', status'[e] = "ready", e \notin damaged',
                      \A o \in Clients : job'[o] # None /\ job'[o].doc = e => job'[o].at = "clear"
               PROVE  rows'[e] # {} /\ Base!Indexed(e)' = rows'[e]
    BY DEF Complete
  <2>1. \A o \in Clients : job[o] # None /\ job[o].doc = e => job[o].at = "clear"
    BY <1>1, <1>5
  <2> QED
    BY <1>1, <1>2, <2>1 DEF Complete, Base!Indexed
<1> QED
  BY <1>7, <1>8, <1>9, <1>10, <1>11 DEF BaseInv

(* A request goes on: it keeps the rows, no row is committed, and what the *)
(* service holds of its document is as it should be where it goes.         *)
LEMMA BaseGoesOn ==
  ASSUME BaseAssumption, BaseInv, NEW c \in Clients, job[c] # None,
         NEW at \in Base!Steps, at \notin {"clear", "stored"},
         Base!Goes(c, at), UNCHANGED <<external, base, spent, damaged>>,
         status' \in [Docs -> Base!Status \cup {None}],
         vectors' \in [Docs -> SUBSET Builds], rows' \in [Docs -> SUBSET Builds],
         \A d \in Docs : status'[d] # None => status[d] # None,
         \A d \in Docs : d # job[c].doc => /\ vectors'[d] = vectors[d]
                                           /\ status'[d] = status[d] /\ rows'[d] = rows[d],
         rows'[job[c].doc] \in {rows[job[c].doc], {}},
         at = "indexed" => Carries(c),
         job[c].alone /\ external =>
           /\ at \in {"erase", "mark", "embed"} => vectors'[job[c].doc] = {}
           /\ at = "indexed" => vectors'[job[c].doc] = {job[c].build}
  PROVE  BaseInv'
<1>1. Base!TypeOK /\ Traced /\ Exclusive /\ Undisturbed /\ Complete
  BY DEF BaseInv
<1>2. /\ job' \in [Clients -> Base!Op \cup {None}] /\ Rest(c) /\ job'[c] # None
      /\ job'[c].at = at /\ job'[c].doc = job[c].doc /\ job'[c].build = job[c].build
      /\ job'[c].alone = job[c].alone
  BY <1>1, JobGoes
<1>3. job[c].doc \in Docs
  BY <1>1 DEF Base!TypeOK, Base!Op
<1>4. /\ \A o \in Clients : o # c => job'[o] = job[o]
      /\ \A o \in Clients : job'[o] # None <=> job[o] # None
      /\ \A o \in Clients : job[o] # None => /\ job'[o].doc = job[o].doc
                                             /\ job'[o].build = job[o].build
                                             /\ job'[o].alone = job[o].alone
  BY <1>2 DEF Rest
<1>5. Base!TypeOK'
  BY <1>1, <1>2 DEF Base!TypeOK
<1>6. Traced'
  <2>1. job[c].doc \in spent
    BY <1>1 DEF Traced
  <2> QED
    BY <1>1, <1>3, <1>4, <2>1 DEF Traced
<1>7. Exclusive'
  <2>1. \A o \in Clients : Carries(o)' => Carries(o)
    BY <1>2, <1>4 DEF Carries
  <2>2. \A o \in Clients : Carries(o) => job[o] # None /\ job[o].doc \in Docs
    BY <1>1 DEF Carries, Base!TypeOK, Base!Op
  <2>3. \A d \in Docs : rows'[d] = rows[d] \/ rows'[d] = {}
    BY <1>3
  <2>4. \A d \in Docs : \A x, y \in rows'[d] : x = y
    BY <1>1, <2>3 DEF Exclusive
  <2>5. \A o \in Clients : Carries(o)' => rows'[job'[o].doc] = {} /\ job'[o].build \in Builds
    BY <1>1, <1>4, <2>1, <2>2, <2>3 DEF Exclusive
  <2>6. \A o, e \in Clients : Carries(o)' /\ Carries(e)' /\ job'[o].doc = job'[e].doc => o = e
    BY <1>1, <1>4, <2>1, <2>2 DEF Exclusive
  <2> QED
    BY <2>4, <2>5, <2>6 DEF Exclusive
<1>8. Undisturbed'
  <2> SUFFICES ASSUME NEW o \in Clients, job'[o] # None, job'[o].alone
               PROVE  /\ \A e \in Clients : job'[e] # None /\ job'[e].doc = job'[o].doc => e = o
                      /\ external =>
                           /\ job'[o].at \in {"erase", "mark", "embed", "stored"} => vectors'[job'[o].doc] = {}
                           /\ job'[o].at = "indexed" => vectors'[job'[o].doc] = {job'[o].build}
    BY DEF Undisturbed
  <2>1. /\ job[o] # None /\ job[o].alone /\ job'[o].doc = job[o].doc /\ job'[o].build = job[o].build
        /\ job[o].doc \in Docs
    BY <1>1, <1>4 DEF Base!TypeOK, Base!Op
  <2>2. \A e \in Clients : job[e] # None /\ job[e].doc = job[o].doc => e = o
    BY <1>1, <2>1 DEF Undisturbed
  <2>3. CASE o = c
    BY <1>2, <1>4, <2>1, <2>2, <2>3
  <2>4. CASE o # c
    <3>1. job[o].doc # job[c].doc /\ job'[o] = job[o]
      BY <1>4, <2>2, <2>4
    <3>2. vectors'[job[o].doc] = vectors[job[o].doc]
      BY <2>1, <3>1
    <3> QED
      BY <1>1, <1>4, <2>1, <2>2, <3>1, <3>2 DEF Undisturbed
  <2> QED
    BY <2>3, <2>4
<1>9. Complete'
  <2> SUFFICES ASSUME NEW d \in Docs, base', status'[d] = "ready", d \notin damaged',
                      \A o \in Clients : job'[o] # None /\ job'[o].doc = d => job'[o].at = "clear"
               PROVE  rows'[d] # {} /\ Base!Indexed(d)' = rows'[d]
    BY DEF Complete
  <2>1. d # job[c].doc
    BY <1>2
  <2>2. \A o \in Clients : job[o] # None /\ job[o].doc = d => job[o].at = "clear"
    BY <1>4, <2>1
  <2>3. /\ base /\ status[d] = "ready" /\ d \notin damaged
        /\ vectors'[d] = vectors[d] /\ rows'[d] = rows[d]
    BY <2>1
  <2>4. rows[d] # {} /\ Base!Indexed(d) = rows[d]
    BY <1>1, <2>2, <2>3 DEF Complete
  <2> QED
    BY <2>3, <2>4 DEF Base!Indexed
<1> QED
  BY <1>5, <1>6, <1>7, <1>8, <1>9 DEF BaseInv

(* A request is over: it leaves no row of another build, and a document it *)
(* leaves undamaged and ready is complete.                                 *)
LEMMA BaseIsOver ==
  ASSUME BaseAssumption, BaseInv, NEW c \in Clients, job[c] # None,
         NEW one \in Docs, one = job[c].doc,
         job' = [job EXCEPT ![c] = None], UNCHANGED <<external, base, spent>>,
         status' \in [Docs -> Base!Status \cup {None}], damaged' \in SUBSET Docs,
         vectors' \in [Docs -> SUBSET Builds], rows' \in [Docs -> SUBSET Builds],
         \A d \in Docs : status'[d] # None => status[d] # None,
         \A d \in Docs : d # job[c].doc =>
           /\ vectors'[d] = vectors[d] /\ status'[d] = status[d] /\ rows'[d] = rows[d]
           /\ d \in damaged' <=> d \in damaged,
         \/ rows'[job[c].doc] \in {rows[job[c].doc], {}}
         \/ Carries(c) /\ rows'[job[c].doc] = {job[c].build},
         \/ status'[job[c].doc] # "ready" \/ job[c].doc \in damaged'
         \/ rows'[job[c].doc] # {} /\ Base!Indexed(one)' = rows'[job[c].doc]
         \/ /\ status'[job[c].doc] = status[job[c].doc] /\ job[c].at = "clear"
            /\ rows'[job[c].doc] = rows[job[c].doc]
            /\ Base!Indexed(one)' = Base!Indexed(one)
            /\ job[c].doc \in damaged' <=> job[c].doc \in damaged
  PROVE  BaseInv'
<1>1. Base!TypeOK /\ Traced /\ Exclusive /\ Undisturbed /\ Complete
  BY DEF BaseInv
<1>2. job' \in [Clients -> Base!Op \cup {None}] /\ job'[c] = None
      /\ \A o \in Clients : o # c => job'[o] = job[o]
  BY <1>1, JobEnds DEF Rest
<1>3. job[c].doc \in Docs
  BY <1>1 DEF Base!TypeOK, Base!Op
<1>4. Base!TypeOK'
  BY <1>1, <1>2 DEF Base!TypeOK
<1>5. Traced'
  <2>1. job[c].doc \in spent
    BY <1>1 DEF Traced
  <2> QED
    BY <1>1, <1>2, <1>3, <2>1 DEF Traced
<1>6. Exclusive'
  <2>1. \A o \in Clients : Carries(o)' => Carries(o) /\ o # c /\ job'[o] = job[o]
    BY <1>2 DEF Carries
  <2>2. \A o \in Clients : Carries(o) => job[o] # None /\ job[o].doc \in Docs
    BY <1>1 DEF Carries, Base!TypeOK, Base!Op
  <2>3. \A d \in Docs : \/ rows'[d] = rows[d] \/ rows'[d] = {}
                        \/ (d = job[c].doc /\ Carries(c) /\ rows'[d] = {job[c].build})
    BY <1>3
  <2>4. \A d \in Docs : \A x, y \in rows'[d] : x = y
    BY <1>1, <2>3 DEF Exclusive
  <2>5. ASSUME NEW o \in Clients, Carries(o)'
        PROVE  rows'[job'[o].doc] = {} /\ job'[o].build \in Builds
    <3>1. Carries(o) /\ o # c /\ job'[o] = job[o] /\ job[o].doc \in Docs
      BY <2>1, <2>2, <2>5
    <3>2. rows[job[o].doc] = {} /\ job[o].build \in Builds
      BY <1>1, <3>1 DEF Exclusive
    <3>3. ~(job[o].doc = job[c].doc /\ Carries(c))
      BY <1>1, <3>1 DEF Exclusive
    <3> QED
      BY <2>3, <3>1, <3>2, <3>3
  <2>6. \A o, e \in Clients : Carries(o)' /\ Carries(e)' /\ job'[o].doc = job'[e].doc => o = e
    BY <1>1, <2>1 DEF Exclusive
  <2> QED
    BY <2>4, <2>5, <2>6 DEF Exclusive
<1>7. Undisturbed'
  <2> SUFFICES ASSUME NEW o \in Clients, job'[o] # None, job'[o].alone
               PROVE  /\ \A e \in Clients : job'[e] # None /\ job'[e].doc = job'[o].doc => e = o
                      /\ external =>
                           /\ job'[o].at \in {"erase", "mark", "embed", "stored"} => vectors'[job'[o].doc] = {}
                           /\ job'[o].at = "indexed" => vectors'[job'[o].doc] = {job'[o].build}
    BY DEF Undisturbed
  <2>1. o # c /\ job'[o] = job[o] /\ job[o] # None /\ job[o].alone /\ job[o].doc \in Docs
    BY <1>1, <1>2 DEF Base!TypeOK, Base!Op
  <2>2. \A e \in Clients : job[e] # None /\ job[e].doc = job[o].doc => e = o
    BY <1>1, <2>1 DEF Undisturbed
  <2>3. vectors'[job[o].doc] = vectors[job[o].doc]
    BY <2>1, <2>2
  <2>4. external =>
          /\ job[o].at \in {"erase", "mark", "embed", "stored"} => vectors[job[o].doc] = {}
          /\ job[o].at = "indexed" => vectors[job[o].doc] = {job[o].build}
    BY <1>1, <2>1 DEF Undisturbed
  <2>5. \A e \in Clients : job'[e] # None /\ job'[e].doc = job'[o].doc => e = o
    BY <1>2, <2>1, <2>2
  <2> QED
    BY <2>1, <2>3, <2>4, <2>5
<1>8. Complete'
  <2> SUFFICES ASSUME NEW d \in Docs, base', status'[d] = "ready", d \notin damaged',
                      \A o \in Clients : job'[o] # None /\ job'[o].doc = d => job'[o].at = "clear"
               PROVE  rows'[d] # {} /\ Base!Indexed(d)' = rows'[d]
    BY DEF Complete
  <2>1. CASE d # job[c].doc
    <3>1. \A o \in Clients : job[o] # None /\ job[o].doc = d => job[o].at = "clear"
      BY <1>2, <2>1
    <3>2. /\ base /\ status[d] = "ready" /\ d \notin damaged
          /\ vectors'[d] = vectors[d] /\ rows'[d] = rows[d]
      BY <2>1
    <3>3. rows[d] # {} /\ Base!Indexed(d) = rows[d]
      BY <1>1, <3>1, <3>2 DEF Complete
    <3> QED
      BY <3>2, <3>3 DEF Base!Indexed
  <2>2. CASE d = job[c].doc /\ rows'[d] # {} /\ Base!Indexed(d)' = rows'[d]
    BY <2>2
  <2>3. CASE /\ d = job[c].doc /\ status'[d] = status[d] /\ job[c].at = "clear"
             /\ rows'[d] = rows[d] /\ Base!Indexed(d)' = Base!Indexed(d) /\ d \notin damaged
    <3>1. \A o \in Clients : job[o] # None /\ job[o].doc = d => job[o].at = "clear"
      BY <1>2, <2>3
    <3>2. rows[d] # {} /\ Base!Indexed(d) = rows[d]
      BY <1>1, <2>3, <3>1 DEF Complete
    <3> QED
      BY <2>3, <3>2
  <2> QED
    BY <2>1, <2>2, <2>3
<1> QED
  BY <1>4, <1>5, <1>6, <1>7, <1>8 DEF BaseInv

(* What a call does to the service and to the status of a document.        *)
LEMMA BaseServes ==
  ASSUME Base!TypeOK, NEW d \in Docs, NEW builds \in SUBSET Builds, Base!Service(d, builds)
  PROVE  /\ vectors' \in [Docs -> SUBSET Builds]
         /\ \A e \in Docs : e # d => vectors'[e] = vectors[e]
         /\ external => vectors'[d] = builds
         /\ ~external => vectors' = vectors
  BY DEF Base!Service, Base!TypeOK

(* A document that is gone stays without a status.                         *)
LEMMA BaseMarks ==
  ASSUME Base!TypeOK, NEW d \in Docs, NEW s \in Base!Status, Base!SetStatus(d, s)
  PROVE  /\ status' \in [Docs -> Base!Status \cup {None}]
         /\ \A e \in Docs : e # d => status'[e] = status[e]
         /\ \A e \in Docs : status'[e] # None => status[e] # None
         /\ status'[d] = s \/ status'[d] = None
<1>1. status \in [Docs -> Base!Status \cup {None}]
  BY DEF Base!TypeOK
<1>2. CASE status[d] # None
  BY <1>1, <1>2 DEF Base!SetStatus, Base!Exists
<1>3. CASE status[d] = None
  BY <1>1, <1>3 DEF Base!SetStatus, Base!Exists
<1> QED
  BY <1>2, <1>3

(* The vectors of a document are deleted before anything else is touched.  *)
LEMMA BaseClears ==
  ASSUME BaseAssumption, BaseInv, NEW c \in Clients, Base!ClearVectors(c)
  PROVE  BaseInv'
<1>1. Base!TypeOK /\ job[c] # None /\ job[c].at = "clear"
      /\ UNCHANGED <<external, base, status, rows, spent>>
  BY DEF Base!ClearVectors, BaseInv
<1>2. PICK d \in Docs : d = job[c].doc
  BY <1>1 DEF Base!TypeOK, Base!Op
<1>3. /\ status \in [Docs -> Base!Status \cup {None}] /\ rows \in [Docs -> SUBSET Builds]
      /\ vectors \in [Docs -> SUBSET Builds] /\ damaged \in SUBSET Docs /\ "erase" \in Base!Steps
  BY <1>1 DEF Base!TypeOK, Base!Steps
<1>4. CASE Base!Service(job[c].doc, {}) /\ Base!Goes(c, "erase") /\ UNCHANGED damaged
  <2>1. /\ vectors' \in [Docs -> SUBSET Builds] /\ (external => vectors'[d] = {})
        /\ \A e \in Docs : e # d => vectors'[e] = vectors[e]
    BY <1>1, <1>2, <1>4, BaseServes
  <2> QED
    BY <1>1, <1>2, <1>3, <1>4, <2>1, BaseGoesOn
<1>5. CASE Base!Service(job[c].doc, {}) /\ Base!Ends(c, external)
  <2>1. /\ vectors' \in [Docs -> SUBSET Builds] /\ (~external => vectors' = vectors)
        /\ \A e \in Docs : e # d => vectors'[e] = vectors[e]
    BY <1>1, <1>2, <1>5, BaseServes
  <2>2. job' = [job EXCEPT ![c] = None] /\ damaged' = IF external THEN damaged \cup {d} ELSE damaged
    BY <1>2, <1>5 DEF Base!Ends
  <2>3. damaged' \in SUBSET Docs /\ \A e \in Docs : e # d => (e \in damaged' <=> e \in damaged)
    BY <1>3, <2>2
  <2>4. \/ d \in damaged'
        \/ Base!Indexed(d)' = Base!Indexed(d) /\ damaged' = damaged
    <3>1. CASE external
      BY <2>2, <3>1
    <3>2. CASE ~external
      BY <1>1, <2>2, <3>2 DEF Base!Indexed
    <3> QED
      BY <3>1, <3>2
  <2> QED
    BY <1>1, <1>2, <1>3, <2>1, <2>2, <2>3, <2>4, BaseIsOver
<1>6. CASE UNCHANGED vectors /\ Base!Ends(c, FALSE)
  <2>1. job' = [job EXCEPT ![c] = None] /\ damaged' = damaged
    BY <1>6 DEF Base!Ends
  <2>2. Base!Indexed(d)' = Base!Indexed(d)
    BY <1>1, <1>6 DEF Base!Indexed
  <2> QED
    BY <1>1, <1>2, <1>3, <1>6, <2>1, <2>2, BaseIsOver
<1> QED
  BY <1>4, <1>5, <1>6 DEF Base!ClearVectors

(* The rows go, and with a deletion the document.                          *)
LEMMA BaseErases ==
  ASSUME BaseAssumption, BaseInv, NEW c \in Clients, Base!Erase(c)
  PROVE  BaseInv'
<1>1. Base!TypeOK /\ Undisturbed /\ job[c] # None /\ job[c].at = "erase"
      /\ UNCHANGED <<external, base, vectors, spent>>
  BY DEF Base!Erase, BaseInv
<1>2. PICK d \in Docs : d = job[c].doc
  BY <1>1 DEF Base!TypeOK, Base!Op
<1>3. /\ status \in [Docs -> Base!Status \cup {None}] /\ rows \in [Docs -> SUBSET Builds]
      /\ vectors \in [Docs -> SUBSET Builds] /\ damaged \in SUBSET Docs /\ "mark" \in Base!Steps
  BY <1>1 DEF Base!TypeOK, Base!Steps
<1>4. rows' = [rows EXCEPT ![d] = {}]
  BY <1>2 DEF Base!Erase
<1>5. rows' \in [Docs -> SUBSET Builds] /\ rows'[d] = {} /\ \A e \in Docs : e # d => rows'[e] = rows[e]
  BY <1>3, <1>4
<1>6. CASE job[c].kind = "delete"
  <2>1. status' = [status EXCEPT ![d] = None] /\ job' = [job EXCEPT ![c] = None] /\ damaged' = damaged
    BY <1>2, <1>6 DEF Base!Erase, Base!Ends
  <2>2. /\ status' \in [Docs -> Base!Status \cup {None}] /\ status'[d] = None
        /\ \A e \in Docs : e # d => status'[e] = status[e]
    BY <1>3, <2>1
  <2>3. None # "ready"
    BY BaseAssumption DEF Base!Status
  <2>4. \A e \in Docs : status'[e] # None => status[e] # None
    BY <2>2
  <2>5. rows'[job[c].doc] \in {rows[job[c].doc], {}} /\ status'[job[c].doc] # "ready"
    BY <1>2, <1>5, <2>2, <2>3
  <2>6. \A e \in Docs : e # job[c].doc =>
          /\ vectors'[e] = vectors[e] /\ status'[e] = status[e] /\ rows'[e] = rows[e]
          /\ e \in damaged' <=> e \in damaged
    BY <1>1, <1>2, <1>5, <2>1, <2>2
  <2>7. /\ status' \in [Docs -> Base!Status \cup {None}] /\ damaged' \in SUBSET Docs
        /\ vectors' \in [Docs -> SUBSET Builds] /\ rows' \in [Docs -> SUBSET Builds]
        /\ job' = [job EXCEPT ![c] = None] /\ UNCHANGED <<external, base, spent>>
    BY <1>1, <1>3, <1>5, <2>1, <2>2
  <2> QED
    BY <1>1, <1>2, <2>4, <2>5, <2>6, <2>7, BaseIsOver
<1>7. CASE job[c].kind # "delete"
  <2>1. Base!Goes(c, "mark") /\ UNCHANGED <<status, damaged>>
    BY <1>7 DEF Base!Erase
  <2>2. job[c].alone /\ external => vectors'[d] = {}
    BY <1>1, <1>2 DEF Undisturbed
  <2> QED
    BY <1>1, <1>2, <1>3, <1>5, <2>1, <2>2, BaseGoesOn
<1> QED
  BY <1>6, <1>7

(* The document is marked as in work.                                      *)
LEMMA BaseStarts ==
  ASSUME BaseAssumption, BaseInv, NEW c \in Clients, Base!Mark(c)
  PROVE  BaseInv'
<1>1. Base!TypeOK /\ Undisturbed /\ job[c] # None /\ job[c].at = "mark"
      /\ UNCHANGED <<external, base, rows, vectors, spent, damaged>>
      /\ Base!SetStatus(job[c].doc, "processing") /\ Base!Goes(c, "embed")
  BY DEF Base!Mark, BaseInv
<1>2. PICK d \in Docs : d = job[c].doc
  BY <1>1 DEF Base!TypeOK, Base!Op
<1>3. /\ rows \in [Docs -> SUBSET Builds] /\ vectors \in [Docs -> SUBSET Builds]
      /\ "embed" \in Base!Steps /\ "processing" \in Base!Status
  BY <1>1 DEF Base!TypeOK, Base!Steps, Base!Status
<1>4. /\ status' \in [Docs -> Base!Status \cup {None}]
      /\ \A e \in Docs : e # d => status'[e] = status[e]
      /\ \A e \in Docs : status'[e] # None => status[e] # None
  BY <1>1, <1>2, <1>3, BaseMarks
<1>5. job[c].alone /\ external => vectors'[d] = {}
  BY <1>1, <1>2 DEF Undisturbed
<1> QED
  BY <1>1, <1>2, <1>3, <1>4, <1>5, BaseGoesOn

(* The vectors are in the service before the rows are committed, whether   *)
(* the answer of the service comes or not.                                 *)
LEMMA BaseUpserts ==
  ASSUME BaseAssumption, BaseInv, NEW c \in Clients, Base!Upsert(c)
  PROVE  BaseInv'
<1>1. Base!TypeOK /\ Undisturbed /\ Exclusive /\ job[c] # None /\ job[c].at = "stored"
      /\ UNCHANGED <<external, base, status, rows, spent, damaged>>
  BY DEF Base!Upsert, BaseInv
<1>2. PICK at \in {"indexed", "fail"} : Base!Goes(c, at)
  BY DEF Base!Upsert
<1>3. PICK d \in Docs : d = job[c].doc
  BY <1>1 DEF Base!TypeOK, Base!Op
<1>4. /\ rows \in [Docs -> SUBSET Builds] /\ vectors \in [Docs -> SUBSET Builds]
      /\ status \in [Docs -> Base!Status \cup {None}]
      /\ at \in Base!Steps /\ at \notin {"clear", "stored", "erase", "mark", "embed"}
  BY <1>1 DEF Base!TypeOK, Base!Steps
<1>5. Carries(c) /\ job[c].build \in Builds
  BY <1>1 DEF Carries, Exclusive
<1>6. PICK builds \in SUBSET Builds : builds = vectors[d] \cup {job[c].build}
  BY <1>4, <1>5
<1>7. Base!Service(d, builds)
  BY <1>3, <1>6 DEF Base!Upsert
<1>8. /\ vectors' \in [Docs -> SUBSET Builds] /\ (external => vectors'[d] = builds)
      /\ \A e \in Docs : e # d => vectors'[e] = vectors[e]
  BY <1>1, <1>7, BaseServes
<1>9. job[c].alone /\ external => vectors[d] = {}
  BY <1>1, <1>3 DEF Undisturbed
<1>10. job[c].alone /\ external => vectors'[d] = {job[c].build}
  BY <1>6, <1>8, <1>9
<1> QED
  BY <1>1, <1>2, <1>3, <1>4, <1>5, <1>8, <1>10, BaseGoesOn

(* The rows of a build and the status are committed together.              *)
LEMMA BaseFinishes ==
  ASSUME BaseAssumption, BaseInv, NEW c \in Clients, Base!Finish(c)
  PROVE  BaseInv'
<1>1. Base!TypeOK /\ Undisturbed /\ Exclusive /\ job[c] # None /\ job[c].at = "indexed"
      /\ UNCHANGED <<external, base, vectors, spent>> /\ job' = [job EXCEPT ![c] = None]
      /\ Base!SetStatus(job[c].doc, "ready")
  BY DEF Base!Finish, BaseInv
<1>2. PICK d \in Docs : d = job[c].doc
  BY <1>1 DEF Base!TypeOK, Base!Op
<1>3. /\ rows \in [Docs -> SUBSET Builds] /\ vectors \in [Docs -> SUBSET Builds]
      /\ damaged \in SUBSET Docs /\ "ready" \in Base!Status
  BY <1>1 DEF Base!TypeOK, Base!Status
<1>4. /\ status' \in [Docs -> Base!Status \cup {None}]
      /\ \A e \in Docs : e # d => status'[e] = status[e]
      /\ \A e \in Docs : status'[e] # None => status[e] # None
  BY <1>1, <1>2, <1>3, BaseMarks
<1>5. Carries(c) /\ rows[d] = {} /\ job[c].build \in Builds
  BY <1>1, <1>2 DEF Carries, Exclusive
<1>6. rows' \in [Docs -> SUBSET Builds] /\ rows'[d] = {job[c].build}
      /\ \A e \in Docs : e # d => rows'[e] = rows[e]
  <2>1. rows' = [rows EXCEPT ![d] = rows[d] \cup {job[c].build}]
    BY <1>2 DEF Base!Finish
  <2>2. PICK builds \in SUBSET Builds : builds = {job[c].build} /\ rows' = [rows EXCEPT ![d] = builds]
    BY <1>5, <2>1
  <2> QED
    BY <1>3, <2>2
<1>7. damaged' = IF job[c].alone THEN damaged \ {d} ELSE damaged \cup {d}
  BY <1>2 DEF Base!Finish
<1>8. damaged' \in SUBSET Docs /\ \A e \in Docs : e # d => (e \in damaged' <=> e \in damaged)
  BY <1>3, <1>7
<1>9. d \in damaged' \/ (rows'[d] # {} /\ Base!Indexed(d)' = rows'[d])
  <2>1. CASE ~job[c].alone
    BY <1>7, <2>1
  <2>2. CASE job[c].alone
    <3>1. external => vectors[d] = {job[c].build}
      BY <1>1, <1>2, <2>2 DEF Undisturbed
    <3>2. Base!Indexed(d)' = IF external THEN vectors[d] ELSE rows'[d]
      BY <1>1 DEF Base!Indexed
    <3> QED
      BY <1>6, <3>1, <3>2
  <2> QED
    BY <2>1, <2>2
<1> QED
  BY <1>1, <1>2, <1>3, <1>4, <1>5, <1>6, <1>8, <1>9, BaseIsOver

(* An exception sends a request to its handler, which marks the document.  *)
LEMMA BaseFails ==
  ASSUME BaseAssumption, BaseInv, NEW c \in Clients, Base!Raise(c) \/ Base!Fail(c) \/ Base!Crash(c)
  PROVE  BaseInv'
<1>1. /\ Base!TypeOK /\ job[c] # None
      /\ UNCHANGED <<external, base, rows, vectors, spent>>
  BY DEF Base!Raise, Base!Fail, Base!Crash, BaseInv
<1>2. PICK d \in Docs : d = job[c].doc
  BY <1>1 DEF Base!TypeOK, Base!Op
<1>3. /\ rows \in [Docs -> SUBSET Builds] /\ vectors \in [Docs -> SUBSET Builds]
      /\ status \in [Docs -> Base!Status \cup {None}]
      /\ damaged \in SUBSET Docs /\ "failed" \in Base!Status /\ "fail" \in Base!Steps
  BY <1>1 DEF Base!TypeOK, Base!Status, Base!Steps
<1>4. CASE Base!Raise(c)
  <2>1. Base!Goes(c, "fail") /\ UNCHANGED <<status, damaged>>
    BY <1>4 DEF Base!Raise
  <2> QED
    BY <1>1, <1>2, <1>3, <2>1, BaseGoesOn
<1>5. ASSUME NEW harmed \in BOOLEAN, Base!Ends(c, harmed)
      PROVE  /\ job' = [job EXCEPT ![c] = None] /\ damaged' \in SUBSET Docs
             /\ \A e \in Docs : e # d => (e \in damaged' <=> e \in damaged)
             /\ harmed => d \in damaged'
  BY <1>2, <1>3, <1>5 DEF Base!Ends
<1>6. CASE Base!Fail(c)
  <2>1. PICK harmed \in BOOLEAN : harmed = ~job[c].alone
    OBVIOUS
  <2>2. Base!Ends(c, harmed) /\ Base!SetStatus(d, "failed")
    BY <1>2, <1>6, <2>1 DEF Base!Fail
  <2>3. /\ status' \in [Docs -> Base!Status \cup {None}]
        /\ \A e \in Docs : e # d => status'[e] = status[e]
        /\ \A e \in Docs : status'[e] # None => status[e] # None
        /\ status'[d] = "failed" \/ status'[d] = None
    BY <1>1, <1>3, <2>2, BaseMarks
  <2>4. None # "ready"
    BY BaseAssumption DEF Base!Status
  <2>5. status'[d] # "ready"
    BY <2>3, <2>4
  <2>6. /\ job' = [job EXCEPT ![c] = None] /\ damaged' \in SUBSET Docs
        /\ \A e \in Docs : e # d => (e \in damaged' <=> e \in damaged)
    BY <1>5, <2>2
  <2> QED
    BY <1>1, <1>2, <1>3, <2>3, <2>5, <2>6, BaseIsOver
<1>7. CASE Base!Crash(c)
  <2>1. Base!Ends(c, TRUE) /\ UNCHANGED status
    BY <1>7 DEF Base!Crash
  <2>2. /\ job' = [job EXCEPT ![c] = None] /\ damaged' \in SUBSET Docs
        /\ \A e \in Docs : e # d => (e \in damaged' <=> e \in damaged)
        /\ d \in damaged'
    BY <1>5, <2>1
  <2> QED
    BY <1>1, <1>2, <1>3, <2>1, <2>2, BaseIsOver
<1> QED
  BY <1>4, <1>6, <1>7

(* Rows are inserted only where there are none and nobody inserts any.     *)
LEMMA BaseStores ==
  ASSUME BaseAssumption, BaseInv, NEW c \in Clients, NEW b \in Builds, Base!Store(c, b)
  PROVE  BaseInv'
<1>1. /\ Base!TypeOK /\ Traced /\ Exclusive /\ Undisturbed /\ Complete
      /\ job[c] # None /\ job[c].at = "embed"
      /\ UNCHANGED <<external, base, status, rows, vectors, damaged>>
  BY DEF Base!Store, BaseInv
<1>2. PICK old \in Base!Op : old = job[c]
  BY <1>1 DEF Base!TypeOK
<1>3. PICK d \in Docs : d = job[c].doc
  BY <1>2 DEF Base!Op
<1>4. PICK takes \in BOOLEAN : takes = Base!Accepts(d)
  BY DEF Base!Accepts
<1> DEFINE new == [old EXCEPT !.at = IF takes THEN "stored" ELSE "fail",
                              !.build = IF takes THEN b ELSE None]
<1>5. /\ ~Base!Held(d) /\ job' = [job EXCEPT ![c] = new]
      /\ spent' = IF takes THEN spent \cup {b} ELSE spent
  <2>1. ~Base!Held(d) /\ spent' = IF takes THEN spent \cup {b} ELSE spent
    BY <1>3, <1>4 DEF Base!Store
  <2>2. job' = [job EXCEPT ![c] = [job[c] EXCEPT !.at = IF takes THEN "stored" ELSE "fail",
                                                 !.build = IF takes THEN b ELSE None]]
    BY <1>3, <1>4 DEF Base!Store
  <2> QED
    BY <1>2, <2>1, <2>2
<1>6. /\ new \in Base!Op /\ new.doc = d /\ new.alone = old.alone
      /\ new.at = IF takes THEN "stored" ELSE "fail"
      /\ takes => new.build = b
  <2>1. PICK at \in Base!Steps : at = IF takes THEN "stored" ELSE "fail"
    BY DEF Base!Steps
  <2>2. PICK build \in Builds \cup {None} : build = IF takes THEN b ELSE None
    OBVIOUS
  <2>3. new = [old EXCEPT !.at = at, !.build = build]
    BY <2>1, <2>2
  <2> HIDE DEF new
  <2> QED
    BY <1>2, <1>3, <2>1, <2>2, <2>3 DEF Base!Op
<1>7. new # None
  BY <1>6, BaseAssumption
<1> HIDE DEF new
<1>8. job' \in [Clients -> Base!Op \cup {None}] /\ job'[c] = new
      /\ \A o \in Clients : o # c => job'[o] = job[o]
  BY <1>1, <1>5, <1>6 DEF Base!TypeOK
<1>9. /\ \A o \in Clients : job'[o] # None <=> job[o] # None
      /\ \A o \in Clients : job[o] # None => job'[o].doc = job[o].doc /\ job'[o].alone = job[o].alone
  BY <1>1, <1>2, <1>3, <1>6, <1>7, <1>8
<1>10. spent \subseteq spent' /\ spent' \subseteq Docs \cup Builds
  BY <1>1, <1>5 DEF Base!TypeOK
<1>11. \A o \in Clients : Carries(o) => job[o].doc # d
  <2> SUFFICES ASSUME NEW o \in Clients, Carries(o), job[o].doc = d PROVE FALSE
    OBVIOUS
  <2>1. o \in Base!On(d) /\ job[o].at \in {"stored", "indexed"}
    BY DEF Carries, Base!On
  <2> QED
    BY <1>5, <2>1 DEF Base!Held
<1>12. Base!TypeOK'
  BY <1>1, <1>8, <1>10 DEF Base!TypeOK
<1>13. Traced'
  BY <1>1, <1>9, <1>10 DEF Traced
<1>14. Exclusive'
  <2>1. \A o \in Clients : Carries(o)' => IF o = c THEN takes ELSE Carries(o)
    BY <1>6, <1>8 DEF Carries
  <2>2. \A e \in Docs : \A x, y \in rows'[e] : x = y
    BY <1>1 DEF Exclusive
  <2>3. ASSUME NEW o \in Clients, Carries(o)'
        PROVE  rows'[job'[o].doc] = {} /\ job'[o].build \in Builds
    <3>1. CASE o = c
      <4>1. takes /\ job'[o].doc = d /\ job'[o].build = b
        BY <1>6, <1>8, <2>1, <2>3, <3>1
      <4> QED
        BY <1>1, <1>4, <4>1 DEF Base!Accepts
    <3>2. CASE o # c
      <4>1. Carries(o) /\ job'[o] = job[o]
        BY <1>8, <2>1, <2>3, <3>2
      <4>2. rows[job[o].doc] = {} /\ job[o].build \in Builds
        BY <1>1, <4>1 DEF Exclusive
      <4> QED
        BY <1>1, <4>1, <4>2
    <3> QED
      BY <3>1, <3>2
  <2>4. ASSUME NEW o \in Clients, NEW e \in Clients, Carries(o)', Carries(e)', job'[o].doc = job'[e].doc
        PROVE  o = e
    <3>1. job'[c].doc = d
      BY <1>6, <1>8
    <3>2. \A x \in Clients : x # c /\ Carries(x)' => Carries(x) /\ job'[x] = job[x] /\ job'[x].doc # d
      BY <1>8, <1>11, <2>1
    <3>3. CASE o = c \/ e = c
      BY <2>4, <3>1, <3>2, <3>3
    <3>4. CASE o # c /\ e # c
      <4>1. Carries(o) /\ Carries(e) /\ job[o].doc = job[e].doc
        BY <2>4, <3>2, <3>4
      <4> QED
        BY <1>1, <4>1 DEF Exclusive
    <3> QED
      BY <3>3, <3>4
  <2> QED
    BY <2>2, <2>3, <2>4 DEF Exclusive
<1>15. Undisturbed'
  <2> SUFFICES ASSUME NEW o \in Clients, job'[o] # None, job'[o].alone
               PROVE  /\ \A e \in Clients : job'[e] # None /\ job'[e].doc = job'[o].doc => e = o
                      /\ external =>
                           /\ job'[o].at \in {"erase", "mark", "embed", "stored"} => vectors[job'[o].doc] = {}
                           /\ job'[o].at = "indexed" => vectors[job'[o].doc] = {job'[o].build}
    BY <1>1 DEF Undisturbed
  <2>1. job[o] # None /\ job[o].alone /\ job'[o].doc = job[o].doc
    BY <1>9
  <2>2. \A e \in Clients : job[e] # None /\ job[e].doc = job[o].doc => e = o
    BY <1>1, <2>1 DEF Undisturbed
  <2>3. \A e \in Clients : job'[e] # None /\ job'[e].doc = job'[o].doc => e = o
    BY <1>9, <2>2
  <2>4. external =>
          /\ job[o].at \in {"erase", "mark", "embed", "stored"} => vectors[job[o].doc] = {}
          /\ job[o].at = "indexed" => vectors[job[o].doc] = {job[o].build}
    BY <1>1, <2>1 DEF Undisturbed
  <2>5. CASE o = c
    BY <1>1, <1>6, <1>8, <2>1, <2>3, <2>4, <2>5
  <2>6. CASE o # c
    BY <1>8, <2>3, <2>4, <2>6
  <2> QED
    BY <2>5, <2>6
<1>16. Complete'
  <2> SUFFICES ASSUME NEW e \in Docs, base', status'[e] = "ready", e \notin damaged',
                      \A o \in Clients : job'[o] # None /\ job'[o].doc = e => job'[o].at = "clear"
               PROVE  rows'[e] # {} /\ Base!Indexed(e)' = rows'[e]
    BY DEF Complete
  <2>1. e # d
    BY <1>6, <1>7, <1>8
  <2>2. \A o \in Clients : job[o] # None /\ job[o].doc = e => job[o].at = "clear"
    BY <1>3, <1>8, <2>1
  <2>3. rows[e] # {} /\ Base!Indexed(e) = rows[e]
    BY <1>1, <2>2 DEF Complete
  <2> QED
    BY <1>1, <2>3 DEF Base!Indexed
<1> QED
  BY <1>12, <1>13, <1>14, <1>15, <1>16 DEF BaseInv

(* The knowledge base goes under the requests on its documents.            *)
LEMMA BaseGoes ==
  ASSUME BaseAssumption, BaseInv, Base!DeleteBase
  PROVE  BaseInv'
<1>1. /\ Base!TypeOK /\ Traced /\ Exclusive /\ Undisturbed /\ Complete
      /\ vectors' = [d \in Docs |-> {}]
      /\ \/ rows' = [d \in Docs |-> {}] /\ base' = FALSE /\ damaged' = damaged
         \/ damaged' = Docs /\ UNCHANGED <<rows, base>>
      /\ UNCHANGED <<external, status, spent>>
  BY DEF Base!DeleteBase, BaseInv
<1>2. job' = [c \in Clients |-> IF job[c] = None THEN None ELSE [job[c] EXCEPT !.alone = FALSE]]
  BY DEF Base!DeleteBase
<1>3. ASSUME NEW c \in Clients, job[c] # None
      PROVE  /\ job'[c] \in Base!Op /\ job'[c] # None /\ job'[c].doc = job[c].doc
             /\ job'[c].at = job[c].at /\ job'[c].build = job[c].build /\ ~job'[c].alone
  <2>1. PICK old \in Base!Op : old = job[c]
    BY <1>1, <1>3 DEF Base!TypeOK
  <2> DEFINE new == [old EXCEPT !.alone = FALSE]
  <2>2. job'[c] = new
    BY <1>2, <1>3, <2>1
  <2>3. /\ new \in Base!Op /\ new.doc = old.doc /\ new.at = old.at /\ new.build = old.build
        /\ ~new.alone
    BY <2>1 DEF Base!Op
  <2>4. new # None
    BY <2>3, BaseAssumption
  <2> QED
    BY <2>1, <2>2, <2>3, <2>4
<1>4. \A c \in Clients : job[c] = None => job'[c] = None
  BY <1>2
<1>5. job' \in [Clients -> Base!Op \cup {None}]
  <2>1. \A c \in Clients : job'[c] \in Base!Op \cup {None}
    BY <1>3, <1>4
  <2>2. job' = [c \in Clients |-> job'[c]]
    BY <1>2
  <2> QED
    BY <2>1, <2>2
<1>6. /\ vectors' \in [Docs -> SUBSET Builds] /\ \A d \in Docs : vectors'[d] = {}
      /\ rows' \in [Docs -> SUBSET Builds] /\ \A d \in Docs : rows'[d] = {} \/ rows'[d] = rows[d]
      /\ damaged' \subseteq Docs /\ base' \in BOOLEAN
  <2>1. rows \in [Docs -> SUBSET Builds] /\ damaged \subseteq Docs /\ base \in BOOLEAN
    BY <1>1 DEF Base!TypeOK
  <2> QED
    BY <1>1, <2>1
<1>7. Base!TypeOK'
  BY <1>1, <1>5, <1>6 DEF Base!TypeOK
<1>8. Traced'
  <2>1. \A c \in Clients : job'[c] # None => job'[c].doc \in spent
    BY <1>1, <1>3, <1>4 DEF Traced
  <2> QED
    BY <1>1, <1>6, <2>1 DEF Traced
<1>9. Exclusive'
  <2>1. \A o \in Clients : Carries(o)' => /\ Carries(o) /\ job'[o].doc = job[o].doc
                                        /\ job'[o].build = job[o].build /\ job[o].doc \in Docs
    BY <1>1, <1>3, <1>4 DEF Carries, Base!TypeOK, Base!Op
  <2>2. \A d \in Docs : \A x, y \in rows'[d] : x = y
    BY <1>1, <1>6 DEF Exclusive
  <2>3. \A o \in Clients : Carries(o)' => rows'[job'[o].doc] = {} /\ job'[o].build \in Builds
    BY <1>1, <1>6, <2>1 DEF Exclusive
  <2>4. \A o, e \in Clients : Carries(o)' /\ Carries(e)' /\ job'[o].doc = job'[e].doc => o = e
    BY <1>1, <2>1 DEF Exclusive
  <2> QED
    BY <2>2, <2>3, <2>4 DEF Exclusive
<1>10. Undisturbed'
  BY <1>3, <1>4 DEF Undisturbed
<1>11. Complete'
  BY <1>1 DEF Complete
<1> QED
  BY <1>7, <1>8, <1>9, <1>10, <1>11 DEF BaseInv

(* A knowledge base begins empty.                                          *)
LEMMA BaseInit ==
  ASSUME BaseAssumption, Base!Init
  PROVE  BaseInv
<1>1. Base!TypeOK
  BY DEF Base!Init, Base!TypeOK
<1>2. \A c \in Clients : job[c] = None
  BY DEF Base!Init
<1>3. Traced /\ Exclusive /\ Undisturbed
  BY <1>2 DEF Base!Init, Traced, Exclusive, Carries, Undisturbed
<1>4. None # "ready"
  BY BaseAssumption DEF Base!Status
<1>5. Complete
  BY <1>4 DEF Base!Init, Complete
<1> QED
  BY <1>1, <1>3, <1>5 DEF BaseInv

(* A query never answers with chunks of two builds of a document, and      *)
(* answers with all chunks of one that is ready unless a request on it was *)
(* interrupted or overlapped another one: for any number of documents,     *)
(* builds and requests, wherever the vectors are.                          *)
THEOREM KnowledgeIsSound == StoreSpec => []KnowledgeSound
<1>1. StoreInit => BaseInv
  BY BaseInit, BaseAssumption DEF StoreInit
<1>2. BaseInv /\ [StoreNext]_storeVars => BaseInv'
  <2> SUFFICES ASSUME BaseInv, [StoreNext]_storeVars PROVE BaseInv'
    OBVIOUS
  <2>1. CASE Base!Next
    BY <2>1, BaseAssumption, BaseIngests, BaseRequests, BaseClears, BaseErases, BaseStarts,
       BaseStores, BaseUpserts, BaseFinishes, BaseFails, BaseGoes DEF Base!Next
  <2>2. CASE UNCHANGED knowledgeVars
    BY <2>2 DEF knowledgeVars, BaseInv, Base!TypeOK, Traced, Exclusive, Carries, Undisturbed,
       Complete, Base!Indexed
  <2> QED
    BY <2>1, <2>2 DEF StoreNext, storeVars
<1>3. BaseInv => KnowledgeSound
  <2> SUFFICES ASSUME BaseInv, NEW d \in Docs
               PROVE  /\ Base!Cardinality(Base!Retrieved(d)) <= 1
                      /\ base /\ status[d] = "ready" /\ d \notin damaged /\ Base!On(d) = {}
                           => Base!Retrieved(d) # {} /\ Base!Indexed(d) = rows[d]
    BY DEF KnowledgeSound, Base!ReadyIsRetrieved
  <2>1. Base!Cardinality(Base!Retrieved(d)) <= 1
    <3>1. \A x, y \in Base!Retrieved(d) : x = y
      BY DEF BaseInv, Exclusive, Base!Retrieved
    <3>2. Base!Cardinality(Base!Retrieved(d)) = Cardinality(Base!Retrieved(d))
      BY DEF Base!Cardinality, Cardinality
    <3>3. CASE Base!Retrieved(d) = {}
      BY <3>2, <3>3, FS_EmptySet
    <3>4. ASSUME NEW x \in Base!Retrieved(d) PROVE Cardinality(Base!Retrieved(d)) <= 1
      <4>1. Base!Retrieved(d) = {x}
        BY <3>1, <3>4
      <4> QED
        BY <4>1, FS_Singleton
    <3> QED
      BY <3>2, <3>3, <3>4
  <2>2. ASSUME base, status[d] = "ready", d \notin damaged, Base!On(d) = {}
        PROVE  Base!Retrieved(d) # {} /\ Base!Indexed(d) = rows[d]
    <3>1. \A c \in Clients : ~(job[c] # None /\ job[c].doc = d)
      BY <2>2 DEF Base!On
    <3>2. rows[d] # {} /\ Base!Indexed(d) = rows[d]
      BY <2>2, <3>1 DEF BaseInv, Complete
    <3> QED
      BY <2>2, <3>2 DEF Base!Retrieved
  <2> QED
    BY <2>1, <2>2
<1> QED
  BY <1>1, <1>2, <1>3, PTL DEF StoreSpec

-----------------------------------------------------------------------------
(* Contexts.  What is left to look at is relevant, and the best first.     *)
Falling(s) ==
  /\ \A i \in 1..Len(s) : Given!Eligible(s[i])
  /\ \A i, j \in 1..Len(s) : i < j => s[i].score >= s[j].score

(* What is in the context is relevant, and not less than what is left.     *)
Leading(t, s) ==
  \A k \in 1..Len(t) :
    /\ Given!Eligible(t[k].item)
    /\ \A j \in 1..Len(s) : s[j].score <= t[k].item.score

Budgeted ==
  /\ kind = "none" => taken = << >> /\ linked = << >> /\ rest = MaxChars /\ ~ready
  /\ kind \in {"memories", "passages", "files"} =>
       Summed(taken) + Summed(linked) + rest = MaxChars
  /\ kind = "files" => rest + MarkChars >= 0
  /\ kind \in {"memories", "passages"} =>
       /\ rest >= 0 /\ Falling(items) /\ Leading(taken, items)
       /\ ready /\ items # << >> => Len(taken) = Limit \/ rest = 0

(* Memories that come in for a link follow those of their own.             *)
Linking ==
  /\ kind # "memories" => linked = << >>
  /\ kind = "memories" => Len(taken) <= Limit /\ Len(linked) <= MaxLinks
  /\ linked # << >> => items = << >> \/ Len(taken) = Limit
  /\ \A l \in 1..Len(linked) : linked[l].by \in 1..Len(taken)

(* A history with one more step in full, and of the others the titles.     *)
Unspared(full) == [titles |-> Len(all) - full - 1, digest |-> 1, full |-> full + 1]

Layered ==
  kind = "history" =>
    /\ layers.titles + layers.full <= Len(all)
    /\ ready => Given!Chars(layers) <= HistoryChars \/ Given!Shortest(layers)
    /\ layers.full < Given!Least(Recent, Len(all)) =>
         \A x : x = Unspared(layers.full) => Given!Chars(x) > HistoryChars

ContextInv == Given!TypeOK /\ Len(all) <= MaxItems /\ Budgeted /\ Linking /\ Layered

(* The smaller of two numbers.                                             *)
LEMMA LeastIs ==
  ASSUME NEW a \in Int, NEW b \in Int
  PROVE  Given!Least(a, b) \in {a, b} /\ Given!Least(a, b) <= a /\ Given!Least(a, b) <= b
BY DEF Given!Least

(* Candidates are ranked, and only those that are eligible.                *)
LEMMA BestFalls ==
  ASSUME ContextAssumption, NEW q \in Seq(Items)
  PROVE  Given!Best(q) \in Seq(Items) /\ Falling(Given!Best(q))
<1> DEFINE E == {m \in Items : Given!Eligible(m)}
           key == [m \in Items |-> m.score]
           f == Filtered(q, E)
<1>1. f \in Seq(Items) /\ \A j \in 1..Len(f) : f[j] \in E
  BY FilterKeeps
<1>2. key \in [Items -> Int] /\ \A m \in Items : key[m] = m.score
  BY ContextAssumption
<1>3. Given!Best(q) = Given!Sorted(f, key)
  BY DEF Given!Best, Given!Filtered, Filtered
<1> HIDE DEF f, key
<1>4. Given!Sorted(f, key) = Sorted(f, key)
  BY DEF Given!Sorted, Given!Place, Given!Precedes, Given!Cardinality,
         Sorted, Place, Precedes, Cardinality
<1>5. PICK s : s = Sorted(f, key)
  OBVIOUS
<1>6. /\ s \in Seq(Items) /\ Len(s) = Len(f)
      /\ \A i, j \in 1..Len(f) : i < j => key[s[i]] >= key[s[j]]
      /\ \A i \in 1..Len(f) : \E k \in 1..Len(f) : s[i] = f[k]
  <2>1. f \in Seq(Items) /\ key \in [Items -> Int]
    BY <1>1, <1>2
  <2>2. Arranges(s, f, key, Items)
    BY ONLY <1>5, <2>1, SortedKeeps
  <2> QED
    BY <2>2 DEF Arranges
<1>7. \A i \in 1..Len(s) : s[i] \in Items /\ Given!Eligible(s[i])
  BY <1>1, <1>6
<1>8. \A i, j \in 1..Len(s) : i < j => s[i].score >= s[j].score
  BY <1>2, <1>6, <1>7
<1> QED
  BY <1>3, <1>4, <1>5, <1>6, <1>7, <1>8 DEF Falling

(* The first of some items are items, and as well ranked.                  *)
LEMMA FirstFall ==
  ASSUME NEW q \in Seq(Items), NEW n \in Nat
  PROVE  /\ Given!AtMost(q, n) \in Seq(Items)
         /\ Falling(q) => Falling(Given!AtMost(q, n))
<1>1. PICK m \in Nat : m = Given!Least(n, Len(q)) /\ m <= Len(q)
  BY LeastIs
<1>2. \A i \in 1..m : q[i] \in Items /\ 1 + i - 1 = i /\ i \in 1..Len(q)
  BY <1>1
<1>3. PICK s : s = SubSeq(q, 1, m)
  OBVIOUS
<1>4. s \in Seq(Items) /\ Len(s) = m /\ \A i \in 1..m : s[i] = q[i]
  <2>1. 1 \in Int /\ m \in Int /\ m - 1 + 1 = m /\ (IF 1 <= m THEN m - 1 + 1 ELSE 0) = m
    BY <1>1
  <2> QED
    BY <1>2, <1>3, <2>1, SubSeqProperties
<1>5. Falling(q) => Falling(s)
  BY <1>2, <1>4 DEF Falling
<1> QED
  BY <1>1, <1>3, <1>4, <1>5 DEF Given!AtMost

(* The last of some items are items.                                       *)
LEMMA NewestAreItems ==
  ASSUME NEW q \in Seq(Items), NEW n \in Nat
  PROVE  Given!Newest(q, n) \in Seq(Items)
<1>1. PICK m \in Nat : m = Given!Least(n, Len(q)) /\ m <= Len(q)
  BY LeastIs
<1>2. PICK a \in Int, b \in Int : a = Len(q) - m + 1 /\ b = Len(q) /\ 1 <= a
  BY <1>1
<1>3. \A i \in a..b : q[i] \in Items
  BY <1>2
<1>4. SubSeq(q, a, b) \in Seq(Items)
  BY <1>3, SubSeqProperties
<1> QED
  BY <1>1, <1>2, <1>4 DEF Given!Newest

(* So a history has a length, however it is cut.                           *)
LEMMA HistoryHasLength ==
  ASSUME ContextAssumption, Given!TypeOK, NEW l, l.digest \in Nat
  PROVE  Given!Chars(l) \in Int
<1> DEFINE n == Len(all)
           nought == n - 1
           add == [k \in 1..n |-> Given!Line(k, l)]
           Is(f) == f = [S \in SUBSET DOMAIN [k \in DOMAIN all |-> k] |->
                           IF S = {} THEN nought
                           ELSE f[S \ {Top(S)}] + Given!Line([k \in DOMAIN all |-> k][Top(S)], l)]
<1>1. n \in Nat /\ nought \in Int /\ DOMAIN all = 1..n /\ \A k \in 1..n : all[k] \in Items
  BY DEF Given!TypeOK
<1>2. ASSUME NEW k \in 1..n PROVE Given!Line(k, l) \in Int
  <2>1. PICK c \in Nat, t \in Nat, d \in Nat, f \in Nat, m \in Nat :
          /\ c = all[k].chars /\ t = all[k].title /\ d = l.digest
          /\ f = TitleFrame /\ m = MarkChars
    BY <1>1, ContextAssumption
  <2>2. c \in Int /\ t + f \in Int /\ d + m \in Int
    BY ONLY c \in Nat, t \in Nat, d \in Nat, f \in Nat, m \in Nat
  <2> QED
    BY <2>1, <2>2 DEF Given!Line, Given!Marked
<1>3. add \in [1..n -> Int]
  BY <1>2
<1>4. ASSUME NEW f PROVE Is(f) <=> Adds(f, n, nought, add)
  <2>1. DOMAIN [k \in DOMAIN all |-> k] = 1..n
    BY <1>1
  <2>2. \A S \in SUBSET (1..n) : S # {} => Top(S) \in 1..n
    BY <1>1, TopIsLast
  <2>3. \A k \in 1..n : [i \in DOMAIN all |-> i][k] = k /\ add[k] = Given!Line(k, l)
    BY <1>1
  <2> HIDE DEF n, nought, add
  <2>4. \A S \in SUBSET (1..n) : S # {} =>
          f[S \ {Top(S)}] + Given!Line([k \in DOMAIN all |-> k][Top(S)], l)
            = f[S \ {Top(S)}] + add[Top(S)]
    BY <2>2, <2>3
  <2>5. [S \in SUBSET DOMAIN [k \in DOMAIN all |-> k] |->
                           IF S = {} THEN nought
                           ELSE f[S \ {Top(S)}] + Given!Line([k \in DOMAIN all |-> k][Top(S)], l)]
        = [S \in SUBSET (1..n) |-> IF S = {} THEN nought ELSE f[S \ {Top(S)}] + add[Top(S)]]
    BY <2>1, <2>4
  <2> QED
    BY <2>5 DEF Adds
<1>5. Given!Chars(l) = (CHOOSE f : Is(f))[1..n]
  BY <1>1 DEF Given!Chars, Given!FoldLeft, Given!MapThenFoldSet, Given!Max, Top
<1> HIDE DEF n, nought, add, Is
<1>6. (\E f : Adds(f, n, nought, add)) /\ \A f : Adds(f, n, nought, add) => f[1..n] \in Int
  BY <1>1, <1>3, AddsUp
<1>7. Is(CHOOSE f : Is(f))
  BY <1>4, <1>6
<1> QED
  BY <1>4, <1>5, <1>6, <1>7

-----------------------------------------------------------------------------
(* What comes in for links has a length.                                   *)
LEMMA LinksHaveLength ==
  ASSUME NEW q \in Seq(Given!Linked)
  PROVE  Summed(q) \in Nat
<1>1. \A a \in Given!Linked : a.chars \in Nat
  BY DEF Given!Linked
<1>2. PICK g \in [0..Len(q) -> Nat] : Summed(q) = g[Len(q)]
  BY <1>1, SummedRuns
<1> QED
  BY <1>2, Len(q) \in 0..Len(q)

(* Something is put into a context, of which so much of the budget is left.*)
LEMMA ContextTakes ==
  ASSUME ContextAssumption, ContextInv, NEW chars \in Nat, NEW kept \in Int,
         kind = "memories" => Len(taken) # Limit,
         kind \in {"memories", "messages", "files", "passages"}, ~ready, items # << >>,
         kind # "messages" => kept = rest - chars,
         kind \in {"memories", "passages"} => kept >= 0,
         kind = "files" => kept + MarkChars >= 0,
         Given!Take(Head(items), chars, kept)
  PROVE  ContextInv'
<1> DEFINE t == [item |-> Head(items), chars |-> chars]
<1>1. /\ taken' = Append(taken, t) /\ rest' = kept /\ items' = Tail(items)
      /\ kind' = kind /\ all' = all /\ layers' = layers /\ ready' = ready
      /\ linked' = linked
  BY DEF Given!Take
<1>2. /\ items \in Seq(Items) /\ taken \in Seq(Given!Taken) /\ rest \in Int
      /\ linked \in Seq(Given!Linked)
      /\ \A i \in 1..Len(items) : items[i].score \in Int
  BY ContextAssumption DEF ContextInv, Given!TypeOK
<1>3. /\ Len(items) \in Nat \ {0} /\ Head(items) = items[1] /\ Head(items) \in Items
      /\ Tail(items) \in Seq(Items) /\ Len(Tail(items)) = Len(items) - 1
      /\ \A j \in 1..Len(Tail(items)) : Tail(items)[j] = items[j + 1] /\ j + 1 \in 1..Len(items)
  BY <1>2
<1>4. t \in Given!Taken /\ t.item = Head(items) /\ t.chars = chars
  BY <1>3 DEF Given!Taken
<1> HIDE DEF t
<1>5. /\ Append(taken, t) \in Seq(Given!Taken) /\ Len(Append(taken, t)) = Len(taken) + 1
      /\ Append(taken, t)[Len(taken) + 1] = t
      /\ \A k \in 1..Len(taken) : Append(taken, t)[k] = taken[k]
  BY <1>2, <1>4
<1>6. Given!TypeOK' /\ Len(all') <= MaxItems
  BY <1>1, <1>2, <1>3, <1>5 DEF ContextInv, Given!TypeOK, Given!Layers
<1>7. kind \in {"memories", "passages", "files"} =>
        Summed(taken') + Summed(linked') + rest' = MaxChars
  <2>1. \A a \in Given!Taken : a.chars \in Nat
    BY DEF Given!Taken
  <2>2. PICK m \in Nat : m = Summed(taken) /\ Summed(Append(taken, t)) = m + chars
    BY <1>2, <1>4, <2>1, SummedAppends
  <2>3. PICK n \in Nat : n = Summed(linked)
    BY <1>2, LinksHaveLength
  <2> SUFFICES ASSUME kind \in {"memories", "passages", "files"}
               PROVE  (m + chars) + n + kept = MaxChars
    BY <1>1, <2>2, <2>3
  <2>4. m + n + rest = MaxChars /\ kept = rest - chars
    BY <2>2, <2>3 DEF ContextInv, Budgeted
  <2>5. PICK r \in Int : r = rest
    BY <1>2
  <2>6. kept = r - chars /\ m + n + r = MaxChars
    BY <2>4, <2>5
  <2>7. (m + chars) + n + (r - chars) = m + n + r
    BY ONLY m \in Int, n \in Int, chars \in Int, r \in Int
  <2> QED
    BY <2>6, <2>7
<1> HIDE DEF t
<1>10. Linking'
  <2>1. kind = "memories" => Len(taken) < Limit /\ linked = << >>
    <3>1. Limit \in Nat /\ Len(taken) \in Nat
      BY <1>2, ContextAssumption
    <3> QED
      BY <3>1 DEF ContextInv, Linking
  <2>2. linked = << >>
    BY <2>1 DEF ContextInv, Linking
  <2>3. kind = "memories" => Len(taken) + 1 <= Limit
    <3>1. Limit \in Nat /\ Len(taken) \in Nat
      BY <1>2, ContextAssumption
    <3> QED
      BY <2>1, <3>1
  <2>4. MaxLinks \in Nat /\ Len(<< >>) = 0 /\ 0 <= MaxLinks
    BY ContextAssumption
  <2> QED
    BY <1>1, <1>5, <2>2, <2>3, <2>4 DEF Linking
<1>8. CASE kind \in {"memories", "passages"}
  <2>1. Falling(items) /\ Leading(taken, items)
    BY <1>8 DEF ContextInv, Budgeted
  <2>2. Falling(Tail(items))
    <3>1. \A i, j \in 1..Len(Tail(items)) : i < j => i + 1 < j + 1
      BY <1>3
    <3> QED
      BY <1>3, <2>1, <3>1 DEF Falling
  <2>3. \A j \in 1..Len(Tail(items)) : 1 < j + 1 /\ items[1].score >= items[j + 1].score
    <3>1. \A j \in 1..Len(Tail(items)) : 1 < j + 1 /\ 1 \in 1..Len(items)
      BY <1>3
    <3> QED
      BY <1>3, <2>1, <3>1 DEF Falling
  <2>4. ASSUME NEW k \in 1..(Len(taken) + 1)
        PROVE  /\ Given!Eligible(Append(taken, t)[k].item)
               /\ \A j \in 1..Len(Tail(items)) :
                    Tail(items)[j].score <= Append(taken, t)[k].item.score
    <3>1. CASE k = Len(taken) + 1
      <4>1. Append(taken, t)[k].item = items[1]
        BY <1>3, <1>4, <1>5, <3>1
      <4>2. Given!Eligible(items[1])
        BY <1>3, <2>1 DEF Falling
      <4>3. \A j \in 1..Len(Tail(items)) : Tail(items)[j].score <= items[1].score
        <5> SUFFICES ASSUME NEW j \in 1..Len(Tail(items))
                     PROVE  Tail(items)[j].score <= items[1].score
          OBVIOUS
        <5>1. PICK x \in Int, y \in Int : x = items[1].score /\ y = items[j + 1].score
          BY <1>2, <1>3
        <5>2. x >= y
          BY <2>3, <5>1
        <5> QED
          BY <1>3, <5>1, <5>2
      <4> QED
        BY <4>1, <4>2, <4>3
    <3>2. CASE k # Len(taken) + 1
      <4>1. k \in 1..Len(taken) /\ Append(taken, t)[k] = taken[k]
        <5>1. Len(taken) \in Nat
          BY <1>2
        <5> QED
          BY <1>5, <3>2, <5>1
      <4> QED
        BY <1>3, <2>1, <4>1 DEF Leading
    <3> QED
      BY <3>1, <3>2
  <2>5. Leading(taken', items')
    BY <1>1, <1>5, <2>4 DEF Leading
  <2> QED
    BY <1>1, <1>6, <1>7, <1>8, <1>10, <2>2, <2>5 DEF ContextInv, Budgeted, Layered
<1>9. CASE kind \in {"messages", "files"}
  BY <1>1, <1>6, <1>7, <1>9, <1>10 DEF ContextInv, Budgeted, Layered
<1> QED
  BY <1>8, <1>9

(* The length of a history is that of its steps.                           *)
LEMMA LengthStays ==
  ASSUME NEW x, all' = all
  PROVE  Given!Chars(x)' = Given!Chars(x)
BY DEF Given!Chars, Given!Line, Given!Marked, Given!FoldLeft, Given!MapThenFoldSet, Given!Max

(* A context is put together.                                              *)
LEMMA ContextFinishes ==
  ASSUME ContextInv, Given!Finish, kind # "none",
         kind \in {"memories", "passages"} => items = << >> \/ Len(taken) = Limit \/ rest <= 0,
         kind = "history" => Given!Chars(layers) <= HistoryChars \/ Given!Shortest(layers)
  PROVE  ContextInv'
<1>1. /\ kind' = kind /\ items' = items /\ all' = all /\ taken' = taken /\ rest' = rest
      /\ layers' = layers /\ linked' = linked /\ ready'
  BY DEF Given!Finish
<1>2. Given!TypeOK' /\ Len(all') <= MaxItems
  BY <1>1 DEF ContextInv, Given!TypeOK, Given!Finish
<1>3. Budgeted'
  <2>1. ASSUME kind \in {"memories", "passages"}
        PROVE  items = << >> \/ Len(taken) = Limit \/ rest = 0
    <3>1. rest >= 0 /\ rest \in Int
      BY <2>1 DEF ContextInv, Budgeted, Given!TypeOK
    <3> QED
      BY <2>1, <3>1
  <2> QED
    BY <1>1, <2>1 DEF ContextInv, Budgeted
<1>4. Layered'
  <2>1. Given!Chars(layers)' = Given!Chars(layers)
    BY <1>1 DEF Given!Chars, Given!Line, Given!Marked,
                Given!FoldLeft, Given!MapThenFoldSet, Given!Max
  <2>2. Given!Shortest(layers)' = Given!Shortest(layers)
    BY <1>1 DEF Given!Shortest
  <2>3. \A x : Given!Chars(x)' = Given!Chars(x)
    BY <1>1, LengthStays
  <2> QED
    BY <1>1, <2>1, <2>2, <2>3 DEF ContextInv, Layered, Unspared, Given!Least
<1>5. Linking'
  BY <1>1 DEF ContextInv, Linking
<1> QED
  BY <1>2, <1>3, <1>4, <1>5 DEF ContextInv

(* _compress_item keeps to what is asked for.                              *)
LEMMA CutFits ==
  ASSUME ContextAssumption, NEW c \in Nat, NEW m \in Nat
  PROVE  Given!Cut(c, m) \in Nat /\ Given!Cut(c, m) <= m
<1>1. Short \in Nat
  BY ContextAssumption
<1> QED
  BY <1>1 DEF Given!Cut

(* A memory of a given length, of which a part is taken, fits.             *)
LEMMA CutOfBudget ==
  ASSUME ContextAssumption, Given!TypeOK, NEW c \in Nat, rest > 0
  PROVE  \E d \in Nat : /\ d = Given!Cut(c, Given!Least(ItemChars, rest))
                        /\ rest - d \in Int /\ rest - d >= 0
<1>1. ItemChars \in Nat /\ rest \in Nat
  BY ContextAssumption DEF Given!TypeOK
<1>2. PICK m \in Nat : m = Given!Least(ItemChars, rest) /\ m <= rest
  BY <1>1, LeastIs
<1>3. PICK d \in Nat : d = Given!Cut(c, m) /\ d <= m
  BY CutFits
<1> QED
  BY <1>1, <1>2, <1>3

(* A memory is added while there is place for it.                          *)
LEMMA ContextAddsMemory ==
  ASSUME ContextAssumption, ContextInv, Given!AddMemory PROVE ContextInv'
<1>1. /\ kind = "memories" /\ ~ready
      /\ items # << >> /\ Len(taken) # Limit /\ ~(rest <= 0)
  BY DEF Given!AddMemory, Given!Chosen
<1>2. rest \in Int /\ items \in Seq(Items) /\ Given!TypeOK
  BY DEF ContextInv, Given!TypeOK
<1>3. PICK c \in Nat : c = Head(items).chars
  BY <1>1, <1>2, ContextAssumption
<1>4. PICK d \in Nat : /\ d = Given!Cut(c, Given!Least(ItemChars, rest))
                       /\ rest - d \in Int /\ rest - d >= 0
  BY <1>1, <1>2, CutOfBudget
<1>5. Given!Take(Head(items), d, rest - d)
  BY <1>3, <1>4 DEF Given!AddMemory
<1> QED
  BY <1>1, <1>4, <1>5, ContextTakes

(* A memory is added for its link, when no other comes in any more.        *)
LEMMA ContextAddsLinked ==
  ASSUME ContextAssumption, ContextInv, NEW k \in DOMAIN taken, NEW m \in Items,
         Given!AddLinked(k, m)
  PROVE  ContextInv'
<1>1. /\ kind = "memories" /\ ~ready /\ rest > 0 /\ Len(linked) < MaxLinks
      /\ items = << >> \/ Len(taken) = Limit \/ rest <= 0
      /\ kind' = kind /\ items' = items /\ all' = all /\ taken' = taken
      /\ layers' = layers /\ ready' = ready
  BY DEF Given!AddLinked, Given!Expanding, Given!Chosen
<1>2. /\ rest \in Int /\ Given!TypeOK /\ linked \in Seq(Given!Linked)
      /\ taken \in Seq(Given!Taken) /\ MaxLinks \in Nat /\ MaxChars \in Int
  BY ContextAssumption DEF ContextInv, Given!TypeOK
<1>3. PICK c \in Nat : c = m.chars
  BY ContextAssumption
<1>4. PICK d \in Nat : /\ d = Given!Cut(c, Given!Least(ItemChars, rest))
                       /\ rest - d \in Int /\ rest - d >= 0
  BY <1>1, <1>2, CutOfBudget
<1> DEFINE t == [item |-> m, chars |-> d, by |-> k]
<1>5. linked' = Append(linked, t) /\ rest' = rest - d
  BY <1>3, <1>4 DEF Given!AddLinked
<1>6. k \in 1..Len(taken) /\ k \in Nat
  BY <1>2
<1>7. t \in Given!Linked /\ t.chars = d /\ t.by = k
  BY <1>6 DEF Given!Linked
<1> HIDE DEF t
<1>8. /\ Append(linked, t) \in Seq(Given!Linked) /\ Len(Append(linked, t)) = Len(linked) + 1
      /\ Append(linked, t)[Len(linked) + 1] = t
      /\ \A l \in 1..Len(linked) : Append(linked, t)[l] = linked[l]
  BY <1>2, <1>7
<1>9. Given!TypeOK' /\ Len(all') <= MaxItems
  BY <1>1, <1>4, <1>5, <1>8 DEF ContextInv, Given!TypeOK
<1>10. items = << >> \/ Len(taken) = Limit
  BY <1>1, <1>2
<1>11. Summed(taken') + Summed(linked') + rest' = MaxChars
  <2>1. \A a \in Given!Linked : a.chars \in Nat
    BY DEF Given!Linked
  <2>2. PICK n \in Nat : n = Summed(linked) /\ Summed(Append(linked, t)) = n + d
    BY <1>2, <1>7, <2>1, SummedAppends
  <2>3. PICK s \in Nat : s = Summed(taken)
    <3>1. \A a \in Given!Taken : a.chars \in Nat
      BY DEF Given!Taken
    <3>2. PICK g \in [0..Len(taken) -> Nat] : Summed(taken) = g[Len(taken)]
      BY <1>2, <3>1, SummedRuns
    <3> QED
      BY <1>2, <3>2, Len(taken) \in 0..Len(taken)
  <2>4. s + n + rest = MaxChars
    BY <1>1, <2>2, <2>3 DEF ContextInv, Budgeted
  <2>5. PICK r \in Int : r = rest /\ rest' = r - d
    BY <1>2, <1>5
  <2>6. s + (n + d) + (r - d) = s + n + r
    BY ONLY s \in Int, n \in Int, d \in Int, r \in Int
  <2>7. Summed(taken') = s /\ Summed(linked') = n + d
    BY <1>1, <1>5, <2>2, <2>3
  <2> QED
    BY <2>4, <2>5, <2>6, <2>7
<1>12. Budgeted'
  <2>1. Falling(items) /\ Leading(taken, items)
    BY <1>1 DEF ContextInv, Budgeted
  <2> QED
    BY <1>1, <1>4, <1>5, <1>11, <2>1 DEF Budgeted
<1>13. Linking'
  <2>1. Len(linked) \in Nat /\ Len(linked) + 1 <= MaxLinks
    BY <1>1, <1>2
  <2>2. \A l \in 1..(Len(linked) + 1) : Append(linked, t)[l].by \in 1..Len(taken)
    <3> SUFFICES ASSUME NEW l \in 1..(Len(linked) + 1)
                 PROVE  Append(linked, t)[l].by \in 1..Len(taken)
      OBVIOUS
    <3>1. CASE l = Len(linked) + 1
      BY <1>6, <1>7, <1>8, <3>1
    <3>2. CASE l # Len(linked) + 1
      <4>1. l \in 1..Len(linked)
        BY <2>1, <3>2
      <4> QED
        BY <1>8, <4>1 DEF ContextInv, Linking
    <3> QED
      BY <3>1, <3>2
  <2>3. Len(taken) <= Limit
    BY <1>1 DEF ContextInv, Linking
  <2> QED
    BY <1>1, <1>5, <1>8, <1>10, <2>1, <2>2, <2>3 DEF Linking
<1> QED
  BY <1>1, <1>9, <1>12, <1>13 DEF ContextInv, Layered

(* There is no place for one more, or nothing that is linked is added.     *)
LEMMA ContextFinishesMemories ==
  ASSUME ContextInv, Given!FinishMemories PROVE ContextInv'
BY ContextFinishes DEF Given!FinishMemories, Given!Expanding, Given!Chosen

(* A passage is added, or the budget is used up.                           *)
LEMMA ContextAddsPassage ==
  ASSUME ContextAssumption, ContextInv, Given!AddPassage PROVE ContextInv'
<1>1. kind = "passages" /\ ~ready
  BY DEF Given!AddPassage
<1>2. CASE items = << >> \/ rest <= 0
  BY <1>1, <1>2, ContextFinishes DEF Given!AddPassage
<1>3. CASE ~(items = << >> \/ rest <= 0)
  <2>1. rest \in Int /\ items \in Seq(Items) /\ items # << >> /\ ~(rest <= 0)
    BY <1>3 DEF ContextInv, Given!TypeOK
  <2>2. PICK c \in Nat : c = Head(items).chars
    BY <2>1, ContextAssumption
  <2>3. PICK d \in Nat : d = Given!Least(c, rest) /\ d <= rest
    BY <2>1, LeastIs
  <2>5. rest - d \in Int /\ rest - d >= 0
    BY <2>1, <2>3
  <2>6. Given!Take(Head(items), d, rest - d)
    BY <1>3, <2>2, <2>3 DEF Given!AddPassage
  <2> QED
    BY <1>1, <2>1, <2>5, <2>6, ContextTakes
<1> QED
  BY <1>2, <1>3

(* A message is added, or all are.                                         *)
LEMMA ContextAddsMessage ==
  ASSUME ContextAssumption, ContextInv, Given!AddMessage PROVE ContextInv'
<1>1. kind = "messages" /\ ~ready
  BY DEF Given!AddMessage
<1>2. CASE items = << >>
  BY <1>1, <1>2, ContextFinishes DEF Given!AddMessage
<1>3. CASE items # << >>
  <2>1. rest \in Int /\ items \in Seq(Items)
    BY <1>3 DEF ContextInv, Given!TypeOK
  <2>2. PICK c \in Nat, m \in Nat, k \in Nat :
          c = Head(items).chars /\ m = ItemChars /\ k = MarkChars
    BY <1>3, <2>1, ContextAssumption
  <2>3. PICK d \in Nat : d = Given!Marked(c, m)
    BY <2>2 DEF Given!Marked
  <2>4. Given!Take(Head(items), d, rest)
    BY <1>3, <2>2, <2>3 DEF Given!AddMessage
  <2> QED
    BY <1>1, <1>3, <2>1, <2>4, ContextTakes
<1> QED
  BY <1>2, <1>3

(* A file or a notice is added, or all are.                                *)
LEMMA ContextAddsFile ==
  ASSUME ContextAssumption, ContextInv, NEW readable, Given!AddFile(readable)
  PROVE  ContextInv'
<1>1. kind = "files" /\ ~ready
  BY DEF Given!AddFile
<1>2. CASE items = << >>
  BY <1>1, <1>2, ContextFinishes DEF Given!AddFile
<1>3. CASE items # << >>
  <2>1. rest \in Int /\ items \in Seq(Items) /\ rest + MarkChars >= 0
    BY <1>1, <1>3 DEF ContextInv, Given!TypeOK, Budgeted
  <2>2. PICK c \in Nat, k \in Nat : c = Head(items).chars /\ k = MarkChars
    BY <1>3, <2>1, ContextAssumption
  <2>3. CASE ~readable \/ rest <= 0 \/ Head(items).chars = 0
    <3>1. Given!Take(Head(items), 0, rest) /\ rest = rest - 0
      BY <1>3, <2>1, <2>3 DEF Given!AddFile
    <3> QED
      BY <1>1, <1>3, <2>1, <3>1, ContextTakes
  <2>4. CASE ~(~readable \/ rest <= 0 \/ Head(items).chars = 0)
    <3>1. PICK d \in Nat : d = Given!Marked(c, rest) /\ d <= rest + k
      BY <2>1, <2>2, <2>4 DEF Given!Marked
    <3>2. rest - d \in Int /\ rest - d + k >= 0
      <4>1. PICK r \in Int : r = rest
        BY <2>1
      <4>2. d \in Nat /\ k \in Nat /\ d <= r + k
        BY <2>2, <3>1, <4>1
      <4>3. r - d \in Int /\ r - d + k >= 0
        BY ONLY <4>2, r \in Int
      <4> QED
        BY <4>1, <4>3
    <3>3. Given!Take(Head(items), d, rest - d)
      BY <1>3, <2>2, <2>4, <3>1 DEF Given!AddFile
    <3> QED
      BY <1>1, <1>3, <2>1, <2>2, <3>2, <3>3, ContextTakes
  <2> QED
    BY <2>3, <2>4
<1> QED
  BY <1>2, <1>3

(* A history is shortened, its steps in full only when nothing else is     *)
(* left to forget.                                                         *)
LEMMA ContextCompresses ==
  ASSUME ContextAssumption, ContextInv, Given!Compress PROVE ContextInv'
<1>1. kind = "history" /\ ~ready
  BY DEF Given!Compress
<1>2. CASE Given!Chars(layers) <= HistoryChars \/ Given!Shortest(layers)
  BY <1>1, <1>2, ContextFinishes DEF Given!Compress
<1>3. CASE ~(Given!Chars(layers) <= HistoryChars \/ Given!Shortest(layers))
  <2>1. /\ layers' = Given!Shorter(layers) /\ kind' = kind /\ items' = items /\ all' = all
        /\ taken' = taken /\ linked' = linked /\ rest' = rest /\ ready' = ready
    BY <1>3 DEF Given!Compress
  <2>2. PICK l \in Given!Layers : l = layers
    BY DEF ContextInv, Given!TypeOK
  <2>3. PICK n \in Nat : n = Len(all) /\ n <= MaxItems
    BY DEF ContextInv, Given!TypeOK
  <2>4. /\ MaxItems \in Nat /\ DigestChars \in Nat /\ HistoryChars \in Int
        /\ Recent \in Nat
    BY ContextAssumption
  <2>5. PICK t \in Nat, d \in Nat \ {0}, f \in Nat :
          /\ l = [titles |-> t, digest |-> d, full |-> f] /\ t + f <= n
          /\ t = l.titles /\ d = l.digest /\ f = l.full /\ d <= DigestChars
    BY <1>1, <2>2, <2>3, <2>4 DEF ContextInv, Layered, Given!Layers
  <2>6. ASSUME NEW a \in Nat, NEW b \in Nat \ {0}, NEW c \in Nat,
               a + c <= n, b <= DigestChars,
               layers' = [titles |-> a, digest |-> b, full |-> c],
               c = f \/ (c = f - 1 /\ a = n - f /\ d = 1 /\ t = n - f)
        PROVE  ContextInv'
    <3>1. a \in 0..MaxItems /\ b \in 1..DigestChars /\ c \in 0..MaxItems
      BY <2>3, <2>4, <2>6
    <3>2. layers' \in Given!Layers
      BY <2>6, <3>1 DEF Given!Layers
    <3>3. Given!TypeOK' /\ Len(all') <= MaxItems
      BY <2>1, <3>2 DEF ContextInv, Given!TypeOK, Given!Layers
    <3>4. Budgeted' /\ Linking'
      BY <1>1, <2>1 DEF ContextInv, Budgeted, Linking
    <3>5. c < Given!Least(Recent, n) =>
            \A x : x = [titles |-> n - c - 1, digest |-> 1, full |-> c + 1]
                   => Given!Chars(x) > HistoryChars
      <4>1. CASE c = f
        BY <1>1, <2>2, <2>3, <2>5, <4>1 DEF ContextInv, Layered, Unspared
      <4>2. CASE c = f - 1 /\ a = n - f /\ d = 1 /\ t = n - f
        <5>1. n - c - 1 = t /\ c + 1 = f
          BY <4>2, <2>5
        <5>2. [titles |-> n - c - 1, digest |-> 1, full |-> c + 1] = layers
          BY <2>2, <2>5, <4>2, <5>1
        <5>3. layers.digest \in Nat
          BY <2>2, <2>5
        <5>4. PICK h \in Int : h = Given!Chars(layers)
          BY <5>3, HistoryHasLength DEF ContextInv
        <5> QED
          BY <1>3, <2>4, <5>2, <5>4
      <4> QED
        BY <2>6, <4>1, <4>2
    <3>6. /\ layers'.titles = a /\ layers'.full = c
          /\ Given!Least(Recent, Len(all))' = Given!Least(Recent, n)
      BY <2>1, <2>3, <2>6 DEF Given!Least
    <3>7. \A x : Given!Chars(x)' = Given!Chars(x)
      BY <2>1, LengthStays
    <3>8. Layered'
      BY <1>1, <2>1, <2>3, <2>6, <3>5, <3>6, <3>7 DEF Layered, Unspared
    <3> QED
      BY <3>3, <3>4, <3>8 DEF ContextInv
  <2>7. CASE t < n - f
    <3>1. layers' = [titles |-> t + 1, digest |-> d, full |-> f]
      <4>1. layers.titles < Len(all) - layers.full
        BY <2>2, <2>3, <2>5, <2>7
      <4>2. layers' = [l EXCEPT !.titles = l.titles + 1]
        BY <2>1, <2>2, <4>1 DEF Given!Shorter
      <4> QED
        BY <2>5, <4>2
    <3>2. t + 1 \in Nat /\ t + 1 + f <= n
      BY <2>5, <2>7
    <3> QED
      BY <2>5, <2>6, <3>1, <3>2
  <2>8. CASE ~(t < n - f) /\ d > 1
    <3>1. PICK b \in Nat \ {0} : b = Given!Half(d) /\ b <= d
      <4>1. PICK e \in Int : e = d \div 2
        BY <2>5
      <4>2. d \in Nat \ {0} /\ e <= d
        BY <2>5, <4>1
      <4>3. Given!Half(d) = IF e > 1 THEN e ELSE 1
        BY <4>1 DEF Given!Half
      <4> QED
        BY <4>1, <4>2, <4>3
    <3>2. layers' = [titles |-> t, digest |-> b, full |-> f]
      <4>1. ~(layers.titles < Len(all) - layers.full) /\ layers.digest > 1
        BY <2>2, <2>3, <2>5, <2>8
      <4>2. layers' = [l EXCEPT !.digest = Given!Half(l.digest)]
        BY <2>1, <2>2, <4>1 DEF Given!Shorter
      <4>3. layers' = [l EXCEPT !.digest = b]
        BY <2>5, <3>1, <4>2
      <4> QED
        BY <2>5, <4>3
    <3>3. b <= DigestChars
      BY <2>4, <2>5, <3>1
    <3> QED
      BY <2>5, <2>6, <3>2, <3>3
  <2>9. CASE ~(t < n - f) /\ ~(d > 1)
    <3>1. t = n - f /\ d = 1
      BY <2>5, <2>9
    <3>2. f # 0
      BY <1>3, <2>2, <2>3, <2>5, <3>1 DEF Given!Shortest
    <3>3. layers' = [titles |-> t, digest |-> d, full |-> f - 1]
      <4>1. ~(layers.titles < Len(all) - layers.full) /\ ~(layers.digest > 1)
        BY <2>2, <2>3, <2>5, <2>9
      <4>2. layers' = [l EXCEPT !.full = l.full - 1]
        BY <2>1, <2>2, <4>1 DEF Given!Shorter
      <4> QED
        BY <2>5, <4>2
    <3>4. f - 1 \in Nat /\ t + (f - 1) <= n
      BY <2>5, <3>1, <3>2
    <3> QED
      BY <2>5, <2>6, <3>1, <3>3, <3>4
  <2> QED
    BY <2>7, <2>8, <2>9
<1> QED
  BY <1>2, <1>3

(* What there is to choose from is put in order.                           *)
LEMMA ContextGathers ==
  ASSUME ContextAssumption, ContextInv, Given!Gather PROVE ContextInv'
<1>1. /\ kind = "none" /\ taken' = taken /\ rest' = rest /\ ready' = ready
      /\ taken = << >> /\ linked' = linked /\ linked = << >> /\ rest = MaxChars /\ ~ready
  BY DEF Given!Gather, ContextInv, Budgeted
<1>2. /\ MaxItems \in Nat /\ Limit \in Nat /\ MaxChars \in Nat /\ MarkChars \in Nat
      /\ Recent \in Nat /\ DigestChars \in Nat \ {0}
  BY ContextAssumption
<1>3. PICK n \in 1..MaxItems : all' \in [1..n -> Items]
  BY DEF Given!Gather
<1>4. PICK q \in Seq(Items) : q = all' /\ Len(q) = n
  BY <1>3
<1>5. Len(all') <= MaxItems
  BY <1>2, <1>3, <1>4
<1>6. Summed(taken') + Summed(linked') + rest' = MaxChars
  <2>1. [item |-> q[1], chars |-> 0] \in Given!Taken /\ << >> \in Seq(Given!Taken)
    BY <1>3, <1>4 DEF Given!Taken
  <2>2. \A a \in Given!Taken : a.chars \in Nat
    BY DEF Given!Taken
  <2>3. Summed(<< >>) = 0
    BY <2>1, <2>2, SummedAppends
  <2> QED
    BY <1>1, <1>2, <2>3
<1>12. Linking'
  <2>1. Len(<< >>) = 0 /\ 0 <= Limit /\ 0 <= MaxLinks /\ 1..0 = {}
    BY <1>2, ContextAssumption
  <2> QED
    BY <1>1, <2>1 DEF Linking
<1>7. ASSUME NEW s \in Seq(Items), items' = s, layers' \in Given!Layers, kind' \in Given!Kinds
      PROVE  Given!TypeOK'
  BY <1>1, <1>2, <1>4, <1>7 DEF ContextInv, Given!TypeOK, Given!Kinds, Given!Layers, Given!Taken
<1>8. layers \in Given!Layers
  BY DEF ContextInv, Given!TypeOK
<1>9. CASE kind' \in {"memories", "passages"} /\ layers' = layers
  <2>1. PICK s \in Seq(Items) : items' = s /\ Falling(s)
    <3>1. Given!Best(q) \in Seq(Items) /\ Falling(Given!Best(q))
      BY BestFalls
    <3>2. items' = Given!Best(q) \/ items' = Given!AtMost(Given!Best(q), Limit)
      <4>1. PICK f : f = Given!Best(q)
        OBVIOUS
      <4> QED
        BY <1>4, <1>9 DEF Given!Gather
    <3>3. /\ Given!AtMost(Given!Best(q), Limit) \in Seq(Items)
          /\ Falling(Given!AtMost(Given!Best(q), Limit))
      <4>1. PICK f \in Seq(Items) : f = Given!Best(q) /\ Falling(f)
        BY <3>1
      <4> QED
        BY <1>2, <4>1, FirstFall
    <3> QED
      BY <3>1, <3>2, <3>3
  <2>2. Given!TypeOK'
    BY <1>7, <1>8, <1>9, <2>1 DEF Given!Kinds
  <2>3. Falling(items') /\ Leading(taken', items')
    BY <1>1, <2>1 DEF Leading
  <2> QED
    BY <1>1, <1>2, <1>5, <1>6, <1>9, <1>12, <2>2, <2>3 DEF ContextInv, Budgeted, Layered
<1>10. CASE kind' \in {"messages", "files"} /\ layers' = layers
  <2>1. PICK s \in Seq(Items) : items' = s
    BY <1>2, <1>4, <1>10, NewestAreItems DEF Given!Gather
  <2>2. Given!TypeOK'
    BY <1>7, <1>8, <1>10, <2>1 DEF Given!Kinds
  <2>3. rest' + MarkChars >= 0
    BY <1>1, <1>2
  <2>4. Budgeted'
    <3>1. kind' # "none" /\ kind' \notin {"memories", "passages"}
      BY <1>10
    <3> QED
      BY <1>6, <2>3, <3>1 DEF Budgeted
  <2>5. Layered' /\ (Len(all) <= MaxItems)'
    BY <1>1, <1>5, <1>10 DEF Layered
  <2> QED
    BY <1>12, <2>2, <2>4, <2>5 DEF ContextInv
<1>11. CASE kind' = "history"
  <2>1. PICK f \in Nat : f = Given!Least(Recent, n) /\ f <= n
    BY <1>2, <1>3, LeastIs
  <2>2. PICK t \in Nat : t = (IF n - f >= 2 THEN 1 ELSE 0) /\ t + f <= n
    <3>1. n \in Nat /\ f \in Nat /\ f <= n
      BY <1>2, <1>3, <2>1
    <3> QED
      BY ONLY <3>1
  <2>3. items' = << >> /\ layers' = [titles |-> t, digest |-> DigestChars, full |-> f]
    BY <1>4, <1>11, <2>1, <2>2 DEF Given!Gather
  <2>4. t \in 0..MaxItems /\ f \in 0..MaxItems /\ DigestChars \in 1..DigestChars
    BY <1>2, <1>3, <2>1, <2>2
  <2>5. layers' \in Given!Layers
    BY <2>3, <2>4 DEF Given!Layers
  <2>6. Given!TypeOK'
    BY <1>7, <1>11, <2>3, <2>5, << >> \in Seq(Items) DEF Given!Kinds
  <2>7. /\ layers'.titles + layers'.full <= Len(all') /\ ~ready'
        /\ ~(layers'.full < Given!Least(Recent, Len(all)'))
    BY <1>1, <1>2, <1>4, <2>1, <2>2, <2>3
  <2>8. Layered'
    BY <2>7 DEF Layered, Given!Least
  <2>9. Budgeted'
    BY <1>11 DEF Budgeted
  <2> QED
    BY <1>5, <1>12, <2>6, <2>8, <2>9 DEF ContextInv
<1> QED
  BY <1>9, <1>10, <1>11 DEF Given!Gather

(* A context keeps to its budget, has what is most relevant in it, with    *)
(* nothing in the place of that for a link, and a history forgets its      *)
(* older steps first: for any items, links and limits.                     *)
THEOREM ContextsAreBounded == StoreSpec => []ContextBounded
<1>1. StoreInit => ContextInv
  <2> SUFFICES ASSUME Given!Init PROVE ContextInv
    BY DEF StoreInit
  <2>1. /\ MaxItems \in Nat /\ DigestChars \in Nat \ {0} /\ MaxChars \in Nat
        /\ Limit \in Nat /\ MaxLinks \in Nat
    BY ContextAssumption
  <2>2. Given!TypeOK /\ Len(all) <= MaxItems
    <3>1. Given!NoLayers \in Given!Layers
      BY <2>1 DEF Given!Layers, Given!NoLayers
    <3>2. /\ << >> \in Seq(Items) /\ << >> \in Seq(Given!Taken) /\ Len(<< >>) = 0
          /\ << >> \in Seq(Given!Linked)
          /\ MaxChars \in Int /\ 0 <= MaxItems
      BY <2>1
    <3> QED
      BY <3>1, <3>2 DEF Given!Init, Given!TypeOK, Given!Kinds
  <2> QED
    BY <2>1, <2>2, Len(<< >>) = 0 DEF Given!Init, ContextInv, Budgeted, Linking, Layered
<1>2. ContextInv /\ [StoreNext]_storeVars => ContextInv'
  <2> SUFFICES ASSUME ContextInv, [StoreNext]_storeVars PROVE ContextInv'
    OBVIOUS
  <2>1. CASE Given!Next
    BY <2>1, ContextAssumption, ContextGathers, ContextAddsMemory, ContextAddsLinked,
       ContextFinishesMemories, ContextAddsMessage, ContextAddsPassage, ContextCompresses, ContextAddsFile DEF Given!Next
  <2>2. CASE UNCHANGED contextVars
    <3>1. Layered'
      <4>1. Given!Chars(layers)' = Given!Chars(layers)
        BY <2>2 DEF contextVars, Given!Chars, Given!Line, Given!Marked,
                    Given!FoldLeft, Given!MapThenFoldSet, Given!Max
      <4>2. Given!Shortest(layers)' = Given!Shortest(layers)
        BY <2>2 DEF contextVars, Given!Shortest
      <4>3. \A x : Given!Chars(x)' = Given!Chars(x)
        BY <2>2, LengthStays DEF contextVars
      <4> QED
        BY <2>2, <4>1, <4>2, <4>3 DEF contextVars, ContextInv, Layered, Unspared, Given!Least
    <3>2. Given!TypeOK' /\ Len(all') <= MaxItems
      BY <2>2 DEF contextVars, ContextInv, Given!TypeOK
    <3>3. Budgeted' /\ Linking'
      BY <2>2 DEF contextVars, ContextInv, Budgeted, Linking
    <3> QED
      BY <3>1, <3>2, <3>3 DEF ContextInv
  <2> QED
    BY <2>1, <2>2 DEF StoreNext, storeVars
<1>3. ContextInv => ContextBounded
  <2> SUFFICES ASSUME ContextInv PROVE Given!ContextBounded
    BY DEF ContextBounded
  <2>1. \A q : Given!Sum(q) = Summed(q)
    BY DEF Given!Sum, Given!FoldLeft, Given!MapThenFoldSet, Given!Max, Summed, Top
  <2>2. PICK m \in Nat, n \in Nat : m = Summed(taken) /\ n = Summed(linked)
    <3>1. \A a \in Given!Taken : a.chars \in Nat
      BY DEF Given!Taken
    <3>2. taken \in Seq(Given!Taken) /\ linked \in Seq(Given!Linked)
      BY DEF ContextInv, Given!TypeOK
    <3>3. PICK g \in [0..Len(taken) -> Nat] : Summed(taken) = g[Len(taken)]
      BY <3>1, <3>2, SummedRuns
    <3>4. Len(taken) \in 0..Len(taken)
      BY <3>2
    <3>5. Summed(linked) \in Nat
      BY <3>2, LinksHaveLength
    <3> QED
      BY <3>3, <3>4, <3>5
  <2>3. /\ MaxChars \in Int /\ MarkChars \in Int /\ rest \in Int /\ MarkChars >= 0
        /\ taken \in Seq(Given!Taken) /\ items \in Seq(Items)
        /\ linked \in Seq(Given!Linked)
    BY ContextAssumption DEF ContextInv, Given!TypeOK
  <2>6. Given!Sum(taken) = m /\ Given!Sum(linked) = n
    BY <2>1, <2>2
  <2>4. kind \in {"memories", "passages", "files"} =>
          Given!Sum(taken) + Given!Sum(linked)
            <= MaxChars + IF kind = "files" THEN MarkChars ELSE 0
    <3>1. kind = "files" => m + n + rest = MaxChars /\ rest + MarkChars >= 0
      BY <2>2 DEF ContextInv, Budgeted
    <3>2. kind \in {"memories", "passages"} => m + n + rest = MaxChars /\ rest >= 0
      BY <2>2 DEF ContextInv, Budgeted
    <3> QED
      BY <2>2, <2>3, <2>6, <3>1, <3>2
  <2>5. kind \in {"memories", "passages"} =>
          /\ \A k \in DOMAIN taken :
               /\ Given!Eligible(taken[k].item)
               /\ \A j \in DOMAIN items : items[j].score <= taken[k].item.score
          /\ ready /\ items # << >> =>
               Len(taken) = Limit \/ Given!Sum(taken) + Given!Sum(linked) = MaxChars
    <3> SUFFICES ASSUME kind \in {"memories", "passages"}
                 PROVE  /\ \A k \in DOMAIN taken :
                             /\ Given!Eligible(taken[k].item)
                             /\ \A j \in DOMAIN items : items[j].score <= taken[k].item.score
                        /\ ready /\ items # << >> => Len(taken) = Limit \/ m + n = MaxChars
      BY <2>6
    <3>1. DOMAIN taken = 1..Len(taken) /\ DOMAIN items = 1..Len(items)
      BY <2>3
    <3>2. Leading(taken, items) /\ m + n + rest = MaxChars
      BY <2>2 DEF ContextInv, Budgeted
    <3>3. ready /\ items # << >> => Len(taken) = Limit \/ rest = 0
      BY DEF ContextInv, Budgeted
    <3>4. rest = 0 => m + n = MaxChars
      BY <2>2, <2>3, <3>2
    <3> QED
      BY <3>1, <3>2, <3>3, <3>4 DEF Leading
  <2>7. /\ kind = "memories" => Len(taken) <= Limit /\ Len(linked) <= MaxLinks
        /\ linked # << >> => kind = "memories" /\ (items = << >> \/ Len(taken) = Limit)
        /\ \A l \in DOMAIN linked : linked[l].by \in DOMAIN taken
    <3>1. DOMAIN taken = 1..Len(taken) /\ DOMAIN linked = 1..Len(linked)
      BY <2>3
    <3> QED
      BY <3>1 DEF ContextInv, Linking
  <2> QED
    BY <2>4, <2>5, <2>7 DEF ContextInv, Layered, Unspared, Given!ContextBounded
<1> QED
  BY <1>1, <1>2, <1>3, PTL DEF StoreSpec
=============================================================================
