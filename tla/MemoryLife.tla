----------------------------- MODULE MemoryLife -----------------------------
(***************************************************************************)
(* The lifecycle pass over the long-term memories (run_lifecycle, every    *)
(* memory_lifecycle_interval_seconds): confidence decays with the days     *)
(* since the last hit of a retrieval, and a suggested memory that has      *)
(* proved useful is promoted.  Every process of the API runs a pass.       *)
(*                                                                         *)
(* A pass works on the memories as it has read them; it writes only        *)
(* confidence and authority, and retrievals go on meanwhile.  What makes a *)
(* memory retrievable is module MemoryStore.                               *)
(***************************************************************************)
EXTENDS Naturals

CONSTANTS
  Notes,      \* memories
  Passes,     \* processes
  Pace,       \* of each memory: how fast its kind is forgotten
  MaxConf,    \* confidence 1.0 in steps
  Confs,      \* what memories are stored with
  MinHits,    \* memory_consolidation_min_accesses
  Promoted,   \* memory_consolidation_confidence
  Floor,      \* memory_decay_floor
  MaxDays     \* bound: days since the last hit

VARIABLES
  note,    \* agent_memories
  start,   \* the confidence each memory was stored with
  hits,    \* the retrievals that hit each memory, counted up to MinHits
  pass     \* of each process: what its pass has read and what is left of it

vars == <<note, start, hits, pass>>

Authority == {"suggested", "verified", "other"}
Row == [conf : 0..MaxConf, count : 0..MinHits, days : 0..MaxDays,
        proven : BOOLEAN, authority : Authority]
Sleeping == [at |-> "asleep", read |-> <<>>, left |-> {}]
Pass == [at : {"decay", "promote"}, read : [Notes -> Row], left : SUBSET Notes]

LesserOf(a, b) == IF a < b THEN a ELSE b
GreaterOf(a, b) == IF a > b THEN a ELSE b

TypeOK ==
  /\ note \in [Notes -> Row] /\ start \in [Notes -> 0..MaxConf]
  /\ hits \in [Notes -> 0..MinHits]
  /\ pass \in [Passes -> Pass \cup {Sleeping}]

Init ==
  /\ note = [m \in Notes |-> [conf |-> 0, count |-> 0, days |-> 0,
                              proven |-> FALSE, authority |-> "other"]]
  /\ start = [m \in Notes |-> 0] /\ hits = [m \in Notes |-> 0]
  /\ pass = [p \in Passes |-> Sleeping]

-----------------------------------------------------------------------------
(* create_memory gives a memory its confidence and authority.              *)
Remember(m, conf, authority) ==
  /\ note[m].conf = 0 /\ note[m].authority = "other"
  /\ \A p \in Passes : pass[p] = Sleeping
  /\ note' = [note EXCEPT ![m].conf = conf, ![m].authority = authority]
  /\ start' = [start EXCEPT ![m] = conf]
  /\ UNCHANGED <<hits, pass>>

(* status verified with a provenance, and back: a later memory wins.       *)
Prove(m, proven) ==
  /\ note' = [note EXCEPT ![m].proven = proven]
  /\ UNCHANGED <<start, hits, pass>>

(* touch_access: the count is read and written back, so of two retrievals  *)
(* at the same time one may not be counted.                                *)
Hit(m, counted) ==
  /\ note[m].proven
  /\ note' = [note EXCEPT ![m].days = 0,
                          ![m].count = IF counted THEN LesserOf(MinHits, @ + 1) ELSE @]
  /\ hits' = [hits EXCEPT ![m] = LesserOf(MinHits, @ + 1)]
  /\ UNCHANGED <<start, pass>>

Day ==
  /\ note' = [m \in Notes |-> [note[m] EXCEPT !.days = LesserOf(MaxDays, @ + 1)]]
  /\ UNCHANGED <<start, hits, pass>>

-----------------------------------------------------------------------------
(* list_for_lifecycle *)
Scan(p) ==
  /\ pass[p] = Sleeping
  /\ pass' = [pass EXCEPT ![p] = [at |-> "decay", read |-> note, left |-> Notes]]
  /\ UNCHANGED <<note, start, hits>>

(* decay_confidence: what is left of a confidence after the days without a *)
(* hit, all of it on the day of a hit.                                     *)
Decayed(m, row) == row.conf \div (1 + Pace[m] * row.days)

(* apply_decay: a memory that loses at least one step (memory_decay_min_   *)
(* drop) is written, never below the floor; all of them in one commit.     *)
FadeBelowFloor(m, row) == Decayed(m, row)

Fade(m, row) == GreaterOf(Decayed(m, row), Floor)

ApplyDecay(p) ==
  /\ pass[p].at = "decay"
  /\ LET read == pass[p].read IN
     note' = [m \in Notes |-> IF Fade(m, read[m]) < read[m].conf
                              THEN [note[m] EXCEPT !.conf = Fade(m, read[m])]
                              ELSE note[m]]
  /\ pass' = [pass EXCEPT ![p].at = "promote"]
  /\ UNCHANGED <<start, hits>>

(* is_consolidation_eligible *)
EligibleUnused(row) == row.proven /\ row.authority = "suggested"

Eligible(row) == row.count >= MinHits /\ row.proven /\ row.authority = "suggested"

(* consolidate, for each memory with a commit of its own: the greater of   *)
(* the promised confidence and the one that was read, before it decayed.   *)
Consolidate(p, m) ==
  /\ pass[p].at = "promote" /\ m \in pass[p].left
  /\ LET row == pass[p].read[m] IN
     note' = IF Eligible(row)
             THEN [note EXCEPT ![m].authority = "verified",
                               ![m].conf = GreaterOf(row.conf, Promoted)]
             ELSE note
  /\ pass' = [pass EXCEPT ![p] = IF @.left = {m} THEN Sleeping
                                 ELSE [@ EXCEPT !.left = pass[p].left \ {m}]]
  /\ UNCHANGED <<start, hits>>

(* _memory_lifecycle_loop: an error ends the pass, what it has committed   *)
(* stays; so does the end of the process.                                  *)
GiveUp(p) ==
  /\ pass[p] # Sleeping
  /\ pass' = [pass EXCEPT ![p] = Sleeping]
  /\ UNCHANGED <<note, start, hits>>

Next ==
  \/ \E m \in Notes :
       \/ \E conf \in Confs, authority \in {"suggested", "other"} :
            Remember(m, conf, authority)
       \/ \E b \in BOOLEAN : Prove(m, b) \/ Hit(m, b)
  \/ Day
  \/ \E p \in Passes :
       \/ Scan(p) \/ ApplyDecay(p) \/ GiveUp(p)
       \/ \E m \in Notes : Consolidate(p, m)

Spec == Init /\ [][Next]_vars

-----------------------------------------------------------------------------
(* Whatever passes overlap, a memory is promoted only after as many hits   *)
(* as the setting asks for, each of which it was verified for; one that is *)
(* not promoted never gains confidence; and forgetting never takes a       *)
(* memory below the floor, nor raises one that was stored below it.        *)
ForgettingBounded ==
  \A m \in Notes :
    /\ note[m].authority = "verified" => hits[m] >= MinHits
    /\ note[m].authority # "verified" => note[m].conf <= start[m]
    /\ note[m].conf >= LesserOf(start[m], Floor)
=============================================================================
