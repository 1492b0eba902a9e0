------------------------------ MODULE Verdicts ------------------------------
(***************************************************************************)
(* How the three stages of the acceptance chain come to a verdict, which   *)
(* AgentMachine leaves open: the acceptance command by its exit code, the  *)
(* audit of scope by the diff of the workspace, by rules and by a model,   *)
(* and the review of coverage by a model.  Commands, git and the model may *)
(* fail, and the model may answer anything.                                *)
(***************************************************************************)
EXTENDS Naturals, FiniteSets

CONSTANTS
  Paths,   \* files of the workspace
  None

VARIABLES
  case,     \* what is judged: a stage and all it looks at; None before
  verdict,  \* the result, or None
  noted     \* the result in the audit event, None before or without one

vars == <<case, verdict, noted>>

-----------------------------------------------------------------------------
(* A command that cannot be run, or is not done in time, has no exit code; *)
(* `codes' are those the plan declares as success.                         *)
Codes == {0, 1, 2}
GateCases == [stage : {"gate"}, code : Codes \cup {None}, codes : (SUBSET Codes) \ {{}}]

(* A change in the workspace: its path, the path it was moved from, the    *)
(* number of lines, and whether git tracks the file.                       *)
Change == [path : Paths, from : Paths \cup {None}, large : BOOLEAN, tracked : BOOLEAN]

(* What the model says of the scope: whether the changes are in scope, and *)
(* the paths that are not; None if the call fails or is no such object.    *)
Opinions == [inScope : BOOLEAN, paths : SUBSET Paths] \cup {None}

(* The globs of a plan stand for the paths they match.                     *)
ScopeCases ==
  [stage : {"scope"},
   work : {w \in SUBSET Change : Cardinality(w) <= 1}
            \cup {{[path |-> p, from |-> None, large |-> l, tracked |-> TRUE] : p \in Paths} :
                  l \in BOOLEAN},
   git : {"works", "no numstat", "fails"},
   declared : BOOLEAN, allowed : (SUBSET Paths) \ {{}}, forbidden : SUBSET Paths,
   review : BOOLEAN, opinion : Opinions]

(* Gaps as the model grades them; `odd' stands for a grade there is not.   *)
(* The model also says whether coverage is adequate.                       *)
Grades == {"high", "medium", "low", "odd"}
Gap == [grade : Grades, named : BOOLEAN]
Reviews == [adequate : BOOLEAN, gaps : {g \in SUBSET Gap : Cardinality(g) <= 3}] \cup {None}
CoverageCases ==
  [stage : {"coverage"}, enabled : BOOLEAN, configured : BOOLEAN, enforce : BOOLEAN,
   answer : Reviews]

Cases == GateCases \cup ScopeCases \cup CoverageCases

Verdict == [ok : BOOLEAN, by : {"exit code", "rules", "rules+llm", "llm", "skipped"}]

TypeOK ==
  /\ case = None \/ case \in Cases
  /\ verdict \in Verdict \cup {None}
  /\ noted \in Verdict \cup {None}

Init == case = None /\ verdict = None /\ noted = None

-----------------------------------------------------------------------------
(* AcceptanceGate.verify.                                                  *)
Verify(c) == [ok |-> c.code # None /\ c.code \in c.codes, by |-> "exit code"]

(* GitDiffProvider.diff and collect_changes: what git does not track is    *)
(* not in the diff, and without its numstat part nothing is read.          *)
Collected(c) ==
  IF c.git = "works" THEN {w \in c.work : w.tracked} ELSE {}

(* ScopePolicy.check: a file that was moved counts at its new path.        *)
Violations(c) ==
  {w.path : w \in {v \in Collected(c) : v.path \in c.forbidden \/ v.path \notin c.allowed}}

(* The model is asked when the plan says so, and about changes within the  *)
(* rules that are very large.                                              *)
NeedsReview(c) ==
  c.review \/ \E w \in Collected(c) : w.large /\ w.path \notin Violations(c)

(* It can add to the violations; whether it finds the whole in scope does  *)
(* not count, nor does a path it has not named.                            *)
MergedTrusting(c) == IF c.opinion.inScope THEN {} ELSE Violations(c) \cup c.opinion.paths

Merged(c) == Violations(c) \cup c.opinion.paths

Audit(c) ==
  IF ~c.declared THEN [ok |-> TRUE, by |-> "rules"]
  ELSE IF NeedsReview(c) /\ c.opinion # None
       THEN [ok |-> Merged(c) = {}, by |-> "rules+llm"]
       ELSE [ok |-> Violations(c) = {}, by |-> "rules"]

(* parse_review: a gap without a name is dropped, an odd grade is medium.  *)
Grade(g) == IF g.grade = "odd" THEN "medium" ELSE g.grade
Graded(c) == {Grade(g) : g \in {h \in c.answer.gaps : h.named}}

(* CoverageReviewService.review: only a model that answers can find        *)
(* coverage inadequate, and only a plan that insists makes it count.       *)
Review(c) ==
  IF c.enabled /\ c.configured /\ c.answer # None
  THEN [ok |-> "high" \notin Graded(c), by |-> "llm"]
  ELSE [ok |-> TRUE, by |-> "skipped"]

Retries(c) == c.enforce /\ ~Review(c).ok

-----------------------------------------------------------------------------
(* A run is at one of its stages.                                          *)
Stage ==
  /\ case = None
  /\ case' \in Cases
  /\ UNCHANGED <<verdict, noted>>

Judge ==
  /\ case # None /\ verdict = None
  /\ verdict' = CASE case.stage = "gate" -> Verify(case)
                  [] case.stage = "scope" -> Audit(case)
                  [] case.stage = "coverage" -> Review(case)
  /\ UNCHANGED <<case, noted>>

(* _write_scope_event, _write_finished_event, run_gate.                    *)
Note ==
  /\ verdict # None /\ noted = None
  /\ noted' = verdict
  /\ UNCHANGED <<case, verdict>>

Next == Stage \/ Judge \/ Note

Spec == Init /\ [][Next]_vars

-----------------------------------------------------------------------------
(* What the model says never lets pass what the rules refuse, nor what it  *)
(* has itself found missing; when it fails, the rules alone decide; no     *)
(* stage refuses without a reason of its own.  An audit that passes has    *)
(* every tracked change where the plan allows it, if git has told.         *)
InBounds(c) == \A w \in c.work : w.tracked => w.path \in c.allowed \ c.forbidden

VerdictsSound ==
  verdict # None =>
    LET c == case IN
    /\ c.stage = "gate" => (verdict.ok <=> c.code \in c.codes)
    /\ c.stage = "scope" /\ c.declared /\ c.git = "works" =>
         /\ verdict.ok => InBounds(c)
         /\ ~verdict.ok => ~InBounds(c) \/ (c.opinion # None /\ c.opinion.paths # {})
         /\ c.opinion = None => (verdict.ok <=> InBounds(c))
    /\ c.stage = "coverage" =>
         (Retries(c) <=> /\ c.enabled /\ c.configured /\ c.enforce /\ c.answer # None
                         /\ \E g \in c.answer.gaps : g.grade = "high" /\ g.named)
=============================================================================
