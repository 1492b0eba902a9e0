------------------------------ MODULE Knowledge ------------------------------
(***************************************************************************)
(* A knowledge base and its documents (RagService): a document is split    *)
(* into chunks, whose rows are in the database and whose vectors are in    *)
(* the same database (pgvector, sql) or in a service of its own (qdrant).  *)
(* It is ingested, rebuilt and deleted by requests that may overlap; the   *)
(* embedding model, the vector store and the database may fail, a failed   *)
(* call may have had its effect, and the process may crash.                *)
(*                                                                         *)
(* The documents are those of one content, of which there is one at a      *)
(* time; documents of different content do not meet.                       *)
(***************************************************************************)
EXTENDS Naturals, FiniteSets

CONSTANTS
  Docs,      \* ids of documents
  Clients,   \* requests that may be under way at the same time
  Builds,    \* ids of builds, one for each set of chunks that is made
  None

VARIABLES
  external,  \* the vectors are in a service of their own
  live,      \* the knowledge base is not deleted
  status,    \* of each document: its status, or None
  rows,      \* of each document: the builds whose chunks are stored
  vectors,   \* of each document: the builds whose vectors the service holds
  op,        \* of each client: the request it executes
  spent,     \* ids that have been used, of documents and builds
  damaged    \* documents whose last request to succeed met a crash, a lost
             \* answer or another request

vars == <<external, live, status, rows, vectors, op, spent, damaged>>

Status == {"pending", "processing", "ready", "failed"}
Kinds == {"build", "rebuild", "delete"}
Steps == {"clear", "erase", "mark", "embed", "stored", "indexed", "fail"}
Op == [kind : Kinds, doc : Docs, at : Steps, build : Builds \cup {None}, alone : BOOLEAN]

TypeOK ==
  /\ external \in BOOLEAN /\ live \in BOOLEAN
  /\ status \in [Docs -> Status \cup {None}]
  /\ rows \in [Docs -> SUBSET Builds]
  /\ vectors \in [Docs -> SUBSET Builds]
  /\ op \in [Clients -> Op \cup {None}]
  /\ spent \subseteq Docs \cup Builds
  /\ damaged \subseteq Docs

Init ==
  /\ external \in BOOLEAN /\ live = TRUE
  /\ status = [d \in Docs |-> None]
  /\ rows = [d \in Docs |-> {}]
  /\ vectors = [d \in Docs |-> {}]
  /\ op = [c \in Clients |-> None]
  /\ spent = {} /\ damaged = {}

Exists(d) == status[d] # None
On(d) == {c \in Clients : op[c] # None /\ op[c].doc = d}
Indexed(d) == IF external THEN vectors[d] ELSE rows[d]

-----------------------------------------------------------------------------
(* A request begins; those already under way on the document overlap it.   *)
Begin(c, kind, d, at) ==
  op' = [o \in Clients |->
    IF o = c THEN [kind |-> kind, doc |-> d, at |-> at, build |-> None, alone |-> On(d) = {}]
    ELSE IF o \in On(d) THEN [op[o] EXCEPT !.alone = FALSE]
    ELSE op[o]]

(* What a call does to the vectors of the service; those of the database   *)
(* go and come with the rows.                                              *)
Service(d, builds) == vectors' = IF external THEN [vectors EXCEPT ![d] = builds] ELSE vectors

Goes(c, at) == op' = [op EXCEPT ![c].at = at]

(* The request is over, with an answer, an exception or a crash.           *)
Ends(c, harmed) ==
  /\ op' = [op EXCEPT ![c] = None]
  /\ damaged' = IF harmed THEN damaged \cup {op[c].doc} ELSE damaged

(* ingest_document: refused when a document of the content exists, by the  *)
(* look-up or by the unique index on the fingerprint.                      *)
Ingest(c, d) ==
  /\ live /\ op[c] = None
  /\ d \notin spent
  /\ \A o \in Docs : ~Exists(o)
  /\ Begin(c, "build", d, "mark")
  /\ status' = [status EXCEPT ![d] = "pending"]
  /\ spent' = spent \cup {d}
  /\ UNCHANGED <<external, live, rows, vectors, damaged>>

(* reingest_document and delete_document read the document; a rebuild      *)
(* needs its knowledge base as well.                                       *)
Request(c, kind, d) ==
  /\ op[c] = None
  /\ Exists(d) /\ (kind = "rebuild" => live)
  /\ Begin(c, kind, d, "clear")
  /\ UNCHANGED <<external, live, status, rows, vectors, spent, damaged>>

(* vector_store.delete_document: in the service at once, in the database   *)
(* with the transaction.  An exception ends the request.                   *)
ClearVectors(c) ==
  /\ op[c] # None /\ op[c].at = "clear"
  /\ \/ Service(op[c].doc, {}) /\ Goes(c, "erase") /\ UNCHANGED damaged
     \/ Service(op[c].doc, {}) /\ Ends(c, external)
     \/ UNCHANGED vectors /\ Ends(c, FALSE)
  /\ UNCHANGED <<external, live, status, rows, spent>>

(* A chunk that is inserted holds the row of its document.                 *)
Held(d) == \E c \in On(d) : op[c].at \in {"stored", "indexed"}

(* delete_by_document and the commit; a deletion takes the document with   *)
(* it, and waits for the transactions that hold it.                        *)
Erase(c) ==
  /\ op[c] # None /\ op[c].at = "erase"
  /\ LET d == op[c].doc IN
     /\ op[c].kind = "delete" => ~Held(d)
     /\ rows' = [rows EXCEPT ![d] = {}]
     /\ IF op[c].kind = "delete"
        THEN status' = [status EXCEPT ![d] = None] /\ Ends(c, FALSE)
        ELSE Goes(c, "mark") /\ UNCHANGED <<status, damaged>>
  /\ UNCHANGED <<external, live, vectors, spent>>

-----------------------------------------------------------------------------
(* _process_document.  set_status does nothing when the document is gone.  *)
SetStatus(d, s) == status' = IF Exists(d) THEN [status EXCEPT ![d] = s] ELSE status

Mark(c) ==
  /\ op[c] # None /\ op[c].at = "mark"
  /\ SetStatus(op[c].doc, "processing")
  /\ Goes(c, "embed")
  /\ UNCHANGED <<external, live, rows, vectors, spent, damaged>>

(* The chunks are planned and embedded, and their rows inserted.  Rows of  *)
(* another build have the same numbers, which are unique in a document:    *)
(* the insertion fails, after having waited for those that are not         *)
(* committed; so it does when the document is gone.                        *)
Accepts(d) == Exists(d) /\ rows[d] = {}

Store(c, b) ==
  /\ op[c] # None /\ op[c].at = "embed"
  /\ LET d == op[c].doc IN
     /\ b \notin spent /\ ~Held(d)
     /\ op' = [op EXCEPT ![c].at = IF Accepts(d) THEN "stored" ELSE "fail",
                         ![c].build = IF Accepts(d) THEN b ELSE None]
     /\ spent' = IF Accepts(d) THEN spent \cup {b} ELSE spent
  /\ UNCHANGED <<external, live, status, rows, vectors, damaged>>

(* vector_store.upsert.                                                    *)
Upsert(c) ==
  /\ op[c] # None /\ op[c].at = "stored"
  /\ Service(op[c].doc, vectors[op[c].doc] \cup {op[c].build})
  /\ \E at \in {"indexed", "fail"} : Goes(c, at)
  /\ UNCHANGED <<external, live, status, rows, spent, damaged>>

(* The document is marked ready in the transaction of its rows.            *)
Finish(c) ==
  /\ op[c] # None /\ op[c].at = "indexed"
  /\ LET d == op[c].doc IN
     /\ rows' = [rows EXCEPT ![d] = @ \cup {op[c].build}]
     /\ SetStatus(d, "ready")
     /\ op' = [op EXCEPT ![c] = None]
     /\ damaged' = IF op[c].alone THEN damaged \ {d} ELSE damaged \cup {d}
  /\ UNCHANGED <<external, live, vectors, spent>>

(* An exception of any of these calls,                                     *)
Raise(c) ==
  /\ op[c] # None /\ op[c].at \in {"embed", "stored", "indexed"}
  /\ Goes(c, "fail")
  /\ UNCHANGED <<external, live, status, rows, vectors, spent, damaged>>

(* after which the transaction is rolled back and the document marked.     *)
FailLeavingReady(c) ==
  /\ op[c] # None /\ op[c].at = "fail"
  /\ SetStatus(op[c].doc, "ready")
  /\ Ends(c, ~op[c].alone)
  /\ UNCHANGED <<external, live, rows, vectors, spent>>

Fail(c) ==
  /\ op[c] # None /\ op[c].at = "fail"
  /\ SetStatus(op[c].doc, "failed")
  /\ Ends(c, ~op[c].alone)
  /\ UNCHANGED <<external, live, rows, vectors, spent>>

(* The process ends, or the database fails outside the handler.            *)
Crash(c) ==
  /\ op[c] # None
  /\ Ends(c, TRUE)
  /\ UNCHANGED <<external, live, status, rows, vectors, spent>>

(* delete_knowledge_base: the vectors, then the rows and the mark; the     *)
(* documents stay, and no request reaches them but their deletion.         *)
DeleteBase ==
  /\ live
  /\ vectors' = [d \in Docs |-> {}]
  /\ \/ rows' = [d \in Docs |-> {}] /\ live' = FALSE /\ UNCHANGED damaged
     \/ external /\ damaged' = Docs /\ UNCHANGED <<rows, live>>
  /\ op' = [c \in Clients |-> IF op[c] = None THEN None ELSE [op[c] EXCEPT !.alone = FALSE]]
  /\ UNCHANGED <<external, status, spent>>

Next ==
  \/ \E c \in Clients :
       \/ \E d \in Docs :
            \/ Ingest(c, d)
            \/ \E kind \in {"rebuild", "delete"} : Request(c, kind, d)
       \/ ClearVectors(c) \/ Erase(c) \/ Mark(c)
       \/ \E b \in Builds : Store(c, b)
       \/ Upsert(c) \/ Finish(c) \/ Raise(c) \/ Fail(c) \/ Crash(c)
  \/ DeleteBase

Spec == Init /\ [][Next]_vars

-----------------------------------------------------------------------------
(* RagService.query: a vector that is found counts if its chunk has a row  *)
(* and its document is ready.                                              *)
Retrieved(d) == IF live /\ status[d] = "ready" THEN Indexed(d) \cap rows[d] ELSE {}

(* A query never answers with the chunks of two builds of a document.  A   *)
(* document that is ready is answered with all its chunks, and has left no *)
(* vector of another build behind, unless a request on it was interrupted  *)
(* or overlapped another one; whatever that has left, one rebuild that is  *)
(* not disturbed repairs it.                                               *)
ReadyIsRetrieved ==
  \A d \in Docs :
    /\ Cardinality(Retrieved(d)) <= 1
    /\ live /\ status[d] = "ready" /\ d \notin damaged /\ On(d) = {}
         => Retrieved(d) # {} /\ Indexed(d) = rows[d]
=============================================================================
