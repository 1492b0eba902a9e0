---------------------------- MODULE EdgeServices ----------------------------
(***************************************************************************)
(* The services at the edges of the system: the web page and what it       *)
(* shows, the files of the sessions, the sandbox with its browser and its  *)
(* shells, and the documents that are split, and found again by questions. *)
(* They share neither state nor a lock.                                    *)
(*                                                                         *)
(* The parameters of each component are described in its module.           *)
(***************************************************************************)
EXTENDS Service, Integers, Sequences, FiniteSets

CONSTANTS
  Pages, Streams,                                        \* Workbench
  Plans, CardTexts, MaxRuns, MaxEvents,                  \* Cards
  Uploads, Homes, NameOf,                                \* Files
  Browsers, Urls,                                        \* Browser
  Shells, MaxLines, LineLimit,                           \* Shell
  MaxLength, Sizes, Overlaps,                            \* Chunking
  Chunks, Similar, Overlap, Length, Passage,             \* Retrieval
  MaxVariants, MarkedChunks, TopK, MinScore, BlockChars, Slack

VARIABLES
  selected, shown, live, sending, loads, asked,
  stream, active, moved,                           \* Workbench
  events, running,                                 \* Cards
  owner, syncable, disk, records, sessions, op,
  sandbox, synced, unsure, left,                   \* Files
  runtime, browsers, page, visit, mishap,          \* Browser
  process, shell, awaits, reply,                   \* Shell
  text, config, chunks,                            \* Chunking
  pending, lists, best, scored, usable, found,
  phase                                            \* Retrieval

pageVars == <<selected, shown, live, sending, loads, asked, stream, active, moved>>
cardVars == <<events, running>>
fileVars == <<owner, syncable, disk, records, sessions, op, sandbox, synced, unsure,
              left>>
browserVars == <<runtime, browsers, page, visit, mishap>>
shellVars == <<process, shell, awaits, reply>>
chunkVars == <<text, config, chunks>>
queryVars == <<pending, lists, best, scored, usable, found, phase>>

edgeVars == <<part, pageVars, cardVars, fileVars, browserVars, shellVars,
              chunkVars, queryVars>>

Web == INSTANCE Workbench WITH Sessions <- Pages

Card == INSTANCE Cards WITH Texts <- CardTexts, log <- events, runs <- running

File == INSTANCE Files WITH Sessions <- Homes, live <- sessions

Chromium == INSTANCE Browser WITH process <- browsers, req <- visit

Terminal == INSTANCE Shell WITH
  Sessions <- Shells, Limit <- LineLimit,
  session <- shell, asked <- awaits, answer <- reply

Chunk == INSTANCE Chunking

Query == INSTANCE Retrieval WITH
  MaxChars <- BlockChars, Marked <- MarkedChunks,
  left <- pending, result <- found

-----------------------------------------------------------------------------
(* What the proofs ask of the parameters; `None' is not a value of any of  *)
(* the things it is the absence of.                                        *)
ASSUME EdgeAssumption ==
  /\ None \notin Pages \cup Streams \cup Plans \cup Browsers
  /\ None \notin [session : Pages, phase : Web!Phases, aborted : BOOLEAN]
  /\ "new" \notin Homes \cup {None}
  /\ MaxLines \in Nat /\ LineLimit \in Nat \ {0} /\ "none" \notin Shells

(* Scores and words in common are shares of a whole, and a place in a list *)
(* of chunks leaves something of a million.                                *)
ASSUME QueryAssumption ==
  /\ IsFiniteSet(Chunks) /\ Cardinality(Chunks) <= Query!Parts - 60
  /\ Similar \subseteq 0..100 /\ Overlap \in [Chunks -> 0..100]
  /\ Length \in [Chunks -> Nat] /\ Passage \in [Chunks -> Nat]
  /\ {TopK, MarkedChunks, BlockChars, Slack} \subseteq Nat /\ MinScore \in Int

(* A chunk has a size, and overlaps the one before by less than that: what *)
(* split_text refuses otherwise.                                           *)
ASSUME ChunkAssumption ==
  Sizes \subseteq Nat \ {0} /\ Overlaps \subseteq Nat /\ Chunk!Configs # {}

-----------------------------------------------------------------------------
EdgeInit ==
  /\ Web!Init /\ Card!Init /\ File!Init /\ Chromium!Init /\ Terminal!Init
  /\ Chunk!Init /\ Query!Init

EdgeNext ==
  /\ UNCHANGED part
  /\ IF part = "page" THEN Web!Next ELSE UNCHANGED pageVars
  /\ IF part = "cards" THEN Card!Next ELSE UNCHANGED cardVars
  /\ IF part = "files" THEN File!Next ELSE UNCHANGED fileVars
  /\ IF part = "browser" THEN Chromium!Next ELSE UNCHANGED browserVars
  /\ IF part = "shell" THEN Terminal!Next ELSE UNCHANGED shellVars
  /\ IF part = "chunk" THEN Chunk!Next ELSE UNCHANGED chunkVars
  /\ IF part = "query" THEN Query!Next ELSE UNCHANGED queryVars

EdgeSpec == EdgeInit /\ [][EdgeNext]_edgeVars

-----------------------------------------------------------------------------
(* What a component at an edge keeps has the type its module gives it.     *)
EdgeTypes ==
  /\ part = "page" => Web!TypeOK
  /\ part = "cards" => Card!TypeOK
  /\ part = "files" => File!TypeOK
  /\ part = "browser" => Chromium!TypeOK
  /\ part = "shell" => Terminal!TypeOK
  /\ part = "chunk" => Chunk!TypeOK
  /\ part = "query" => Query!TypeOK

(* The page shows the selected session only, and a card tells how the last *)
(* run of its plan ended (session-store.ts, view-model.ts).                *)
PageIsCoherent ==
  /\ part = "page" => Web!PageIsCoherent
  /\ part = "cards" => Card!CardsTellTheRun

(* What has a record has its content, and a content without a record is    *)
(* accounted for; what is copied into the sandbox are the texts            *)
(* (file_service.py, session_file_sync_service.py).                        *)
FilesKept == part = "files" => File!FilesKept

(* No request is given a browser that somebody has begun to close          *)
(* (browser_service.py).                                                   *)
BrowserSound == part = "browser" => Chromium!BrowserSound

(* What a client was told of the end of a command stays true, and the      *)
(* output holds the last lines collected (shell_service.py).               *)
ShellSound == part = "shell" => Terminal!ShellSound

(* What the services of a sandbox hand out is alive, and what they report  *)
(* of it is true.                                                          *)
SandboxSound == BrowserSound /\ ShellSound

(* The pieces of a text keep to their size, and a text in which no white   *)
(* space follows the end of a sentence loses no letter (chunking.py).      *)
ChunksFaithful == part = "chunk" => Chunk!ChunksFaithful

(* The context of a question is bounded, in order, without repetition, and *)
(* misses nothing that scores enough unless it is full (rag_service.py).   *)
RetrievalSound == part = "query" => Query!RetrievalSound
=============================================================================
