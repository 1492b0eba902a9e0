------------------------------- MODULE Files --------------------------------
(***************************************************************************)
(* The files of the sessions: FileService keeps the content of an upload   *)
(* in the storage and its record in the database, SessionFileSyncService   *)
(* copies the attachments of a session into the sandbox before a run, and  *)
(* the tools of the agent change what is there.  Requests overlap between  *)
(* their awaits; storage, database and sandbox may fail, the answer to a   *)
(* commit may be lost, and the process may crash.                          *)
(***************************************************************************)
EXTENDS Naturals, Sequences, SequencesExt, PyLists

CONSTANTS
  Uploads,   \* contents that are uploaded, each once
  Sessions,
  Clients,   \* requests that may be under way at the same time
  NameOf,    \* of each upload: the name it is attached under
  None

VARIABLES
  owner,     \* of each upload: its session, None without one, "new" before
  syncable,  \* uploads of a text, by their content type or suffix
  disk,      \* uploads whose content is stored
  records,   \* uploads with a record, the oldest first
  live,      \* sessions that are not deleted
  op,        \* of each client: the request it executes
  sandbox,   \* of each name: the upload whose content is there, or None
  synced,    \* the attachments the last synchronisation copied, until the
             \* sandbox changes otherwise
  unsure,    \* uploads that were recorded by a commit that seemed to fail
  left       \* uploads whose content may remain for good: the request was
             \* interrupted, or the storage failed to write or to delete it

vars == <<owner, syncable, disk, records, live, op, sandbox, synced, unsure, left>>

Names == {NameOf[f] : f \in Uploads}
Recorded == ToSet(records)
Idle == [at |-> "idle"]

TypeOK ==
  /\ owner \in [Uploads -> Sessions \cup {None, "new"}]
  /\ {disk, syncable, unsure, left} \subseteq SUBSET Uploads
  /\ Recorded \subseteq Uploads /\ IsInjective(records)
  /\ live \subseteq Sessions
  /\ \A c \in Clients :
       \/ op[c] = Idle
       \/ op[c].at \in {"commit", "erase", "unlink"} /\ op[c].file \in Uploads
       \/ op[c].at = "copy" /\ ToSet(op[c].listed) \subseteq Uploads
  /\ sandbox \in [Names -> Uploads \cup {None}]
  /\ ToSet(synced) \subseteq Uploads

Init ==
  /\ owner = [f \in Uploads |-> "new"]
  /\ disk = {} /\ syncable = {} /\ records = <<>> /\ unsure = {} /\ left = {}
  /\ live = Sessions
  /\ op = [c \in Clients |-> Idle]
  /\ sandbox = [n \in Names |-> None]
  /\ synced = <<>>

Goes(c, at, f) == op' = [op EXCEPT ![c] = [at |-> at, file |-> f]]
Ends(c) == op' = [op EXCEPT ![c] = Idle]
Kept == UNCHANGED <<live, syncable, sandbox, synced>>

-----------------------------------------------------------------------------
(* save_upload and save_session_upload: the content is written, then the   *)
(* record is added and committed; a session that does not exist is refused *)
(* before.  A write that fails halfway is not cleaned up.                  *)
Write(c, f, s) ==
  /\ op[c] = Idle /\ owner[f] = "new"
  /\ s \in live \cup {None}
  /\ owner' = [owner EXCEPT ![f] = s]
  /\ syncable' \in {syncable, syncable \cup {f}}
  /\ disk' = disk \cup {f}
  /\ \/ Goes(c, "commit", f) /\ UNCHANGED left
     \/ left' = left \cup {f} /\ UNCHANGED op
  /\ UNCHANGED <<records, live, sandbox, synced, unsure>>

(* The commit succeeds, fails, or succeeds while its answer is lost; on an *)
(* exception the content is deleted again, which may fail as well: then it *)
(* stays, with a record if the commit succeeded.                           *)
Record(c) ==
  /\ op[c].at = "commit"
  /\ LET f == op[c].file IN
     \/ records' = Append(records, f) /\ UNCHANGED <<disk, unsure, left>>
     \/ disk' = disk \ {f} /\ UNCHANGED <<records, unsure, left>>
     \/ left' = left \cup {f} /\ UNCHANGED <<disk, records, unsure>>
     \/ /\ records' = Append(records, f) /\ disk' = disk \ {f}
        /\ unsure' = unsure \cup {f} /\ UNCHANGED left
  /\ Ends(c)
  /\ UNCHANGED owner /\ Kept

(* delete_session_file: the session must exist and own the file; the       *)
(* record goes first, and the content after the commit.  A second request  *)
(* for the file may have read the record before.                           *)
Delete(c, f) ==
  /\ op[c] = Idle
  /\ f \in Recorded /\ owner[f] \in live
  /\ Goes(c, "erase", f)
  /\ UNCHANGED <<owner, disk, records, unsure, left>> /\ Kept

Without(f) == Filtered(records, Uploads \ {f})

EraseUnlinked(c) ==
  /\ op[c].at = "erase"
  /\ LET f == op[c].file IN
     /\ disk' = disk \ {f}
     /\ \/ records' = Without(f) /\ Ends(c) /\ UNCHANGED left
        \/ UNCHANGED <<records, left>> /\ Ends(c)
  /\ UNCHANGED <<owner, unsure>> /\ Kept

Erase(c) ==
  /\ op[c].at = "erase"
  /\ LET f == op[c].file IN
     \/ records' = Without(f) /\ Goes(c, "unlink", f) /\ UNCHANGED left
     \/ UNCHANGED <<records, left>> /\ Ends(c)
     \/ records' = Without(f) /\ Ends(c) /\ left' = left \cup {f}
  /\ UNCHANGED <<owner, disk, unsure>> /\ Kept

(* The storage may fail to delete the content; nobody tries again.         *)
Unlink(c) ==
  /\ op[c].at = "unlink"
  /\ \/ disk' = disk \ {op[c].file} /\ UNCHANGED left
     \/ left' = left \cup {op[c].file} /\ UNCHANGED disk
  /\ Ends(c)
  /\ UNCHANGED <<owner, records, unsure>> /\ Kept

(* SessionService.delete_session marks the session; its files stay.        *)
DeleteSession(s) ==
  /\ s \in live
  /\ live' = live \ {s}
  /\ UNCHANGED <<owner, syncable, disk, records, op, sandbox, synced, unsure, left>>

-----------------------------------------------------------------------------
(* sync, at the start of a run: the attachments are listed, the newest     *)
(* first,                                                                  *)
Attached(s) == Reverse(Filtered(records, {f \in Uploads : owner[f] = s}))

List(c, s) ==
  /\ op[c] = Idle /\ s \in live
  /\ op' = [op EXCEPT ![c] = [at |-> "copy", listed |-> Attached(s)]]
  /\ UNCHANGED <<owner, disk, records, unsure, left>> /\ Kept

(* then those of a text (is_syncable: by content type or suffix) are read, *)
(* up to a size, and written one by one, without an await: to their names, *)
(* which the sessions share.  A content that cannot be read or written     *)
(* ends the run; nothing is undone.                                        *)
Copied(texts) ==
  LET box[n \in 0..Len(texts)] ==
        IF n = 0 THEN sandbox
        ELSE [box[n - 1] EXCEPT ![NameOf[texts[n]]] = texts[n]]
  IN  box[Len(texts)]

Copy(c) ==
  /\ op[c].at = "copy"
  /\ LET texts == Filtered(op[c].listed, syncable) IN
     \E n \in 0 .. Len(texts) :
       /\ \A i \in 1 .. n : texts[i] \in disk
       /\ sandbox' = Copied(SubSeq(texts, 1, n))
       /\ synced' = IF n = Len(texts) THEN texts ELSE <<>>
  /\ Ends(c)
  /\ UNCHANGED <<owner, syncable, disk, records, live, unsure, left>>

(* The tools write, replace, upload and delete in the sandbox.             *)
ToolChanges(n) ==
  /\ sandbox[n] # None
  /\ sandbox' = [sandbox EXCEPT ![n] = None]
  /\ synced' = <<>>
  /\ UNCHANGED <<owner, syncable, disk, records, live, op, unsure, left>>

(* The process ends: requests are not finished, contents remain.           *)
Crash ==
  /\ \E c \in Clients : op[c] # Idle
  /\ left' = left \cup {op[c].file : c \in {d \in Clients : op[d].at \in {"commit", "unlink"}}}
  /\ op' = [c \in Clients |-> Idle]
  /\ UNCHANGED <<owner, syncable, disk, records, live, sandbox, synced, unsure>>

Next ==
  \/ \E c \in Clients :
       \/ \E f \in Uploads :
            \/ \E s \in Sessions \cup {None} : Write(c, f, s)
            \/ Delete(c, f)
       \/ Record(c) \/ Erase(c) \/ Unlink(c)
       \/ \E s \in Sessions : List(c, s)
       \/ Copy(c)
  \/ \E s \in Sessions : DeleteSession(s)
  \/ \E n \in Names : ToolChanges(n)
  \/ Crash

Spec == Init /\ [][Next]_vars

-----------------------------------------------------------------------------
(* get_download_path, preview_file: a record whose content is there.       *)
Downloadable(f) == f \in Recorded /\ f \in disk

(* However requests overlap or are interrupted: a file that is listed can  *)
(* be downloaded and copied, unless the answer to the commit of its upload *)
(* was lost; a content without a record belongs to a request under way, or *)
(* to one that was interrupted or whose storage failed; and of several     *)
(* attachments of one name a synchronisation leaves the oldest one of a    *)
(* text in the sandbox.                                                    *)
FilesKept ==
  /\ \A f \in Recorded : Downloadable(f) \/ f \in unsure
  /\ \A f \in disk \ Recorded :
       f \in left \/ \E c \in Clients :
                        op[c].at \in {"commit", "unlink"} /\ op[c].file = f
  /\ ToSet(synced) \subseteq syncable
  /\ \A i \in DOMAIN synced :
       (\A j \in DOMAIN synced : NameOf[synced[j]] = NameOf[synced[i]] => j <= i)
         => sandbox[NameOf[synced[i]]] = synced[i]
=============================================================================
