----------------------------- MODULE Workbench ------------------------------
(***************************************************************************)
(* The store behind the web page (useSessionStore): which session is       *)
(* selected, whose messages and events are on display, the requests under  *)
(* way for them and the streams of the messages that were sent.  The page  *)
(* has one thread: a request goes on only when its answer has arrived, and *)
(* may then find another session selected.                                 *)
(*                                                                         *)
(* The sessions come and go in other windows too, so an answer of the list *)
(* may hold any of them.                                                   *)
(***************************************************************************)
EXTENDS Naturals, FiniteSets

CONSTANTS
  Sessions,
  Streams,   \* identities of controllers, for the streams not yet over
  None

VARIABLES
  selected,  \* selectedSessionId
  shown,     \* sessions whose messages and events are on display
  live,      \* the session whose answer is being written out, or None
  sending,   \* sendingMessage
  loads,     \* sessions whose details are being loaded
  asked,     \* whether the list of sessions is being loaded
  stream,    \* of each controller: its stream, or None
  active,    \* activeStream
  moved      \* a refresh has selected another session while a message was
             \* being sent, and the user has not acted since

vars == <<selected, shown, live, sending, loads, asked, stream, active, moved>>

(* open: its events are read; delayed: one of them is held back for a      *)
(* moment; after: it has ended and the page reloads.                       *)
Phases == {"open", "delayed", "after"}

TypeOK ==
  /\ {selected, live} \subseteq Sessions \cup {None}
  /\ shown \subseteq Sessions /\ loads \subseteq Sessions
  /\ sending \in BOOLEAN /\ asked \in BOOLEAN /\ moved \in BOOLEAN
  /\ stream \in [Streams -> [session : Sessions, phase : Phases, aborted : BOOLEAN] \cup {None}]
  /\ active \in Streams \cup {None}

(* useSessionWorkspace refreshes the list when the page appears.           *)
Init ==
  /\ selected = None /\ live = None /\ active = None
  /\ shown = {} /\ loads = {}
  /\ sending = FALSE /\ asked = TRUE /\ moved = FALSE
  /\ stream = [k \in Streams |-> None]

(* abortActiveStream, whose effect on the stream comes later.              *)
Aborted == [k \in Streams |-> IF k = active THEN [stream[k] EXCEPT !.aborted = TRUE] ELSE stream[k]]

(* What the page does by its effect, in the same task, when another        *)
(* session is selected: its details are loaded, and nothing is shown until *)
(* they arrive.                                                            *)
Effect ==
  loads' = IF selected' \notin {selected, None} THEN loads \cup {selected'} ELSE loads

-----------------------------------------------------------------------------
(* selectSession, by the user or by createSession, which refreshes the     *)
(* list afterwards.                                                        *)
SelectSession(s, created) ==
  /\ stream' = Aborted /\ active' = None
  /\ selected' = s
  /\ shown' = {} /\ live' = None /\ Effect
  /\ sending' = FALSE /\ moved' = FALSE
  /\ asked' = (asked \/ created)

(* deleteSession and the other callers of refreshSessions.                 *)
AskSessions ==
  /\ ~asked
  /\ asked' = TRUE
  /\ UNCHANGED <<selected, shown, live, sending, loads, stream, active, moved>>

(* refreshSessions: when the selected session is not in the list, its      *)
(* first one is selected, and nothing else is reset.                       *)
RefreshSessions(items) ==
  /\ asked
  /\ asked' \in BOOLEAN
  /\ selected' \in (IF selected \in items THEN {selected}
                    ELSE {selected} \cup (IF items = {} THEN {None} ELSE items))
  /\ Effect
  /\ shown' = IF selected' \in {selected, None} THEN shown ELSE {}
  /\ moved' = (moved \/ (selected' # selected /\ (sending \/ live # None)))
  /\ UNCHANGED <<live, sending, stream, active>>

(* loadSessionDetail: its answer is for the session it was asked for.      *)
LoadSessionDetailAnyway(s) ==
  /\ s \in loads
  /\ loads' = loads \ {s}
  /\ shown' = {s}
  /\ UNCHANGED <<selected, live, sending, asked, stream, active, moved>>

LoadSessionDetail(s) ==
  /\ s \in loads
  /\ loads' = loads \ {s}
  /\ IF selected = s THEN shown' \in {{s}, {}} ELSE UNCHANGED shown
  /\ UNCHANGED <<selected, live, sending, asked, stream, active, moved>>

-----------------------------------------------------------------------------
(* sendMessage and retryLastMessage.                                       *)
SendMessage(k) ==
  /\ selected # None /\ ~sending
  /\ stream[k] = None
  /\ stream' = [Aborted EXCEPT ![k] = [session |-> selected, phase |-> "open", aborted |-> FALSE]]
  /\ active' = k
  /\ sending' = TRUE
  /\ UNCHANGED <<selected, shown, live, loads, asked, moved>>

Heard(k) == ~stream[k].aborted /\ selected = stream[k].session

(* An event arrives; most are held back so that the user can follow.       *)
Receive(k) ==
  /\ stream[k] # None /\ stream[k].phase = "open"
  /\ Heard(k)
  /\ stream' = [stream EXCEPT ![k].phase = "delayed"]
  /\ UNCHANGED <<selected, shown, live, sending, loads, asked, active, moved>>

(* It is shown if the page still wants it: a part of an answer, which is   *)
(* written out, or a message or event, which takes the place of the parts. *)
Present(k) ==
  /\ stream[k] # None /\ stream[k].phase = "delayed"
  /\ stream' = [stream EXCEPT ![k].phase = "open"]
  /\ IF Heard(k)
     THEN \/ live' = selected /\ UNCHANGED shown
          \/ shown' = shown \cup {selected} /\ live' \in {live, None}
     ELSE UNCHANGED <<shown, live>>
  /\ UNCHANGED <<selected, sending, loads, asked, active, moved>>

(* The stream ends; an aborted one may seem to end, too.                   *)
EndStream(k) ==
  /\ stream[k] # None /\ stream[k].phase = "open"
  /\ selected = stream[k].session
  /\ stream' = [stream EXCEPT ![k].phase = "after"]
  /\ loads' = loads \cup {selected}
  /\ asked' = TRUE
  /\ UNCHANGED <<selected, shown, live, sending, active, moved>>

(* The last part of sendMessage, whatever has happened before.             *)
Release(k) == active' = IF active = k THEN None ELSE active

Settle(k) ==
  /\ stream[k] # None
  /\ stream[k].phase \in {"open", "after"}
  /\ stream[k].phase = "after" => stream[k].session \notin loads \/ selected # stream[k].session
  /\ stream' = [stream EXCEPT ![k] = None]
  /\ Release(k)
  /\ IF selected = stream[k].session
     THEN sending' = FALSE /\ live' = None
     ELSE UNCHANGED <<sending, live>>
  /\ UNCHANGED <<selected, shown, loads, asked, moved>>

(* stopSession.                                                            *)
StopSession ==
  /\ selected # None
  /\ stream' = Aborted /\ active' = None
  /\ sending' = FALSE
  /\ UNCHANGED <<selected, shown, live, loads, asked, moved>>

Next ==
  \/ \E s \in Sessions \cup {None}, created \in BOOLEAN : SelectSession(s, created)
  \/ AskSessions
  \/ \E items \in SUBSET Sessions : RefreshSessions(items)
  \/ \E s \in Sessions : LoadSessionDetail(s)
  \/ \E k \in Streams : \/ SendMessage(k) \/ Receive(k) \/ Present(k)
                        \/ EndStream(k) \/ Settle(k)
  \/ StopSession

Spec == Init /\ [][Next]_vars

-----------------------------------------------------------------------------
(* However answers, events and clicks follow one another: only the         *)
(* selected session is on display; a stream that was not aborted is the    *)
(* active one, so there is at most one; and while a message is being sent, *)
(* or an answer written out, it is of the selected session and of a stream *)
(* that will settle it, unless a refresh has taken the selection away.     *)
PageIsCoherent ==
  /\ shown \subseteq {selected} \/ selected = None
  /\ \A k \in Streams : stream[k] # None /\ ~stream[k].aborted => k = active
  /\ ~moved =>
       /\ sending => active # None /\ stream[active].session = selected
       /\ live # None =>
            live = selected /\ \E k \in Streams : stream[k] # None /\ stream[k].session = live
=============================================================================
