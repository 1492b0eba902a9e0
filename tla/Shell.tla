-------------------------------- MODULE Shell -------------------------------
(***************************************************************************)
(* The shell sessions of the sandbox (SandboxShellService) and the tool    *)
(* that starts one and waits for it.  Two collectors read what the process *)
(* prints and a watcher waits for its end, next to the requests that wait  *)
(* for it, read it, write to it or terminate it; the service keeps every   *)
(* session for ever.                                                       *)
(***************************************************************************)
EXTENDS Naturals, Sequences

CONSTANTS
  Sessions,  \* sessions, each of one command
  Clients,   \* users and tools, each with one request at a time
  MaxLines,  \* bound: lines a command prints
  Limit      \* shell_output_limit, in lines

VARIABLES
  process,  \* the command's process: its state, exit code and printed lines
  session,  \* ShellSession
  asked,    \* the request each client waits for
  answer    \* the last answer each client has seen

vars == <<process, session, asked, answer>>

Codes == {"zero", "other"}
Status == {"none", "running", "succeeded", "failed", "terminated"}
Session == [status : Status, code : Codes \cup {"none"}, collected : 0..MaxLines,
            output : Seq(1..MaxLines), truncated : BOOLEAN, reading : BOOLEAN]
Idle == [op |-> "none", of |-> "none"]

TypeOK ==
  /\ process \in [Sessions -> [state : {"none", "running", "ended"},
                               code : Codes \cup {"none"}, printed : 0..MaxLines]]
  /\ session \in [Sessions -> Session]
  /\ asked \in [Clients -> {Idle} \cup [op : {"wait", "terminate"}, of : Sessions]]
  /\ \A c \in Clients : answer[c] = Idle \/ answer[c].of \in Sessions

Init ==
  /\ process = [s \in Sessions |-> [state |-> "none", code |-> "none", printed |-> 0]]
  /\ session = [s \in Sessions |-> [status |-> "none", code |-> "none", collected |-> 0,
                  output |-> <<>>, truncated |-> FALSE, reading |-> TRUE]]
  /\ asked = [c \in Clients |-> Idle]
  /\ answer = [c \in Clients |-> Idle]

-----------------------------------------------------------------------------
Known(s) == session[s].status # "none"
Ended(s) == process[s].state = "ended"

(* _to_response *)
Reply(c, op, s) ==
  answer' = [answer EXCEPT ![c] = [op |-> op, of |-> s, status |-> session[s].status]]

(* execute: the process, then the session and its three tasks.             *)
Execute(c, s) ==
  /\ asked[c] = Idle /\ ~Known(s)
  /\ process' = [process EXCEPT ![s].state = "running"]
  /\ session' = [session EXCEPT ![s].status = "running"]
  /\ answer' = [answer EXCEPT ![c] = [op |-> "execute", of |-> s, status |-> "running"]]
  /\ UNCHANGED asked

Get(c, s) ==
  /\ asked[c] = Idle /\ Known(s)
  /\ Reply(c, "get", s)
  /\ UNCHANGED <<process, session, asked>>

(* write: refused unless the session runs; the pipe may be gone by then.   *)
Write(c, s) ==
  /\ asked[c] = Idle /\ Known(s)
  /\ \/ session[s].status = "running" /\ Reply(c, "write", s)
     \/ Reply(c, "refused", s)
  /\ UNCHANGED <<process, session, asked>>

(* wait: until the process has ended, or for its time.                     *)
Wait(c, s) ==
  /\ asked[c] = Idle /\ Known(s)
  /\ asked' = [asked EXCEPT ![c] = [op |-> "wait", of |-> s]]
  /\ UNCHANGED <<process, session, answer>>

EndWait(c) ==
  /\ asked[c].op = "wait"
  /\ Reply(c, "wait", asked[c].of)
  /\ asked' = [asked EXCEPT ![c] = Idle]
  /\ UNCHANGED <<process, session>>

(* terminate: a session that runs is marked at once, then its process is   *)
(* told to end, and killed after two seconds.                              *)
Terminate(c, s) ==
  /\ asked[c] = Idle /\ Known(s)
  /\ IF session[s].status = "running"
     THEN /\ session' = [session EXCEPT ![s].status = "terminated"]
          /\ asked' = [asked EXCEPT ![c] = [op |-> "terminate", of |-> s]]
          /\ UNCHANGED answer
     ELSE /\ Reply(c, "terminate", s)
          /\ UNCHANGED <<session, asked>>
  /\ UNCHANGED process

(* A process that has ended before its watcher was told refuses the signal *)
(* and the request fails, before the session is marked.                    *)
CannotSignal(c, s) ==
  /\ asked[c] = Idle /\ session[s].status = "running" /\ Ended(s)
  /\ Reply(c, "refused", s)
  /\ UNCHANGED <<process, session, asked>>

EndTerminate(c) ==
  /\ asked[c].op = "terminate" /\ Ended(asked[c].of)
  /\ Reply(c, "terminate", asked[c].of)
  /\ asked' = [asked EXCEPT ![c] = Idle]
  /\ UNCHANGED <<process, session>>

(* The client stops waiting for the answer; the service goes on.           *)
GiveUp(c) ==
  /\ asked[c].op = "wait"
  /\ asked' = [asked EXCEPT ![c] = Idle]
  /\ UNCHANGED <<process, session, answer>>

-----------------------------------------------------------------------------
(* The process prints, and ends by itself or by a signal.                  *)
PrintLine(s) ==
  /\ process[s].state = "running" /\ process[s].printed < MaxLines
  /\ process' = [process EXCEPT ![s].printed = @ + 1]
  /\ UNCHANGED <<session, asked, answer>>

Exit(s, code) ==
  /\ process[s].state = "running"
  /\ process' = [process EXCEPT ![s].state = "ended", ![s].code = code]
  /\ UNCHANGED <<session, asked, answer>>

(* _collect_stream and _append_output: beyond the limit the oldest go.     *)
KeptOldest(lines) == IF Len(lines) <= Limit THEN lines ELSE SubSeq(lines, 1, Limit)

Kept(lines) ==
  IF Len(lines) <= Limit THEN lines
  ELSE SubSeq(lines, Len(lines) - Limit + 1, Len(lines))

Collect(s) ==
  /\ session[s].reading /\ session[s].collected < process[s].printed
  /\ LET lines == Append(session[s].output, session[s].collected + 1) IN
     session' = [session EXCEPT ![s].collected = @ + 1,
                                ![s].output = Kept(lines),
                                ![s].truncated = @ \/ Len(lines) > Limit]
  /\ UNCHANGED <<process, asked, answer>>

(* A line longer than the buffer of the stream ends its collector.         *)
CollectorEnds(s) ==
  /\ session[s].reading /\ session[s].collected < process[s].printed
  /\ session' = [session EXCEPT ![s].reading = FALSE]
  /\ UNCHANGED <<process, asked, answer>>

(* _watch_process *)
WatchAnyway(s) ==
  /\ Ended(s) /\ Known(s) /\ session[s].code = "none"
  /\ session' = [session EXCEPT ![s].code = process[s].code,
                   ![s].status = IF process[s].code = "zero" THEN "succeeded" ELSE "failed"]
  /\ UNCHANGED <<process, asked, answer>>

Watch(s) ==
  /\ Ended(s) /\ Known(s) /\ session[s].code = "none"
  /\ session' = [session EXCEPT ![s].code = process[s].code,
                   ![s].status = IF @ = "terminated" THEN @
                                 ELSE IF process[s].code = "zero" THEN "succeeded"
                                 ELSE "failed"]
  /\ UNCHANGED <<process, asked, answer>>

Next ==
  \/ \E c \in Clients :
       \/ \E s \in Sessions : \/ Execute(c, s) \/ Get(c, s) \/ Write(c, s)
                              \/ Wait(c, s) \/ Terminate(c, s) \/ CannotSignal(c, s)
       \/ EndWait(c) \/ EndTerminate(c) \/ GiveUp(c)
  \/ \E s \in Sessions :
       \/ PrintLine(s) \/ Collect(s) \/ CollectorEnds(s) \/ Watch(s)
       \/ \E code \in Codes : Exit(s, code)

Spec == Init /\ [][Next]_vars

-----------------------------------------------------------------------------
(* What a client was told of the end of a command stays true, whoever      *)
(* terminates it and whenever its watcher looks; a command is said to have *)
(* succeeded or failed only if it ended that way; the request that         *)
(* terminated it is answered when it has ended; and the output holds the   *)
(* last lines that were collected, in order, cut off only if it says so.   *)
ShellSound ==
  /\ \A c \in Clients :
       /\ answer[c].of \in Sessions /\ answer[c].status \in {"succeeded", "failed", "terminated"} =>
            session[answer[c].of].status = answer[c].status
       /\ asked[c].op = "terminate" => session[asked[c].of].status = "terminated"
  /\ \A s \in Sessions :
       LET row == session[s]
           kept == IF row.collected > Limit THEN Limit ELSE row.collected
       IN  /\ row.status = "succeeded" => Ended(s) /\ process[s].code = "zero"
           /\ row.status = "failed" => Ended(s) /\ process[s].code = "other"
           /\ row.status = "terminated" =>
                Ended(s) \/ \E c \in Clients : asked[c] = [op |-> "terminate", of |-> s]
           /\ row.output = [i \in 1..kept |-> row.collected - kept + i]
           /\ row.truncated = (row.collected > Limit)
=============================================================================
