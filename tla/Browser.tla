------------------------------- MODULE Browser ------------------------------
(***************************************************************************)
(* The one Chromium of the sandbox (SandboxBrowserService).  All agents    *)
(* share its page: a request holds no lock, and every await is a point     *)
(* where another request goes on.  A request that finds no browser starts  *)
(* one itself.                                                             *)
(***************************************************************************)
EXTENDS Naturals

CONSTANTS
  Clients,   \* tools and users, each with one request at a time
  Browsers,  \* Chromium processes that may be launched
  Urls,      \* addresses
  None       \* no browser, no address

VARIABLES
  runtime,    \* _runtime: the browser in use
  process,    \* what became of each Chromium
  page,       \* the address its page shows
  req,        \* the request of each client
  mishap      \* launches have overlapped, or a launch or a closing failed halfway

vars == <<runtime, process, page, req, mishap>>

(* A screenshot is one read of the page, as page_info is.                  *)
Ops == {"start", "close", "navigate", "info", "text"}
Places == {"ensure", "launching", "preparing", "started", "use", "meta",
           "closing", "over"}

(* `alone': no other request was under way during this one.                *)
Request == [op : Ops, url : Urls \cup {None}, at : Places,
            browser : Browsers \cup {None}, read : Urls \cup {None},
            answer : Urls \cup {None}, outcome : {"none", "ok", "error"},
            alone : BOOLEAN]

TypeOK ==
  /\ runtime \in Browsers \cup {None}
  /\ process \in [Browsers -> {"none", "open", "closed"}]
  /\ page \in [Browsers -> Urls \cup {None}]
  /\ req \in [Clients -> Request]
  /\ mishap \in BOOLEAN

Init ==
  /\ runtime = None
  /\ process = [b \in Browsers |-> "none"]
  /\ page = [b \in Browsers |-> None]
  /\ req = [c \in Clients |-> [op |-> "start", url |-> None, at |-> "over",
              browser |-> None, read |-> None, answer |-> None, outcome |-> "none",
              alone |-> TRUE]]
  /\ mishap = FALSE

-----------------------------------------------------------------------------
At(c, place) == req[c].at = place
MoveTo(c, place) == req' = [req EXCEPT ![c].at = place]
EndWith(c, outcome, url) ==
  req' = [req EXCEPT ![c].at = "over", ![c].browser = None,
                     ![c].outcome = outcome, ![c].answer = url]
End(c, outcome) == EndWith(c, outcome, None)
UseBrowser(c, b) == req' = [req EXCEPT ![c].at = "use", ![c].browser = b]

Others(c) == {d \in Clients \ {c} : req[d].at # "over"}

(* close takes the browser away before it closes it.                       *)
LeftInUseAlways(op) == runtime

LeftInUse(op) == IF op = "close" THEN None ELSE runtime

(* A request arrives.                                                      *)
Arrive(c, op, url) ==
  /\ At(c, "over")
  /\ (op = "navigate") = (url # None)
  /\ LET closes == op = "close"
         place == IF ~closes THEN "ensure" ELSE IF runtime = None THEN "over" ELSE "closing"
         new == [op |-> op, url |-> url, at |-> place,
                 browser |-> IF closes THEN runtime ELSE None, read |-> None,
                 answer |-> None, outcome |-> IF place = "over" THEN "ok" ELSE "none",
                 alone |-> Others(c) = {}]
     IN  /\ req' = [d \in Clients |-> IF d = c THEN new
                                      ELSE IF d \in Others(c) THEN [req[d] EXCEPT !.alone = FALSE]
                                      ELSE req[d]]
         /\ runtime' = LeftInUse(op)
  /\ UNCHANGED <<process, page, mishap>>

(* _ensure_runtime, and start itself: a browser in use is used.            *)
GoLaunch(c) ==
  /\ MoveTo(c, "launching")
  /\ mishap' = (mishap \/ \E d \in Clients \ {c} : req[d].at \in {"launching", "preparing"})

EnsureByStarting(c) ==
  /\ At(c, "ensure")
  /\ GoLaunch(c)
  /\ UNCHANGED <<runtime, process, page>>

Ensure(c) ==
  /\ At(c, "ensure")
  /\ IF runtime = None THEN GoLaunch(c)
     ELSE /\ IF req[c].op = "start" THEN End(c, "ok")
             ELSE UseBrowser(c, runtime)
          /\ UNCHANGED mishap
  /\ UNCHANGED <<runtime, process, page>>

(* start: the process, then its context and page, then the answer, which   *)
(* waits for the title of the page.                                        *)
Launch(c, b) ==
  /\ At(c, "launching") /\ process[b] = "none"
  /\ process' = [process EXCEPT ![b] = "open"]
  /\ req' = [req EXCEPT ![c].at = "preparing", ![c].browser = b]
  /\ UNCHANGED <<runtime, page, mishap>>

LaunchFails(c) ==
  /\ At(c, "launching")
  /\ End(c, "error")
  /\ UNCHANGED <<runtime, process, page, mishap>>

Prepared(c) ==
  /\ At(c, "preparing")
  /\ runtime' = req[c].browser
  /\ MoveTo(c, "started")
  /\ UNCHANGED <<process, page, mishap>>

(* A PlaywrightError leaves the process that was launched.                 *)
PrepareFails(c) ==
  /\ At(c, "preparing")
  /\ End(c, "error")
  /\ mishap' = TRUE
  /\ UNCHANGED <<runtime, process, page>>

Started(c) ==
  /\ At(c, "started")
  /\ IF req[c].op = "start" THEN End(c, "ok")
     ELSE IF runtime = None THEN End(c, "error")
     ELSE UseBrowser(c, runtime)
  /\ UNCHANGED <<runtime, process, page, mishap>>

-----------------------------------------------------------------------------
(* What is asked of a browser that was closed meanwhile is an error.       *)
Usable(c) == process[req[c].browser] = "open"

Fails(c) ==
  /\ At(c, "use")
  /\ End(c, "error")
  /\ UNCHANGED <<runtime, process, page, mishap>>

(* navigate answers with page_info, which asks for the browser again.  An  *)
(* address stands for where it leads to.                                   *)
Navigate(c) ==
  /\ At(c, "use") /\ req[c].op = "navigate" /\ Usable(c)
  /\ page' = [page EXCEPT ![req[c].browser] = req[c].url]
  /\ req' = [req EXCEPT ![c].at = "ensure", ![c].op = "info"]
  /\ UNCHANGED <<runtime, process, mishap>>

(* page_info, which tells the last address of a page that was closed, and  *)
(* screenshot, which fails there.                                          *)
PageInfo(c) ==
  /\ At(c, "use") /\ req[c].op = "info"
  /\ EndWith(c, "ok", page[req[c].browser])
  /\ UNCHANGED <<runtime, process, page, mishap>>

(* page_text: the text, then the address it is said to be from.            *)
ReadText(c) ==
  /\ At(c, "use") /\ req[c].op = "text" /\ Usable(c)
  /\ req' = [req EXCEPT ![c].at = "meta", ![c].read = page[req[c].browser]]
  /\ UNCHANGED <<runtime, process, page, mishap>>

ReadAddress(c) ==
  /\ At(c, "meta")
  /\ EndWith(c, "ok", page[req[c].browser])
  /\ UNCHANGED <<runtime, process, page, mishap>>

(* The context, the browser and the driver are closed one by one.          *)
CloseBrowser(c) ==
  /\ At(c, "closing")
  /\ process' = [process EXCEPT ![req[c].browser] = "closed"]
  /\ End(c, "ok")
  /\ UNCHANGED <<runtime, page, mishap>>

CloseFails(c) ==
  /\ At(c, "closing")
  /\ End(c, "error")
  /\ mishap' = TRUE
  /\ UNCHANGED <<runtime, process, page>>

Next ==
  \E c \in Clients :
    \/ \E op \in Ops, url \in Urls \cup {None} : Arrive(c, op, url)
    \/ Ensure(c)
    \/ \E b \in Browsers : Launch(c, b)
    \/ LaunchFails(c) \/ Prepared(c) \/ PrepareFails(c) \/ Started(c)
    \/ Fails(c) \/ Navigate(c) \/ PageInfo(c) \/ ReadText(c) \/ ReadAddress(c)
    \/ CloseBrowser(c) \/ CloseFails(c)

Spec == Init /\ [][Next]_vars

-----------------------------------------------------------------------------
(* Whatever requests overlap, no request is given a browser that somebody  *)
(* has begun to close.  A request that ran alone gets what it asked for:   *)
(* navigate the address it opened, and page_text an address that is the    *)
(* source of the text.  And a Chromium that nobody can close any more is   *)
(* left behind only by overlapping starts or by a failure halfway.         *)
BrowserSound ==
  LET held(b) == b = runtime \/ \E c \in Clients :
                   req[c].browser = b /\ req[c].at \in {"preparing", "closing"}
  IN  /\ runtime # None => process[runtime] = "open"
      /\ \A c \in Clients :
           /\ At(c, "closing") => req[c].browser # runtime
           /\ At(c, "over") /\ req[c].outcome = "ok" /\ req[c].alone =>
                /\ req[c].url # None => req[c].answer = req[c].url
                /\ req[c].op = "text" => req[c].answer = req[c].read
      /\ (\E b \in Browsers : process[b] = "open" /\ ~held(b)) => mishap
=============================================================================
