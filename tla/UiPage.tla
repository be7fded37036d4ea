------------------------------- MODULE UiPage --------------------------------
(***************************************************************************)
(* One browser page of the web UI (static/app.js) and the session it has   *)
(* with the server (server.go).  The log buffer and the stream are what    *)
(* LogBuffer.tla shows them to be: a snapshot and then every entry, until  *)
(* the connection ends.  The browser's EventSource connects again on its   *)
(* own unless a request is refused.  Sessions and entries are in memory    *)
(* and do not survive a restart of the server.                             *)
(***************************************************************************)
EXTENDS Integers, Sequences, SequencesExt

CONSTANTS
  BufferCapacity,    \* entries the server's buffer holds
  MAX_ROWS,          \* entries the page holds
  MaxID,             \* bound: entries added by one run of the server
  MaxRuns,           \* bound: runs of the server
  MaxDrops,          \* bound: streams and answers that are lost without a restart
  MaxLogins          \* bound: logins

ASSUME PageAssumption ==
  /\ BufferCapacity \in Nat \ {0} /\ MAX_ROWS \in Nat
  /\ BufferCapacity <= MAX_ROWS
  /\ MaxID \in Nat /\ MaxRuns \in Nat \ {0} /\ MaxDrops \in Nat /\ MaxLogins \in Nat

VARIABLES
  \* the server
  run, lastID,   \* which run of the server it is, and its newest entry
  oldest,        \* the newest entry that the buffer does not hold any more
  session,       \* the page's cookie names a live session
  \* the page
  view,          \* "login" or "app"
  es,            \* its EventSource: "none", "connecting", "open", "refused" (onerror is
                 \* to be called) or "closed"
  wire,          \* entries on the way to it
  list,          \* state.entries and state.seen
  paused, held,  \* whether the display is paused, and the entries kept back meanwhile
  retry,         \* GET /api/status after a refused stream: "none", "asked", "ok", "unauthorized", "lost"
  clear,         \* POST /api/logs/clear: "none", "asked", "cleared", "unauthorized"
  drops, logins, \* counters for the bounds
  \* history variable
  overtaken      \* a clear wiped from the page entries the buffer still holds

server == <<run, lastID, oldest, session>>
page == <<view, es, wire, list, paused, held, retry, clear>>
vars == <<server, page, drops, logins, overtaken>>

Entries == [run : 1 .. MaxRuns, id : 1 .. MaxID]

\* What state.entries and state.seen may be.
Lists == {l \in [entries : Seq(Entries), seen : SUBSET (1 .. MaxID)] : Len(l.entries) <= MAX_ROWS}

TypeOK ==
  /\ run \in 1 .. MaxRuns /\ lastID \in 0 .. MaxID /\ oldest \in 0 .. lastID
  /\ session \in BOOLEAN /\ paused \in BOOLEAN /\ overtaken \in BOOLEAN
  /\ view \in {"login", "app"} /\ es \in {"none", "connecting", "open", "refused", "closed"}
  /\ wire \in Seq(Entries) /\ held \in Seq(Entries)
  /\ list \in Lists
  /\ retry \in {"none", "asked", "ok", "unauthorized", "lost"}
  /\ clear \in {"none", "asked", "cleared", "unauthorized"}
  /\ drops \in 0 .. MaxDrops /\ logins \in 0 .. MaxLogins

Empty == [entries |-> <<>>, seen |-> {}]

Init ==
  /\ run = 1 /\ lastID = 0 /\ oldest = 0 /\ session = FALSE
  /\ view = "login" /\ es = "none" /\ wire = <<>>
  /\ list = Empty /\ paused = FALSE /\ held = <<>>
  /\ retry = "none" /\ clear = "none"
  /\ drops = 0 /\ logins = 0 /\ overtaken = FALSE

-----------------------------------------------------------------------------
(* The server                                                              *)

\* What the buffer holds, oldest first.
Snapshot == [i \in 1 .. lastID - oldest |-> [run |-> run, id |-> oldest + i]]

Add ==
  /\ lastID < MaxID
  /\ lastID' = lastID + 1
  /\ oldest' = IF lastID - oldest < BufferCapacity THEN oldest ELSE oldest + 1
  /\ wire' = IF es = "open" THEN Append(wire, [run |-> run, id |-> lastID']) ELSE wire
  /\ UNCHANGED <<run, session, view, es, list, paused, held, retry, clear, drops, logins, overtaken>>

\* The page's cookie passes its time of expiry.
Expire ==
  /\ session
  /\ session' = FALSE
  /\ UNCHANGED <<run, lastID, oldest, page, drops, logins, overtaken>>

AnswerStatus ==
  /\ retry = "asked"
  /\ retry' = IF session THEN "ok" ELSE "unauthorized"
  /\ UNCHANGED <<server, view, es, wire, list, paused, held, clear, drops, logins, overtaken>>

AnswerClear ==
  /\ clear = "asked"
  /\ IF session
     THEN clear' = "cleared" /\ oldest' = lastID
     ELSE clear' = "unauthorized" /\ UNCHANGED oldest
  /\ UNCHANGED <<run, lastID, session, view, es, wire, list, paused, held, retry, drops, logins, overtaken>>

\* The stream is admitted by the session it was requested with; a refusal is
\* not tried again by the browser.
AnswerStream ==
  /\ es = "connecting"
  /\ IF session THEN es' = "open" /\ wire' = Snapshot ELSE es' = "refused" /\ UNCHANGED wire
  /\ UNCHANGED <<server, view, list, paused, held, retry, clear, drops, logins, overtaken>>

\* Replies that are out are lost with their connections.
Restart ==
  /\ run < MaxRuns
  /\ run' = run + 1 /\ lastID' = 0 /\ oldest' = 0 /\ session' = FALSE
  /\ es' = IF es = "open" THEN "connecting" ELSE es
  /\ wire' = <<>> /\ clear' = "none"
  /\ retry' = IF retry = "none" THEN "none" ELSE "lost"
  /\ UNCHANGED <<view, list, paused, held, drops, logins, overtaken>>

\* The stream ends: the network failed, or the server cut off a slow reader.
Drop ==
  /\ es = "open" /\ drops < MaxDrops
  /\ drops' = drops + 1
  /\ es' = "connecting" /\ wire' = <<>>
  /\ UNCHANGED <<server, view, list, paused, held, retry, clear, logins, overtaken>>

\* The answer to GET /api/status does not arrive, and nothing is done about it.
LoseStatus ==
  /\ retry \notin {"none", "lost"} /\ drops < MaxDrops
  /\ drops' = drops + 1
  /\ retry' = "lost"
  /\ UNCHANGED <<server, view, es, wire, list, paused, held, clear, logins, overtaken>>

\* A request that is out carries the cookie of a session that is gone.
Stale(request) == IF request = "asked" /\ ~session THEN "unauthorized" ELSE request

\* Another page of the same browser logs in, and all of its pages have the cookie.
LoginElsewhere ==
  /\ logins < MaxLogins /\ ~session
  /\ logins' = logins + 1
  /\ session' = TRUE
  /\ es' \in IF es = "connecting" THEN {"connecting", "refused"} ELSE {es}
  /\ retry' = Stale(retry) /\ clear' = Stale(clear)
  /\ UNCHANGED <<run, lastID, oldest, view, wire, list, paused, held, drops, overtaken>>

-----------------------------------------------------------------------------
(* The page                                                                *)

\* (mutant: an entry is shown again when the stream replays it)
IngestAgain(l, e) ==
  LET all == Append(l.entries, e)
  IN  IF Len(all) > MAX_ROWS
      THEN [entries |-> Tail(all), seen |-> (l.seen \union {e.id}) \ {Head(all).id}]
      ELSE [entries |-> all, seen |-> l.seen \union {e.id}]

\* (mutant: the page grows by one entry too many)
IngestOneMore(l, e) ==
  IF e.id \in l.seen THEN l
  ELSE LET all == Append(l.entries, e)
       IN  IF Len(all) > MAX_ROWS + 1
           THEN [entries |-> Tail(all), seen |-> (l.seen \union {e.id}) \ {Head(all).id}]
           ELSE [entries |-> all, seen |-> l.seen \union {e.id}]

\* (mutant: the oldest entry leaves the page and stays known)
IngestKeepingSeen(l, e) ==
  IF e.id \in l.seen THEN l
  ELSE LET all == Append(l.entries, e)
       IN  [entries |-> IF Len(all) > MAX_ROWS THEN Tail(all) ELSE all, seen |-> l.seen \union {e.id}]

\* An entry whose id is on the page is dropped; beyond MAX_ROWS the oldest goes.
ingest(l, e) ==
  IF e.id \in l.seen THEN l
  ELSE LET all == Append(l.entries, e)
       IN  IF Len(all) > MAX_ROWS
           THEN [entries |-> Tail(all), seen |-> (l.seen \union {e.id}) \ {Head(all).id}]
           ELSE [entries |-> all, seen |-> l.seen \union {e.id}]

\* The entries s, one after the other.
ingestAll(l, s) ==
  LET upto[n \in 0 .. Len(s)] == IF n = 0 THEN l ELSE ingest(upto[n - 1], s[n])
  IN  upto[Len(s)]

Message ==
  /\ es = "open" /\ wire # <<>>
  /\ wire' = Tail(wire)
  /\ IF paused
     THEN held' = Append(held, Head(wire)) /\ UNCHANGED list
     ELSE list' = ingest(list, Head(wire)) /\ UNCHANGED held
  /\ UNCHANGED <<server, view, es, paused, retry, clear, drops, logins, overtaken>>

\* (mutant: what was held is discarded)
ResumeDiscarding ==
  /\ paused
  /\ paused' = FALSE /\ held' = <<>>
  /\ UNCHANGED <<server, view, es, wire, list, retry, clear, drops, logins, overtaken>>

Pause ==
  /\ view = "app" /\ ~paused
  /\ paused' = TRUE
  /\ UNCHANGED <<server, view, es, wire, list, held, retry, clear, drops, logins, overtaken>>

Resume ==
  /\ view = "app" /\ paused
  /\ paused' = FALSE
  /\ list' = ingestAll(list, held)
  /\ held' = <<>>
  /\ UNCHANGED <<server, view, es, wire, retry, clear, drops, logins, overtaken>>

\* showLogin and connect leave the rest of the page as it is.
showLogin == view' = "login" /\ es' = "none" /\ wire' = <<>>
connect == es' = "connecting" /\ wire' = <<>>

Login ==
  /\ view = "login" /\ logins < MaxLogins
  /\ logins' = logins + 1
  /\ session' = TRUE
  /\ view' = "app" /\ connect
  /\ retry' = Stale(retry) /\ clear' = Stale(clear)
  /\ UNCHANGED <<run, lastID, oldest, list, paused, held, drops, overtaken>>

Logout ==
  /\ view = "app"
  /\ session' = FALSE
  /\ showLogin
  /\ UNCHANGED <<run, lastID, oldest, list, paused, held, retry, clear, drops, logins, overtaken>>

\* The poll of the status every ten seconds.
refreshStatus ==
  /\ view = "app" /\ ~session
  /\ showLogin
  /\ UNCHANGED <<server, list, paused, held, retry, clear, drops, logins, overtaken>>

\* The handler onerror of a stream that was refused.
OnError ==
  /\ es = "refused" /\ retry \in {"none", "lost"}
  /\ es' = "closed"
  /\ retry' = "asked"
  /\ UNCHANGED <<server, view, wire, list, paused, held, clear, drops, logins, overtaken>>

\* (mutant: the page waits for the browser to connect again)
RetryOnlyLogin ==
  /\ retry \in {"ok", "unauthorized"}
  /\ retry' = "none"
  /\ IF retry = "ok" THEN UNCHANGED <<view, es, wire>> ELSE showLogin
  /\ UNCHANGED <<server, list, paused, held, clear, drops, logins, overtaken>>

\* The status arrives, whatever happened since it was asked for.
Retry ==
  /\ retry \in {"ok", "unauthorized"}
  /\ retry' = "none"
  /\ IF retry = "ok" THEN connect /\ UNCHANGED view ELSE showLogin
  /\ UNCHANGED <<server, list, paused, held, clear, drops, logins, overtaken>>

AskClear ==
  /\ view = "app" /\ clear = "none"
  /\ clear' = "asked"
  /\ UNCHANGED <<server, view, es, wire, list, paused, held, retry, drops, logins, overtaken>>

\* The page empties itself when the answer arrives, not when the buffer did.
Cleared ==
  /\ clear = "cleared"
  /\ clear' = "none"
  /\ list' = Empty /\ held' = <<>>
  /\ overtaken' =
       (overtaken \/ \E e \in ToSet(list.entries \o held) : e.run = run /\ e.id > oldest)
  /\ UNCHANGED <<server, view, es, wire, paused, retry, drops, logins>>

ClearRefused ==
  /\ clear = "unauthorized"
  /\ clear' = "none"
  /\ showLogin
  /\ UNCHANGED <<server, list, paused, held, retry, drops, logins, overtaken>>

-----------------------------------------------------------------------------
Server == AnswerStatus \/ AnswerClear \/ AnswerStream
Browser == Message \/ refreshStatus \/ OnError \/ Retry \/ Cleared \/ ClearRefused

Next ==
  \/ Add \/ Expire \/ Restart \/ Drop \/ LoseStatus \/ LoginElsewhere
  \/ Server \/ Browser
  \/ Pause \/ Resume \/ Login \/ Logout \/ AskClear

Spec == Init /\ [][Next]_vars

\* Requests are answered, answers and entries that arrived are handled, and the
\* status is polled; what the user does, and failures, are left to chance.
FairSpec ==
  /\ Spec
  /\ WF_vars(AnswerStatus) /\ WF_vars(AnswerClear) /\ WF_vars(AnswerStream)
  /\ WF_vars(Message) /\ WF_vars(refreshStatus) /\ WF_vars(OnError) /\ WF_vars(Retry)
  /\ WF_vars(Cleared) /\ WF_vars(ClearRefused)
=============================================================================
