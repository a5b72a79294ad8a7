----------------------------- MODULE LiveStatus -----------------------------
(***************************************************************************)
(* Live pipeline status: the pipeline's processes write the analyses table *)
(* and NOTIFY, the API listens and broadcasts to its WebSockets, and every *)
(* open page drops what it has cached and asks the API again.              *)
(*                                                                         *)
(* Messages carry no state a page uses: each makes it fetch.  So a message *)
(* is the number of the change it was sent for, and the row is the number  *)
(* of changes so far.  All pages belong to one account; they are visible   *)
(* (a hidden page does not poll).                                          *)
(***************************************************************************)
EXTENDS Naturals, FiniteSets

CONSTANTS
  Pages,       \* open browser tabs
  Sockets,     \* names for the API's WebSocket objects
  Limit,       \* MAX_CONNECTIONS_PER_PRINCIPAL
  MaxChanges,  \* bound: changes of the row
  MaxFaults,   \* bound: failures of processes, links and requests
  Hello,       \* the message with the current state, sent on connect
  Asked,       \* a request that has not read the row yet
  None         \* no socket, no request, no data

ASSUME LiveStatusAssumption ==
  /\ Limit \in Nat \ {0} /\ MaxChanges \in Nat /\ MaxFaults \in Nat
  /\ Hello \notin Nat /\ None \notin Nat /\ Asked \notin Nat
  /\ None \notin Sockets /\ None # Asked

VARIABLES
  row,                    \* what GET /api/pipeline/status would answer
  toNotify,               \* changes written whose NOTIFY is still to come
  unheard,                \* the newest change will never be announced
  listening, arrived,     \* the LISTEN connection; notifications it holds
  queued, sends,          \* broadcast tasks not yet started, and under way
  pool,                   \* manager.principals
  handler,                \* where websocket_pipeline is, for each socket
  up, wire,               \* the link of a socket; messages on it to the page
  sock,                   \* a page's socket
  fetch,                  \* a page's request: none, asked, or the row it read
  view,                   \* the row a page shows
  excused,                \* the page's last request failed, or one it needed
                          \* was merged into one that had already read the row
  faults

db     == <<row, toNotify, unheard>>
hub    == <<listening, arrived, queued, sends>>
server == <<pool, handler>>
link   == <<up, wire>>
page   == <<sock, fetch, view, excused>>
vars   == <<db, hub, server, link, page, faults>>

Changes == 1 .. MaxChanges

Init ==
  /\ row = 0 /\ toNotify = {} /\ unheard = FALSE
  /\ listening = FALSE /\ arrived = {} /\ queued = {} /\ sends = {}
  /\ pool = {} /\ handler = [s \in Sockets |-> "none"]
  /\ up = [s \in Sockets |-> FALSE] /\ wire = [s \in Sockets |-> {}]
  /\ sock = [p \in Pages |-> None] /\ fetch = [p \in Pages |-> Asked]
  /\ view = [p \in Pages |-> None] /\ excused = [p \in Pages |-> FALSE]
  /\ faults = 0

Fault == faults < MaxFaults /\ faults' = faults + 1
-----------------------------------------------------------------------------
(* The pipeline's processes *)

\* update_stage and complete_pipeline: the UPDATE commits by itself.
Write ==
  /\ row < MaxChanges
  /\ row' = row + 1 /\ toNotify' = toNotify \cup {row + 1} /\ unheard' = FALSE
  /\ UNCHANGED <<hub, server, link, page, faults>>

\* ... and the NOTIFY after it.  PostgreSQL keeps none for a listener that is away.
Notify(v) ==
  /\ v \in toNotify
  /\ toNotify' = toNotify \ {v}
  /\ IF listening THEN arrived' = arrived \cup {v} /\ UNCHANGED unheard
                  ELSE unheard' = (unheard \/ v = row) /\ UNCHANGED arrived
  /\ UNCHANGED <<row, listening, queued, sends, server, link, page, faults>>

\* Killed, or refused by the database, between the two.
DiesUnannounced(v) ==
  /\ v \in toNotify /\ Fault
  /\ toNotify' = toNotify \ {v} /\ unheard' = (unheard \/ v = row)
  /\ UNCHANGED <<row, hub, server, link, page>>

\* reconcile_stale_running and the ingest change rows and announce nothing.
WriteSilently ==
  /\ row < MaxChanges
  /\ row' = row + 1 /\ unheard' = TRUE
  /\ UNCHANGED <<toNotify, hub, server, link, page, faults>>
-----------------------------------------------------------------------------
(* The API: one listener, one task per notification *)

\* _pg_listener connects and adds its listener, at first and 5 s after a loss.
ListenerConnects ==
  /\ ~listening /\ listening' = TRUE
  /\ UNCHANGED <<db, arrived, queued, sends, server, link, page, faults>>

ListenerDrops ==
  /\ listening /\ Fault
  /\ listening' = FALSE /\ arrived' = {}
  /\ unheard' = (unheard \/ row \in arrived)
  /\ UNCHANGED <<row, toNotify, queued, sends, server, link, page>>

\* _on_notification
Callback(v) ==
  /\ v \in arrived
  /\ arrived' = arrived \ {v} /\ queued' = queued \cup {v}
  /\ UNCHANGED <<db, listening, sends, server, link, page, faults>>

\* broadcast iterates a snapshot of the pool.
StartBroadcast(v) ==
  /\ v \in queued
  /\ queued' = queued \ {v}
  /\ sends' = sends \cup {[note |-> v, left |-> pool, dead |-> {}]}
  /\ UNCHANGED <<db, listening, arrived, server, link, page, faults>>

Replace(b, c) == sends' = (sends \ {b}) \cup {c}

\* One await ws.send_text.  A link that broke may still take the message, which
\* is lost; a socket whose handler has closed it raises.
SendTo(b, s) ==
  /\ b \in sends /\ s \in b.left
  /\ \/ /\ up[s] /\ handler[s] # "none"
        /\ wire' = [wire EXCEPT ![s] = @ \cup {b.note}]
        /\ Replace(b, [b EXCEPT !.left = @ \ {s}])
     \/ /\ ~up[s] /\ handler[s] # "none"
        /\ Replace(b, [b EXCEPT !.left = @ \ {s}])
        /\ UNCHANGED wire
     \/ /\ ~up[s] \/ handler[s] = "none"
        /\ Replace(b, [b EXCEPT !.left = @ \ {s}, !.dead = @ \cup {s}])
        /\ UNCHANGED wire
  /\ UNCHANGED <<db, listening, arrived, queued, server, up, page, faults>>

\* The sockets that failed leave the pool when the loop is over.
EndBroadcast(b) ==
  /\ b \in sends /\ b.left = {}
  /\ sends' = sends \ {b} /\ pool' = pool \ b.dead
  /\ UNCHANGED <<db, listening, arrived, queued, handler, link, page, faults>>
-----------------------------------------------------------------------------
(* websocket_pipeline *)

Close(s) ==
  /\ handler' = [handler EXCEPT ![s] = "none"] /\ pool' = pool \ {s}

\* The token is good: manager.track, or 1013 when the account has too many.
Track(s) ==
  /\ handler[s] = "accepted" /\ up[s]
  /\ IF Cardinality(pool) < Limit
       THEN /\ handler' = [handler EXCEPT ![s] = "tracked"]
            /\ pool' = pool \cup {s}
       ELSE Close(s)
  /\ UNCHANGED <<db, hub, link, page, faults>>

\* A token the API rejects, or a first message that is late or malformed.
Reject(s) ==
  /\ handler[s] = "accepted"
  /\ up[s] => Fault
  /\ ~up[s] => UNCHANGED faults
  /\ Close(s)
  /\ UNCHANGED <<db, hub, link, page>>

\* The current state, or the same shape with the reason why there is none.
SendState(s) ==
  /\ handler[s] = "tracked"
  /\ handler' = [handler EXCEPT ![s] = "live"]
  /\ wire' = [wire EXCEPT ![s] = IF up[s] THEN @ \cup {Hello} ELSE @]
  /\ UNCHANGED <<db, hub, pool, up, page, faults>>

\* Mutant of Deadline: checked on traffic only, and a ghost sends none.
DeadlineOnTraffic(s) ==
  /\ handler[s] = "live" /\ up[s]
  /\ Close(s)
  /\ UNCHANGED <<db, hub, link, page, faults>>

\* The token's expiry or 900 s, whichever comes first: 4003.
Deadline(s) ==
  /\ handler[s] = "live"
  /\ Close(s)
  /\ UNCHANGED <<db, hub, link, page, faults>>

\* WebSocketDisconnect, from a send or from receive_text.
Disconnect(s) ==
  /\ handler[s] \in {"tracked", "live"} /\ ~up[s]
  /\ Close(s)
  /\ UNCHANGED <<db, hub, link, page, faults>>

\* The API's process is restarted: everything it held is gone, what was on the
\* way to the pages too.
Restart ==
  /\ Fault
  /\ listening' = FALSE /\ arrived' = {} /\ queued' = {} /\ sends' = {}
  /\ pool' = {} /\ handler' = [s \in Sockets |-> "none"]
  /\ wire' = [s \in Sockets |-> {}]
  /\ UNCHANGED <<db, up, page>>
-----------------------------------------------------------------------------
(* useWebSocket and usePipelineStatus *)

\* The name is free: no page, handler or broadcast means an earlier socket by it.
Unused(s) ==
  /\ handler[s] = "none" /\ s \notin pool
  /\ \A p \in Pages : sock[p] # s
  /\ \A b \in sends : s \notin b.left \cup b.dead

\* connect, at first and after each backoff; accept, onopen, the auth frame.
Connect(p, s) ==
  /\ sock[p] = None /\ Unused(s)
  /\ sock' = [sock EXCEPT ![p] = s]
  /\ handler' = [handler EXCEPT ![s] = "accepted"]
  /\ up' = [up EXCEPT ![s] = TRUE] /\ wire' = [wire EXCEPT ![s] = {}]
  /\ UNCHANGED <<db, hub, pool, fetch, view, excused, faults>>

\* Nobody is told when a link breaks.
Break(s) ==
  /\ up[s] /\ Fault
  /\ up' = [up EXCEPT ![s] = FALSE] /\ wire' = [wire EXCEPT ![s] = {}]
  /\ UNCHANGED <<db, hub, server, page>>

\* onclose: the API closed the socket, or the browser gave up on the link.
OnClose(p) ==
  LET s == sock[p] IN
  /\ s # None
  /\ (handler[s] = "none" /\ wire[s] = {}) \/ ~up[s]
  /\ sock' = [sock EXCEPT ![p] = None] /\ up' = [up EXCEPT ![s] = FALSE]
  /\ UNCHANGED <<db, hub, server, wire, fetch, view, excused, faults>>

Ask(p) ==
  /\ fetch' = [fetch EXCEPT ![p] = Asked]
  /\ excused' = [excused EXCEPT ![p] = FALSE]

\* Mutant of Invalidate: a request under way is good enough.
InvalidateMerged(p) ==
  IF fetch[p] = None THEN Ask(p) ELSE UNCHANGED <<fetch, excused>>

\* invalidateQueries asks again, and drops the answer of a request under way -
\* unless the page has no data yet: then it waits for that request.
Invalidate(p) ==
  IF view[p] # None \/ fetch[p] \in {None, Asked} THEN Ask(p)
  ELSE excused' = [excused EXCEPT ![p] = TRUE] /\ UNCHANGED fetch

\* onmessage
OnMessage(p, m) ==
  LET s == sock[p] IN
  /\ s # None /\ up[s] /\ m \in wire[s]
  /\ wire' = [wire EXCEPT ![s] = @ \ {m}]
  /\ Invalidate(p)
  /\ UNCHANGED <<db, hub, server, up, sock, view, faults>>

\* Mutant of Poll: no polling while the page is connected.
PollUnlessConnected(p) ==
  /\ fetch[p] = None /\ sock[p] = None /\ Ask(p)
  /\ UNCHANGED <<db, hub, server, link, sock, view, faults>>

\* refetchInterval: every 5 minutes when connected, 10 s or 60 s when not.
Poll(p) ==
  /\ fetch[p] = None /\ Ask(p)
  /\ UNCHANGED <<db, hub, server, link, sock, view, faults>>

\* GET /api/pipeline/status reads the table ...
Read(p) ==
  /\ fetch[p] = Asked
  /\ fetch' = [fetch EXCEPT ![p] = row]
  /\ UNCHANGED <<db, hub, server, link, sock, view, excused, faults>>

\* ... and the page shows what it read.
Answer(p) ==
  /\ fetch[p] \notin {None, Asked}
  /\ view' = [view EXCEPT ![p] = fetch[p]]
  /\ fetch' = [fetch EXCEPT ![p] = None]
  /\ UNCHANGED <<db, hub, server, link, sock, excused, faults>>

\* Both attempts failed; the page keeps what it shows.
FetchFails(p) ==
  /\ fetch[p] # None /\ Fault
  /\ fetch' = [fetch EXCEPT ![p] = None]
  /\ excused' = [excused EXCEPT ![p] = TRUE]
  /\ UNCHANGED <<db, hub, server, link, sock, view>>
-----------------------------------------------------------------------------
Writer == Write \/ WriteSilently \/ \E v \in Changes : Notify(v) \/ DiesUnannounced(v)
Hub ==
  \/ ListenerConnects \/ ListenerDrops
  \/ \E v \in Changes : Callback(v) \/ StartBroadcast(v)
  \/ \E b \in sends : EndBroadcast(b) \/ \E s \in Sockets : SendTo(b, s)
Socket(s) ==
  Track(s) \/ Reject(s) \/ SendState(s) \/ Deadline(s) \/ Disconnect(s) \/ Break(s)
Page(p) ==
  \/ \E s \in Sockets : Connect(p, s)
  \/ OnClose(p) \/ Poll(p) \/ Read(p) \/ Answer(p) \/ FetchFails(p)
  \/ \E m \in Changes \cup {Hello} : OnMessage(p, m)

Next == Writer \/ Hub \/ Restart \/ (\E s \in Sockets : Socket(s)) \/ (\E p \in Pages : Page(p))

Spec == Init /\ [][Next]_vars

\* Timers fire, the API's loop runs, and a request takes less time than a session
\* lasts.  A writer owes nothing, nor does the listener, and a page need not
\* notice a dead link.
Fairness ==
  /\ \A s \in Sockets :
       WF_vars(Track(s)) /\ WF_vars(Reject(s)) /\ WF_vars(SendState(s)) /\ WF_vars(Deadline(s))
  /\ WF_vars(\E b \in sends : EndBroadcast(b) \/ \E s \in Sockets : SendTo(b, s))
  /\ \A p \in Pages :
       /\ WF_vars(\E s \in Sockets : Connect(p, s))
       /\ WF_vars(OnClose(p) /\ up[sock[p]])
       /\ WF_vars(\E m \in Changes \cup {Hello} : OnMessage(p, m))
       /\ WF_vars(Poll(p)) /\ WF_vars(Read(p)) /\ SF_vars(Answer(p))
FairSpec == Spec /\ Fairness
-----------------------------------------------------------------------------
TypeOK ==
  /\ row \in 0 .. MaxChanges /\ toNotify \subseteq Changes /\ unheard \in BOOLEAN
  /\ listening \in BOOLEAN /\ arrived \subseteq Changes /\ queued \subseteq Changes
  /\ sends \subseteq [note : Changes, left : SUBSET Sockets, dead : SUBSET Sockets]
  /\ pool \subseteq Sockets
  /\ handler \in [Sockets -> {"none", "accepted", "tracked", "live"}]
  /\ up \in [Sockets -> BOOLEAN] /\ wire \in [Sockets -> SUBSET (Changes \cup {Hello})]
  /\ sock \in [Pages -> Sockets \cup {None}]
  /\ fetch \in [Pages -> {None, Asked} \cup (0 .. MaxChanges)]
  /\ view \in [Pages -> (0 .. MaxChanges) \cup {None}] /\ excused \in [Pages -> BOOLEAN]
  /\ faults \in 0 .. MaxFaults

\* The page has a working socket in the pool; its first state is sent.
Joined(p) == sock[p] # None /\ up[sock[p]] /\ handler[sock[p]] = "live"

\* A newer state is sure to reach the page: it is asking, or a message is on its
\* way to it.
Coming(p) ==
  \/ fetch[p] \in {Asked, row}
  \/ wire[sock[p]] # {}
  \/ row \in toNotify \cup arrived \cup queued
  \/ \E b \in sends : sock[p] \in b.left

\* A page that joined is behind the row only while a newer state is on its way,
\* whatever it connected, lost and missed before: it was tracked before its first
\* state was sent, and the first state makes it ask.  The exceptions are those
\* of the code: the newest change's notification was lost, or the page's own
\* request failed or came too early.  (ws.py websocket_pipeline, ws_manager.py
\* broadcast, use-websocket.ts)
NoGap ==
  \A p \in Pages : Joined(p) /\ view[p] # row => Coming(p) \/ unheard \/ excused[p]

\* Whatever is lost, every page shows the final row in the end: it polls even
\* while it is connected (use-pipeline.ts refetchInterval).
Converges == \A p \in Pages : <>[](view[p] = row)

\* A page whose link broke gets back: neither the sockets it left behind nor the
\* account's limit shuts it out for good, unless the browser never notices
\* (ws.py deadline, ws_manager.py track).
ComesBack ==
  \A p \in Pages : []<>(Joined(p) \/ (sock[p] # None /\ ~up[sock[p]]))
-----------------------------------------------------------------------------
(* The inductive invariant behind NoGap *)

\* A socket whose handler and link work is in the pool: a broadcast removes only
\* sockets it could not send to.
Pooled == \A s \in Sockets : handler[s] \in {"tracked", "live"} /\ up[s] => s \in pool
DeadAreGone == \A b \in sends : \A s \in b.dead : ~up[s] \/ handler[s] = "none"

OwnSocket == \A p, q \in Pages : sock[p] = sock[q] /\ sock[p] # None => p = q

\* What a page shows, what its request read and the row are in that order.
NeverBack ==
  \A p \in Pages :
    /\ view[p] # None => view[p] <= row
    /\ fetch[p] \notin {None, Asked} =>
         fetch[p] <= row /\ (view[p] # None => view[p] <= fetch[p])

IInv == TypeOK /\ Pooled /\ DeadAreGone /\ OwnSocket /\ NeverBack /\ NoGap
=============================================================================
