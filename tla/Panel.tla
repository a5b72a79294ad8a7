------------------------------- MODULE Panel -------------------------------
(***************************************************************************)
(* The investigation panel of one browser tab: which session it shows, the *)
(* exchange it streams beside the stored history it has cached, and the    *)
(* requests that are to bring the one into the other.  What the API does   *)
(* with a message is Investigation's subject; here it stores rows and      *)
(* sends events.                                                           *)
(*                                                                         *)
(* A panel that is closed and opened is a new mount: the callbacks of the  *)
(* old one run on and change the query cache, but no state of the new one. *)
(* Another tab may create and complete sessions.  Creating a session,      *)
(* completing one and saving a pin are a step each.  An exchange makes one *)
(* tool call at most, which proposes a pin.                                *)
(***************************************************************************)
EXTENDS Naturals, Sequences, FiniteSets

CONSTANTS
  Sessions,   \* ids of sessions, in the order they are created
  Asked,      \* messages this tab may send
  SessionTurns, \* max_turns
  MaxMounts,  \* how often the panel is opened
  Nobody,     \* no message
  NoData,     \* nothing cached
  Idle, Awaited  \* a query that asks for nothing, one whose answer has not been read yet

ASSUME PanelAssumption ==
  /\ IsFiniteSet(Sessions) /\ Sessions = 1..Cardinality(Sessions)
  /\ {SessionTurns, MaxMounts} \subseteq Nat \ {0} /\ Nobody \notin Asked

\* What the API keeps of an exchange, and what it answers for a session.
Kinds == {"user", "tool", "answer"}
Statuses == {"none", "active", "completed"}
Answers == [status : Statuses, rows : SUBSET (Asked \X Kinds), pins : SUBSET Asked]

ASSUME NothingAssumption ==
  Idle # Awaited /\ \A nothing \in {Idle, Awaited, NoData} : nothing \notin Answers

VARIABLES
  status, rows, pins,     \* the API's: of each session its status, messages and pins
  post,                   \* each message: its session, mount and the API's progress
  wire, left,             \* events on their way; messages whose stream was aborted
  mount, open,            \* the panel
  selected,               \* selectedSessionId, or 0
  list, listReq,          \* the cached list of sessions and its request
  detail, req,            \* the cached sessions and their requests
  clears,                 \* mounts whose clearLiveExchange awaits a session's request
  liveUser, live,         \* liveUserMsg, liveEntries
  streaming,              \* the message that isStreaming is for
  proposals,              \* pins proposed
  excused, watched        \* history: sessions whose cached data are old for a known
                          \* reason; the message sent last, in the session that has
                          \* been in view since

server == <<status, rows, pins>>
streams == <<post, wire, left>>
page == <<mount, open, selected>>
cache == <<list, listReq, detail, req, clears>>
exchange == <<liveUser, live, streaming>>
panel == <<server, streams, page, cache, exchange, proposals, excused, watched>>

Request == {Idle, Awaited}

PanelInit ==
  /\ status = [s \in Sessions |-> IF s = 1 THEN "active" ELSE "none"]
  /\ rows = [s \in Sessions |-> {}] /\ pins = [s \in Sessions |-> {}]
  /\ post = [m \in Asked |-> [session |-> 0, mount |-> 0, at |-> "unsent"]]
  /\ wire = [m \in Asked |-> <<>>] /\ left = {}
  /\ mount = 0 /\ open = FALSE /\ selected = 0
  /\ list = NoData /\ listReq = Idle
  /\ detail = [s \in Sessions |-> NoData] /\ req = [s \in Sessions |-> Idle]
  /\ clears = [s \in Sessions |-> {}]
  /\ liveUser = Nobody /\ live = {} /\ streaming = Nobody
  /\ proposals = {} /\ excused = {} /\ watched = Nobody
-----------------------------------------------------------------------------
(* What is shown.                                                          *)

\* An explicit selection, or the newest session that the cached list has as active.
ShownOf(sel, l) ==
  LET active == IF l = NoData THEN {} ELSE {s \in Sessions : l[s] = "active"}
  IN  IF sel # 0 THEN sel
      ELSE IF active = {} THEN 0 ELSE CHOOSE s \in active : \A t \in active : t <= s

Shown == IF open THEN ShownOf(selected, list) ELSE 0

Loaded == Shown # 0 /\ detail[Shown] # NoData
IsActive == Loaded /\ detail[Shown].status = "active"
UserTurns == Cardinality({m \in Asked : <<m, "user">> \in detail[Shown].rows})

\* State of the panel that a session switched to does not keep.
Reset == liveUser' = Nobody /\ live' = {} /\ proposals' = {} /\ watched' = Nobody

\* A session that comes into view is asked for, or its request under way is joined.
Fetch(r, s) == IF s # 0 /\ r[s] = Idle THEN [r EXCEPT ![s] = Awaited] ELSE r

\* invalidateQueries: the query in view is asked for anew; one that is not is asked
\* for when it comes into view.
Invalidated(s) == IF Shown = s THEN [req EXCEPT ![s] = Awaited] ELSE req

\* The request that this one joins when it comes into view has been answered before.
Overtaken(s) == Shown # s /\ req[s] \notin Request

ClearLive == liveUser' = Nobody /\ live' = {}

\* The text of an answer that has just arrived.
Text(m) == IF m = Nobody THEN {} ELSE {<<m, "answer">>}

\* Mutant of Finalise: the live exchange is cleared first.
FinaliseEagerly(s, k, m) ==
  /\ req' = Invalidated(s) /\ UNCHANGED clears
  /\ IF k = mount /\ open THEN ClearLive ELSE UNCHANGED <<liveUser, live>>

\* finaliseExchange in the mount k: refetch, then clear what it streams.  Nothing is
\* fetched for a session out of view, and the clearing follows at once.
Finalise(s, k, m) ==
  /\ req' = Invalidated(s)
  /\ IF Shown = s
     THEN /\ clears' = [clears EXCEPT ![s] = @ \cup {k}]
          /\ live' = IF k = mount THEN live \cup Text(m) ELSE live
          /\ UNCHANGED liveUser
     ELSE /\ UNCHANGED clears
          /\ IF k = mount /\ open THEN ClearLive ELSE UNCHANGED <<liveUser, live>>
-----------------------------------------------------------------------------
(* The analyst.                                                            *)

OpenPanel ==
  /\ ~open /\ mount < MaxMounts
  /\ open' = TRUE /\ mount' = mount + 1 /\ selected' = 0
  /\ listReq' = Awaited /\ req' = Fetch(req, ShownOf(0, list))
  /\ Reset /\ streaming' = Nobody
  /\ UNCHANGED <<server, streams, list, detail, clears, excused>>

\* The stream is not aborted.
ClosePanel ==
  /\ open /\ open' = FALSE
  /\ Reset /\ streaming' = Nobody
  /\ UNCHANGED <<server, streams, mount, selected, cache, excused>>

\* Start Investigation, or New Session beside one that is read-only.
NewSession ==
  /\ open /\ list # NoData /\ (Shown = 0 \/ (Loaded /\ ~IsActive))
  /\ \E s \in Sessions :
       /\ status[s] = "none" /\ \A t \in Sessions : t < s => status[t] # "none"
       /\ status' = [status EXCEPT ![s] = "active"] /\ selected' = s
       /\ req' = Fetch(req, s)
  /\ listReq' = Awaited /\ Reset
  /\ UNCHANGED <<rows, pins, streams, mount, open, list, detail, clears, streaming,
                 excused>>

SelectPrevious(s) ==
  /\ open /\ Shown = 0 /\ list # NoData /\ list[s] = "completed"
  /\ selected' = s /\ req' = Fetch(req, s) /\ Reset
  /\ UNCHANGED <<server, streams, mount, open, list, listReq, detail, clears, streaming,
                 excused>>

CompleteShown ==
  /\ IsActive /\ streaming = Nobody
  /\ status' = [status EXCEPT ![Shown] = "completed"]
  /\ req' = Invalidated(Shown) /\ listReq' = Awaited
  /\ UNCHANGED <<rows, pins, streams, page, list, detail, clears, exchange, proposals,
                 excused, watched>>

Post(m) ==
  /\ IsActive /\ streaming = Nobody /\ post[m].at = "unsent"
  /\ UserTurns + (IF liveUser # Nobody THEN 1 ELSE 0) < SessionTurns
  /\ post' = [post EXCEPT ![m] = [session |-> Shown, mount |-> mount, at |-> "asked"]]
  /\ streaming' = m /\ liveUser' = m /\ live' = {}
  /\ watched' = IF \E s \in Sessions : mount \in clears[s] THEN Nobody ELSE m
  /\ UNCHANGED <<server, wire, left, page, cache, proposals, excused>>

\* handleAbort: the session refetched is the one in view.
Abort ==
  /\ Shown # 0 /\ streaming # Nobody
  /\ left' = left \cup {streaming} /\ streaming' = Nobody
  /\ Finalise(Shown, mount, Nobody) /\ watched' = Nobody
  /\ UNCHANGED <<server, post, wire, page, list, listReq, detail, proposals, excused>>

\* Mutant of ConfirmPin: the proposal goes, the session is not asked for.
ConfirmPinOnly(m) ==
  /\ Loaded /\ m \in proposals
  /\ pins' = [pins EXCEPT ![Shown] = @ \cup {m}] /\ proposals' = proposals \ {m}
  /\ UNCHANGED <<status, rows, streams, page, cache, exchange, excused, watched>>

ConfirmPin(m) ==
  /\ Loaded /\ m \in proposals
  /\ pins' = [pins EXCEPT ![Shown] = @ \cup {m}] /\ proposals' = proposals \ {m}
  /\ req' = Invalidated(Shown)
  /\ UNCHANGED <<status, rows, streams, page, list, listReq, detail, clears, exchange,
                 excused, watched>>

Dismiss(m) ==
  /\ Loaded /\ m \in proposals /\ proposals' = proposals \ {m}
  /\ UNCHANGED <<server, streams, page, cache, exchange, excused, watched>>
-----------------------------------------------------------------------------
(* The API.                                                                *)

At(m, place) == post' = [post EXCEPT ![m].at = place]
Sends(m, events) == wire' = [wire EXCEPT ![m] = @ \o events]
Stores(m, kind) == rows' = [rows EXCEPT ![post[m].session] = @ \cup {<<m, kind>>}]

Acceptable(s) ==
  status[s] = "active" /\ Cardinality({m \in Asked : <<m, "user">> \in rows[s]}) < SessionTurns

ApiSame == UNCHANGED <<status, pins, left, page, cache, exchange, proposals, excused, watched>>

Accept(m) ==
  /\ post[m].at = "asked" /\ Acceptable(post[m].session)
  /\ Stores(m, "user") /\ At(m, "open") /\ UNCHANGED wire /\ ApiSame

Refuse(m) ==
  /\ post[m].at = "asked" /\ ~Acceptable(post[m].session)
  /\ Sends(m, <<"error">>) /\ At(m, "over") /\ UNCHANGED rows /\ ApiSame

\* The rows of a call are committed before its events are sent.
UseTool(m) ==
  /\ post[m].at = "open" /\ <<m, "tool">> \notin rows[post[m].session]
  /\ Stores(m, "tool") /\ Sends(m, <<"tool">>) /\ UNCHANGED post /\ ApiSame

\* The text is on its way before it is stored; text that is not stored is left out.
Answer(m) ==
  /\ post[m].at = "open" /\ Stores(m, "answer") /\ Sends(m, <<"answer">>) /\ At(m, "over")
  /\ ApiSame

\* An error of the model or of the API, a connection lost, a client that went away.
Breaks(m) ==
  /\ post[m].at \in {"asked", "open"} /\ Sends(m, <<"error">>) /\ At(m, "over")
  /\ UNCHANGED rows /\ ApiSame

OtherTab ==
  /\ \E s \in Sessions :
       \/ /\ status[s] = "active" /\ status' = [status EXCEPT ![s] = "completed"]
       \/ /\ status[s] = "none" /\ \A t \in Sessions : t < s => status[t] # "none"
          /\ status' = [status EXCEPT ![s] = "active"]
  /\ UNCHANGED <<rows, pins, streams, page, cache, exchange, proposals, excused, watched>>
-----------------------------------------------------------------------------
(* Events and answers.                                                     *)

Mine(m) == open /\ post[m].mount = mount

\* handleEvent.  An entry is appended to what is in view, whosever it is.  "done"
\* finalises the session the message was sent in: the callback is the one of the
\* render that sent it.
Receive(m) ==
  /\ wire[m] # <<>> /\ m \notin left
  /\ wire' = [wire EXCEPT ![m] = Tail(@)]
  /\ CASE Head(wire[m]) = "tool" ->
            /\ IF Mine(m) THEN live' = live \cup {<<m, "tool">>} /\ proposals' = proposals \cup {m}
                          ELSE UNCHANGED <<live, proposals>>
            /\ UNCHANGED <<req, listReq, clears, liveUser, excused>>
       [] Head(wire[m]) = "answer" ->
            /\ Finalise(post[m].session, post[m].mount, m) /\ UNCHANGED proposals
            /\ listReq' = IF open THEN Awaited ELSE listReq
            /\ excused' = IF Overtaken(post[m].session)
                          THEN excused \cup {post[m].session} ELSE excused
       [] Head(wire[m]) = "error" ->
            UNCHANGED <<req, listReq, clears, liveUser, live, proposals, excused>>
  /\ UNCHANGED <<server, post, left, page, list, detail, streaming, watched>>

EndOfStream(m) ==
  /\ post[m].at = "over" /\ wire[m] = <<>> /\ streaming = m /\ streaming' = Nobody
  /\ UNCHANGED <<server, streams, page, cache, liveUser, live, proposals, excused, watched>>

ReadDetail(s) ==
  /\ req[s] = Awaited
  /\ req' = [req EXCEPT ![s] = [status |-> status[s], rows |-> rows[s], pins |-> pins[s]]]
  /\ excused' = excused \ {s}
  /\ UNCHANGED <<server, streams, page, list, listReq, detail, clears, exchange, proposals,
                 watched>>

\* The request is settled: who waits for it clears, whatever it brought.
Settle(s) ==
  /\ req' = [req EXCEPT ![s] = Idle] /\ clears' = [clears EXCEPT ![s] = {}]
  /\ IF open /\ mount \in clears[s] THEN ClearLive ELSE UNCHANGED <<liveUser, live>>

DetailArrives(s) ==
  /\ req[s] \notin Request /\ detail' = [detail EXCEPT ![s] = req[s]] /\ Settle(s)
  /\ UNCHANGED <<server, streams, page, list, listReq, streaming, proposals, excused, watched>>

\* A refetch that fails twice (retry) leaves the data there was.
DetailFails(s) ==
  /\ req[s] # Idle /\ detail[s] # NoData /\ Settle(s)
  /\ excused' = excused \cup {s}
  /\ watched' = Nobody
  /\ UNCHANGED <<server, streams, page, list, listReq, detail, streaming, proposals>>

\* In one step: what an old list would do another tab may do a moment later.
ListArrives ==
  /\ listReq = Awaited /\ list' = status /\ listReq' = Idle
  /\ LET next == IF open THEN ShownOf(selected, status) ELSE 0 IN
       IF next # Shown THEN Reset /\ req' = Fetch(req, next)
       ELSE UNCHANGED <<liveUser, live, proposals, watched, req>>
  /\ UNCHANGED <<server, streams, page, detail, clears, streaming, excused>>
-----------------------------------------------------------------------------
Api ==
  \/ \E m \in Asked :
       Accept(m) \/ Refuse(m) \/ UseTool(m) \/ Answer(m) \/ Breaks(m)
  \/ \E s \in Sessions : ReadDetail(s)
  \/ OtherTab

Analyst ==
  \/ OpenPanel \/ ClosePanel \/ NewSession \/ CompleteShown \/ Abort
  \/ \E s \in Sessions : SelectPrevious(s)
  \/ \E m \in Asked : Post(m) \/ ConfirmPin(m) \/ Dismiss(m)

Callbacks ==
  \/ \E m \in Asked : Receive(m) \/ EndOfStream(m)
  \/ \E s \in Sessions : DetailArrives(s) \/ DetailFails(s)
  \/ ListArrives

PanelNext == Api \/ Analyst \/ Callbacks

PanelSpec == PanelInit /\ [][PanelNext]_panel
-----------------------------------------------------------------------------
OnScreen(m, kind) ==
  \/ <<m, kind>> \in detail[Shown].rows
  \/ kind = "user" /\ liveUser = m
  \/ <<m, kind>> \in live

\* What the panel has been told of an exchange.
Told(m) ==
  {"user"} \cup {kind \in {"tool", "answer"} :
     /\ <<m, kind>> \in rows[post[m].session]
     /\ kind \notin {wire[m][i] : i \in DOMAIN wire[m]}}

\* investigation-panel.tsx, "so there's no gap": as long as its session stays in view
\* the message sent last, and what it has been told of its exchange, is on the
\* screen, live or from the history.  (A message sent before the last exchange was
\* folded in loses its line; and a refetch that fails clears the exchange, too.)
NoGapInView ==
  watched # Nobody => \A kind \in Told(watched) : OnScreen(watched, kind)

Quiet ==
  /\ listReq = Idle /\ \A s \in Sessions : req[s] = Idle
  /\ \A m \in Asked : post[m].at \in {"unsent", "over"} /\ (m \in left \/ wire[m] = <<>>)

Answered(m) ==
  post[m].session # 0 /\ m \notin left /\ <<m, "answer">> \in rows[post[m].session]

\* When nothing is under way, the session in view shows every exchange that was
\* answered and every pin that was saved, once: from the history, and not live as
\* well.
QuietShows ==
  Quiet /\ Loaded /\ Shown \notin excused =>
    /\ \A m \in Asked : Answered(m) /\ post[m].session = Shown =>
         \A kind \in {"user", "tool", "answer"} :
           <<m, kind>> \in rows[Shown] => <<m, kind>> \in detail[Shown].rows
    /\ pins[Shown] = detail[Shown].pins
    /\ \A m \in Asked : Answered(m) => liveUser # m /\ {e \in live : e[1] = m} = {}
-----------------------------------------------------------------------------
(* The inductive invariant.                                                *)

PanelType ==
  /\ status \in [Sessions -> Statuses] /\ pins \in [Sessions -> SUBSET Asked]
  /\ rows \in [Sessions -> SUBSET (Asked \X Kinds)]
  /\ post \in [Asked -> [session : Sessions \cup {0}, mount : Nat,
                         at : {"unsent", "asked", "open", "over"}]]
  /\ wire \in [Asked -> Seq({"tool", "answer", "error"})] /\ left \subseteq Asked
  /\ mount \in Nat /\ open \in BOOLEAN /\ selected \in Sessions \cup {0}
  /\ detail \in [Sessions -> Answers \cup {NoData}] /\ req \in [Sessions -> Answers \cup Request]
  /\ clears \in [Sessions -> SUBSET Nat] /\ live \subseteq Asked \X Kinds
  /\ proposals \subseteq Asked /\ {liveUser, streaming, watched} \subseteq Asked \cup {Nobody}

RowsOf(m) == {kind \in Kinds : <<m, kind>> \in rows[post[m].session]}

\* An exchange is stored in its order; its answer is the last event on the wire.
InOrder(m) ==
  /\ post[m].at = "unsent" => m \notin left /\ \A s \in Sessions, kind \in Kinds : <<m, kind>> \notin rows[s]
  /\ post[m].at # "unsent" => post[m].session \in Sessions /\ post[m].mount <= mount
  /\ post[m].at = "asked" => RowsOf(m) = {}
  /\ post[m].at \in {"unsent", "asked"} => wire[m] = <<>>
  /\ post[m].at = "open" => "user" \in RowsOf(m)
  /\ post[m].at # "unsent" /\ "answer" \in RowsOf(m) =>
       /\ "user" \in RowsOf(m) /\ post[m].at = "over"
       /\ wire[m] # <<>> => wire[m][Len(wire[m])] = "answer"
  /\ \A i \in DOMAIN wire[m] :
       wire[m][i] = "answer" => i = Len(wire[m]) /\ "answer" \in RowsOf(m)

\* The panel streams the one exchange of its mount that is not over.
OneStream ==
  /\ streaming # Nobody => post[streaming].at # "unsent"
  /\ \A m \in Asked :
       /\ open /\ post[m].mount = mount /\ post[m].at # "unsent" /\ m \notin left
       /\ post[m].at # "over" \/ wire[m] # <<>>
       => streaming = m

\* A request under way brings what there was and every pin; who waits for one waits
\* for one under way.
Requested ==
  \A s \in Sessions :
    /\ clears[s] # {} => req[s] # Idle
    /\ detail[s] # NoData => detail[s].rows \subseteq rows[s]
    /\ req[s] \notin Request =>
         /\ req[s].pins = pins[s] /\ req[s].rows \subseteq rows[s]
         /\ detail[s] # NoData => detail[s].rows \subseteq req[s].rows
    /\ req[s] = Idle /\ detail[s] # NoData /\ s \notin excused => detail[s].pins = pins[s]

\* The panel has read the answer.
Landed(m) == post[m].at # "unsent" /\ m \notin left /\ "answer" \in RowsOf(m) /\ wire[m] = <<>>

\* A landed exchange is in the history that is in view, or in the one on its way.
Fresh ==
  \A m \in Asked : LET s == post[m].session IN
    Landed(m) /\ s \notin excused =>
      /\ req[s] \notin Request => \A kind \in RowsOf(m) : <<m, kind>> \in req[s].rows
      /\ s = Shown /\ req[s] = Idle /\ detail[s] # NoData =>
           \A kind \in RowsOf(m) : <<m, kind>> \in detail[s].rows

\* What is shown live is of this mount, and goes when the history arrives.
LiveGoes ==
  \A m \in Asked : liveUser = m \/ (\E kind \in Kinds : <<m, kind>> \in live) =>
    /\ open /\ post[m].at # "unsent" /\ post[m].mount = mount
    /\ liveUser = m => post[m].session = Shown
    /\ Landed(m) => mount \in clears[post[m].session]

\* The exchange that is watched is the last, and only its own history replaces it.
Watching ==
  watched # Nobody =>
    /\ open /\ streaming \in {watched, Nobody} /\ watched \notin left
    /\ post[watched].at # "unsent" /\ post[watched].mount = mount
    /\ post[watched].session = Shown /\ detail[Shown] # NoData
    /\ \A s \in Sessions : mount \in clears[s] =>
         /\ s = Shown /\ post[watched].at = "over" /\ "user" \in RowsOf(watched)
         /\ req[s] \notin Request => \A kind \in RowsOf(watched) : <<watched, kind>> \in req[s].rows

PanelIInv ==
  /\ PanelType /\ OneStream /\ Requested /\ Fresh /\ LiveGoes /\ Watching /\ NoGapInView
  /\ \A m \in Asked : InOrder(m)
=============================================================================
