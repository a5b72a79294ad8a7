-------------------------- MODULE LiveStatusProofs --------------------------
(***************************************************************************)
(* Proofs about LiveStatus, for any pages, sockets, limit, changes and     *)
(* faults: types, and that a page that joined misses nothing announced.    *)
(***************************************************************************)
EXTENDS LiveStatus, TLAPS

\* What the steps of each actor leave alone.
LEMMA WriterFrame ==
  ASSUME Writer
  PROVE  UNCHANGED <<listening, queued, sends, server, link, page>>
BY DEF Writer, Write, Notify, DiesUnannounced, WriteSilently, hub

LEMMA HubFrame ==
  ASSUME Hub
  PROVE  UNCHANGED <<row, toNotify, handler, up, page>>
BY DEF Hub, ListenerConnects, ListenerDrops, Callback, StartBroadcast, SendTo, EndBroadcast,
       db, server, link, page

LEMMA SocketFrame ==
  ASSUME NEW s \in Sockets, Socket(s)
  PROVE  UNCHANGED <<db, hub, page>>
BY DEF Socket, Track, Reject, SendState, Deadline, Disconnect, Break

LEMMA PageFrame ==
  ASSUME NEW p \in Pages, Page(p)
  PROVE  UNCHANGED <<db, hub, pool>>
BY DEF Page, Connect, OnClose, Poll, Read, Answer, FetchFails, OnMessage, server
-----------------------------------------------------------------------------
(* Types *)

\* Init has the types.
LEMMA InitType ==
  ASSUME Init
  PROVE  TypeOK
<1>1. /\ row \in 0 .. MaxChanges /\ faults \in 0 .. MaxFaults
      /\ view \in [Pages -> (0 .. MaxChanges) \cup {None}]
      /\ fetch \in [Pages -> {None, Asked} \cup (0 .. MaxChanges)]
  BY LiveStatusAssumption DEF Init
<1>2. /\ handler \in [Sockets -> {"none", "accepted", "tracked", "live"}]
      /\ up \in [Sockets -> BOOLEAN] /\ wire \in [Sockets -> SUBSET (Changes \cup {Hello})]
      /\ sock \in [Pages -> Sockets \cup {None}] /\ excused \in [Pages -> BOOLEAN]
  BY DEF Init
<1> QED
  BY <1>1, <1>2 DEF Init, TypeOK

\* The count of faults stays within its bound.
LEMMA FaultType ==
  ASSUME TypeOK, Fault
  PROVE  faults' \in 0 .. MaxFaults
BY LiveStatusAssumption DEF Fault, TypeOK

\* The processes keep the types.
LEMMA WriterType ==
  ASSUME TypeOK, Writer
  PROVE  TypeOK'
<1>1. UNCHANGED <<listening, queued, sends, server, link, page>>
  BY WriterFrame
<1>0. ASSUME row < MaxChanges PROVE row + 1 \in Changes /\ row + 1 \in 0 .. MaxChanges
  BY <1>0, LiveStatusAssumption DEF TypeOK, Changes
<1>2. CASE Write
  BY <1>0, <1>2 DEF Write, TypeOK, hub, server, link, page
<1>3. CASE WriteSilently
  BY <1>0, <1>3 DEF WriteSilently, TypeOK, hub, server, link, page
<1>4. ASSUME NEW v \in Changes, Notify(v) PROVE TypeOK'
  BY <1>4, LiveStatusAssumption DEF Notify, TypeOK, Changes, server, link, page
<1>5. ASSUME NEW v \in Changes, DiesUnannounced(v) PROVE TypeOK'
  BY <1>5, LiveStatusAssumption DEF DiesUnannounced, Fault, TypeOK, Changes, hub, server, link, page
<1> QED
  BY <1>2, <1>3, <1>4, <1>5 DEF Writer

\* The hub keeps the types.
LEMMA HubType ==
  ASSUME TypeOK, Hub
  PROVE  TypeOK'
<1>1. UNCHANGED <<row, toNotify, handler, up, page>>
  BY HubFrame
<1>2. CASE ListenerConnects
  BY <1>2 DEF ListenerConnects, TypeOK, db, server, link, page
<1>3. CASE ListenerDrops
  BY <1>3, FaultType DEF ListenerDrops, TypeOK, server, link, page
<1>4. ASSUME NEW v \in Changes, Callback(v) PROVE TypeOK'
  BY <1>4 DEF Callback, TypeOK, db, server, link, page
<1>5. ASSUME NEW v \in Changes, StartBroadcast(v) PROVE TypeOK'
  <2>1. [note |-> v, left |-> pool, dead |-> {}]
          \in [note : Changes, left : SUBSET Sockets, dead : SUBSET Sockets]
    BY DEF TypeOK
  <2> QED
    BY <1>5, <2>1 DEF StartBroadcast, TypeOK, db, server, link, page
<1>6. ASSUME NEW b \in sends, EndBroadcast(b) PROVE TypeOK'
  BY <1>6 DEF EndBroadcast, TypeOK, db, server, link, page
<1>7. ASSUME NEW b \in sends, NEW s \in Sockets, SendTo(b, s) PROVE TypeOK'
  <2>1. /\ b.note \in Changes /\ b.left \in SUBSET Sockets /\ b.dead \in SUBSET Sockets
        /\ b = [note |-> b.note, left |-> b.left, dead |-> b.dead]
    BY DEF TypeOK
  <2>2. /\ [b EXCEPT !.left = @ \ {s}] \in [note : Changes, left : SUBSET Sockets, dead : SUBSET Sockets]
        /\ [b EXCEPT !.left = @ \ {s}, !.dead = @ \cup {s}]
             \in [note : Changes, left : SUBSET Sockets, dead : SUBSET Sockets]
    BY <2>1
  <2>3. sends' \subseteq [note : Changes, left : SUBSET Sockets, dead : SUBSET Sockets]
    <3>1. ASSUME NEW c \in [note : Changes, left : SUBSET Sockets, dead : SUBSET Sockets],
                 Replace(b, c)
          PROVE  sends' \subseteq [note : Changes, left : SUBSET Sockets, dead : SUBSET Sockets]
      BY <3>1 DEF Replace, TypeOK
    <3> QED
      BY <1>7, <2>2, <3>1 DEF SendTo
  <2>4. wire' \in [Sockets -> SUBSET (Changes \cup {Hello})]
    BY <1>7, <2>1 DEF SendTo, TypeOK
  <2> QED
    BY <1>7, <2>3, <2>4 DEF SendTo, TypeOK, db, server, page
<1> QED
  BY <1>2, <1>3, <1>4, <1>5, <1>6, <1>7 DEF Hub

\* The handlers and links keep the types.
LEMMA SocketType ==
  ASSUME TypeOK, NEW s \in Sockets, Socket(s)
  PROVE  TypeOK'
<1>1. CASE Track(s)
  BY <1>1 DEF Track, Close, TypeOK, db, hub, link, page
<1>2. CASE Reject(s)
  BY <1>2, LiveStatusAssumption DEF Reject, Close, Fault, TypeOK, db, hub, link, page
<1>3. CASE SendState(s)
  BY <1>3 DEF SendState, TypeOK, db, hub, page
<1>4. CASE Deadline(s)
  BY <1>4 DEF Deadline, Close, TypeOK, db, hub, link, page
<1>5. CASE Disconnect(s)
  BY <1>5 DEF Disconnect, Close, TypeOK, db, hub, link, page
<1>6. CASE Break(s)
  BY <1>6, LiveStatusAssumption DEF Break, Fault, TypeOK, db, hub, server, page
<1> QED
  BY <1>1, <1>2, <1>3, <1>4, <1>5, <1>6 DEF Socket

\* The pages keep the types.
LEMMA PageType ==
  ASSUME TypeOK, NEW p \in Pages, Page(p)
  PROVE  TypeOK'
<1>1. ASSUME NEW s \in Sockets, Connect(p, s) PROVE TypeOK'
  BY <1>1 DEF Connect, TypeOK, db, hub
<1>2. CASE OnClose(p)
  BY <1>2 DEF OnClose, TypeOK, db, hub, server
<1>3. CASE Poll(p)
  BY <1>3 DEF Poll, Ask, TypeOK, db, hub, server, link
<1>4. CASE Read(p)
  BY <1>4 DEF Read, TypeOK, db, hub, server, link
<1>5. CASE Answer(p)
  BY <1>5 DEF Answer, TypeOK, db, hub, server, link
<1>6. CASE FetchFails(p)
  BY <1>6, LiveStatusAssumption DEF FetchFails, Fault, TypeOK, db, hub, server, link
<1>7. ASSUME NEW m \in Changes \cup {Hello}, OnMessage(p, m) PROVE TypeOK'
  BY <1>7 DEF OnMessage, Invalidate, Ask, TypeOK, db, hub, server
<1> QED
  BY <1>1, <1>2, <1>3, <1>4, <1>5, <1>6, <1>7 DEF Page

\* A restart keeps the types.
LEMMA RestartType ==
  ASSUME TypeOK, Restart
  PROVE  TypeOK'
<1>1. faults' \in 0 .. MaxFaults
  BY FaultType DEF Restart
<1>2. /\ handler' \in [Sockets -> {"none", "accepted", "tracked", "live"}]
      /\ wire' \in [Sockets -> SUBSET (Changes \cup {Hello})]
  BY DEF Restart
<1> QED
  BY <1>1, <1>2 DEF Restart, TypeOK, db, page

\* Every step keeps the types.
LEMMA StepType ==
  ASSUME TypeOK, [Next]_vars
  PROVE  TypeOK'
<1>1. CASE UNCHANGED vars
  BY <1>1 DEF TypeOK, vars, db, hub, server, link, page
<1>2. CASE Next
  BY <1>2, WriterType, HubType, SocketType, PageType, RestartType DEF Next
<1> QED
  BY <1>1, <1>2

\* The variables of the live status keep their types: at most MaxChanges
\* changes are announced, and a page's socket is one of the API's or none
\* (ws_manager.py, use-websocket.ts).
THEOREM TypeCorrect == Spec => []TypeOK
<1>1. Init => TypeOK
  BY InitType
<1>2. TypeOK /\ [Next]_vars => TypeOK'
  BY StepType
<1> QED
  BY <1>1, <1>2, PTL DEF Spec
-----------------------------------------------------------------------------
(* The pool *)

\* A broadcast's failed sockets stay failed: their names are not used again.
LEMMA StepDead ==
  ASSUME TypeOK, DeadAreGone, [Next]_vars
  PROVE  DeadAreGone'
<1>1. CASE UNCHANGED vars
  BY <1>1 DEF DeadAreGone, vars, hub, server, link
<1>2. CASE Writer
  BY <1>2, WriterFrame DEF DeadAreGone, server, link
<1>3. CASE Hub
  <2>1. UNCHANGED <<handler, up>>
    BY <1>3, HubFrame
  <2>2. CASE ListenerConnects \/ ListenerDrops \/ \E v \in Changes : Callback(v)
    BY <2>1, <2>2 DEF ListenerConnects, ListenerDrops, Callback, DeadAreGone
  <2>3. ASSUME NEW v \in Changes, StartBroadcast(v) PROVE DeadAreGone'
    BY <2>1, <2>3 DEF StartBroadcast, DeadAreGone
  <2>4. ASSUME NEW b \in sends, EndBroadcast(b) PROVE DeadAreGone'
    BY <2>1, <2>4 DEF EndBroadcast, DeadAreGone
  <2>5. ASSUME NEW b \in sends, NEW s \in Sockets, SendTo(b, s) PROVE DeadAreGone'
    <3>1. b = [note |-> b.note, left |-> b.left, dead |-> b.dead]
      BY DEF TypeOK
    <3>2. PICK c : /\ sends' = (sends \ {b}) \cup {c}
                   /\ c.dead = b.dead \/ (c.dead = b.dead \cup {s} /\ (~up[s] \/ handler[s] = "none"))
      <4>1. /\ [b EXCEPT !.left = @ \ {s}].dead = b.dead
            /\ [b EXCEPT !.left = @ \ {s}, !.dead = @ \cup {s}].dead = b.dead \cup {s}
        BY <3>1
      <4>2. CASE Replace(b, [b EXCEPT !.left = @ \ {s}])
        BY <4>1, <4>2 DEF Replace
      <4>3. CASE /\ Replace(b, [b EXCEPT !.left = @ \ {s}, !.dead = @ \cup {s}])
                 /\ ~up[s] \/ handler[s] = "none"
        BY <4>1, <4>3 DEF Replace
      <4> QED
        BY <2>5, <4>2, <4>3 DEF SendTo
    <3> QED
      BY <2>1, <3>2 DEF DeadAreGone
  <2> QED
    BY <1>3, <2>2, <2>3, <2>4, <2>5 DEF Hub
<1>4. ASSUME NEW s \in Sockets, Socket(s) PROVE DeadAreGone'
  <2>1. UNCHANGED sends
    BY <1>4, SocketFrame DEF hub
  <2>2. \A r \in Sockets : /\ up'[r] => up[r]
                           /\ handler[r] = "none" => handler'[r] = "none"
    BY <1>4 DEF Socket, Track, Reject, SendState, Deadline, Disconnect, Break, Close, link, server, TypeOK
  <2> QED
    BY <2>1, <2>2 DEF DeadAreGone, TypeOK
<1>5. CASE Restart
  BY <1>5 DEF Restart, DeadAreGone
<1>6. ASSUME NEW p \in Pages, Page(p) PROVE DeadAreGone'
  <2>1. UNCHANGED sends
    BY <1>6, PageFrame DEF hub
  <2>2. \A b \in sends : \A r \in b.dead : ~up'[r] \/ handler'[r] = "none"
    <3>1. ASSUME NEW s \in Sockets, Connect(p, s)
          PROVE  \A b \in sends : \A r \in b.dead : ~up'[r] \/ handler'[r] = "none"
      BY <3>1 DEF Connect, Unused, DeadAreGone, TypeOK
    <3>2. CASE OnClose(p)
      BY <3>2 DEF OnClose, server, DeadAreGone, TypeOK
    <3>3. CASE Poll(p) \/ Read(p) \/ Answer(p) \/ FetchFails(p)
      BY <3>3 DEF Poll, Read, Answer, FetchFails, server, link, DeadAreGone
    <3>4. ASSUME NEW m \in Changes \cup {Hello}, OnMessage(p, m)
          PROVE  \A b \in sends : \A r \in b.dead : ~up'[r] \/ handler'[r] = "none"
      BY <3>4 DEF OnMessage, server, DeadAreGone
    <3> QED
      BY <1>6, <3>1, <3>2, <3>3, <3>4 DEF Page
  <2> QED
    BY <2>1, <2>2 DEF DeadAreGone
<1> QED
  BY <1>1, <1>2, <1>3, <1>4, <1>5, <1>6 DEF Next

\* A working socket stays in the pool.
LEMMA StepPooled ==
  ASSUME TypeOK, Pooled, DeadAreGone, [Next]_vars
  PROVE  Pooled'
<1>1. CASE UNCHANGED vars
  BY <1>1 DEF Pooled, vars, server, link
<1>2. CASE Writer
  BY <1>2, WriterFrame DEF Pooled, server, link
<1>3. CASE Hub
  <2>1. UNCHANGED <<handler, up>>
    BY <1>3, HubFrame
  <2>2. pool' = pool \/ \E b \in sends : pool' = pool \ b.dead
    BY <1>3 DEF Hub, ListenerConnects, ListenerDrops, Callback, StartBroadcast, SendTo, EndBroadcast, server
  <2> QED
    BY <2>1, <2>2 DEF Pooled, DeadAreGone
<1>4. ASSUME NEW s \in Sockets, Socket(s) PROVE Pooled'
  BY <1>4 DEF Socket, Track, Reject, SendState, Deadline, Disconnect, Break, Close, link, server, TypeOK, Pooled
<1>5. CASE Restart
  BY <1>5 DEF Restart, Pooled, TypeOK
<1>6. ASSUME NEW p \in Pages, Page(p) PROVE Pooled'
  <2>1. ASSUME NEW s \in Sockets, Connect(p, s) PROVE Pooled'
    BY <2>1 DEF Connect, Pooled, TypeOK
  <2>2. CASE OnClose(p)
    BY <2>2 DEF OnClose, server, Pooled, TypeOK
  <2>3. CASE Poll(p) \/ Read(p) \/ Answer(p) \/ FetchFails(p)
    BY <2>3 DEF Poll, Read, Answer, FetchFails, server, link, Pooled
  <2>4. ASSUME NEW m \in Changes \cup {Hello}, OnMessage(p, m) PROVE Pooled'
    BY <2>4 DEF OnMessage, server, Pooled
  <2> QED
    BY <1>6, <2>1, <2>2, <2>3, <2>4 DEF Page
<1> QED
  BY <1>1, <1>2, <1>3, <1>4, <1>5, <1>6 DEF Next
-----------------------------------------------------------------------------
(* The pages *)

\* Two pages never share a socket.
LEMMA StepOwnSocket ==
  ASSUME TypeOK, OwnSocket, [Next]_vars
  PROVE  OwnSocket'
<1>1. CASE UNCHANGED sock
  BY <1>1 DEF OwnSocket
<1>2. CASE Writer \/ Hub \/ Restart \/ \E s \in Sockets : Socket(s)
  BY <1>1, <1>2, WriterFrame, HubFrame, SocketFrame DEF Restart, page
<1>3. ASSUME NEW p \in Pages, Page(p) PROVE OwnSocket'
  <2>1. ASSUME NEW s \in Sockets, Connect(p, s) PROVE OwnSocket'
    BY <2>1 DEF Connect, Unused, OwnSocket, TypeOK
  <2>2. CASE OnClose(p)
    BY <2>2 DEF OnClose, OwnSocket, TypeOK
  <2>3. CASE Poll(p) \/ Read(p) \/ Answer(p) \/ FetchFails(p)
    BY <2>3, <1>1 DEF Poll, Read, Answer, FetchFails
  <2>4. ASSUME NEW m \in Changes \cup {Hello}, OnMessage(p, m) PROVE OwnSocket'
    BY <2>4, <1>1 DEF OnMessage
  <2> QED
    BY <1>3, <2>1, <2>2, <2>3, <2>4 DEF Page
<1> QED
  BY <1>1, <1>2, <1>3 DEF Next, vars, page

\* No step moves a page, or a request, behind what it showed.
LEMMA StepNeverBack ==
  ASSUME TypeOK, NeverBack, [Next]_vars
  PROVE  NeverBack'
<1>0. /\ row \in Nat /\ None \notin Nat /\ Asked \notin Nat
      /\ \A p \in Pages : /\ fetch[p] \in {None, Asked} \/ fetch[p] \in Nat
                          /\ view[p] = None \/ view[p] \in Nat
  BY LiveStatusAssumption DEF TypeOK
<1>1. ASSUME UNCHANGED <<fetch, view>>, row' \in Nat, row <= row' PROVE NeverBack'
  BY <1>0, <1>1 DEF NeverBack
<1>2. CASE Writer
  <2>1. row' = row \/ row' = row + 1
    BY <1>2 DEF Writer, Write, Notify, DiesUnannounced, WriteSilently
  <2> QED
    BY <1>0, <1>1, <1>2, <2>1, WriterFrame DEF page
<1>3. CASE Hub \/ Restart \/ \E s \in Sockets : Socket(s)
  BY <1>0, <1>1, <1>3, HubFrame, SocketFrame DEF Restart, page, db
<1>4. ASSUME NEW p \in Pages, Page(p) PROVE NeverBack'
  <2>0. row' = row
    BY <1>4, PageFrame DEF db
  <2>1. ASSUME NEW s \in Sockets, Connect(p, s) PROVE NeverBack'
    BY <1>0, <1>1, <2>0, <2>1 DEF Connect
  <2>2. CASE OnClose(p)
    BY <1>0, <1>1, <2>0, <2>2 DEF OnClose
  <2>3. ASSUME UNCHANGED view, fetch' = fetch \/ \E x \in {None, Asked} : fetch' = [fetch EXCEPT ![p] = x]
        PROVE  NeverBack'
    BY <2>0, <2>3 DEF NeverBack, TypeOK
  <2>4. CASE Poll(p) \/ FetchFails(p)
    BY <2>3, <2>4 DEF Poll, Ask, FetchFails
  <2>5. ASSUME NEW m \in Changes \cup {Hello}, OnMessage(p, m) PROVE NeverBack'
    BY <2>3, <2>5 DEF OnMessage, Invalidate, Ask
  <2>6. CASE Read(p)
    BY <1>0, <2>0, <2>6 DEF Read, NeverBack, TypeOK
  <2>7. CASE Answer(p)
    BY <1>0, <2>0, <2>7 DEF Answer, NeverBack, TypeOK
  <2> QED
    BY <1>4, <2>1, <2>2, <2>4, <2>5, <2>6, <2>7 DEF Page
<1> QED
  BY <1>0, <1>1, <1>2, <1>3, <1>4 DEF Next, vars, page, db
-----------------------------------------------------------------------------
(* Nothing announced is missed *)

\* A page that joined shows the row, will show a newer state, or is excused.
Covered(p) == Joined(p) /\ view[p] # row => Coming(p) \/ unheard \/ excused[p]

\* A change is about to be announced, or is not going to be.
LEMMA WriterCovers ==
  ASSUME TypeOK, Writer, NEW p \in Pages, Covered(p)
  PROVE  Covered(p)'
<1>0. UNCHANGED <<listening, queued, sends, pool, handler, up, wire, sock, fetch, view, excused>>
  BY WriterFrame DEF server, link, page
<1>1. Joined(p)' <=> Joined(p)
  BY <1>0 DEF Joined
<1>2. CASE Write \/ WriteSilently
  BY <1>0, <1>1, <1>2 DEF Write, WriteSilently, hub, Covered, Coming
<1>3. ASSUME NEW v \in Changes, Notify(v) PROVE Covered(p)'
  BY <1>0, <1>1, <1>3 DEF Notify, Covered, Coming
<1>4. ASSUME NEW v \in Changes, DiesUnannounced(v) PROVE Covered(p)'
  BY <1>0, <1>1, <1>4 DEF DiesUnannounced, hub, Covered, Coming
<1> QED
  BY <1>2, <1>3, <1>4 DEF Writer

\* A notification reaches every socket that is in the pool when its broadcast starts.
LEMMA HubCovers ==
  ASSUME TypeOK, Pooled, Hub, NEW p \in Pages, Covered(p)
  PROVE  Covered(p)'
<1>0. UNCHANGED <<row, toNotify, handler, up, sock, fetch, view, excused>>
  BY HubFrame DEF page
<1>1. /\ Joined(p)' <=> Joined(p)
      /\ Joined(p) => sock[p] \in Sockets /\ sock[p] \in pool
  BY <1>0 DEF Joined, Pooled, TypeOK
<1>2. CASE ListenerConnects
  BY <1>0, <1>1, <1>2 DEF ListenerConnects, db, link, Covered, Coming
<1>3. CASE ListenerDrops
  BY <1>0, <1>1, <1>3 DEF ListenerDrops, link, Covered, Coming
<1>4. ASSUME NEW v \in Changes, Callback(v) PROVE Covered(p)'
  BY <1>0, <1>1, <1>4 DEF Callback, db, link, Covered, Coming
<1>5. ASSUME NEW v \in Changes, StartBroadcast(v) PROVE Covered(p)'
  <2>1. [note |-> v, left |-> pool, dead |-> {}] \in sends'
    BY <1>5 DEF StartBroadcast
  <2>2. [note |-> v, left |-> pool, dead |-> {}].left = pool
    OBVIOUS
  <2>3. Joined(p) => Coming(p)'
    BY <1>0, <1>1, <2>1, <2>2 DEF Coming
  <2> QED
    BY <1>1, <2>3 DEF Covered
<1>6. ASSUME NEW b \in sends, EndBroadcast(b) PROVE Covered(p)'
  BY <1>0, <1>1, <1>6 DEF EndBroadcast, db, link, Covered, Coming
<1>7. ASSUME NEW b \in sends, NEW s \in Sockets, SendTo(b, s) PROVE Covered(p)'
  <2>0. /\ UNCHANGED <<unheard, arrived, queued>>
        /\ \A r \in Sockets : wire[r] \subseteq wire'[r]
    BY <1>7 DEF SendTo, db, TypeOK
  <2>1. b = [note |-> b.note, left |-> b.left, dead |-> b.dead]
    BY DEF TypeOK
  <2>2. \E c \in sends' : c.left = b.left \ {s} /\ \A d \in sends : d = b \/ d \in sends'
    <3>1. /\ [b EXCEPT !.left = @ \ {s}].left = b.left \ {s}
          /\ [b EXCEPT !.left = @ \ {s}, !.dead = @ \cup {s}].left = b.left \ {s}
      BY <2>1
    <3>2. ASSUME NEW c, Replace(b, c), c.left = b.left \ {s}
          PROVE  \E e \in sends' : e.left = b.left \ {s} /\ \A d \in sends : d = b \/ d \in sends'
      BY <3>2 DEF Replace
    <3> QED
      BY <1>7, <3>1, <3>2 DEF SendTo
  <2>3. ASSUME Joined(p), sock[p] = s PROVE wire'[sock[p]] # {}
    <3>1. /\ up[s] /\ handler[s] = "live"
          /\ wire' = [wire EXCEPT ![s] = @ \cup {b.note}]
      BY <1>7, <2>3 DEF Joined, SendTo
    <3> QED
      BY <2>3, <3>1 DEF TypeOK
  <2>4. Joined(p) /\ Coming(p) => Coming(p)'
    BY <1>0, <1>1, <2>0, <2>2, <2>3 DEF Coming
  <2> QED
    BY <1>0, <1>1, <2>0, <2>4 DEF Covered
<1> QED
  BY <1>2, <1>3, <1>4, <1>5, <1>6, <1>7 DEF Hub

\* A page joins with its first state on the way; nothing else joins one.
LEMMA SocketCovers ==
  ASSUME TypeOK, NEW s \in Sockets, Socket(s), NEW p \in Pages, Covered(p)
  PROVE  Covered(p)'
<1>0. UNCHANGED <<row, toNotify, unheard, arrived, queued, sends, sock, fetch, view, excused>>
  BY SocketFrame DEF db, hub, page
<1>1. ASSUME Joined(p)' => Joined(p),
             Joined(p)' => wire'[sock[p]] = wire[sock[p]] \/ wire'[sock[p]] # {}
      PROVE  Covered(p)'
  BY <1>0, <1>1 DEF Covered, Coming
<1>2. CASE SendState(s)
  <2>1. CASE sock[p] = s
    BY <1>0, <1>2, <2>1 DEF SendState, Joined, Covered, Coming, TypeOK
  <2>2. CASE sock[p] # s
    BY <1>0, <1>1, <1>2, <2>2 DEF SendState, Joined, TypeOK
  <2> QED
    BY <2>1, <2>2
<1>3. CASE Track(s) \/ Reject(s) \/ Deadline(s) \/ Disconnect(s)
  <2>1. UNCHANGED <<up, wire>> /\ \A r \in Sockets : handler'[r] = "live" => handler[r] = "live"
    BY <1>3 DEF Track, Reject, Deadline, Disconnect, Close, link, TypeOK
  <2> QED
    BY <1>0, <1>1, <2>1 DEF Joined, TypeOK
<1>4. CASE Break(s)
  <2>1. /\ UNCHANGED handler
        /\ \A r \in Sockets : up'[r] => up[r] /\ wire'[r] = wire[r]
    BY <1>4 DEF Break, server, TypeOK
  <2> QED
    BY <1>0, <1>1, <2>1 DEF Joined, TypeOK
<1> QED
  BY <1>2, <1>3, <1>4 DEF Socket

\* A message makes its page ask; what a page reads is the row.
LEMMA PageCovers ==
  ASSUME TypeOK, OwnSocket, NeverBack, NEW q \in Pages, Page(q), NEW p \in Pages, Covered(p)
  PROVE  Covered(p)'
<1>0. UNCHANGED <<row, toNotify, unheard, arrived, queued, sends, pool>>
  BY PageFrame DEF db, hub
<1>a. /\ row \in Nat /\ None \notin Nat /\ Asked \notin Nat /\ None # Asked
      /\ fetch[p] \in {None, Asked} \/ fetch[p] \in Nat
      /\ view[p] = None \/ view[p] \in Nat
  BY LiveStatusAssumption DEF TypeOK
<1>1. ASSUME NEW s \in Sockets, Connect(q, s) PROVE Covered(p)'
  <2>1. CASE p = q
    BY <1>1, <2>1 DEF Connect, Covered, Joined, TypeOK
  <2>2. CASE p # q
    <3>1. /\ sock'[p] = sock[p] /\ sock[p] # s /\ UNCHANGED <<fetch, view, excused>>
          /\ sock[p] # None => /\ handler'[sock[p]] = handler[sock[p]]
                               /\ up'[sock[p]] = up[sock[p]] /\ wire'[sock[p]] = wire[sock[p]]
      BY <1>1, <2>2 DEF Connect, Unused, TypeOK
    <3> QED
      BY <1>0, <3>1 DEF Covered, Joined, Coming
  <2> QED
    BY <2>1, <2>2
<1>2. CASE OnClose(q)
  <2>1. CASE p = q
    BY <1>2, <2>1 DEF OnClose, Covered, Joined, TypeOK
  <2>2. CASE p # q
    <3>1. /\ sock'[p] = sock[p] /\ UNCHANGED <<handler, wire, fetch, view, excused>>
          /\ sock[p] # None => up'[sock[p]] = up[sock[p]]
      BY <1>2, <2>2 DEF OnClose, OwnSocket, server, TypeOK
    <3> QED
      BY <1>0, <3>1 DEF Covered, Joined, Coming
  <2> QED
    BY <2>1, <2>2
<1>3. ASSUME UNCHANGED <<handler, up, wire, sock>>,
             p # q => fetch'[p] = fetch[p] /\ view'[p] = view[p] /\ excused'[p] = excused[p],
             p = q => \/ fetch'[p] \in {Asked, row} \/ excused'[p]
                      \/ /\ fetch[p] \notin {Asked, row} /\ view[p] # row
                         /\ excused'[p] = excused[p]
      PROVE  Covered(p)'
  BY <1>0, <1>3 DEF Covered, Joined, Coming
<1>4. CASE Poll(q)
  BY <1>3, <1>4 DEF Poll, Ask, server, link, TypeOK
<1>5. CASE Read(q)
  BY <1>3, <1>5 DEF Read, server, link, TypeOK
<1>6. CASE FetchFails(q)
  BY <1>3, <1>6 DEF FetchFails, server, link, TypeOK
<1>7. CASE Answer(q)
  <2>1. CASE p # q
    BY <1>3, <1>7, <2>1 DEF Answer, server, link, TypeOK
  <2>2. CASE p = q /\ fetch[p] = row
    BY <1>0, <1>7, <2>2 DEF Answer, Covered, TypeOK
  <2>3. CASE p = q /\ fetch[p] # row
    <3>1. fetch[p] \in Nat /\ fetch[p] # Asked /\ view[p] # row
      BY <1>a, <1>7, <2>3 DEF Answer, NeverBack
    <3> QED
      BY <1>3, <1>7, <2>3, <3>1 DEF Answer, server, link, TypeOK
  <2> QED
    BY <2>1, <2>2, <2>3
<1>8. ASSUME NEW m \in Changes \cup {Hello}, OnMessage(q, m) PROVE Covered(p)'
  <2>0. UNCHANGED <<handler, up, sock, view>>
    BY <1>8 DEF OnMessage, server
  <2>1. CASE p = q
    <3>1. fetch'[p] = Asked \/ excused'[p]
      BY <1>8, <2>1 DEF OnMessage, Invalidate, Ask, TypeOK
    <3> QED
      BY <3>1 DEF Covered, Coming
  <2>2. CASE p # q
    <3>1. /\ fetch'[p] = fetch[p] /\ excused'[p] = excused[p]
          /\ sock[p] # None => wire'[sock[p]] = wire[sock[p]]
      BY <1>8, <2>2 DEF OnMessage, Invalidate, Ask, OwnSocket, TypeOK
    <3> QED
      BY <1>0, <2>0, <3>1 DEF Covered, Joined, Coming
  <2> QED
    BY <2>1, <2>2
<1> QED
  BY <1>1, <1>2, <1>4, <1>5, <1>6, <1>7, <1>8 DEF Page

\* Every step keeps a page covered.
LEMMA StepNoGap ==
  ASSUME TypeOK, Pooled, OwnSocket, NeverBack, NoGap, [Next]_vars
  PROVE  NoGap'
<1>1. SUFFICES ASSUME NEW p \in Pages PROVE Covered(p)'
  BY DEF NoGap, Covered
<1>2. Covered(p)
  BY DEF NoGap, Covered
<1>3. CASE UNCHANGED vars
  BY <1>2, <1>3 DEF Covered, Joined, Coming, vars, db, hub, server, link, page
<1>4. CASE Restart
  BY <1>4 DEF Restart, Covered, Joined, TypeOK, page, db
<1>5. CASE Next
  BY <1>2, <1>4, <1>5, WriterCovers, HubCovers, SocketCovers, PageCovers DEF Next
<1> QED
  BY <1>3, <1>5

\* At the start nobody has joined.
LEMMA InitInv == Init => IInv
BY InitType, LiveStatusAssumption DEF Init, IInv, Pooled, DeadAreGone, OwnSocket, NeverBack, NoGap, Joined

\* Together the parts are inductive.
LEMMA StepInv ==
  ASSUME IInv, [Next]_vars
  PROVE  IInv'
BY StepType, StepDead, StepPooled, StepOwnSocket, StepNeverBack, StepNoGap DEF IInv

\* A page that joined is behind the row only while a newer state is on its way,
\* or the newest change's notification was lost, or its own request failed or
\* came too early: for any pages, links, sessions and restarts (ws.py
\* websocket_pipeline, ws_manager.py broadcast, use-websocket.ts).
THEOREM NothingAnnouncedIsMissed == Spec => []NoGap
<1>1. Init => IInv
  BY InitInv
<1>2. IInv /\ [Next]_vars => IInv'
  BY StepInv
<1>3. IInv => NoGap
  BY DEF IInv
<1> QED
  BY <1>1, <1>2, <1>3, PTL DEF Spec

\* A working socket whose handler serves it is in the broadcast's pool until the
\* handler closes it: a failed send to another never removes it
\* (ws_manager.py broadcast, track, disconnect).
THEOREM PoolIsKept == Spec => []Pooled
<1>1. Init => IInv
  BY InitInv
<1>2. IInv /\ [Next]_vars => IInv'
  BY StepInv
<1>3. IInv => Pooled
  BY DEF IInv
<1> QED
  BY <1>1, <1>2, <1>3, PTL DEF Spec
=============================================================================
