------------------------ MODULE InvestigationProofs -------------------------
(***************************************************************************)
(* Proofs about Investigation, for any set of messages and any limits: its *)
(* types, and its three invariants however turns of a session overlap,     *)
(* fail or are left.  And about Panel, for any sessions, messages and      *)
(* mounts: nothing of the exchange in view leaves the screen, and the      *)
(* history shows every exchange once when nothing is under way.            *)
(***************************************************************************)
EXTENDS Investigation, Panel, FiniteSetTheorems, WellFoundedInduction, TLAPS

\* The session starts in the invariant.
LEMMA InitIInv == Init => IInv
<1> SUFFICES ASSUME Init PROVE IInv
  OBVIOUS
<1> USE InvestigationAssumption DEF Init
<1>1. TableType
  BY DEF TableType
<1>2. TurnType
  BY DEF TurnType, Phases, Ends
<1>3. StreamType
  BY DEF StreamType, Silent
<1>4. CopyCovered /\ OneAtATime
  BY DEF CopyCovered, OneAtATime, Live
<1>5. PiecesInPlace /\ AnswerKept
  BY DEF PiecesInPlace, AnswerKept
<1> QED
  BY <1>1, <1>2, <1>3, <1>4, <1>5 DEF IInv, TypeOK

\* What a message is asked, streamed and answered leaves the session in shape.
LEMMA TableTypeNext ==
  ASSUME TypeOK, [Next]_vars
  PROVE  TableType'
<1> USE DEF TypeOK, TableType, TurnType
<1>1. ASSUME NEW r \in Requests, Send(r) PROVE TableType'
  BY <1>1 DEF Send
<1>2. ASSUME NEW r \in Requests, Done(r) PROVE TableType'
  <2>1. Base(r) \in Nat /\ spent[r] \in Nat
    BY DEF Base
  <2>2. total' \in Nat /\ billed' \in Nat
    BY <1>2, <2>1 DEF Done
  <2>3. answer' \in [Requests -> Nat \cup {None}]
    BY <1>2, <2>1 DEF Done
  <2> QED
    BY <1>2, <2>2, <2>3 DEF Done
<1>3. CASE CompleteSession
  BY <1>3 DEF CompleteSession
<1>4. CASE UNCHANGED <<key, table, overlap>>
  BY <1>4 DEF table
<1> QED
  BY <1>1, <1>2, <1>3, <1>4 DEF Next, TurnNext, Ask, Delta, EndStream, StreamFails,
     CallTool, ToolAnswers, AskAgain, CutOffTurn, vars

\* A turn's own variables.
LEMMA TurnTypeNext ==
  ASSUME TypeOK, [Next]_vars
  PROVE  TurnType'
<1> USE DEF TypeOK, TableType, TurnType, Phases, Ends, CutOff
<1>1. ASSUME NEW r \in Requests, Send(r) PROVE TurnType'
  BY <1>1 DEF Send
<1>2. ASSUME NEW r \in Requests, Ask(r) PROVE TurnType'
  BY <1>2 DEF Ask
<1>3. ASSUME NEW r \in Requests, EndStream(r) PROVE TurnType'
  <2>1. spent' \in [Requests -> Nat] /\ UNCHANGED <<copy, used>>
    BY <1>3 DEF EndStream
  <2>2. tpc' \in [Requests -> Phases] /\ todo' \in [Requests -> Nat]
    BY <1>3 DEF EndStream, Finish
  <2>3. ended' \in [Requests -> Ends]
    BY <1>3 DEF EndStream, Finish
  <2> QED
    BY <2>1, <2>2, <2>3
<1>4. ASSUME NEW r \in Requests, StreamFails(r) PROVE TurnType'
  BY <1>4 DEF StreamFails, Finish
<1>5. ASSUME NEW r \in Requests, CallTool(r) PROVE TurnType'
  BY <1>5 DEF CallTool
<1>6. ASSUME NEW r \in Requests, ToolAnswers(r) PROVE TurnType'
  BY <1>6 DEF ToolAnswers
<1>7. ASSUME NEW r \in Requests, AskAgain(r) PROVE TurnType'
  BY <1>7 DEF AskAgain
<1>8. ASSUME NEW r \in Requests, Done(r) PROVE TurnType'
  BY <1>8 DEF Done, Forget
<1>9. ASSUME NEW r \in Requests, CutOffTurn(r) PROVE TurnType'
  BY <1>9 DEF CutOffTurn, Forget
<1>10. CASE UNCHANGED <<tpc, copy, todo, used, spent, ended>>
  BY <1>10
<1> QED
  BY <1>1, <1>2, <1>3, <1>4, <1>5, <1>6, <1>7, <1>8, <1>9, <1>10
     DEF Next, TurnNext, Delta, CompleteSession, turn, vars

\* A delta extends one call by one piece.
LEMMA AddDeltaType ==
  ASSUME NEW a \in [Blocks -> Seq(Blocks \X (1 .. Pieces))],
         NEW i \in Blocks, NEW k \in 1 .. Pieces
  PROVE  /\ AddDelta(a, i, k) \in [Blocks -> Seq(Blocks \X (1 .. Pieces))]
         /\ AddDelta(a, i, k)[i] = Append(a[i], Piece(i, k))
         /\ \A j \in Blocks : j # i => AddDelta(a, i, k)[j] = a[j]
<1>1. Piece(i, k) \in Blocks \X (1 .. Pieces)
  BY DEF Piece
<1>2. Append(a[i], Piece(i, k)) \in Seq(Blocks \X (1 .. Pieces))
  BY <1>1
<1> QED
  BY <1>2 DEF AddDelta

\* What streams in.
LEMMA StreamTypeNext ==
  ASSUME TypeOK, [Next]_vars
  PROVE  StreamType'
<1> USE InvestigationAssumption DEF TypeOK, StreamType
<1>1. ASSUME NEW r \in Requests, Ask(r) PROVE StreamType'
  BY <1>1 DEF Ask, Silent
<1>2. ASSUME NEW r \in Requests, NEW i \in Blocks, Delta(r, i) PROVE StreamType'
  <2>1. got[r][i] + 1 \in 1 .. Pieces
    BY <1>2 DEF Delta
  <2>2. got' \in [Requests -> [Blocks -> 0 .. Pieces]]
    BY <1>2, <2>1 DEF Delta
  <2> DEFINE a == AddDelta(acc[r], i, got[r][i] + 1)
  <2>3. a \in [Blocks -> Seq(Blocks \X (1 .. Pieces))]
    BY <2>1, AddDeltaType
  <2>4. acc' = [acc EXCEPT ![r] = a]
    BY <1>2 DEF Delta
  <2> HIDE DEF a
  <2>5. acc' \in [Requests -> [Blocks -> Seq(Blocks \X (1 .. Pieces))]]
    BY <2>3, <2>4
  <2> QED
    BY <1>2, <2>2, <2>5 DEF Delta
<1>3. ASSUME NEW r \in Requests, EndStream(r) PROVE StreamType'
  BY <1>3 DEF EndStream, Complete
<1>4. ASSUME NEW r \in Requests, Forget(r) PROVE StreamType'
  BY <1>4 DEF Forget, Silent
<1>5. CASE UNCHANGED stream
  BY <1>5 DEF stream
<1> QED
  BY <1>1, <1>2, <1>3, <1>4, <1>5 DEF Next, TurnNext, Send, StreamFails, CallTool,
     ToolAnswers, AskAgain, Done, CutOffTurn, CompleteSession, turn, vars

\* No copy holds more than the stored answers, and no turn writes more.
LEMMA CopyCoveredNext ==
  ASSUME IInv, [Next]_vars
  PROVE  CopyCovered'
<1> USE InvestigationAssumption DEF IInv, TypeOK, TableType, TurnType, CopyCovered
<1>1. ASSUME NEW r \in Requests, Send(r) PROVE CopyCovered'
  BY <1>1 DEF Send
<1>2. ASSUME NEW r \in Requests, Done(r) PROVE CopyCovered'
  <2>1. Base(r) \in Nat /\ Base(r) <= billed /\ spent[r] \in Nat
    BY DEF Base
  <2>2. total' <= billed' /\ billed <= billed' /\ billed' \in Nat
    BY <1>2, <2>1 DEF Done
  <2>3. \A q \in Requests : copy'[q] = IF q = r THEN Expired ELSE copy[q]
    BY <1>2 DEF Done, Forget
  <2> QED
    BY <2>2, <2>3
<1>3. ASSUME NEW r \in Requests, CallTool(r) \/ ToolAnswers(r) PROVE CopyCovered'
  BY <1>3 DEF CallTool, ToolAnswers, table
<1>4. ASSUME NEW r \in Requests, CutOffTurn(r) PROVE CopyCovered'
  BY <1>4 DEF CutOffTurn, Forget, table
<1>5. CASE UNCHANGED <<total, billed, copy>>
  BY <1>5
<1> QED
  BY <1>1, <1>2, <1>3, <1>4, <1>5 DEF Next, TurnNext, Ask, Delta, EndStream, StreamFails,
     AskAgain, CompleteSession, table, turn, vars

\* Turns that follow one another add up.
LEMMA OneAtATimeNext ==
  ASSUME IInv, [Next]_vars
  PROVE  OneAtATime'
<1> USE InvestigationAssumption DEF IInv, TypeOK, TableType, TurnType, OneAtATime
<1>1. ASSUME NEW r \in Requests, Send(r) PROVE OneAtATime'
  <2> SUFFICES ASSUME ~overlap' PROVE OneAtATime'
    OBVIOUS
  <2>1. ~overlap /\ \A q \in Requests : ~Live(q)
    BY <1>1 DEF Send
  <2>2. \A q \in Requests : q # r => ~Live(q)'
    BY <1>1, <2>1 DEF Send, Live
  <2>3. total' = billed' /\ copy'[r] = total'
    BY <1>1, <2>1 DEF Send
  <2> QED
    BY <2>2, <2>3
<1>2. ASSUME NEW r \in Requests, Done(r) PROVE OneAtATime'
  <2> SUFFICES ASSUME ~overlap' PROVE OneAtATime'
    OBVIOUS
  <2>1. ~overlap /\ Live(r)
    BY <1>2 DEF Done, Live
  <2>2. Base(r) = billed
    BY <2>1 DEF Base
  <2>3. total' = billed'
    BY <1>2, <2>2 DEF Done
  <2>4. \A q \in Requests : ~Live(q)'
    BY <1>2, <2>1 DEF Done, Live
  <2> QED
    BY <2>3, <2>4
<1>3. ASSUME NEW r \in Requests, Live(r), UNCHANGED <<total, billed, overlap>>,
             \/ UNCHANGED copy
             \/ copy' = [copy EXCEPT ![r] = Expired],
             \A q \in Requests : q # r => tpc'[q] = tpc[q]
      PROVE OneAtATime'
  <2>1. \A q \in Requests : Live(q)' => Live(q)
    BY <1>3 DEF Live
  <2>2. \A q \in Requests : copy'[q] # Expired => copy'[q] = copy[q]
    BY <1>3
  <2> QED
    BY <1>3, <2>1, <2>2
<1>4. ASSUME NEW r \in Requests, Ask(r) \/ StreamFails(r) \/ CallTool(r) \/ ToolAnswers(r)
      PROVE OneAtATime'
  <2>1. Live(r) /\ \A q \in Requests : q # r => tpc'[q] = tpc[q]
    BY <1>4 DEF Ask, StreamFails, CallTool, ToolAnswers, Finish, Live
  <2>2. /\ UNCHANGED <<total, billed, overlap>>
        /\ UNCHANGED copy \/ copy' = [copy EXCEPT ![r] = Expired]
    BY <1>4 DEF Ask, StreamFails, CallTool, ToolAnswers, table
  <2> QED
    BY <1>3, <2>1, <2>2
<1>5. ASSUME NEW r \in Requests, EndStream(r) \/ AskAgain(r) PROVE OneAtATime'
  <2>1. Live(r) /\ \A q \in Requests : q # r => tpc'[q] = tpc[q]
    BY <1>5 DEF EndStream, AskAgain, Finish, Live
  <2>2. UNCHANGED <<total, billed, overlap, copy>>
    BY <1>5 DEF EndStream, AskAgain, table
  <2> QED
    BY <1>3, <2>1, <2>2
<1>6. ASSUME NEW r \in Requests, CutOffTurn(r) PROVE OneAtATime'
  <2>1. Live(r) /\ \A q \in Requests : q # r => tpc'[q] = tpc[q]
    BY <1>6 DEF CutOffTurn
  <2>2. UNCHANGED <<total, billed, overlap>> /\ copy' = [copy EXCEPT ![r] = Expired]
    BY <1>6 DEF CutOffTurn, Forget, table
  <2> QED
    BY <1>3, <2>1, <2>2
<1>7. CASE UNCHANGED <<total, billed, overlap, copy, tpc>>
  BY <1>7 DEF Live
<1> QED
  BY <1>1, <1>2, <1>4, <1>5, <1>6, <1>7 DEF Next, TurnNext, Delta, CompleteSession,
     table, turn, vars

\* A turn's answer is stored by the step that ends it.
LEMMA AnswerKeptNext ==
  ASSUME IInv, [Next]_vars
  PROVE  AnswerKept'
<1> USE DEF IInv, TypeOK, TableType, TurnType, AnswerKept
<1>1. ASSUME NEW r \in Requests, Send(r) PROVE AnswerKept'
  BY <1>1 DEF Send, CutOff
<1>2. ASSUME NEW r \in Requests, Done(r) PROVE AnswerKept'
  BY <1>2 DEF Done
<1>3. ASSUME NEW r \in Requests, CutOffTurn(r) PROVE AnswerKept'
  BY <1>3 DEF CutOffTurn, CutOff, table
<1>4. ASSUME NEW r \in Requests, Ask(r) \/ StreamFails(r) \/ CallTool(r) \/ ToolAnswers(r)
      PROVE AnswerKept'
  BY <1>4 DEF Ask, StreamFails, CallTool, ToolAnswers, Finish, table
<1>5. ASSUME NEW r \in Requests, AskAgain(r) PROVE AnswerKept'
  BY <1>5 DEF AskAgain, table
<1>6. ASSUME NEW r \in Requests, EndStream(r) PROVE AnswerKept'
  <2>1. tpc'[r] # "over" /\ \A q \in Requests : q # r => tpc'[q] = tpc[q] /\ ended'[q] = ended[q]
    BY <1>6 DEF EndStream, Finish
  <2>2. \A q \in Requests : q # r => spent'[q] = spent[q]
    BY <1>6 DEF EndStream
  <2>3. UNCHANGED <<sent, answer>>
    BY <1>6 DEF EndStream, table
  <2> QED
    BY <2>1, <2>2, <2>3
<1>7. CASE UNCHANGED <<sent, answer, tpc, ended, spent>>
  BY <1>7
<1> QED
  BY <1>1, <1>2, <1>3, <1>4, <1>5, <1>6, <1>7 DEF Next, TurnNext, Delta, CompleteSession,
     table, turn, vars

\* A call that was in place stays so with its next piece.
LEMMA AppendInPlace ==
  ASSUME TypeOK, NEW r \in Requests, NEW i \in Blocks,
         InPlace(r, i), i <= asked[r], got[r][i] < Pieces
  PROVE  LET s == Append(acc[r][i], Piece(i, got[r][i] + 1)) IN
         Len(s) = got[r][i] + 1 /\ \A k \in 1 .. Len(s) : s[k] = Piece(i, k)
<1> DEFINE x == acc[r][i]
           p == Piece(i, got[r][i] + 1)
           s == Append(x, p)
<1>1. x \in Seq(Blocks \X (1 .. Pieces)) /\ got[r][i] \in 0 .. Pieces
  BY DEF TypeOK, StreamType
<1>2. p \in Blocks \X (1 .. Pieces)
  <2>1. got[r][i] + 1 \in 1 .. Pieces
    BY <1>1, InvestigationAssumption
  <2> QED
    BY <2>1 DEF Piece
<1>3. Len(x) = got[r][i] /\ \A k \in 1 .. Len(x) : x[k] = Piece(i, k)
  BY DEF InPlace
<1>4. p = Piece(i, Len(x) + 1)
  BY <1>3
<1>5. Len(s) = Len(x) + 1
  <2> HIDE DEF x, p
  <2> QED
    BY <1>1, <1>2
<1>6. \A k \in 1 .. Len(s) : s[k] = IF k <= Len(x) THEN x[k] ELSE p
  <2> HIDE DEF x, p
  <2> QED
    BY <1>1, <1>2
<1>7. ASSUME NEW k \in 1 .. Len(s) PROVE s[k] = Piece(i, k)
  <2> HIDE DEF x, p, s
  <2>1. Len(x) \in Nat
    BY <1>1
  <2>2. CASE k <= Len(x)
    BY <1>3, <1>5, <1>6, <2>1, <2>2
  <2>3. CASE k = Len(x) + 1
    BY <1>4, <1>6, <2>1, <2>3
  <2> QED
    BY <1>5, <2>1, <2>2, <2>3
<1> QED
  BY <1>3, <1>5, <1>7

\* The accumulator keeps the calls apart while deltas of several come in.
LEMMA PiecesInPlaceNext ==
  ASSUME IInv, [Next]_vars
  PROVE  PiecesInPlace'
<1> USE DEF IInv, TypeOK, TurnType, StreamType
<1> DEFINE Here(q) ==
      /\ tpc[q] \in {"stream", "tools", "tool"} => \A i \in Blocks : InPlace(q, i)
      /\ tpc[q] \in {"tools", "tool"} /\ ~clipped[q] => Complete(q)
<1>1. \A q \in Requests : Here(q)
  BY DEF PiecesInPlace
<1>2. SUFFICES ASSUME NEW q \in Requests PROVE Here(q)'
  BY DEF PiecesInPlace
<1>3. CASE /\ tpc'[q] = tpc[q] /\ asked'[q] = asked[q] /\ got'[q] = got[q]
           /\ acc'[q] = acc[q] /\ clipped'[q] = clipped[q]
  BY <1>1, <1>3 DEF InPlace, Complete
<1>4. CASE Ask(q)
  <2>1. tpc'[q] = "stream" /\ acc'[q] = Silent /\ got'[q] = [i \in Blocks |-> 0]
    BY <1>4 DEF Ask
  <2>2. \A i \in Blocks : InPlace(q, i)'
    BY <2>1 DEF InPlace, Silent
  <2> QED
    BY <2>1, <2>2
<1>5. ASSUME NEW i \in Blocks, Delta(q, i) PROVE Here(q)'
  <2>1. tpc'[q] = "stream" /\ tpc[q] = "stream" /\ UNCHANGED asked
    BY <1>5 DEF Delta
  <2>2. got[q][i] + 1 \in 1 .. Pieces /\ i <= asked[q] /\ got[q][i] < Pieces
    BY <1>5, InvestigationAssumption DEF Delta
  <2>3. \A j \in Blocks : got'[q][j] = IF j = i THEN got[q][i] + 1 ELSE got[q][j]
    BY <1>5 DEF Delta
  <2>4. acc'[q] = AddDelta(acc[q], i, got[q][i] + 1)
    BY <1>5 DEF Delta
  <2>5. /\ acc'[q][i] = Append(acc[q][i], Piece(i, got[q][i] + 1))
        /\ \A j \in Blocks : j # i => acc'[q][j] = acc[q][j]
    <3> DEFINE a == acc[q]
               k == got[q][i] + 1
    <3>1. a \in [Blocks -> Seq(Blocks \X (1 .. Pieces))] /\ k \in 1 .. Pieces
      BY <2>2
    <3> HIDE DEF a, k
    <3>2. /\ AddDelta(a, i, k)[i] = Append(a[i], Piece(i, k))
          /\ \A j \in Blocks : j # i => AddDelta(a, i, k)[j] = a[j]
      BY ONLY <1>5, <3>1, AddDeltaType
    <3>3. acc'[q] = AddDelta(a, i, k)
      BY <2>4 DEF a, k
    <3> QED
      BY <3>2, <3>3 DEF a, k
  <2>6. InPlace(q, i)
    BY <1>1, <2>1
  <2>7. InPlace(q, i)'
    <3>1. /\ Len(acc'[q][i]) = got[q][i] + 1
          /\ \A k \in 1 .. Len(acc'[q][i]) : acc'[q][i][k] = Piece(i, k)
      BY <2>2, <2>5, <2>6, AppendInPlace
    <3>2. ~(i > asked'[q])
      BY <2>1, <2>2, InvestigationAssumption DEF Blocks
    <3> QED
      BY <2>3, <3>1, <3>2 DEF InPlace, Piece
  <2>8. \A j \in Blocks : j # i => InPlace(q, j)'
    <3> SUFFICES ASSUME NEW j \in Blocks, j # i PROVE InPlace(q, j)'
      OBVIOUS
    <3>1. InPlace(q, j)
      BY <1>1, <2>1
    <3>2. acc'[q][j] = acc[q][j] /\ got'[q][j] = got[q][j] /\ asked'[q] = asked[q]
      BY <2>1, <2>3, <2>5
    <3> QED
      BY <3>1, <3>2 DEF InPlace, Piece
  <2> QED
    BY <2>1, <2>7, <2>8
<1>6. CASE EndStream(q)
  <2>1. UNCHANGED <<asked, got, acc>> /\ clipped'[q] = ~Complete(q) /\ tpc[q] = "stream"
    BY <1>6 DEF EndStream
  <2>2. \A i \in Blocks : InPlace(q, i)'
    BY <1>1, <2>1 DEF InPlace
  <2>3. ~clipped'[q] => Complete(q)'
    BY <2>1 DEF Complete
  <2> QED
    BY <2>2, <2>3
<1>7. CASE StreamFails(q)
  BY <1>7 DEF StreamFails, Finish
<1>8. CASE Done(q) \/ CutOffTurn(q) \/ Send(q)
  BY <1>8 DEF Done, CutOffTurn, Send
<1>9. CASE CallTool(q) \/ ToolAnswers(q)
  <2>1. tpc[q] \in {"tools", "tool"} /\ UNCHANGED stream
    BY <1>9 DEF CallTool, ToolAnswers
  <2> QED
    BY <1>1, <2>1 DEF InPlace, Complete, stream
<1>10. CASE AskAgain(q)
  <2>1. tpc[q] = "tools" /\ UNCHANGED stream /\ tpc'[q] \in {"tools", "ask"}
    BY <1>10 DEF AskAgain
  <2> QED
    BY <1>1, <2>1 DEF InPlace, Complete, stream
<1>11. ASSUME NEW r \in Requests, r # q, TurnNext(r)
       PROVE  /\ tpc'[q] = tpc[q] /\ asked'[q] = asked[q] /\ got'[q] = got[q]
              /\ acc'[q] = acc[q] /\ clipped'[q] = clipped[q]
  <2>1. CASE Send(r) \/ Ask(r) \/ StreamFails(r) \/ CallTool(r) \/ ToolAnswers(r)
    BY <1>11, <2>1 DEF Send, Ask, StreamFails, Finish, CallTool, ToolAnswers, stream
  <2>2. CASE EndStream(r) \/ AskAgain(r)
    BY <1>11, <2>2 DEF EndStream, AskAgain, Finish, stream
  <2>3. CASE Done(r) \/ CutOffTurn(r)
    BY <1>11, <2>3 DEF Done, CutOffTurn, Forget
  <2>4. ASSUME NEW i \in Blocks, Delta(r, i)
        PROVE  /\ tpc'[q] = tpc[q] /\ asked'[q] = asked[q] /\ got'[q] = got[q]
               /\ acc'[q] = acc[q] /\ clipped'[q] = clipped[q]
    BY <1>11, <2>4 DEF Delta
  <2> QED
    BY <1>11, <2>1, <2>2, <2>3, <2>4 DEF TurnNext
<1>12. CASE CompleteSession \/ UNCHANGED vars
  BY <1>3, <1>12 DEF CompleteSession, turn, stream, vars
<1>13. ASSUME TurnNext(q) PROVE Here(q)'
  BY <1>4, <1>5, <1>6, <1>7, <1>8, <1>9, <1>10, <1>13 DEF TurnNext
<1> HIDE DEF Here
<1> QED
  BY <1>3, <1>11, <1>12, <1>13 DEF Next

\* Every reachable state satisfies the invariant.
LEMMA Invariance == Spec => []IInv
<1>1. IInv /\ [Next]_vars => IInv'
  BY TableTypeNext, TurnTypeNext, StreamTypeNext, CopyCoveredNext, OneAtATimeNext,
     AnswerKeptNext, PiecesInPlaceNext DEF IInv, TypeOK
<1> QED
  BY InitIInv, <1>1, PTL DEF Spec

\* The tables' rows and the turns' variables stay in shape.
THEOREM TypeCorrect == Spec => []TypeOK
<1>1. IInv => TypeOK
  BY DEF IInv
<1> QED
  BY Invariance, <1>1, PTL

\* send_message, the done branch: a session's total never exceeds its stored
\* answers, and is their sum as long as its turns follow one another.
THEOREM TotalsAreHonest == Spec => []TotalsHonest
<1>1. IInv => TotalsHonest
  BY DEF IInv, CopyCovered, OneAtATime, TotalsHonest
<1> QED
  BY Invariance, <1>1, PTL

\* run_conversation_turn: an upstream failure or the tool limit does not cost
\* the answer.
THEOREM AnswersAreKept == Spec => []AnswerKept
<1>1. IInv => AnswerKept
  BY DEF IInv
<1> QED
  BY Invariance, <1>1, PTL

\* ToolCallAccumulator: in whatever order the deltas of parallel calls come, a
\* tool gets the pieces of its own call.
THEOREM ToolsGetTheirCalls == Spec => []ToolsAsAsked
<1>1. ASSUME IInv, NEW r \in Requests, NEW i \in Blocks, tpc[r] \in {"tools", "tool"}
      PROVE  /\ \A k \in 1 .. Len(acc[r][i]) : acc[r][i][k] = Piece(i, k)
             /\ ~clipped[r] => Len(acc[r][i]) = IF i <= asked[r] THEN Pieces ELSE 0
  <2>1. InPlace(r, i) /\ (~clipped[r] => Complete(r))
    BY <1>1 DEF IInv, PiecesInPlace
  <2>2. asked[r] \in 0 .. MaxBlocks
    BY <1>1 DEF IInv, TypeOK, StreamType
  <2> QED
    BY <2>1, <2>2, InvestigationAssumption DEF InPlace, Complete, Blocks
<1>2. IInv => ToolsAsAsked
  BY <1>1 DEF ToolsAsAsked
<1> QED
  BY Invariance, <1>2, PTL
-----------------------------------------------------------------------------
(* The panel.                                                              *)

\* A set of numbers up to n has a greatest.
LEMMA Greatest ==
  ASSUME NEW n \in Nat, NEW T, T \subseteq 1 .. n, T # {}
  PROVE  \E i \in T : \A k \in T : k <= i
<1> DEFINE U == {n - i : i \in T}
<1>1. U \subseteq Nat /\ U # {}
  OBVIOUS
<1>2. IsWellFoundedOn(OpToRel(<, Nat), Nat)
  BY NatLessThanWellFounded
<1>3. PICK j \in U : \A k \in U : <<k, j>> \notin OpToRel(<, Nat)
  BY <1>1, <1>2, WFMin
<1>4. \A k \in U : ~(k < j)
  BY <1>1, <1>3 DEF OpToRel
<1>5. PICK i \in T : j = n - i
  OBVIOUS
<1>6. \A k \in T : ~(n - k < n - i)
  BY <1>4, <1>5
<1> QED
  BY <1>5, <1>6

\* What is in view is a session or none.
LEMMA ShownIsSession ==
  ASSUME NEW sel \in Sessions \cup {0}, NEW l
  PROVE  ShownOf(sel, l) \in Sessions \cup {0}
<1> DEFINE running == IF l = NoData THEN {} ELSE {s \in Sessions : l[s] = "active"}
           last == CHOOSE s \in running : \A t \in running : t <= s
<1>1. Cardinality(Sessions) \in Nat
  BY PanelAssumption, FS_CardinalityType
<1>2. running \subseteq 1 .. Cardinality(Sessions)
  BY PanelAssumption
<1>3. ASSUME running # {} PROVE last \in Sessions
  <2>1. \E s \in running : \A t \in running : t <= s
    BY <1>1, <1>2, <1>3, Greatest
  <2>2. last \in running
    BY <2>1
  <2> QED
    BY <2>2
<1>4. ShownOf(sel, l) = IF sel # 0 THEN sel ELSE IF running = {} THEN 0 ELSE last
  BY DEF ShownOf
<1> HIDE DEF running, last
<1> QED
  BY <1>3, <1>4

LEMMA ShownType ==
  ASSUME PanelType
  PROVE  Shown \in Sessions \cup {0}
BY ShownIsSession DEF PanelType, Shown

\* No session has the number that stands for none.
LEMMA NoSessionIsZero == 0 \notin Sessions
<1>1. Cardinality(Sessions) \in Nat
  BY PanelAssumption, FS_CardinalityType
<1> QED
  BY <1>1, PanelAssumption

\* What is fetched or asked for anew is a request under way.
LEMMA Fetched ==
  ASSUME PanelType, NEW s \in Sessions \cup {0}
  PROVE  /\ Fetch(req, s) \in [Sessions -> Answers \cup Request]
         /\ s # 0 => Fetch(req, s)[s] # Idle
         /\ \A t \in Sessions :
              Fetch(req, s)[t] = req[t] \/ (t = s /\ Fetch(req, s)[t] = Awaited /\ req[t] = Idle)
BY NothingAssumption DEF Fetch, PanelType, Request
LEMMA AskedAnew ==
  ASSUME PanelType, NEW s \in Sessions
  PROVE  /\ Invalidated(s) \in [Sessions -> Answers \cup Request]
         /\ Shown = s => Invalidated(s)[s] = Awaited
         /\ \A t \in Sessions : t # s \/ Shown # s => Invalidated(s)[t] = req[t]
BY DEF Invalidated, PanelType, Request

\* The panel's variables keep their types.
LEMMA PanelTypeNext ==
  ASSUME PanelType, [PanelNext]_panel
  PROVE  PanelType'
<1>0. Shown \in Sessions \cup {0} /\ 0 \notin Sessions
  BY ShownType, NoSessionIsZero
<1>00. /\ {"user", "tool", "answer"} \subseteq Kinds /\ {"active", "completed"} \subseteq Statuses
       /\ Idle \in Request /\ Awaited \in Request
  BY DEF Kinds, Statuses, Request
<1>1. ASSUME NEW m \in Asked, Accept(m) \/ Refuse(m) \/ UseTool(m) \/ Answer(m) \/ Breaks(m)
      PROVE  PanelType'
  <2>1. /\ UNCHANGED <<status, pins, left, page, cache, exchange, proposals, watched>>
        /\ post' = post \/ (\E place \in {"open", "over"} : At(m, place))
        /\ rows' = rows \/ (\E kind \in Kinds : Stores(m, kind))
        /\ wire' = wire \/ (\E e \in {"error", "tool", "answer"} : Sends(m, <<e>>))
    BY <1>00, <1>1 DEF Accept, Refuse, UseTool, Answer, Breaks, ApiSame
  <2>2. post' \in [Asked -> [session : Sessions \cup {0}, mount : Nat,
                            at : {"unsent", "asked", "open", "over"}]]
    <3>1. ASSUME NEW place \in {"open", "over"}, At(m, place)
          PROVE  post' \in [Asked -> [session : Sessions \cup {0}, mount : Nat,
                                     at : {"unsent", "asked", "open", "over"}]]
      BY <3>1 DEF PanelType, At
    <3> QED
      BY <2>1, <3>1 DEF PanelType
  <2>3. rows' \in [Sessions -> SUBSET (Asked \X Kinds)]
    <3>1. ASSUME NEW kind \in Kinds, Stores(m, kind)
          PROVE  rows' \in [Sessions -> SUBSET (Asked \X Kinds)]
      <4> DEFINE t == post[m].session
      <4>1. rows' = [rows EXCEPT ![t] = @ \cup {<<m, kind>>}]
        BY <3>1 DEF Stores
      <4>2. <<m, kind>> \in Asked \X Kinds
        OBVIOUS
      <4> HIDE DEF t
      <4> QED
        BY <4>1, <4>2 DEF PanelType
    <3> QED
      BY <2>1, <3>1 DEF PanelType
  <2>4. wire' \in [Asked -> Seq({"tool", "answer", "error"})]
    <3>1. ASSUME NEW e \in {"error", "tool", "answer"}, Sends(m, <<e>>)
          PROVE  wire' \in [Asked -> Seq({"tool", "answer", "error"})]
      <4>1. wire[m] \o <<e>> \in Seq({"tool", "answer", "error"})
        BY DEF PanelType
      <4> QED
        BY <3>1, <4>1 DEF PanelType, Sends
    <3> QED
      BY <2>1, <3>1 DEF PanelType
  <2> QED
    BY <2>1, <2>2, <2>3, <2>4 DEF PanelType, page, cache, exchange
<1>2. CASE OtherTab
  <2>1. status' \in [Sessions -> Statuses]
    BY <1>00, <1>2 DEF OtherTab, PanelType
  <2> QED
    BY <1>2, <2>1 DEF OtherTab, PanelType, page, cache, exchange, streams
<1>3. ASSUME NEW s \in Sessions, ReadDetail(s) PROVE PanelType'
  <2>1. [status |-> status[s], rows |-> rows[s], pins |-> pins[s]] \in Answers
    BY DEF PanelType, Answers
  <2>2. req' \in [Sessions -> Answers \cup Request]
    BY <1>3, <2>1 DEF ReadDetail, PanelType
  <2> QED
    BY <1>3, <2>2 DEF ReadDetail, PanelType, page, exchange, streams, server
<1>4. CASE OpenPanel
  <2>1. ShownOf(0, list) \in Sessions \cup {0}
    BY ShownIsSession
  <2>2. req' \in [Sessions -> Answers \cup Request]
    BY <1>4, <2>1, Fetched DEF OpenPanel
  <2> QED
    BY <1>0, <1>4, <2>2 DEF OpenPanel, PanelType, Reset, server, streams
<1>5. CASE ClosePanel
  BY <1>5 DEF ClosePanel, PanelType, Reset, server, streams, cache
<1>6. CASE NewSession
  <2>1. PICK s \in Sessions : /\ status' = [status EXCEPT ![s] = "active"] /\ selected' = s
                             /\ req' = Fetch(req, s)
    BY <1>6 DEF NewSession
  <2>2. req' \in [Sessions -> Answers \cup Request] /\ status' \in [Sessions -> Statuses]
    BY <1>00, <2>1, Fetched DEF PanelType
  <2> QED
    BY <1>6, <2>1, <2>2 DEF NewSession, PanelType, Reset, streams
<1>7. ASSUME NEW s \in Sessions, SelectPrevious(s) PROVE PanelType'
  <2>1. req' \in [Sessions -> Answers \cup Request]
    BY <1>7, Fetched DEF SelectPrevious
  <2> QED
    BY <1>7, <2>1 DEF SelectPrevious, PanelType, Reset, streams, server
<1>8. CASE CompleteShown
  <2>1. Shown \in Sessions
    BY <1>0, <1>8 DEF CompleteShown, IsActive, Loaded
  <2>2. req' \in [Sessions -> Answers \cup Request] /\ status' \in [Sessions -> Statuses]
    BY <1>00, <1>8, <2>1, AskedAnew DEF CompleteShown, PanelType
  <2> QED
    BY <1>8, <2>2 DEF CompleteShown, PanelType, streams, page, exchange
<1>9. ASSUME NEW m \in Asked, Post(m) PROVE PanelType'
  <2>1. post' \in [Asked -> [session : Sessions \cup {0}, mount : Nat,
                            at : {"unsent", "asked", "open", "over"}]]
    BY <1>0, <1>9 DEF Post, PanelType
  <2> QED
    BY <1>9, <2>1 DEF Post, PanelType, server, page, cache
<1>10. CASE Abort
  <2>1. Shown \in Sessions
    BY <1>0, <1>10 DEF Abort
  <2>2. Finalise(Shown, mount, Nobody) /\ left' = left \cup {streaming}
    BY <1>10 DEF Abort
  <2>3. req' \in [Sessions -> Answers \cup Request]
    BY <2>1, <2>2, AskedAnew DEF Finalise
  <2>4. clears' \in [Sessions -> SUBSET Nat] /\ liveUser' = liveUser
    BY <2>1, <2>2 DEF Finalise, PanelType
  <2>5. live' = live
    BY <2>2 DEF Finalise, Text
  <2>6. left' \subseteq Asked
    BY <1>10, <2>2 DEF Abort, PanelType
  <2> QED
    BY <1>10, <2>3, <2>4, <2>5, <2>6 DEF Abort, PanelType, server, page
<1>11. ASSUME NEW m \in Asked, ConfirmPin(m) PROVE PanelType'
  <2>1. Shown \in Sessions
    BY <1>0, <1>11 DEF ConfirmPin, Loaded
  <2>2. req' \in [Sessions -> Answers \cup Request] /\ pins' \in [Sessions -> SUBSET Asked]
    BY <1>11, <2>1, AskedAnew DEF ConfirmPin, PanelType
  <2> QED
    BY <1>11, <2>2 DEF ConfirmPin, PanelType, streams, page, exchange
<1>12. ASSUME NEW m \in Asked, Dismiss(m) PROVE PanelType'
  BY <1>12 DEF Dismiss, PanelType, server, streams, page, cache, exchange
<1>13. ASSUME NEW m \in Asked, Receive(m) PROVE PanelType'
  <2>1. /\ wire' \in [Asked -> Seq({"tool", "answer", "error"})]
        /\ Head(wire[m]) \in {"tool", "answer", "error"}
        /\ UNCHANGED <<server, post, left, page, list, detail, streaming, watched>>
    BY <1>13 DEF Receive, PanelType
  <2>2. CASE Head(wire[m]) = "tool"
    <3>1. <<m, "tool">> \in Asked \X Kinds
      BY <1>00
    <3>2. UNCHANGED <<req, clears, liveUser>>
      BY <1>13, <2>2 DEF Receive
    <3>3. live' \subseteq live \cup {<<m, "tool">>} /\ proposals' \subseteq proposals \cup {m}
      BY <1>13, <2>2 DEF Receive
    <3> QED
      BY <2>1, <3>1, <3>2, <3>3 DEF PanelType, server, page
  <2>3. CASE Head(wire[m]) = "answer"
    <3>1. Finalise(post[m].session, post[m].mount, m) /\ UNCHANGED proposals
      BY <1>13, <2>3 DEF Receive
    <3>2. req' \in [Sessions -> Answers \cup Request]
      BY <3>1 DEF Finalise, Invalidated, PanelType, Request
    <3>3. clears' \in [Sessions -> SUBSET Nat]
      <4>1. post[m].mount \in Nat
        BY DEF PanelType
      <4>2. clears' = clears \/ clears' = [clears EXCEPT ![post[m].session] = @ \cup {post[m].mount}]
        BY <3>1 DEF Finalise
      <4> QED
        BY <4>1, <4>2 DEF PanelType
    <3>4. live' \subseteq live \cup {<<m, "answer">>} /\ liveUser' \in {liveUser, Nobody}
      BY <3>1 DEF Finalise, ClearLive, Text
    <3> QED
      BY <1>00, <2>1, <3>1, <3>2, <3>3, <3>4 DEF PanelType, server, page
  <2>4. CASE Head(wire[m]) = "error"
    <3>1. UNCHANGED <<req, clears, liveUser, live, proposals>>
      BY <1>13, <2>4 DEF Receive
    <3> QED
      BY <2>1, <3>1 DEF PanelType, server, page
  <2> QED
    BY <2>1, <2>2, <2>3, <2>4
<1>14. ASSUME NEW m \in Asked, EndOfStream(m) PROVE PanelType'
  BY <1>14 DEF EndOfStream, PanelType, server, streams, page, cache
<1>15. ASSUME NEW s \in Sessions, DetailArrives(s) \/ DetailFails(s) PROVE PanelType'
  <2>1. /\ req' \in [Sessions -> Answers \cup Request] /\ clears' \in [Sessions -> SUBSET Nat]
        /\ live' \in {live, {}} /\ liveUser' \in {liveUser, Nobody} /\ watched' \in {watched, Nobody}
        /\ UNCHANGED <<server, streams, page, list, listReq, streaming, proposals>>
    BY <1>00, <1>15 DEF DetailArrives, DetailFails, Settle, ClearLive, PanelType
  <2>2. detail' \in [Sessions -> Answers \cup {NoData}]
    BY <1>15 DEF DetailArrives, DetailFails, PanelType
  <2> QED
    BY <2>1, <2>2 DEF PanelType, server, streams, page
<1>16. CASE ListArrives
  <2> DEFINE next == IF open THEN ShownOf(selected, status) ELSE 0
  <2>1. next \in Sessions \cup {0}
    BY ShownIsSession DEF PanelType
  <2>2. /\ req' = Fetch(req, next) \/ req' = req
        /\ live' \in {live, {}} /\ liveUser' \in {liveUser, Nobody} /\ watched' \in {watched, Nobody}
        /\ proposals' \in {proposals, {}}
        /\ UNCHANGED <<server, streams, page, detail, clears, streaming>>
    BY <1>16 DEF ListArrives, Reset
  <2>3. req' \in [Sessions -> Answers \cup Request]
    BY <2>1, <2>2, Fetched DEF PanelType
  <2> QED
    BY <2>2, <2>3 DEF PanelType, server, streams, page
<1>17. CASE UNCHANGED panel
  BY <1>17 DEF panel, PanelType, server, streams, page, cache, exchange
<1> QED
  BY <1>1, <1>2, <1>3, <1>4, <1>5, <1>6, <1>7, <1>8, <1>9, <1>10, <1>11, <1>12, <1>13, <1>14, <1>15,
     <1>16, <1>17 DEF PanelNext, Api, Analyst, Callbacks

\* Steps that change what is in view: it stays, or what is shown live goes and the
\* session that comes into view is asked for.
LEMMA ViewSteps ==
  ASSUME PanelType,
         OpenPanel \/ ClosePanel \/ NewSession \/ ListArrives \/ (\E s \in Sessions : SelectPrevious(s))
  PROVE  /\ UNCHANGED <<rows, pins, post, wire, left, detail, clears, excused>>
         /\ \A t \in Sessions : req'[t] = req[t] \/ (req'[t] = Awaited /\ req[t] = Idle)
         /\ \/ Shown' = Shown /\ UNCHANGED <<mount, open, streaming, liveUser, live, watched>>
            \/ /\ liveUser' = Nobody /\ live' = {} /\ watched' = Nobody
               /\ Shown' # 0 => req'[Shown'] # Idle
               /\ \/ UNCHANGED <<mount, open, streaming>>
                  \/ streaming' = Nobody /\ ((open' = FALSE /\ mount' = mount) \/ mount' = mount + 1)
<1> USE DEF server, streams, page, cache, exchange
<1>0. 0 \notin Sessions /\ Shown \in Sessions \cup {0}
  BY NoSessionIsZero, ShownType
<1>1. ASSUME NEW s \in Sessions \cup {0}, req' = Fetch(req, s)
      PROVE  /\ \A t \in Sessions : req'[t] = req[t] \/ (req'[t] = Awaited /\ req[t] = Idle)
             /\ s # 0 => req'[s] # Idle
  BY <1>1, Fetched
<1>2. CASE OpenPanel
  <2>1. ShownOf(0, list) \in Sessions \cup {0}
    BY ShownIsSession
  <2>2. Shown' = ShownOf(0, list)
    BY <1>2 DEF OpenPanel, Shown
  <2> QED
    BY <1>1, <1>2, <2>1, <2>2 DEF OpenPanel, Reset
<1>3. CASE ClosePanel
  <2>1. Shown' = 0
    BY <1>3 DEF ClosePanel, Shown
  <2> QED
    BY <1>3, <2>1 DEF ClosePanel, Reset
<1>4. CASE NewSession
  <2>1. PICK s \in Sessions : selected' = s /\ req' = Fetch(req, s)
    BY <1>4 DEF NewSession
  <2>2. Shown' = s
    BY <1>0, <1>4, <2>1 DEF NewSession, Shown, ShownOf
  <2> QED
    BY <1>1, <1>4, <2>1, <2>2 DEF NewSession, Reset
<1>5. CASE ListArrives
  <2> DEFINE next == IF open THEN ShownOf(selected, status) ELSE 0
  <2>1. next \in Sessions \cup {0}
    BY ShownIsSession DEF PanelType
  <2>2. Shown' = next
    BY <1>5 DEF ListArrives, Shown
  <2>3. UNCHANGED <<rows, pins, post, wire, left, detail, clears, excused, mount, open, streaming>>
    BY <1>5 DEF ListArrives
  <2>4. CASE next # Shown
    <3>1. Reset /\ req' = Fetch(req, next)
      BY <1>5, <2>4 DEF ListArrives
    <3> HIDE DEF next
    <3> QED
      BY <1>1, <2>1, <2>2, <2>3, <3>1 DEF Reset
  <2>5. CASE next = Shown
    <3>1. UNCHANGED <<liveUser, live, watched, req>>
      BY <1>5, <2>5 DEF ListArrives
    <3> HIDE DEF next
    <3> QED
      BY <2>2, <2>3, <2>5, <3>1
  <2> QED
    BY <2>4, <2>5
<1>6. ASSUME NEW s \in Sessions, SelectPrevious(s)
      PROVE  /\ UNCHANGED <<rows, pins, post, wire, left, detail, clears, excused, mount, open, streaming>>
             /\ \A t \in Sessions : req'[t] = req[t] \/ (req'[t] = Awaited /\ req[t] = Idle)
             /\ liveUser' = Nobody /\ live' = {} /\ watched' = Nobody
             /\ Shown' # 0 => req'[Shown'] # Idle
  <2>1. Shown' = s
    BY <1>0, <1>6 DEF SelectPrevious, Shown, ShownOf
  <2> QED
    BY <1>1, <1>6, <2>1 DEF SelectPrevious, Reset
<1> QED
  BY <1>2, <1>3, <1>4, <1>5, <1>6

\* Steps that touch the session in view, a pin or the stream's end and no more, or
\* nothing.
LEMMA MinorSteps ==
  ASSUME PanelType,
         \/ CompleteShown \/ OtherTab \/ UNCHANGED panel
         \/ \E m \in Asked : ConfirmPin(m) \/ Dismiss(m) \/ EndOfStream(m)
  PROVE  /\ UNCHANGED <<rows, post, wire, left, mount, open, detail, clears, liveUser, live,
                        excused, watched>>
         /\ Shown' = Shown
         /\ \A t \in Sessions : req'[t] = req[t] \/ req'[t] = Awaited
         /\ \A t \in Sessions : pins'[t] = pins[t] \/ req'[t] = Awaited
         /\ \/ streaming' = streaming
            \/ /\ streaming' = Nobody
               /\ streaming = Nobody \/ (post[streaming].at = "over" /\ wire[streaming] = <<>>)
<1> USE DEF server, streams, page, cache, exchange
<1>0. Shown \in Sessions \cup {0}
  BY ShownType
<1>1. CASE CompleteShown
  <2>1. Shown \in Sessions
    BY <1>0, <1>1 DEF CompleteShown, IsActive, Loaded
  <2>2. req' = Invalidated(Shown)
    BY <1>1 DEF CompleteShown
  <2>3. \A t \in Sessions : req'[t] = req[t] \/ req'[t] = Awaited
    BY <2>1, <2>2, AskedAnew
  <2> QED
    BY <1>1, <2>3 DEF CompleteShown, Shown
<1>2. CASE OtherTab
  BY <1>2 DEF OtherTab, Shown
<1>3. ASSUME NEW m \in Asked, ConfirmPin(m)
      PROVE  /\ \A t \in Sessions : req'[t] = req[t] \/ req'[t] = Awaited
             /\ \A t \in Sessions : pins'[t] = pins[t] \/ req'[t] = Awaited
             /\ UNCHANGED <<rows, post, wire, left, mount, open, selected, list, detail, clears,
                            liveUser, live, excused, watched, streaming>>
  <2>1. Shown \in Sessions
    BY <1>0, <1>3 DEF ConfirmPin, Loaded
  <2>2. req' = Invalidated(Shown) /\ pins' = [pins EXCEPT ![Shown] = @ \cup {m}]
    BY <1>3 DEF ConfirmPin
  <2>3. \A t \in Sessions : req'[t] = req[t] \/ req'[t] = Awaited
    BY <2>1, <2>2, AskedAnew
  <2>4. \A t \in Sessions : pins'[t] = pins[t] \/ req'[t] = Awaited
    BY <2>1, <2>2, AskedAnew DEF PanelType
  <2> QED
    BY <1>3, <2>3, <2>4 DEF ConfirmPin
<1>4. ASSUME NEW m \in Asked, Dismiss(m) \/ EndOfStream(m)
      PROVE  /\ UNCHANGED <<rows, pins, req, post, wire, left, mount, open, selected, list, detail, clears,
                            liveUser, live, excused, watched>>
             /\ \/ streaming' = streaming
                \/ streaming' = Nobody /\ post[streaming].at = "over" /\ wire[streaming] = <<>>
  BY <1>4 DEF Dismiss, EndOfStream
<1>5. UNCHANGED <<open, selected, list>> => Shown' = Shown
  BY DEF Shown
<1>6. CASE UNCHANGED panel
  BY <1>5, <1>6 DEF panel
<1> QED
  BY <1>1, <1>2, <1>3, <1>4, <1>5, <1>6

\* What the API does with a message concerns that message, which is not over.
LEMMA ApiSteps ==
  ASSUME PanelType, NEW m \in Asked, InOrder(m),
         Accept(m) \/ Refuse(m) \/ UseTool(m) \/ Answer(m) \/ Breaks(m)
  PROVE  /\ UNCHANGED <<pins, left, mount, open, detail, req, clears, liveUser, live, streaming,
                        excused, watched>>
         /\ Shown' = Shown
         /\ \A n \in Asked \ {m} : post'[n] = post[n] /\ wire'[n] = wire[n]
         /\ \A n \in Asked \ {m}, s \in Sessions, kind \in Kinds :
              <<n, kind>> \in rows'[s] <=> <<n, kind>> \in rows[s]
         /\ \A s \in Sessions : rows[s] \subseteq rows'[s]
         /\ post[m].at \in {"asked", "open"} /\ post[m].session \in Sessions
         /\ post'[m].session = post[m].session /\ post'[m].mount = post[m].mount
         /\ "answer" \notin RowsOf(m)
<1> USE DEF server, streams, page, cache, exchange
<1>0. {"user", "tool", "answer"} \subseteq Kinds
  BY DEF Kinds
<1>1. /\ UNCHANGED <<pins, left, mount, open, selected, list, detail, req, clears, liveUser, live, streaming,
                     excused, watched>>
      /\ post[m].at \in {"asked", "open"}
  BY Zenon DEF Accept, Refuse, UseTool, Answer, Breaks, ApiSame
<1>2. Shown' = Shown
  BY <1>1 DEF Shown
<1>3. post[m].session \in Sessions
  BY <1>1 DEF InOrder
<1>4. "answer" \notin RowsOf(m)
  BY <1>1 DEF InOrder
<1>5. post' = post \/ (\E place \in {"open", "over"} : At(m, place))
  BY DEF Accept, Refuse, UseTool, Answer, Breaks
<1>6. /\ \A n \in Asked \ {m} : post'[n] = post[n]
      /\ post'[m].session = post[m].session /\ post'[m].mount = post[m].mount
  <2>1. ASSUME NEW place \in {"open", "over"}, At(m, place)
        PROVE  /\ \A n \in Asked \ {m} : post'[n] = post[n]
               /\ post'[m].session = post[m].session /\ post'[m].mount = post[m].mount
    BY <2>1 DEF At, PanelType
  <2> QED
    BY <1>5, <2>1
<1>7. wire' = wire \/ (\E e \in {"error", "tool", "answer"} : Sends(m, <<e>>))
  BY DEF Accept, Refuse, UseTool, Answer, Breaks
<1>8. \A n \in Asked \ {m} : wire'[n] = wire[n]
  BY <1>7 DEF Sends, PanelType
<1>9. rows' = rows \/ (\E kind \in Kinds : Stores(m, kind))
  BY <1>0 DEF Accept, Refuse, UseTool, Answer, Breaks
<1>10. /\ \A n \in Asked \ {m}, s \in Sessions, kind \in Kinds :
            <<n, kind>> \in rows'[s] <=> <<n, kind>> \in rows[s]
       /\ \A s \in Sessions : rows[s] \subseteq rows'[s]
  <2>1. ASSUME NEW k \in Kinds, Stores(m, k)
        PROVE  /\ \A n \in Asked \ {m}, s \in Sessions, kind \in Kinds :
                    <<n, kind>> \in rows'[s] <=> <<n, kind>> \in rows[s]
               /\ \A s \in Sessions : rows[s] \subseteq rows'[s]
    BY <2>1 DEF Stores, PanelType
  <2> QED
    BY <1>9, <2>1
<1> QED
  BY <1>1, <1>2, <1>3, <1>4, <1>6, <1>8, <1>10

\* An event that is read is off the wire; the answer is the last.
LEMMA ReceiveSteps ==
  ASSUME PanelType, NEW m \in Asked, InOrder(m), Receive(m)
  PROVE  /\ UNCHANGED <<rows, pins, post, left, mount, open, detail, streaming, watched>>
         /\ Shown' = Shown
         /\ m \notin left /\ wire[m] # <<>> /\ wire'[m] = Tail(wire[m])
         /\ \A n \in Asked \ {m} : wire'[n] = wire[n]
         /\ post[m].at # "unsent" /\ post[m].session \in Sessions
         /\ Head(wire[m]) \in {"tool", "answer", "error"}
         /\ Head(wire[m]) # "answer" /\ "answer" \in RowsOf(m) => wire'[m] # <<>>
         /\ Head(wire[m]) = "answer" =>
              post[m].at = "over" /\ {"user", "answer"} \subseteq RowsOf(m)
         /\ Head(wire[m]) # "answer" => UNCHANGED <<req, clears, liveUser, excused>>
<1> USE DEF server, streams, page, cache, exchange
<1>1. /\ UNCHANGED <<rows, pins, post, left, mount, open, selected, list, detail, streaming, watched>>
      /\ m \notin left /\ wire[m] # <<>> /\ wire' = [wire EXCEPT ![m] = Tail(@)]
  BY DEF Receive
<1>2. Shown' = Shown
  BY <1>1 DEF Shown
<1>3. wire'[m] = Tail(wire[m]) /\ \A n \in Asked \ {m} : wire'[n] = wire[n]
  BY <1>1 DEF PanelType
<1>4. post[m].at # "unsent" /\ post[m].session \in Sessions
  BY <1>1 DEF InOrder
<1>5. wire[m] \in Seq({"tool", "answer", "error"}) /\ Head(wire[m]) = wire[m][1] /\ 1 \in DOMAIN wire[m]
  BY <1>1 DEF PanelType
<1>6. Head(wire[m]) \in {"tool", "answer", "error"}
  BY <1>1, <1>5
<1>7. ASSUME Head(wire[m]) # "answer", "answer" \in RowsOf(m) PROVE wire'[m] # <<>>
  <2>1. wire[m][Len(wire[m])] = "answer"
    BY <1>1, <1>4, <1>7 DEF InOrder
  <2>2. Len(wire[m]) # 1
    BY <1>5, <1>7, <2>1
  <2> DEFINE w == wire[m]
  <2>3. w \in Seq({"tool", "answer", "error"}) /\ w # <<>> /\ Len(w) # 1
    BY <1>1, <1>5, <2>2
  <2> HIDE DEF w
  <2>4. Len(Tail(w)) # 0
    BY <2>3
  <2>5. ASSUME Tail(w) = <<>> PROVE FALSE
    <3>1. Len(<<>>) = 0
      OBVIOUS
    <3> QED
      BY <2>4, <2>5, <3>1
  <2> QED
    BY <1>3, <2>5, Zenon DEF w
<1>8. ASSUME Head(wire[m]) = "answer" PROVE post[m].at = "over" /\ {"user", "answer"} \subseteq RowsOf(m)
  BY <1>4, <1>5, <1>8 DEF InOrder
<1>9. ASSUME Head(wire[m]) # "answer" PROVE UNCHANGED <<req, clears, liveUser, excused>>
  BY <1>6, <1>9 DEF Receive
<1> QED
  BY <1>1, <1>2, <1>3, <1>4, <1>6, <1>7, <1>8, <1>9

\* A request that is settled.
LEMMA SettleSteps ==
  ASSUME PanelType, NEW s \in Sessions, DetailArrives(s) \/ DetailFails(s)
  PROVE  /\ UNCHANGED <<rows, pins, post, wire, left, mount, open, streaming>>
         /\ Shown' = Shown
         /\ req'[s] = Idle /\ clears'[s] = {} /\ detail'[s] # NoData
         /\ \A t \in Sessions \ {s} : req'[t] = req[t] /\ clears'[t] = clears[t] /\ detail'[t] = detail[t]
         /\ \/ open /\ mount \in clears[s] /\ liveUser' = Nobody /\ live' = {}
            \/ ~(open /\ mount \in clears[s]) /\ UNCHANGED <<liveUser, live>>
         /\ \/ /\ req[s] \notin Request /\ detail'[s] = req[s]
               /\ UNCHANGED <<excused, watched>>
            \/ detail'[s] = detail[s] /\ excused' = excused \cup {s} /\ watched' = Nobody
<1> USE DEF server, streams, page, cache, exchange
<1>1. UNCHANGED <<rows, pins, post, wire, left, mount, open, selected, list, streaming>> /\ Settle(s)
  BY DEF DetailArrives, DetailFails
<1>2. Shown' = Shown
  BY <1>1 DEF Shown
<1>3. /\ req'[s] = Idle /\ clears'[s] = {}
      /\ \A t \in Sessions \ {s} : req'[t] = req[t] /\ clears'[t] = clears[t]
  BY <1>1 DEF Settle, PanelType
<1>4. \/ open /\ mount \in clears[s] /\ liveUser' = Nobody /\ live' = {}
      \/ ~(open /\ mount \in clears[s]) /\ UNCHANGED <<liveUser, live>>
  BY <1>1 DEF Settle, ClearLive
<1>5. CASE DetailArrives(s)
  <2>1. req[s] \in Answers /\ req[s] \notin Request /\ detail' = [detail EXCEPT ![s] = req[s]]
    BY <1>5 DEF DetailArrives, PanelType
  <2>2. detail'[s] = req[s] /\ req[s] # NoData /\ \A t \in Sessions \ {s} : detail'[t] = detail[t]
    BY <2>1, NothingAssumption DEF PanelType
  <2>3. UNCHANGED <<excused, watched>>
    BY <1>5 DEF DetailArrives
  <2> QED
    BY <1>1, <1>2, <1>3, <1>4, <2>1, <2>2, <2>3
<1>6. CASE DetailFails(s)
  <2>1. UNCHANGED detail /\ detail[s] # NoData /\ excused' = excused \cup {s} /\ watched' = Nobody
    BY <1>6 DEF DetailFails
  <2> QED
    BY <1>1, <1>2, <1>3, <1>4, <2>1
<1> QED
  BY <1>5, <1>6

\* The other steps, with what they leave alone.
LEMMA ReadSteps ==
  ASSUME PanelType, NEW s \in Sessions, ReadDetail(s)
  PROVE  /\ UNCHANGED <<rows, pins, post, wire, left, mount, open, detail, clears, liveUser, live,
                        streaming, watched>>
         /\ Shown' = Shown /\ req[s] = Awaited
         /\ req'[s] \in Answers /\ req'[s].rows = rows[s] /\ req'[s].pins = pins[s]
         /\ \A t \in Sessions \ {s} : req'[t] = req[t]
         /\ excused' = excused \ {s}
<1> USE DEF server, streams, page, cache, exchange
<1>1. /\ UNCHANGED <<rows, pins, post, wire, left, mount, open, selected, list, detail, clears,
                     liveUser, live, streaming, watched>>
      /\ req[s] = Awaited /\ excused' = excused \ {s}
  BY DEF ReadDetail
<1>2. req' = [req EXCEPT ![s] = [status |-> status[s], rows |-> rows[s], pins |-> pins[s]]]
  BY DEF ReadDetail
<1>3. [status |-> status[s], rows |-> rows[s], pins |-> pins[s]] \in Answers
  BY DEF PanelType, Answers
<1>4. Shown' = Shown
  BY <1>1 DEF Shown
<1> QED
  BY <1>1, <1>2, <1>3, <1>4 DEF PanelType
LEMMA PostSteps ==
  ASSUME PanelType, NEW m \in Asked, Post(m)
  PROVE  /\ UNCHANGED <<rows, pins, wire, left, mount, open, detail, req, clears, excused>>
         /\ Shown' = Shown /\ Shown \in Sessions /\ open
         /\ streaming = Nobody /\ streaming' = m /\ liveUser' = m /\ live' = {}
         /\ post[m].at = "unsent" /\ detail[Shown] # NoData
         /\ post'[m].session = Shown /\ post'[m].mount = mount /\ post'[m].at = "asked"
         /\ \A n \in Asked \ {m} : post'[n] = post[n]
         /\ watched' = Nobody \/ (watched' = m /\ \A s \in Sessions : mount \notin clears[s])
<1> USE DEF server, streams, page, cache, exchange
<1>1. /\ UNCHANGED <<rows, pins, wire, left, mount, open, selected, list, detail, req, clears, excused>>
      /\ streaming = Nobody /\ streaming' = m /\ liveUser' = m /\ live' = {}
      /\ post[m].at = "unsent"
      /\ post' = [post EXCEPT ![m] = [session |-> Shown, mount |-> mount, at |-> "asked"]]
      /\ watched' = IF \E s \in Sessions : mount \in clears[s] THEN Nobody ELSE m
  BY DEF Post
<1>2. Shown \in Sessions /\ Shown # 0 /\ detail[Shown] # NoData
  BY ShownType DEF Post, IsActive, Loaded
<1>3. Shown' = Shown
  BY <1>1 DEF Shown
<1>4. open
  BY <1>2 DEF Shown
<1> QED
  BY <1>1, <1>2, <1>3, <1>4 DEF PanelType
LEMMA AbortSteps ==
  ASSUME PanelType, Abort
  PROVE  /\ UNCHANGED <<rows, pins, post, wire, mount, open, detail, liveUser, live, excused>>
         /\ Shown' = Shown /\ Shown \in Sessions /\ open
         /\ streaming \in Asked /\ left' = left \cup {streaming} /\ streaming' = Nobody
         /\ watched' = Nobody
         /\ req'[Shown] = Awaited /\ clears'[Shown] = clears[Shown] \cup {mount}
         /\ \A t \in Sessions \ {Shown} : req'[t] = req[t] /\ clears'[t] = clears[t]
<1> USE DEF server, streams, page, cache, exchange
<1>1. /\ UNCHANGED <<rows, pins, post, wire, mount, open, selected, list, detail, excused>>
      /\ Shown # 0 /\ streaming # Nobody /\ left' = left \cup {streaming} /\ streaming' = Nobody
      /\ watched' = Nobody /\ Finalise(Shown, mount, Nobody)
  BY DEF Abort
<1>2. Shown \in Sessions /\ streaming \in Asked
  BY <1>1, ShownType DEF PanelType
<1>3. Shown' = Shown
  BY <1>1 DEF Shown
<1>4. open
  BY <1>1 DEF Shown
<1>5. live' = live /\ liveUser' = liveUser
  BY <1>1 DEF Finalise, Text
<1>6. req'[Shown] = Awaited /\ \A t \in Sessions \ {Shown} : req'[t] = req[t]
  BY <1>1, <1>2, AskedAnew DEF Finalise
<1>7. /\ clears'[Shown] = clears[Shown] \cup {mount}
      /\ \A t \in Sessions \ {Shown} : clears'[t] = clears[t]
  BY <1>1, <1>2 DEF Finalise, PanelType
<1> QED
  BY <1>1, <1>2, <1>3, <1>4, <1>5, <1>6, <1>7

\* An answer that is read: in view it is refetched and awaited, out of view the live
\* exchange of its mount goes at once.
LEMMA AnswerRead ==
  ASSUME PanelType, NEW m \in Asked, InOrder(m), Receive(m), Head(wire[m]) = "answer",
         NEW s, s = post[m].session
  PROVE  /\ \A t \in Sessions \ {s} : req'[t] = req[t] /\ clears'[t] = clears[t]
         /\ Shown # s => req'[s] = req[s] /\ clears'[s] = clears[s]
         /\ Shown = s =>
              /\ req'[s] = Awaited /\ clears'[s] = clears[s] \cup {post[m].mount}
              /\ live' = (IF post[m].mount = mount THEN live \cup {<<m, "answer">>} ELSE live)
              /\ UNCHANGED liveUser
         /\ Shown # s =>
              IF post[m].mount = mount /\ open THEN liveUser' = Nobody /\ live' = {}
              ELSE UNCHANGED <<liveUser, live>>
         /\ excused \subseteq excused'
         /\ Shown # s /\ req[s] \notin Request => s \in excused'
<1>1. Finalise(s, post[m].mount, m)
  BY DEF Receive
<1>2. excused' = IF Overtaken(s) THEN excused \cup {s} ELSE excused
  BY DEF Receive
<1>3. s \in Sessions /\ m # Nobody
  BY ReceiveSteps, PanelAssumption
<1>4. /\ \A t \in Sessions \ {s} : req'[t] = req[t]
      /\ Shown # s => req'[s] = req[s]
      /\ Shown = s => req'[s] = Awaited
  BY <1>1, <1>3, AskedAnew DEF Finalise
<1>5. /\ \A t \in Sessions \ {s} : clears'[t] = clears[t]
      /\ Shown # s => clears'[s] = clears[s]
      /\ Shown = s => clears'[s] = clears[s] \cup {post[m].mount}
  BY <1>1, <1>3 DEF Finalise, PanelType
<1>6. Shown = s => /\ live' = (IF post[m].mount = mount THEN live \cup {<<m, "answer">>} ELSE live)
                   /\ UNCHANGED liveUser
  BY <1>1, <1>3 DEF Finalise, Text
<1>7. Shown # s => IF post[m].mount = mount /\ open THEN liveUser' = Nobody /\ live' = {}
                   ELSE UNCHANGED <<liveUser, live>>
  BY <1>1 DEF Finalise, ClearLive
<1>8. excused \subseteq excused' /\ (Shown # s /\ req[s] \notin Request => s \in excused')
  BY <1>2 DEF Overtaken
<1> QED
  BY <1>4, <1>5, <1>6, <1>7, <1>8

\* A message's rows and events keep the order of its exchange.
LEMMA InOrderNext ==
  ASSUME PanelIInv, [PanelNext]_panel, NEW n \in Asked
  PROVE  InOrder(n)'
<1>0. /\ PanelType /\ PanelType' /\ InOrder(n)
      /\ {"user", "tool", "answer"} \subseteq Kinds
  BY PanelTypeNext DEF PanelIInv, Kinds
<1>1. ASSUME UNCHANGED <<rows, post, wire, left>>, mount' \in {mount, mount + 1}
      PROVE  InOrder(n)'
  <2>1. post[n].mount <= mount => post[n].mount <= mount'
    BY <1>0, <1>1 DEF PanelType
  <2> QED
    BY <1>0, <1>1, <2>1 DEF InOrder, RowsOf
<1>2. CASE \/ OpenPanel \/ ClosePanel \/ NewSession \/ ListArrives
           \/ \E s \in Sessions : SelectPrevious(s)
  <2>1. UNCHANGED <<rows, post, wire, left>> /\ mount' \in {mount, mount + 1}
    BY <1>0, <1>2, ViewSteps
  <2> QED
    BY <1>1, <2>1
<1>3. CASE \/ CompleteShown \/ OtherTab \/ UNCHANGED panel
           \/ \E m \in Asked : ConfirmPin(m) \/ Dismiss(m) \/ EndOfStream(m)
  <2>1. UNCHANGED <<rows, post, wire, left, mount>>
    BY <1>0, <1>3, MinorSteps
  <2> QED
    BY <1>1, <2>1
<1>4. ASSUME NEW m \in Asked, Post(m) PROVE InOrder(n)'
  <2>1. /\ UNCHANGED <<rows, wire, left, mount>> /\ Shown \in Sessions /\ post[m].at = "unsent"
        /\ post'[m].session = Shown /\ post'[m].mount = mount /\ post'[m].at = "asked"
        /\ \A k \in Asked \ {m} : post'[k] = post[k]
    BY <1>0, <1>4, PostSteps
  <2>2. CASE n = m
    <3>1. mount <= mount
      BY <1>0 DEF PanelType
    <3>2. RowsOf(n)' = {}
      BY <1>0, <2>1, <2>2 DEF InOrder, RowsOf
    <3> QED
      BY <1>0, <2>1, <2>2, <3>1, <3>2 DEF InOrder
  <2>3. CASE n # m
    BY <1>0, <2>1, <2>3 DEF InOrder, RowsOf
  <2> QED
    BY <2>2, <2>3
<1>5. CASE Abort
  <2>1. /\ UNCHANGED <<rows, post, wire, mount>> /\ streaming # Nobody /\ left' = left \cup {streaming}
    BY <1>0, <1>5, AbortSteps, PanelAssumption
  <2>2. post[streaming].at # "unsent"
    BY <2>1 DEF PanelIInv, OneStream
  <2> QED
    BY <1>0, <2>1, <2>2 DEF InOrder, RowsOf
<1>6. ASSUME NEW m \in Asked, Accept(m) \/ Refuse(m) \/ UseTool(m) \/ Answer(m) \/ Breaks(m)
      PROVE  InOrder(n)'
  <2>1. InOrder(m)
    BY DEF PanelIInv
  <2>2. /\ UNCHANGED <<left, mount>>
        /\ \A k \in Asked \ {m} : post'[k] = post[k] /\ wire'[k] = wire[k]
        /\ \A k \in Asked \ {m}, s \in Sessions, kind \in Kinds :
             <<k, kind>> \in rows'[s] <=> <<k, kind>> \in rows[s]
        /\ post[m].at \in {"asked", "open"} /\ post[m].session \in Sessions
        /\ post'[m].session = post[m].session /\ post'[m].mount = post[m].mount
        /\ "answer" \notin RowsOf(m)
    BY <1>0, <1>6, <2>1, ApiSteps
  <2>3. CASE n # m
    <3>1. post'[n] = post[n] /\ wire'[n] = wire[n]
      BY <2>2, <2>3
    <3>2. \A s \in Sessions, kind \in Kinds : <<n, kind>> \in rows'[s] <=> <<n, kind>> \in rows[s]
      BY <2>2, <2>3
    <3>3. post[n].at # "unsent" => RowsOf(n)' = RowsOf(n)
      BY <1>0, <3>1, <3>2 DEF RowsOf, InOrder
    <3> QED
      BY <1>0, <2>2, <3>1, <3>2, <3>3 DEF InOrder
  <2>4. CASE n = m
    <3> DEFINE w == wire[n]
               s == post[n].session
    <3>1. /\ w \in Seq({"tool", "answer", "error"}) /\ \A i \in DOMAIN w : w[i] # "answer"
          /\ s \in Sessions /\ post[n].mount <= mount /\ post[n].at \in {"asked", "open"}
          /\ "answer" \notin RowsOf(n) /\ post'[n].session = s /\ post'[n].mount = post[n].mount
      BY <1>0, <2>2, <2>4 DEF InOrder, PanelType
    <3>2. ASSUME NEW e \in {"tool", "answer", "error"}, wire' = [wire EXCEPT ![n] = @ \o <<e>>]
          PROVE  /\ wire'[n] # <<>> /\ wire'[n][Len(wire'[n])] = e
                 /\ \A i \in DOMAIN wire'[n] : wire'[n][i] = "answer" => e = "answer" /\ i = Len(wire'[n])
      <4>1. wire'[n] = w \o <<e>>
        BY <1>0, <3>2 DEF PanelType
      <4> HIDE DEF w
      <4>2. w \o <<e>> # <<>> /\ Len(w \o <<e>>) = Len(w) + 1 /\ (w \o <<e>>)[Len(w) + 1] = e
        BY <3>1
      <4>3. \A i \in DOMAIN (w \o <<e>>) : i # Len(w) + 1 => i \in DOMAIN w /\ (w \o <<e>>)[i] = w[i]
        BY <3>1
      <4> QED
        BY <3>1, <4>1, <4>2, <4>3
    <3>3. ASSUME NEW k \in Kinds, rows' = [rows EXCEPT ![s] = @ \cup {<<n, k>>}]
          PROVE  RowsOf(n)' = RowsOf(n) \cup {k}
      BY <1>0, <3>1, <3>3 DEF RowsOf, PanelType
    <3>4. rows' = rows => RowsOf(n)' = RowsOf(n)
      BY <3>1 DEF RowsOf
    <3>5. ASSUME NEW p \in {"open", "over"}, At(n, p) PROVE post'[n].at = p
      BY <1>0, <3>5 DEF At, PanelType
    <3>6. CASE Accept(n)
      <4>1. rows' = [rows EXCEPT ![s] = @ \cup {<<n, "user">>}] /\ wire' = wire /\ At(n, "open")
        BY <3>6 DEF Accept, Stores
      <4>2. RowsOf(n)' = RowsOf(n) \cup {"user"} /\ post'[n].at = "open"
        BY <1>0, <3>3, <3>5, <4>1
      <4> QED
        BY <2>2, <3>1, <4>1, <4>2 DEF InOrder
    <3>7. CASE Refuse(n) \/ Breaks(n)
      <4>1. wire' = [wire EXCEPT ![n] = @ \o <<"error">>] /\ At(n, "over") /\ rows' = rows
        BY <3>7 DEF Refuse, Breaks, Sends
      <4>2. post'[n].at = "over" /\ RowsOf(n)' = RowsOf(n)
        BY <3>4, <3>5, <4>1
      <4>3. \A i \in DOMAIN wire'[n] : wire'[n][i] # "answer"
        BY <3>2, <4>1
      <4> QED
        BY <2>2, <3>1, <4>1, <4>2, <4>3 DEF InOrder
    <3>8. CASE UseTool(n)
      <4>1. /\ rows' = [rows EXCEPT ![s] = @ \cup {<<n, "tool">>}] /\ post' = post
            /\ wire' = [wire EXCEPT ![n] = @ \o <<"tool">>] /\ post[n].at = "open"
        BY <3>8 DEF UseTool, Stores, Sends
      <4>2. RowsOf(n)' = RowsOf(n) \cup {"tool"}
        BY <1>0, <3>3, <4>1
      <4>3. \A i \in DOMAIN wire'[n] : wire'[n][i] # "answer"
        BY <3>2, <4>1
      <4>4. "user" \in RowsOf(n)
        BY <1>0, <4>1 DEF InOrder
      <4> QED
        BY <2>2, <3>1, <4>1, <4>2, <4>3, <4>4 DEF InOrder
    <3>9. CASE Answer(n)
      <4>1. /\ rows' = [rows EXCEPT ![s] = @ \cup {<<n, "answer">>}] /\ At(n, "over")
            /\ wire' = [wire EXCEPT ![n] = @ \o <<"answer">>] /\ post[n].at = "open"
        BY <3>9 DEF Answer, Stores, Sends
      <4>2. RowsOf(n)' = RowsOf(n) \cup {"answer"} /\ post'[n].at = "over"
        BY <1>0, <3>3, <3>5, <4>1
      <4>3. /\ wire'[n][Len(wire'[n])] = "answer"
            /\ \A i \in DOMAIN wire'[n] : wire'[n][i] = "answer" => i = Len(wire'[n])
        BY <3>2, <4>1
      <4>4. "user" \in RowsOf(n)
        BY <1>0, <4>1 DEF InOrder
      <4> QED
        BY <2>2, <3>1, <4>2, <4>3, <4>4 DEF InOrder
    <3> QED
      BY <1>6, <2>4, <3>6, <3>7, <3>8, <3>9
  <2> QED
    BY <2>3, <2>4
<1>7. ASSUME NEW s \in Sessions, ReadDetail(s) \/ DetailArrives(s) \/ DetailFails(s)
      PROVE  InOrder(n)'
  <2>1. UNCHANGED <<rows, post, wire, left, mount>>
    BY <1>0, <1>7, ReadSteps, SettleSteps
  <2> QED
    BY <1>1, <2>1
<1>8. ASSUME NEW m \in Asked, Receive(m) PROVE InOrder(n)'
  <2>1. InOrder(m)
    BY DEF PanelIInv
  <2>2. /\ UNCHANGED <<rows, post, left, mount>>
        /\ wire[m] # <<>> /\ wire'[m] = Tail(wire[m])
        /\ \A k \in Asked \ {m} : wire'[k] = wire[k]
    BY <1>0, <1>8, <2>1, ReceiveSteps
  <2>3. CASE n # m
    BY <1>0, <2>2, <2>3 DEF InOrder, RowsOf
  <2>4. CASE n = m
    <3> DEFINE w == wire[n]
    <3>1. w \in Seq({"tool", "answer", "error"}) /\ w # <<>> /\ wire'[n] = Tail(w)
      BY <1>0, <2>2, <2>4 DEF PanelType
    <3>2. /\ RowsOf(n)' = RowsOf(n)
          /\ post[n].at # "unsent" /\ "answer" \in RowsOf(n) => w[Len(w)] = "answer"
          /\ \A i \in DOMAIN w : w[i] = "answer" => i = Len(w) /\ "answer" \in RowsOf(n)
      BY <1>0, <2>2, <3>1 DEF InOrder, RowsOf
    <3>3. /\ Len(Tail(w)) = Len(w) - 1
          /\ \A i \in DOMAIN Tail(w) : i + 1 \in DOMAIN w /\ Tail(w)[i] = w[i + 1] /\ i \in Nat
      <4> HIDE DEF w
      <4> QED
        BY <3>1
    <3>4. ASSUME Tail(w) # <<>> PROVE Tail(w)[Len(Tail(w))] = w[Len(w)]
      <4> HIDE DEF w
      <4> QED
        BY <3>1, <3>4
    <3>5. \A i \in DOMAIN Tail(w) : Tail(w)[i] = "answer" => i = Len(Tail(w)) /\ "answer" \in RowsOf(n)
      <4> HIDE DEF w
      <4>1. Len(w) \in Nat
        BY <3>1
      <4> QED
        BY <3>2, <3>3, <4>1
    <3>6. post[n].at \notin {"unsent", "asked"}
      BY <1>0, <3>1 DEF InOrder
    <3> QED
      BY <1>0, <2>2, <3>1, <3>2, <3>4, <3>5, <3>6 DEF InOrder
  <2> QED
    BY <2>3, <2>4
<1> QED
  BY <1>2, <1>3, <1>4, <1>5, <1>6, <1>7, <1>8 DEF PanelNext, Api, Analyst, Callbacks

\* The panel streams no more than one exchange.
LEMMA OneStreamNext ==
  ASSUME PanelIInv, [PanelNext]_panel
  PROVE  OneStream'
<1>0. /\ PanelType /\ OneStream /\ Nobody \notin Asked /\ \A m \in Asked : InOrder(m)
      /\ streaming \in Asked \cup {Nobody} /\ mount \in Nat
  BY PanelAssumption DEF PanelIInv, PanelType
<1>1. ASSUME /\ UNCHANGED <<mount, left>> /\ open' \in {open, FALSE} /\ streaming' = streaming
             /\ \A m \in Asked : /\ post'[m].at \in {post[m].at, "open", "over"}
                                 /\ post[m].at = "over" => post'[m].at = "over"
                                 /\ (post'[m].at = "unsent" <=> post[m].at = "unsent")
                                 /\ post'[m].mount = post[m].mount
                                 /\ wire[m] = <<>> /\ post[m].at = "over" => wire'[m] = <<>>
      PROVE  OneStream'
  <2>1. streaming # Nobody => post'[streaming].at # "unsent"
    BY <1>0, <1>1 DEF OneStream
  <2>2. ASSUME NEW m \in Asked, open', post'[m].mount = mount', post'[m].at # "unsent", m \notin left',
               post'[m].at # "over" \/ wire'[m] # <<>>
        PROVE  streaming' = m
    <3>1. open /\ post[m].mount = mount /\ post[m].at # "unsent" /\ m \notin left
      BY <1>1, <2>2
    <3>2. post[m].at # "over" \/ wire[m] # <<>>
      BY <1>1, <2>2
    <3> QED
      BY <1>0, <1>1, <3>1, <3>2 DEF OneStream
  <2> QED
    BY <1>1, <2>1, <2>2 DEF OneStream
<1>2. CASE \/ OpenPanel \/ ClosePanel \/ NewSession \/ ListArrives
           \/ \E s \in Sessions : SelectPrevious(s)
  <2>1. /\ UNCHANGED <<post, wire, left>>
        /\ \/ UNCHANGED <<mount, open, streaming>>
           \/ streaming' = Nobody /\ ((open' = FALSE /\ mount' = mount) \/ mount' = mount + 1)
    BY <1>0, <1>2, ViewSteps
  <2>2. CASE UNCHANGED <<mount, open, streaming>>
    BY <1>1, <2>1, <2>2
  <2>3. CASE streaming' = Nobody /\ open' = FALSE
    BY <1>0, <2>1, <2>3 DEF OneStream
  <2>4. CASE streaming' = Nobody /\ mount' = mount + 1
    <3>1. \A m \in Asked : post[m].at # "unsent" => post[m].mount <= mount /\ post[m].mount \in Nat
      BY <1>0 DEF InOrder, PanelType
    <3>2. \A m \in Asked : post[m].at # "unsent" => post[m].mount # mount'
      BY <1>0, <2>4, <3>1
    <3> QED
      BY <2>1, <2>4, <3>2 DEF OneStream
  <2> QED
    BY <2>1, <2>2, <2>3, <2>4
<1>3. CASE \/ CompleteShown \/ OtherTab \/ UNCHANGED panel
           \/ \E m \in Asked : ConfirmPin(m) \/ Dismiss(m) \/ EndOfStream(m)
  <2>1. /\ UNCHANGED <<post, wire, left, mount, open>>
        /\ \/ streaming' = streaming
           \/ /\ streaming' = Nobody
              /\ streaming = Nobody \/ (post[streaming].at = "over" /\ wire[streaming] = <<>>)
    BY <1>0, <1>3, MinorSteps
  <2> QED
    BY <1>0, <2>1 DEF OneStream
<1>4. ASSUME NEW m \in Asked, Post(m) PROVE OneStream'
  <2>1. /\ UNCHANGED <<wire, left, mount, open>> /\ open
        /\ streaming = Nobody /\ streaming' = m /\ post'[m].at = "asked"
        /\ \A n \in Asked \ {m} : post'[n] = post[n]
    BY <1>0, <1>4, PostSteps
  <2> QED
    BY <1>0, <2>1 DEF OneStream
<1>5. CASE Abort
  <2>1. UNCHANGED <<post, wire, mount, open>> /\ left' = left \cup {streaming} /\ streaming' = Nobody
    BY <1>0, <1>5, AbortSteps
  <2> QED
    BY <1>0, <2>1 DEF OneStream
<1>6. ASSUME NEW m \in Asked, Accept(m) \/ Refuse(m) \/ UseTool(m) \/ Answer(m) \/ Breaks(m)
      PROVE  OneStream'
  <2>1. /\ UNCHANGED <<left, mount, open, streaming>>
        /\ \A n \in Asked \ {m} : post'[n] = post[n] /\ wire'[n] = wire[n]
        /\ post[m].at \in {"asked", "open"} /\ post'[m].mount = post[m].mount
    BY <1>0, <1>6, ApiSteps
  <2>2. post' = post \/ (\E place \in {"open", "over"} : At(m, place))
    BY <1>6 DEF Accept, Refuse, UseTool, Answer, Breaks
  <2>3. post'[m].at \in {post[m].at, "open", "over"}
    BY <1>0, <2>2 DEF At, PanelType
  <2> QED
    BY <1>1, <2>1, <2>3
<1>7. ASSUME NEW s \in Sessions, ReadDetail(s) \/ DetailArrives(s) \/ DetailFails(s)
      PROVE  OneStream'
  <2>1. UNCHANGED <<post, wire, left, mount, open, streaming>>
    BY <1>0, <1>7, ReadSteps, SettleSteps
  <2> QED
    BY <1>1, <2>1
<1>8. ASSUME NEW m \in Asked, Receive(m) PROVE OneStream'
  <2>1. /\ UNCHANGED <<post, left, mount, open, streaming>> /\ wire[m] # <<>>
        /\ \A n \in Asked \ {m} : wire'[n] = wire[n]
    BY <1>0, <1>8, ReceiveSteps
  <2> QED
    BY <1>1, <2>1
<1> QED
  BY <1>2, <1>3, <1>4, <1>5, <1>6, <1>7, <1>8 DEF PanelNext, Api, Analyst, Callbacks

\* What a session's requests bring.
LEMMA RequestedNext ==
  ASSUME PanelIInv, [PanelNext]_panel
  PROVE  Requested'
<1>0. /\ PanelType /\ Requested /\ Idle \in Request /\ Awaited \in Request /\ Idle # Awaited
      /\ \A m \in Asked : InOrder(m) /\ Shown \in Sessions \cup {0}
      /\ \A a \in Answers : a \notin Request
  BY ShownType, NothingAssumption DEF PanelIInv, Request
<1>1. ASSUME /\ UNCHANGED <<detail, clears>> /\ excused \subseteq excused'
             /\ \A t \in Sessions : rows[t] \subseteq rows'[t]
             /\ \A t \in Sessions : req'[t] = req[t] \/ req'[t] = Awaited
             /\ \A t \in Sessions : pins'[t] = pins[t] \/ req'[t] = Awaited
      PROVE  Requested'
  BY <1>0, <1>1 DEF Requested
<1>2. CASE \/ OpenPanel \/ ClosePanel \/ NewSession \/ ListArrives
           \/ \E s \in Sessions : SelectPrevious(s)
  <2>1. /\ UNCHANGED <<rows, pins, detail, clears, excused>>
        /\ \A t \in Sessions : req'[t] = req[t] \/ req'[t] = Awaited
    BY <1>0, <1>2, ViewSteps
  <2> QED
    BY <1>1, <2>1
<1>3. CASE \/ CompleteShown \/ OtherTab \/ UNCHANGED panel
           \/ \E m \in Asked : ConfirmPin(m) \/ Dismiss(m) \/ EndOfStream(m)
  <2>1. /\ UNCHANGED <<rows, detail, clears, excused>>
        /\ \A t \in Sessions : req'[t] = req[t] \/ req'[t] = Awaited
        /\ \A t \in Sessions : pins'[t] = pins[t] \/ req'[t] = Awaited
    BY <1>0, <1>3, MinorSteps
  <2> QED
    BY <1>1, <2>1
<1>4. ASSUME NEW m \in Asked, Post(m) PROVE Requested'
  <2>1. UNCHANGED <<rows, pins, detail, clears, excused, req>>
    BY <1>0, <1>4, PostSteps
  <2> QED
    BY <1>1, <2>1
<1>5. CASE Abort
  <2>1. /\ UNCHANGED <<rows, pins, detail, excused>> /\ req'[Shown] = Awaited
        /\ \A t \in Sessions \ {Shown} : req'[t] = req[t] /\ clears'[t] = clears[t]
    BY <1>0, <1>5, AbortSteps
  <2> QED
    BY <1>0, <2>1 DEF Requested
<1>6. ASSUME NEW m \in Asked, Accept(m) \/ Refuse(m) \/ UseTool(m) \/ Answer(m) \/ Breaks(m)
      PROVE  Requested'
  <2>1. UNCHANGED <<pins, detail, clears, excused, req>> /\ \A t \in Sessions : rows[t] \subseteq rows'[t]
    BY <1>0, <1>6, ApiSteps
  <2> QED
    BY <1>1, <2>1
<1>7. ASSUME NEW s \in Sessions, ReadDetail(s) PROVE Requested'
  <2>1. /\ UNCHANGED <<rows, pins, detail, clears>> /\ excused' = excused \ {s}
        /\ req'[s] \in Answers /\ req'[s].rows = rows[s] /\ req'[s].pins = pins[s]
        /\ \A t \in Sessions \ {s} : req'[t] = req[t]
    BY <1>0, <1>7, ReadSteps
  <2> QED
    BY <1>0, <2>1 DEF Requested
<1>8. ASSUME NEW s \in Sessions, DetailArrives(s) \/ DetailFails(s) PROVE Requested'
  <2>1. /\ UNCHANGED <<rows, pins>> /\ req'[s] = Idle /\ clears'[s] = {}
        /\ \A t \in Sessions \ {s} : req'[t] = req[t] /\ clears'[t] = clears[t] /\ detail'[t] = detail[t]
        /\ \/ req[s] \notin Request /\ detail'[s] = req[s] /\ UNCHANGED excused
           \/ detail'[s] = detail[s] /\ excused' = excused \cup {s}
    BY <1>0, <1>8, SettleSteps
  <2> QED
    BY <1>0, <2>1 DEF Requested
<1>9. ASSUME NEW m \in Asked, Receive(m) PROVE Requested'
  <2>1. /\ UNCHANGED <<rows, pins, detail>> /\ post[m].session \in Sessions
        /\ Head(wire[m]) # "answer" => UNCHANGED <<req, clears, excused>>
    BY <1>0, <1>9, ReceiveSteps
  <2>2. CASE Head(wire[m]) # "answer"
    BY <1>1, <2>1, <2>2
  <2>3. CASE Head(wire[m]) = "answer"
    <3> DEFINE s == post[m].session
    <3>1. /\ \A t \in Sessions \ {s} : req'[t] = req[t] /\ clears'[t] = clears[t]
          /\ Shown # s => req'[s] = req[s] /\ clears'[s] = clears[s]
          /\ Shown = s => req'[s] = Awaited
          /\ excused \subseteq excused'
      BY <1>0, <1>9, <2>3, AnswerRead
    <3> HIDE DEF s
    <3> QED
      BY <1>0, <2>1, <3>1 DEF Requested
  <2> QED
    BY <2>2, <2>3
<1> QED
  BY <1>2, <1>3, <1>4, <1>5, <1>6, <1>7, <1>8, <1>9 DEF PanelNext, Api, Analyst, Callbacks

\* An exchange lands when its answer is read, and in no other way; what is stored of
\* it stays as it is from then on.
LEMMA Lands ==
  ASSUME PanelIInv, [PanelNext]_panel, NEW m \in Asked, Landed(m)'
  PROVE  /\ post'[m] = post[m] /\ RowsOf(m)' = RowsOf(m)
         /\ post[m].at # "unsent" /\ post[m].session \in Sessions /\ m \notin left
         /\ Landed(m) \/ (Receive(m) /\ Head(wire[m]) = "answer")
<1>0. /\ PanelType /\ PanelType' /\ InOrder(m) /\ InOrder(m)' /\ \A n \in Asked : InOrder(n)
      /\ {"user", "tool", "answer"} \subseteq Kinds
  BY InOrderNext, PanelTypeNext DEF PanelIInv, Kinds
<1>1. ASSUME UNCHANGED <<rows, post, wire>>, left \subseteq left'
      PROVE  /\ post'[m] = post[m] /\ RowsOf(m)' = RowsOf(m)
             /\ post[m].at # "unsent" /\ post[m].session \in Sessions /\ m \notin left /\ Landed(m)
  BY <1>0, <1>1 DEF Landed, RowsOf, InOrder
<1>2. CASE \/ OpenPanel \/ ClosePanel \/ NewSession \/ ListArrives
           \/ \E s \in Sessions : SelectPrevious(s)
  BY <1>0, <1>1, <1>2, ViewSteps
<1>3. CASE \/ CompleteShown \/ OtherTab \/ UNCHANGED panel
           \/ \E n \in Asked : ConfirmPin(n) \/ Dismiss(n) \/ EndOfStream(n)
  BY <1>0, <1>1, <1>3, MinorSteps
<1>4. ASSUME NEW n \in Asked, Post(n)
      PROVE  /\ post'[m] = post[m] /\ RowsOf(m)' = RowsOf(m)
             /\ post[m].at # "unsent" /\ post[m].session \in Sessions /\ m \notin left /\ Landed(m)
  <2>1. /\ UNCHANGED <<rows, wire, left>> /\ post'[n].at = "asked"
        /\ \A k \in Asked \ {n} : post'[k] = post[k]
    BY <1>0, <1>4, PostSteps
  <2>2. n # m
    BY <1>0, <2>1 DEF Landed, InOrder
  <2> QED
    BY <1>0, <2>1, <2>2 DEF Landed, RowsOf, InOrder
<1>5. CASE Abort
  <2>1. UNCHANGED <<rows, post, wire>> /\ left \subseteq left'
    BY <1>0, <1>5, AbortSteps
  <2> QED
    BY <1>1, <2>1
<1>6. ASSUME NEW n \in Asked, Accept(n) \/ Refuse(n) \/ UseTool(n) \/ Answer(n) \/ Breaks(n)
      PROVE  /\ post'[m] = post[m] /\ RowsOf(m)' = RowsOf(m)
             /\ post[m].at # "unsent" /\ post[m].session \in Sessions /\ m \notin left /\ Landed(m)
  <2>1. /\ UNCHANGED left
        /\ \A k \in Asked \ {n} : post'[k] = post[k] /\ wire'[k] = wire[k]
        /\ \A k \in Asked \ {n}, s \in Sessions, kind \in Kinds :
             <<k, kind>> \in rows'[s] <=> <<k, kind>> \in rows[s]
        /\ post[n].session \in Sessions /\ post'[n].session = post[n].session
        /\ "answer" \notin RowsOf(n)
    BY <1>0, <1>6, ApiSteps
  <2>2. ASSUME n = m PROVE FALSE
    <3> DEFINE s == post[m].session
    <3>1. "answer" \in RowsOf(m)' /\ wire'[m] = <<>>
      BY DEF Landed
    <3>2. s \in Sessions /\ <<m, "answer">> \in rows'[s] /\ <<m, "answer">> \notin rows[s]
      BY <1>0, <2>1, <2>2, <3>1 DEF RowsOf
    <3>3. Answer(m)
      <4>1. ASSUME NEW kind \in {"user", "tool"}, Stores(m, kind) PROVE FALSE
        BY <1>0, <3>2, <4>1 DEF Stores, PanelType
      <4> QED
        BY <1>6, <2>2, <3>2, <4>1 DEF Accept, Refuse, UseTool, Breaks
    <3>4. wire'[m] = wire[m] \o <<"answer">>
      BY <1>0, <3>3 DEF Answer, Sends, PanelType
    <3>5. wire[m] \in Seq({"tool", "answer", "error"})
      BY <1>0 DEF PanelType
    <3>6. Len(wire'[m]) = Len(wire[m]) + 1 /\ Len(wire[m]) \in Nat
      BY <3>4, <3>5
    <3> QED
      BY <3>1, <3>6
  <2>3. CASE n # m
    <3>1. post'[m] = post[m] /\ wire'[m] = wire[m]
      BY <2>1, <2>3
    <3>2. post[m].session \in Sessions
      BY <1>0, <3>1 DEF Landed, InOrder
    <3>3. RowsOf(m)' = RowsOf(m)
      BY <2>1, <2>3, <3>1, <3>2 DEF RowsOf
    <3> QED
      BY <2>1, <3>1, <3>2, <3>3 DEF Landed
  <2> QED
    BY <2>2, <2>3
<1>7. ASSUME NEW s \in Sessions, ReadDetail(s) \/ DetailArrives(s) \/ DetailFails(s)
      PROVE  /\ post'[m] = post[m] /\ RowsOf(m)' = RowsOf(m)
             /\ post[m].at # "unsent" /\ post[m].session \in Sessions /\ m \notin left /\ Landed(m)
  <2>1. UNCHANGED <<rows, post, wire, left>>
    BY <1>0, <1>7, ReadSteps, SettleSteps
  <2> QED
    BY <1>1, <2>1
<1>8. ASSUME NEW n \in Asked, Receive(n)
      PROVE  /\ post'[m] = post[m] /\ RowsOf(m)' = RowsOf(m)
             /\ post[m].at # "unsent" /\ post[m].session \in Sessions /\ m \notin left
             /\ Landed(m) \/ (Receive(m) /\ Head(wire[m]) = "answer")
  <2>1. /\ UNCHANGED <<rows, post, left>> /\ \A k \in Asked \ {n} : wire'[k] = wire[k]
        /\ Head(wire[n]) # "answer" /\ "answer" \in RowsOf(n) => wire'[n] # <<>>
    BY <1>0, <1>8, ReceiveSteps
  <2>2. RowsOf(m)' = RowsOf(m)
    BY <2>1 DEF RowsOf
  <2>3. post'[m].at # "unsent" /\ m \notin left' /\ "answer" \in RowsOf(m)' /\ wire'[m] = <<>>
    BY DEF Landed
  <2>4. post[m].session \in Sessions
    BY <1>0, <2>1, <2>3 DEF InOrder
  <2>5. CASE n # m
    BY <2>1, <2>2, <2>3, <2>4, <2>5 DEF Landed
  <2>6. CASE n = m
    BY <1>8, <2>1, <2>2, <2>3, <2>4, <2>6
  <2> QED
    BY <2>5, <2>6
<1> QED
  BY <1>2, <1>3, <1>4, <1>5, <1>6, <1>7, <1>8 DEF PanelNext, Api, Analyst, Callbacks

\* One event is read at a time.
LEMMA OneIsRead ==
  ASSUME PanelType, NEW m \in Asked, NEW n \in Asked, InOrder(m), InOrder(n), Receive(m), Receive(n)
  PROVE  m = n
<1> SUFFICES ASSUME m # n PROVE FALSE
  OBVIOUS
<1>1. wire'[m] = Tail(wire[m]) /\ wire[m] # <<>> /\ wire'[m] = wire[m]
  BY ReceiveSteps
<1>2. wire[m] \in Seq({"tool", "answer", "error"})
  BY DEF PanelType
<1>3. Tail(wire[m]) = wire[m]
  BY <1>1, Zenon
<1>4. \A w \in Seq({"tool", "answer", "error"}) : w # <<>> => Len(Tail(w)) # Len(w)
  OBVIOUS
<1> QED
  BY <1>1, <1>2, <1>3, <1>4, Zenon

\* The history that is in view, or on its way, has every exchange that has landed.
LEMMA FreshNext ==
  ASSUME PanelIInv, [PanelNext]_panel
  PROVE  Fresh'
<1> SUFFICES ASSUME NEW m \in Asked, Landed(m)', NEW s, s = post'[m].session, s \notin excused'
             PROVE  /\ req'[s] \notin Request => \A kind \in RowsOf(m)' : <<m, kind>> \in req'[s].rows
                    /\ s = Shown' /\ req'[s] = Idle /\ detail'[s] # NoData =>
                         \A kind \in RowsOf(m)' : <<m, kind>> \in detail'[s].rows
  BY DEF Fresh, Request
<1>0. /\ PanelType /\ \A n \in Asked : InOrder(n)
      /\ Idle \in Request /\ Awaited \in Request /\ Idle # Awaited /\ \A a \in Answers : a \notin Request
  BY NothingAssumption DEF PanelIInv, Request
<1>1. /\ s = post[m].session /\ s \in Sessions /\ RowsOf(m)' = RowsOf(m)
      /\ \A kind \in RowsOf(m) : <<m, kind>> \in rows[s]
      /\ Landed(m) \/ (Receive(m) /\ Head(wire[m]) = "answer")
  BY Lands DEF RowsOf
<1>2. ASSUME Landed(m), s \notin excused
      PROVE  /\ req[s] \notin Request => \A kind \in RowsOf(m) : <<m, kind>> \in req[s].rows
             /\ s = Shown /\ req[s] = Idle /\ detail[s] # NoData =>
                  \A kind \in RowsOf(m) : <<m, kind>> \in detail[s].rows
  BY <1>1, <1>2 DEF PanelIInv, Fresh
<1>3. ASSUME Landed(m), excused' = excused, detail' = detail, Shown' = Shown,
             req'[s] = req[s] \/ req'[s] = Awaited
      PROVE  /\ req'[s] \notin Request => \A kind \in RowsOf(m) : <<m, kind>> \in req'[s].rows
             /\ s = Shown' /\ req'[s] = Idle /\ detail'[s] # NoData =>
                  \A kind \in RowsOf(m) : <<m, kind>> \in detail'[s].rows
  BY <1>0, <1>2, <1>3
<1>4. ASSUME Landed(m),
             \/ OpenPanel \/ ClosePanel \/ NewSession \/ ListArrives
             \/ \E t \in Sessions : SelectPrevious(t)
      PROVE  /\ req'[s] \notin Request => \A kind \in RowsOf(m) : <<m, kind>> \in req'[s].rows
             /\ s = Shown' /\ req'[s] = Idle /\ detail'[s] # NoData =>
                  \A kind \in RowsOf(m) : <<m, kind>> \in detail'[s].rows
  <2>1. /\ UNCHANGED <<detail, excused>> /\ (req'[s] = req[s] \/ req'[s] = Awaited)
        /\ Shown' = Shown \/ (Shown' # 0 => req'[Shown'] # Idle)
    BY <1>0, <1>1, <1>4, ViewSteps
  <2>2. s # 0
    BY <1>1, NoSessionIsZero
  <2> QED
    BY <1>0, <1>2, <1>4, <2>1, <2>2
<1>5. ASSUME Landed(m),
             \/ CompleteShown \/ OtherTab \/ UNCHANGED panel
             \/ \E n \in Asked : ConfirmPin(n) \/ Dismiss(n) \/ EndOfStream(n)
      PROVE  /\ req'[s] \notin Request => \A kind \in RowsOf(m) : <<m, kind>> \in req'[s].rows
             /\ s = Shown' /\ req'[s] = Idle /\ detail'[s] # NoData =>
                  \A kind \in RowsOf(m) : <<m, kind>> \in detail'[s].rows
  <2>1. UNCHANGED <<detail, excused>> /\ Shown' = Shown /\ (req'[s] = req[s] \/ req'[s] = Awaited)
    BY <1>0, <1>1, <1>5, MinorSteps
  <2> QED
    BY <1>3, <1>5, <2>1
<1>6. ASSUME Landed(m),
             \/ Abort
             \/ \E n \in Asked : Post(n) \/ Accept(n) \/ Refuse(n) \/ UseTool(n) \/ Answer(n) \/ Breaks(n)
      PROVE  /\ req'[s] \notin Request => \A kind \in RowsOf(m) : <<m, kind>> \in req'[s].rows
             /\ s = Shown' /\ req'[s] = Idle /\ detail'[s] # NoData =>
                  \A kind \in RowsOf(m) : <<m, kind>> \in detail'[s].rows
  <2>1. UNCHANGED <<detail, excused>> /\ Shown' = Shown /\ (req'[s] = req[s] \/ req'[s] = Awaited)
    BY <1>0, <1>1, <1>6, AbortSteps, PostSteps, ApiSteps
  <2> QED
    BY <1>3, <1>6, <2>1
<1>7. ASSUME Landed(m), NEW t \in Sessions, ReadDetail(t)
      PROVE  /\ req'[s] \notin Request => \A kind \in RowsOf(m) : <<m, kind>> \in req'[s].rows
             /\ s = Shown' /\ req'[s] = Idle /\ detail'[s] # NoData =>
                  \A kind \in RowsOf(m) : <<m, kind>> \in detail'[s].rows
  <2>1. /\ UNCHANGED detail /\ Shown' = Shown /\ excused' = excused \ {t}
        /\ req'[t] \in Answers /\ req'[t].rows = rows[t]
        /\ \A u \in Sessions \ {t} : req'[u] = req[u]
    BY <1>0, <1>7, ReadSteps
  <2> QED
    BY <1>0, <1>1, <1>2, <1>7, <2>1
<1>8. ASSUME Landed(m), NEW t \in Sessions, DetailArrives(t) \/ DetailFails(t)
      PROVE  /\ req'[s] \notin Request => \A kind \in RowsOf(m) : <<m, kind>> \in req'[s].rows
             /\ s = Shown' /\ req'[s] = Idle /\ detail'[s] # NoData =>
                  \A kind \in RowsOf(m) : <<m, kind>> \in detail'[s].rows
  <2>1. /\ Shown' = Shown /\ req'[t] = Idle
        /\ \A u \in Sessions \ {t} : req'[u] = req[u] /\ detail'[u] = detail[u]
        /\ \/ req[t] \notin Request /\ detail'[t] = req[t] /\ UNCHANGED excused
           \/ detail'[t] = detail[t] /\ excused' = excused \cup {t}
    BY <1>0, <1>8, SettleSteps
  <2> QED
    BY <1>0, <1>1, <1>2, <1>8, <2>1
<1>9. ASSUME NEW n \in Asked, Receive(n)
      PROVE  /\ req'[s] \notin Request => \A kind \in RowsOf(m) : <<m, kind>> \in req'[s].rows
             /\ s = Shown' /\ req'[s] = Idle /\ detail'[s] # NoData =>
                  \A kind \in RowsOf(m) : <<m, kind>> \in detail'[s].rows
  <2>1. /\ UNCHANGED detail /\ Shown' = Shown /\ post[n].session \in Sessions
        /\ wire'[n] = Tail(wire[n]) /\ wire[n] # <<>>
        /\ Head(wire[n]) # "answer" => UNCHANGED <<req, excused>>
    BY <1>0, <1>9, ReceiveSteps
  <2>2. CASE Head(wire[n]) # "answer"
    <3>1. Landed(m)
      <4>1. n = m => Landed(m)
        BY <1>1, <2>2
      <4>2. Receive(m) => n = m
        BY <1>0, <1>9, OneIsRead
      <4> QED
        BY <1>1, <4>1, <4>2
    <3> QED
      BY <1>3, <2>1, <2>2, <3>1
  <2>3. CASE Head(wire[n]) = "answer"
    <3> DEFINE t == post[n].session
    <3>1. /\ \A u \in Sessions \ {t} : req'[u] = req[u]
          /\ Shown # t => req'[t] = req[t]
          /\ Shown = t => req'[t] = Awaited
          /\ excused \subseteq excused'
          /\ Shown # t /\ req[t] \notin Request => t \in excused'
      BY <1>0, <1>9, <2>3, AnswerRead
    <3>2. CASE s = t
      BY <1>0, <1>1, <2>1, <3>1, <3>2
    <3>3. CASE s # t
      <4>1. n # m
        BY <1>1, <3>3
      <4>2. ~Receive(m)
        BY <1>0, <1>9, <4>1, OneIsRead
      <4>3. Landed(m) /\ s \notin excused /\ req'[s] = req[s]
        BY <1>1, <3>1, <3>3, <4>2
      <4> QED
        BY <1>2, <2>1, <4>3
    <3> QED
      BY <3>2, <3>3
  <2> QED
    BY <2>2, <2>3
<1>10. Landed(m) \/ \E n \in Asked : Receive(n)
  BY <1>1
<1> QED
  BY <1>1, <1>4, <1>5, <1>6, <1>7, <1>8, <1>9, <1>10 DEF PanelNext, Api, Analyst, Callbacks

\* What is live is of this mount, and waits for the history once it has landed.
LEMMA LiveGoesNext ==
  ASSUME PanelIInv, [PanelNext]_panel
  PROVE  LiveGoes'
<1> DEFINE Lives(m) == liveUser = m \/ \E kind \in Kinds : <<m, kind>> \in live
<1>0. /\ PanelType /\ \A n \in Asked : InOrder(n)
      /\ {"user", "tool", "answer"} \subseteq Kinds /\ Nobody \notin Asked
  BY PanelAssumption DEF PanelIInv, Kinds
<1> SUFFICES ASSUME NEW m \in Asked, liveUser' = m \/ \E kind \in Kinds : <<m, kind>> \in live'
             PROVE  /\ open' /\ post'[m].at # "unsent" /\ post'[m].mount = mount'
                    /\ liveUser' = m => post'[m].session = Shown'
                    /\ Landed(m)' => mount' \in clears'[post'[m].session]
  BY DEF LiveGoes
<1>1. ASSUME Lives(m)
      PROVE  /\ open /\ post[m].at # "unsent" /\ post[m].mount = mount
             /\ liveUser = m => post[m].session = Shown
             /\ Landed(m) => mount \in clears[post[m].session]
             /\ post[m].session \in Sessions
  BY <1>0, <1>1 DEF PanelIInv, LiveGoes, InOrder
<1>2. ASSUME Landed(m)'
      PROVE  /\ post'[m] = post[m]
             /\ Landed(m) \/ (Receive(m) /\ Head(wire[m]) = "answer")
  BY <1>2, Lands
<1>3. \/ liveUser' # Nobody \/ live' # {}
  BY <1>0
<1>4. ASSUME UNCHANGED <<open, mount>>, Shown' = Shown, liveUser' = liveUser, live' \subseteq live,
             post'[m].at = "unsent" => post[m].at = "unsent",
             post'[m].mount = post[m].mount, post'[m].session = post[m].session,
             \A t \in Sessions : clears[t] \subseteq clears'[t],
             ~\E n \in Asked : Receive(n) /\ Head(wire[n]) = "answer"
      PROVE  /\ open' /\ post'[m].at # "unsent" /\ post'[m].mount = mount'
             /\ liveUser' = m => post'[m].session = Shown'
             /\ Landed(m)' => mount' \in clears'[post'[m].session]
  <2>1. Lives(m)
    BY <1>4
  <2> HIDE DEF Lives
  <2> QED
    BY <1>1, <1>2, <1>4, <2>1
<1>5. \A n \in Asked : Receive(n) => wire' # wire
  <2>1. ASSUME NEW n \in Asked, Receive(n), wire' = wire PROVE FALSE
    <3>1. wire[n] # <<>> /\ Tail(wire[n]) = wire[n] /\ wire[n] \in Seq({"tool", "answer", "error"})
      <4>1. wire'[n] = Tail(wire[n]) /\ wire[n] # <<>>
        BY <1>0, <2>1, ReceiveSteps
      <4> QED
        BY <1>0, <2>1, <4>1 DEF PanelType
    <3>2. \A w \in Seq({"tool", "answer", "error"}) : w # <<>> => Len(Tail(w)) # Len(w)
      OBVIOUS
    <3> QED
      BY <3>1, <3>2, Zenon
  <2> QED
    BY <2>1
<1>6. CASE \/ OpenPanel \/ ClosePanel \/ NewSession \/ ListArrives
           \/ \E s \in Sessions : SelectPrevious(s)
  <2>1. UNCHANGED <<post, wire, clears>>
        /\ (\/ Shown' = Shown /\ UNCHANGED <<mount, open, liveUser, live>>
            \/ liveUser' = Nobody /\ live' = {})
    BY <1>0, <1>6, ViewSteps
  <2> QED
    BY <1>3, <1>4, <1>5, <2>1
<1>7. CASE \/ CompleteShown \/ OtherTab \/ UNCHANGED panel
           \/ \E n \in Asked : ConfirmPin(n) \/ Dismiss(n) \/ EndOfStream(n)
  <2>1. UNCHANGED <<post, wire, clears, mount, open, liveUser, live>> /\ Shown' = Shown
    BY <1>0, <1>7, MinorSteps
  <2> QED
    BY <1>4, <1>5, <2>1
<1>8. ASSUME NEW n \in Asked, Post(n)
      PROVE  /\ open' /\ post'[m].at # "unsent" /\ post'[m].mount = mount'
             /\ liveUser' = m => post'[m].session = Shown'
             /\ Landed(m)' => mount' \in clears'[post'[m].session]
  <2>1. /\ UNCHANGED <<mount, open, wire>> /\ Shown' = Shown /\ open
        /\ liveUser' = n /\ live' = {} /\ post[n].at = "unsent"
        /\ post'[n].session = Shown /\ post'[n].mount = mount /\ post'[n].at = "asked"
    BY <1>0, <1>8, PostSteps
  <2>2. n = m
    BY <2>1
  <2>3. ~Landed(m)'
    BY <2>1, <2>2, Lands
  <2> QED
    BY <2>1, <2>2, <2>3
<1>9. CASE Abort
  <2>1. /\ UNCHANGED <<post, wire, mount, open, liveUser, live>> /\ Shown' = Shown
        /\ clears'[Shown] = clears[Shown] \cup {mount}
        /\ \A t \in Sessions \ {Shown} : clears'[t] = clears[t]
    BY <1>0, <1>9, AbortSteps
  <2> QED
    BY <1>4, <1>5, <2>1
<1>10. ASSUME NEW n \in Asked, Accept(n) \/ Refuse(n) \/ UseTool(n) \/ Answer(n) \/ Breaks(n)
       PROVE  /\ open' /\ post'[m].at # "unsent" /\ post'[m].mount = mount'
              /\ liveUser' = m => post'[m].session = Shown'
              /\ Landed(m)' => mount' \in clears'[post'[m].session]
  <2>1. /\ UNCHANGED <<mount, open, liveUser, live, clears>> /\ Shown' = Shown
        /\ \A k \in Asked \ {n} : post'[k] = post[k] /\ wire'[k] = wire[k]
        /\ post[n].at \in {"asked", "open"}
        /\ post'[n].session = post[n].session /\ post'[n].mount = post[n].mount
    BY <1>0, <1>10, ApiSteps
  <2>2. \A k \in Asked : Receive(k) => rows' = rows /\ post' = post /\ wire'[k] = Tail(wire[k])
    BY <1>0, ReceiveSteps
  <2>3. post' = post \/ (\E place \in {"open", "over"} : At(n, place))
    BY <1>10 DEF Accept, Refuse, UseTool, Answer, Breaks
  <2>4. post'[n].at \in {post[n].at, "open", "over"}
    BY <1>0, <2>3 DEF At, PanelType
  <2>5. Lives(m)
    BY <2>1
  <2>6. ASSUME Landed(m)' PROVE Landed(m)
    <3>1. ASSUME Receive(m), Head(wire[m]) = "answer" PROVE FALSE
      <4>1. post[m].at = "over" /\ wire'[m] = Tail(wire[m]) /\ wire[m] # <<>>
        BY <1>0, <3>1, ReceiveSteps
      <4>2. wire'[m] = wire[m] /\ wire[m] \in Seq({"tool", "answer", "error"})
        BY <1>0, <2>1, <4>1 DEF PanelType
      <4>3. \A w \in Seq({"tool", "answer", "error"}) : w # <<>> => Len(Tail(w)) # Len(w)
        OBVIOUS
      <4> QED
        BY <4>1, <4>2, <4>3, Zenon
    <3> QED
      BY <1>2, <2>6, <3>1
  <2> HIDE DEF Lives
  <2> QED
    BY <1>1, <2>1, <2>4, <2>5, <2>6
<1>11. ASSUME NEW s \in Sessions, ReadDetail(s)
       PROVE  /\ open' /\ post'[m].at # "unsent" /\ post'[m].mount = mount'
              /\ liveUser' = m => post'[m].session = Shown'
              /\ Landed(m)' => mount' \in clears'[post'[m].session]
  <2>1. UNCHANGED <<post, wire, clears, mount, open, liveUser, live>> /\ Shown' = Shown
    BY <1>0, <1>11, ReadSteps
  <2> QED
    BY <1>4, <1>5, <2>1
<1>12. ASSUME NEW s \in Sessions, DetailArrives(s) \/ DetailFails(s)
       PROVE  /\ open' /\ post'[m].at # "unsent" /\ post'[m].mount = mount'
              /\ liveUser' = m => post'[m].session = Shown'
              /\ Landed(m)' => mount' \in clears'[post'[m].session]
  <2>1. /\ UNCHANGED <<post, wire, mount, open>> /\ Shown' = Shown
        /\ \A t \in Sessions \ {s} : clears'[t] = clears[t]
        /\ \/ open /\ mount \in clears[s] /\ liveUser' = Nobody /\ live' = {}
           \/ ~(open /\ mount \in clears[s]) /\ UNCHANGED <<liveUser, live>>
    BY <1>0, <1>12, SettleSteps
  <2>2. Lives(m) /\ liveUser' = liveUser /\ ~(open /\ mount \in clears[s])
    BY <1>3, <2>1
  <2>3. Landed(m)' => Landed(m)
    BY <1>2, <1>5, <2>1
  <2> HIDE DEF Lives
  <2> QED
    BY <1>1, <2>1, <2>2, <2>3
<1>13. ASSUME NEW n \in Asked, Receive(n)
       PROVE  /\ open' /\ post'[m].at # "unsent" /\ post'[m].mount = mount'
              /\ liveUser' = m => post'[m].session = Shown'
              /\ Landed(m)' => mount' \in clears'[post'[m].session]
  <2>1. /\ UNCHANGED <<post, mount, open>> /\ Shown' = Shown
        /\ post[n].at # "unsent" /\ post[n].session \in Sessions
        /\ Head(wire[n]) \in {"tool", "answer", "error"}
        /\ Head(wire[n]) # "answer" => UNCHANGED <<clears, liveUser>>
    BY <1>0, <1>13, ReceiveSteps
  <2>2. \A k \in Asked : Receive(k) => k = n
    BY <1>0, <1>13, OneIsRead
  <2>3. CASE Head(wire[n]) = "tool"
    <3>1. IF Mine(n) THEN live' = live \cup {<<n, "tool">>} ELSE UNCHANGED live
      BY <1>13, <2>3 DEF Receive
    <3>2. Landed(m)' => Landed(m)
      BY <1>2, <2>2, <2>3
    <3>3. CASE Lives(m)
      <4> HIDE DEF Lives
      <4> QED
        BY <1>1, <2>1, <2>3, <3>2, <3>3
    <3>4. CASE ~Lives(m)
      <4>1. m = n /\ Mine(n) /\ liveUser' # m
        BY <2>1, <2>3, <3>1, <3>4
      <4>2. ~Landed(m)
        BY <1>0, <1>13, <4>1, ReceiveSteps DEF Landed
      <4> QED
        BY <2>1, <3>2, <4>1, <4>2 DEF Mine
    <3> QED
      BY <3>3, <3>4
  <2>4. CASE Head(wire[n]) = "error"
    <3>1. UNCHANGED live
      BY <1>13, <2>4 DEF Receive
    <3> QED
      BY <1>4, <2>1, <2>2, <2>4, <3>1
  <2>5. CASE Head(wire[n]) = "answer"
    <3> DEFINE s == post[n].session
    <3>1. /\ \A t \in Sessions \ {s} : clears'[t] = clears[t]
          /\ Shown # s => clears'[s] = clears[s]
          /\ Shown = s =>
               /\ clears'[s] = clears[s] \cup {post[n].mount}
               /\ live' = (IF post[n].mount = mount THEN live \cup {<<n, "answer">>} ELSE live)
               /\ UNCHANGED liveUser
          /\ Shown # s =>
               IF post[n].mount = mount /\ open THEN liveUser' = Nobody /\ live' = {}
               ELSE UNCHANGED <<liveUser, live>>
      BY <1>0, <1>13, <2>5, AnswerRead
    <3>2. \A t \in Sessions : clears[t] \subseteq clears'[t]
      BY <2>1, <3>1
    <3>3. CASE m = n
      <4>1. post[n].mount = mount /\ open /\ (liveUser' = m => s = Shown) /\ s = Shown
        <5>1. CASE s = Shown
          <6>1. open
            BY <2>1, <5>1, NoSessionIsZero DEF Shown
          <6>2. post[n].mount = mount \/ Lives(m)
            BY <3>1, <3>3, <5>1
          <6> HIDE DEF Lives
          <6> QED
            BY <1>1, <3>3, <5>1, <6>1, <6>2
        <5>2. CASE s # Shown
          <6>1. Lives(m) /\ ~(post[n].mount = mount /\ open)
            BY <1>3, <3>1, <5>2
          <6> HIDE DEF Lives
          <6> QED
            BY <1>1, <3>3, <6>1
        <5> QED
          BY <5>1, <5>2
      <4> QED
        BY <2>1, <3>1, <3>3, <4>1
    <3>4. CASE m # n
      <4>1. Lives(m) /\ (liveUser' = m => liveUser = m)
        BY <1>0, <3>1, <3>4
      <4>2. Landed(m)' => Landed(m)
        BY <1>2, <2>2, <3>4
      <4> HIDE DEF Lives, s
      <4> QED
        BY <1>1, <2>1, <3>2, <4>1, <4>2
    <3> QED
      BY <3>3, <3>4
  <2> QED
    BY <2>1, <2>3, <2>4, <2>5
<1> HIDE DEF Lives
<1> QED
  BY <1>6, <1>7, <1>8, <1>9, <1>10, <1>11, <1>12, <1>13 DEF PanelNext, Api, Analyst, Callbacks

\* What is stored of an exchange whose stream is over changes no more.
LEMMA OverKeeps ==
  ASSUME PanelIInv, [PanelNext]_panel, NEW m \in Asked, post[m].at = "over"
  PROVE  post'[m] = post[m] /\ RowsOf(m)' = RowsOf(m)
<1>0. /\ PanelType /\ \A n \in Asked : InOrder(n) /\ post[m].session \in Sessions
  BY DEF PanelIInv, InOrder
<1>1. UNCHANGED <<rows, post>> => post'[m] = post[m] /\ RowsOf(m)' = RowsOf(m)
  BY DEF RowsOf
<1>2. ASSUME \/ OpenPanel \/ ClosePanel \/ NewSession \/ ListArrives
             \/ \E s \in Sessions : SelectPrevious(s)
      PROVE  UNCHANGED <<rows, post>>
  BY <1>0, <1>2, ViewSteps
<1>3. ASSUME \/ CompleteShown \/ OtherTab \/ UNCHANGED panel
             \/ \E n \in Asked : ConfirmPin(n) \/ Dismiss(n) \/ EndOfStream(n)
      PROVE  UNCHANGED <<rows, post>>
  BY <1>0, <1>3, MinorSteps
<1>4. ASSUME NEW n \in Asked, Post(n) PROVE post'[m] = post[m] /\ RowsOf(m)' = RowsOf(m)
  <2>1. UNCHANGED rows /\ post[n].at = "unsent" /\ \A k \in Asked \ {n} : post'[k] = post[k]
    BY <1>0, <1>4, PostSteps
  <2> QED
    BY <2>1 DEF RowsOf
<1>5. ASSUME NEW n \in Asked, Accept(n) \/ Refuse(n) \/ UseTool(n) \/ Answer(n) \/ Breaks(n)
      PROVE  post'[m] = post[m] /\ RowsOf(m)' = RowsOf(m)
  <2>1. /\ \A k \in Asked \ {n} : post'[k] = post[k] /\ wire'[k] = wire[k]
        /\ \A k \in Asked \ {n}, s \in Sessions, kind \in Kinds :
             <<k, kind>> \in rows'[s] <=> <<k, kind>> \in rows[s]
        /\ post[n].at \in {"asked", "open"}
    BY <1>0, <1>5, ApiSteps
  <2>2. n # m
    BY <2>1
  <2> QED
    BY <1>0, <2>1, <2>2 DEF RowsOf
<1>6. ASSUME \/ Abort
             \/ \E s \in Sessions : ReadDetail(s) \/ DetailArrives(s) \/ DetailFails(s)
             \/ \E n \in Asked : Receive(n)
      PROVE  UNCHANGED <<rows, post>>
  BY <1>0, <1>6, AbortSteps, ReadSteps, SettleSteps, ReceiveSteps
<1> QED
  BY <1>1, <1>2, <1>3, <1>4, <1>5, <1>6 DEF PanelNext, Api, Analyst, Callbacks

\* A post never loses its session and mount, and its stream never starts over.
LEMMA PostKeeps ==
  ASSUME PanelIInv, [PanelNext]_panel, NEW m \in Asked, post[m].at # "unsent"
  PROVE  /\ post'[m].at # "unsent" /\ post'[m].session = post[m].session /\ post'[m].mount = post[m].mount
         /\ post[m].session \in Sessions
<1>0. /\ PanelType /\ \A n \in Asked : InOrder(n) /\ post[m].session \in Sessions
  BY DEF PanelIInv, InOrder
<1>1. ASSUME \/ OpenPanel \/ ClosePanel \/ NewSession \/ ListArrives
             \/ \E s \in Sessions : SelectPrevious(s)
      PROVE  UNCHANGED post
  BY <1>0, <1>1, ViewSteps
<1>2. ASSUME \/ CompleteShown \/ OtherTab \/ UNCHANGED panel
             \/ \E n \in Asked : ConfirmPin(n) \/ Dismiss(n) \/ EndOfStream(n)
      PROVE  UNCHANGED post
  BY <1>0, <1>2, MinorSteps
<1>3. ASSUME NEW n \in Asked, Post(n) PROVE post'[m] = post[m]
  <2>1. post[n].at = "unsent" /\ \A k \in Asked \ {n} : post'[k] = post[k]
    BY <1>0, <1>3, PostSteps
  <2> QED
    BY <2>1
<1>4. ASSUME NEW n \in Asked, Accept(n) \/ Refuse(n) \/ UseTool(n) \/ Answer(n) \/ Breaks(n)
      PROVE  /\ post'[m].at # "unsent" /\ post'[m].session = post[m].session
             /\ post'[m].mount = post[m].mount
  <2>1. /\ \A k \in Asked \ {n} : post'[k] = post[k]
        /\ post'[n].session = post[n].session /\ post'[n].mount = post[n].mount
    BY <1>0, <1>4, ApiSteps
  <2>2. post' = post \/ (\E place \in {"open", "over"} : At(n, place))
    BY <1>4 DEF Accept, Refuse, UseTool, Answer, Breaks
  <2>3. post'[n].at \in {post[n].at, "open", "over"}
    BY <1>0, <2>2 DEF At, PanelType
  <2> QED
    BY <2>1, <2>3
<1>5. ASSUME \/ Abort
             \/ \E s \in Sessions : ReadDetail(s) \/ DetailArrives(s) \/ DetailFails(s)
             \/ \E n \in Asked : Receive(n)
      PROVE  UNCHANGED post
  BY <1>0, <1>5, AbortSteps, ReadSteps, SettleSteps, ReceiveSteps
<1> QED
  BY <1>0, <1>1, <1>2, <1>3, <1>4, <1>5 DEF PanelNext, Api, Analyst, Callbacks

\* Only its own history replaces the exchange that is watched.
LEMMA WatchingNext ==
  ASSUME PanelIInv, [PanelNext]_panel
  PROVE  Watching'
<1> DEFINE Covered(s, t) == \A kind \in RowsOf(t) : <<t, kind>> \in req[s].rows
           Waits(t) == \A s \in Sessions : mount \in clears[s] =>
                          /\ s = Shown /\ post[t].at = "over" /\ "user" \in RowsOf(t)
                          /\ req[s] \notin Request => Covered(s, t)
           Front(t) == /\ open /\ streaming \in {t, Nobody} /\ t \notin left
                       /\ post[t].at # "unsent" /\ post[t].mount = mount
                       /\ post[t].session = Shown /\ detail[Shown] # NoData
<1>00. Nobody \notin Asked /\ PanelType' /\ PanelType
  BY PanelTypeNext, PanelAssumption DEF PanelIInv
<1> SUFFICES ASSUME NEW w \in Asked, watched' = w PROVE Front(w)' /\ Waits(w)'
  <2>1. watched' # Nobody => \E w \in Asked : watched' = w
    BY <1>00 DEF PanelType
  <2> QED
    BY <2>1 DEF Watching
<1>0. /\ PanelType /\ PanelType' /\ \A n \in Asked : InOrder(n)
      /\ Nobody \notin Asked /\ Shown \in Sessions \cup {0} /\ 0 \notin Sessions
      /\ Idle \in Request /\ Awaited \in Request /\ \A a \in Answers : a \notin Request
  BY <1>00, NothingAssumption, ShownType, NoSessionIsZero DEF PanelIInv, Request
<1>1. watched = w => /\ Front(w) /\ Waits(w) /\ Shown \in Sessions
                     /\ post'[w].at # "unsent" /\ post'[w].session = post[w].session
                     /\ post'[w].mount = post[w].mount
  BY <1>0, PostKeeps DEF PanelIInv, Watching
<1>2. post[w].at = "over" => post'[w] = post[w] /\ RowsOf(w)' = RowsOf(w)
  BY <1>0, OverKeeps
<1>3. ASSUME watched = w, UNCHANGED <<mount, open, left, detail>>, Shown' = Shown,
             streaming' \in {streaming, Nobody}
      PROVE  Front(w)'
  BY <1>1, <1>3
<1>4. ASSUME watched = w, Shown' = Shown, UNCHANGED mount,
             \A t \in Sessions : mount \in clears'[t] => mount \in clears[t],
             \A t \in Sessions : req'[t] = req[t] \/ req'[t] \in Request
      PROVE  Waits(w)'
  BY <1>1, <1>2, <1>4
<1>5. CASE \/ OpenPanel \/ ClosePanel \/ NewSession \/ ListArrives
           \/ \E s \in Sessions : SelectPrevious(s)
  <2>1. /\ UNCHANGED <<left, detail, clears>>
        /\ \A t \in Sessions : req'[t] = req[t] \/ req'[t] = Awaited
        /\ Shown' = Shown /\ UNCHANGED <<mount, open, streaming, watched>>
    BY <1>0, <1>5, ViewSteps
  <2> QED
    BY <1>0, <1>3, <1>4, <2>1
<1>6. CASE \/ CompleteShown \/ OtherTab \/ UNCHANGED panel
           \/ \E m \in Asked : ConfirmPin(m) \/ Dismiss(m) \/ EndOfStream(m)
  <2>1. /\ UNCHANGED <<left, mount, open, detail, clears, watched>> /\ Shown' = Shown
        /\ \A t \in Sessions : req'[t] = req[t] \/ req'[t] = Awaited
        /\ streaming' \in {streaming, Nobody}
    BY <1>0, <1>6, MinorSteps
  <2> QED
    BY <1>0, <1>3, <1>4, <2>1
<1>7. ASSUME NEW m \in Asked, Post(m) PROVE Front(w)' /\ Waits(w)'
  <2>1. /\ UNCHANGED <<left, mount, open, detail, clears>> /\ Shown' = Shown /\ open
        /\ streaming' = m /\ post[m].at = "unsent" /\ detail[Shown] # NoData
        /\ post'[m].session = Shown /\ post'[m].mount = mount /\ post'[m].at = "asked"
        /\ w = m /\ \A s \in Sessions : mount \notin clears[s]
    BY <1>0, <1>7, PostSteps
  <2>2. m \notin left
    BY <1>0, <2>1 DEF InOrder
  <2>3. Front(w)'
    BY <2>1, <2>2
  <2>4. Waits(w)'
    BY <2>1
  <2> QED
    BY <2>3, <2>4
<1>8. ~Abort
  BY <1>0, AbortSteps
<1>9. ASSUME NEW m \in Asked, Accept(m) \/ Refuse(m) \/ UseTool(m) \/ Answer(m) \/ Breaks(m)
      PROVE  Front(w)' /\ Waits(w)'
  <2>1. UNCHANGED <<left, mount, open, detail, req, clears, streaming, watched>> /\ Shown' = Shown
    BY <1>0, <1>9, ApiSteps
  <2> QED
    BY <1>3, <1>4, <2>1
<1>10. ASSUME NEW s \in Sessions, ReadDetail(s) PROVE Front(w)' /\ Waits(w)'
  <2>1. /\ UNCHANGED <<rows, post, left, mount, open, detail, clears, streaming, watched>>
        /\ Shown' = Shown
        /\ req'[s].rows = rows[s] /\ \A t \in Sessions \ {s} : req'[t] = req[t]
    BY <1>0, <1>10, ReadSteps
  <2>2. Front(w)'
    BY <1>3, <2>1
  <2>3. ASSUME NEW t \in Sessions, mount \in clears[t]
        PROVE  /\ t = Shown' /\ post'[w].at = "over" /\ "user" \in RowsOf(w)'
               /\ req'[t] \notin Request => Covered(t, w)'
    <3>1. /\ t = Shown /\ post[w].at = "over" /\ "user" \in RowsOf(w) /\ post[w].session = Shown
          /\ req[t] \notin Request => Covered(t, w)
      BY <1>1, <2>1, <2>3
    <3>2. post'[w].at = "over" /\ RowsOf(w)' = RowsOf(w)
      BY <2>1, <3>1 DEF RowsOf
    <3>3. \A kind \in RowsOf(w) : <<w, kind>> \in rows[t]
      BY <3>1 DEF RowsOf
    <3>4. t # s => req'[t] = req[t]
      BY <2>1
    <3> QED
      BY <2>1, <3>1, <3>2, <3>3, <3>4
  <2>4. Waits(w)'
    BY <2>1, <2>3
  <2> QED
    BY <2>2, <2>4
<1>11. ASSUME NEW s \in Sessions, DetailArrives(s) \/ DetailFails(s) PROVE Front(w)' /\ Waits(w)'
  <2>1. /\ UNCHANGED <<left, mount, open, streaming, watched>> /\ Shown' = Shown
        /\ req'[s] = Idle /\ clears'[s] = {} /\ detail'[s] # NoData
        /\ \A t \in Sessions \ {s} : req'[t] = req[t] /\ clears'[t] = clears[t] /\ detail'[t] = detail[t]
    BY <1>0, <1>11, SettleSteps
  <2>2. watched = w
    BY <2>1
  <2>3. detail'[Shown'] # NoData
    BY <1>1, <2>1, <2>2
  <2>4. Front(w)'
    BY <1>1, <2>1, <2>2, <2>3
  <2>5. Waits(w)'
    BY <1>0, <1>4, <2>1, <2>2
  <2> QED
    BY <2>4, <2>5
<1>12. ASSUME NEW m \in Asked, Receive(m) PROVE Front(w)' /\ Waits(w)'
  <2>1. /\ UNCHANGED <<rows, post, left, mount, open, detail, streaming, watched>> /\ Shown' = Shown
        /\ m \notin left /\ wire[m] # <<>>
        /\ post[m].at # "unsent" /\ post[m].session \in Sessions
        /\ Head(wire[m]) # "answer" => UNCHANGED <<req, clears>>
        /\ Head(wire[m]) = "answer" => post[m].at = "over" /\ {"user", "answer"} \subseteq RowsOf(m)
    BY <1>0, <1>12, ReceiveSteps
  <2>2. watched = w /\ Front(w)'
    BY <1>3, <2>1
  <2>3. CASE Head(wire[m]) # "answer"
    BY <1>4, <2>1, <2>2, <2>3
  <2>4. CASE Head(wire[m]) = "answer"
    <3> DEFINE s == post[m].session
    <3>1. /\ \A t \in Sessions \ {s} : req'[t] = req[t] /\ clears'[t] = clears[t]
          /\ Shown # s => req'[s] = req[s] /\ clears'[s] = clears[s]
          /\ Shown = s => req'[s] = Awaited /\ clears'[s] = clears[s] \cup {post[m].mount}
      BY <1>0, <1>12, <2>4, AnswerRead
    <3>2. CASE Shown # s \/ post[m].mount # mount
      <4>1. \A t \in Sessions : mount \in clears'[t] => mount \in clears[t]
        BY <2>1, <3>1, <3>2
      <4>2. \A t \in Sessions : req'[t] = req[t] \/ req'[t] \in Request
        BY <1>0, <2>1, <3>1
      <4> QED
        BY <1>4, <2>1, <2>2, <4>1, <4>2
    <3>3. CASE Shown = s /\ post[m].mount = mount
      <4>1. streaming = m
        BY <1>1, <2>1, <2>2, <3>3 DEF PanelIInv, OneStream
      <4>2. m = w
        BY <1>0, <1>1, <2>2, <4>1
      <4>3. post'[w].at = "over" /\ "user" \in RowsOf(w)'
        BY <2>1, <2>4, <4>2 DEF RowsOf
      <4>4. ASSUME NEW t \in Sessions, mount \in clears'[t]
            PROVE  t = Shown' /\ (req'[t] \notin Request => Covered(t, w)')
        <5>1. CASE t = s
          BY <1>0, <2>1, <3>1, <3>3, <5>1
        <5>2. CASE t # s
          <6>1. mount \in clears[t]
            BY <3>1, <4>4, <5>2
          <6>2. t = Shown
            BY <1>1, <2>2, <6>1
          <6> QED
            BY <3>3, <5>2, <6>2
        <5> QED
          BY <5>1, <5>2
      <4> QED
        BY <2>1, <2>2, <4>3, <4>4
    <3> QED
      BY <3>2, <3>3
  <2> QED
    BY <2>2, <2>3, <2>4
<1> HIDE DEF Front, Waits
<1> QED
  BY <1>5, <1>6, <1>7, <1>8, <1>9, <1>10, <1>11, <1>12 DEF PanelNext, Api, Analyst, Callbacks

\* What the panel has been told of an exchange: an event that the API sends tells
\* nothing until it is read.
LEMMA Tells ==
  ASSUME PanelIInv, [PanelNext]_panel, NEW m \in Asked, post[m].at # "unsent"
  PROVE  \A kind \in Told(m)' : kind \in Told(m) \/ (Receive(m) /\ Head(wire[m]) = kind)
<1> DEFINE OnWire(kind) == kind \in {wire[m][i] : i \in DOMAIN wire[m]}
           s == post[m].session
<1>0. /\ PanelType /\ \A n \in Asked : InOrder(n) /\ s \in Sessions /\ post'[m].session = s
      /\ {"user", "tool", "answer"} \subseteq Kinds
      /\ wire[m] \in Seq({"tool", "answer", "error"})
  BY PostKeeps DEF PanelIInv, PanelType, Kinds
<1> SUFFICES ASSUME NEW kind \in {"tool", "answer"}, <<m, kind>> \in rows'[s], ~OnWire(kind)'
             PROVE  /\ <<m, kind>> \in rows[s]
                    /\ ~OnWire(kind) \/ (Receive(m) /\ Head(wire[m]) = kind)
  BY <1>0 DEF Told
<1>1. UNCHANGED <<rows, wire>> => <<m, kind>> \in rows[s] /\ ~OnWire(kind)
  OBVIOUS
<1>2. ASSUME \/ OpenPanel \/ ClosePanel \/ NewSession \/ ListArrives
             \/ \E t \in Sessions : SelectPrevious(t)
      PROVE  UNCHANGED <<rows, wire>>
  BY <1>0, <1>2, ViewSteps
<1>3. ASSUME \/ CompleteShown \/ OtherTab \/ UNCHANGED panel
             \/ \E n \in Asked : ConfirmPin(n) \/ Dismiss(n) \/ EndOfStream(n)
      PROVE  UNCHANGED <<rows, wire>>
  BY <1>0, <1>3, MinorSteps
<1>4. ASSUME \/ Abort \/ \E n \in Asked : Post(n)
             \/ \E t \in Sessions : ReadDetail(t) \/ DetailArrives(t) \/ DetailFails(t)
      PROVE  UNCHANGED <<rows, wire>>
  BY <1>0, <1>4, AbortSteps, PostSteps, ReadSteps, SettleSteps
<1>5. ASSUME NEW n \in Asked, Accept(n) \/ Refuse(n) \/ UseTool(n) \/ Answer(n) \/ Breaks(n)
      PROVE  <<m, kind>> \in rows[s] /\ ~OnWire(kind)
  <2>1. CASE n # m
    <3>1. wire'[m] = wire[m] /\ (<<m, kind>> \in rows'[s] <=> <<m, kind>> \in rows[s])
      BY <1>0, <1>5, <2>1, ApiSteps
    <3> QED
      BY <3>1
  <2>2. CASE n = m
    <3>1. ASSUME NEW e \in {"tool", "answer", "error"}, wire' = [wire EXCEPT ![m] = @ \o <<e>>]
          PROVE  OnWire(e)' /\ (OnWire(kind) => OnWire(kind)')
      <4>1. wire'[m] = wire[m] \o <<e>>
        BY <1>0, <3>1 DEF PanelType
      <4>2. \A q \in Seq({"tool", "answer", "error"}) :
              /\ Len(q) + 1 \in DOMAIN (q \o <<e>>) /\ (q \o <<e>>)[Len(q) + 1] = e
              /\ \A i \in DOMAIN q : i \in DOMAIN (q \o <<e>>) /\ (q \o <<e>>)[i] = q[i]
        OBVIOUS
      <4>3. \E j \in DOMAIN wire'[m] : wire'[m][j] = e
        BY <1>0, <4>1, <4>2
      <4>4. \A i \in DOMAIN wire[m] : \E j \in DOMAIN wire'[m] : wire'[m][j] = wire[m][i]
        BY <1>0, <4>1, <4>2
      <4> QED
        BY <4>3, <4>4, Zenon
    <3>2. ASSUME NEW k \in Kinds, rows' = [rows EXCEPT ![s] = @ \cup {<<m, k>>}], k # kind
          PROVE  <<m, kind>> \in rows[s]
      BY <1>0, <3>2 DEF PanelType
    <3>3. CASE Accept(m)
      BY <1>0, <3>2, <3>3 DEF Accept, Stores
    <3>4. CASE Refuse(m) \/ Breaks(m)
      BY <3>1, <3>4 DEF Refuse, Breaks, Sends
    <3>5. CASE UseTool(m)
      BY <1>0, <3>1, <3>2, <3>5 DEF UseTool, Sends, Stores
    <3>6. CASE Answer(m)
      BY <1>0, <3>1, <3>2, <3>6 DEF Answer, Sends, Stores
    <3> QED
      BY <1>5, <2>2, <3>3, <3>4, <3>5, <3>6
  <2> QED
    BY <2>1, <2>2
<1>6. ASSUME NEW n \in Asked, Receive(n)
      PROVE  /\ <<m, kind>> \in rows[s]
             /\ ~OnWire(kind) \/ (Receive(m) /\ Head(wire[m]) = kind)
  <2>1. /\ UNCHANGED rows /\ wire[n] # <<>> /\ wire'[n] = Tail(wire[n])
        /\ \A k \in Asked \ {n} : wire'[k] = wire[k]
    BY <1>0, <1>6, ReceiveSteps
  <2>2. CASE n # m
    BY <2>1, <2>2
  <2>3. CASE n = m
    <3>1. \A q \in Seq({"tool", "answer", "error"}) : q # <<>> =>
            /\ Head(q) = q[1]
            /\ \A i \in DOMAIN q : i = 1 \/ (i - 1 \in DOMAIN Tail(q) /\ Tail(q)[i - 1] = q[i])
      OBVIOUS
    <3>2. ASSUME OnWire(kind) PROVE Head(wire[m]) = kind
      <4>1. PICK i \in DOMAIN wire[m] : wire[m][i] = kind
        BY <3>2
      <4>2. i = 1 \/ (i - 1 \in DOMAIN wire'[m] /\ wire'[m][i - 1] = kind)
        BY <1>0, <2>1, <2>3, <3>1, <4>1
      <4>3. i = 1
        BY <4>2
      <4> QED
        BY <1>0, <2>1, <2>3, <3>1, <4>1, <4>3
    <3> QED
      BY <1>6, <2>1, <2>3, <3>2
  <2> QED
    BY <2>2, <2>3
<1> HIDE DEF OnWire, s
<1> QED
  BY <1>1, <1>2, <1>3, <1>4, <1>5, <1>6 DEF PanelNext, Api, Analyst, Callbacks

\* Nothing of the exchange that is watched leaves the screen.
LEMMA NoGapNext ==
  ASSUME PanelIInv, [PanelNext]_panel
  PROVE  NoGapInView'
<1>00. /\ Nobody \notin Asked /\ PanelType' /\ PanelType /\ Watching'
       /\ {"user", "tool", "answer"} \subseteq Kinds
  BY PanelTypeNext, WatchingNext, PanelAssumption DEF PanelIInv, Kinds
<1> SUFFICES ASSUME NEW w \in Asked, watched' = w, NEW kind, kind \in Told(w)'
             PROVE  OnScreen(w, kind)'
  <2>1. watched' # Nobody => \E w \in Asked : watched' = w
    BY <1>00 DEF PanelType
  <2> QED
    BY <2>1 DEF NoGapInView
<1>0. /\ \A n \in Asked : InOrder(n)
      /\ Shown \in Sessions \cup {0} /\ 0 \notin Sessions /\ Requested
  BY ShownType, NoSessionIsZero DEF PanelIInv
<1>1. ASSUME watched = w
      PROVE  /\ open /\ streaming \in {w, Nobody} /\ w \notin left
             /\ post[w].at # "unsent" /\ post[w].mount = mount
             /\ post[w].session = Shown /\ Shown \in Sessions /\ detail[Shown] # NoData
             /\ kind \in Told(w) => OnScreen(w, kind)
             /\ kind \in Told(w) \/ (Receive(w) /\ Head(wire[w]) = kind)
  <2>1. Watching /\ NoGapInView /\ watched # Nobody
    BY <1>00, <1>1 DEF PanelIInv
  <2>2. /\ open /\ streaming \in {w, Nobody} /\ w \notin left
        /\ post[w].at # "unsent" /\ post[w].mount = mount
        /\ post[w].session = Shown /\ detail[Shown] # NoData
    BY <1>1, <2>1 DEF Watching
  <2>3. Shown \in Sessions
    BY <2>2, PostKeeps
  <2>4. kind \in Told(w) => OnScreen(w, kind)
    BY <1>1, <2>1 DEF NoGapInView
  <2>5. kind \in Told(w) \/ (Receive(w) /\ Head(wire[w]) = kind)
    BY <2>2, Tells
  <2> QED
    BY <2>2, <2>3, <2>4, <2>5
<1>2. ASSUME watched = w, Shown' = Shown, UNCHANGED <<liveUser, detail>>, live \subseteq live',
             ~Receive(w)
      PROVE  OnScreen(w, kind)'
  BY <1>1, <1>2 DEF OnScreen
<1>3. ASSUME Receive(w) PROVE wire' # wire
  <2>1. wire[w] # <<>> /\ wire'[w] = Tail(wire[w]) /\ wire[w] \in Seq({"tool", "answer", "error"})
    BY <1>00, <1>0, <1>3, ReceiveSteps DEF PanelType
  <2>2. \A q \in Seq({"tool", "answer", "error"}) : q # <<>> => Len(Tail(q)) # Len(q)
    OBVIOUS
  <2> QED
    BY <2>1, <2>2, Zenon
<1>4. CASE \/ OpenPanel \/ ClosePanel \/ NewSession \/ ListArrives
           \/ \E s \in Sessions : SelectPrevious(s)
  <2>1. UNCHANGED <<wire, detail, liveUser, live, watched>> /\ Shown' = Shown
    BY <1>00, <1>4, ViewSteps
  <2> QED
    BY <1>2, <1>3, <2>1
<1>5. CASE \/ CompleteShown \/ OtherTab \/ UNCHANGED panel
           \/ \E m \in Asked : ConfirmPin(m) \/ Dismiss(m) \/ EndOfStream(m)
  <2>1. UNCHANGED <<wire, detail, liveUser, live, watched>> /\ Shown' = Shown
    BY <1>00, <1>5, MinorSteps
  <2> QED
    BY <1>2, <1>3, <2>1
<1>6. ASSUME NEW m \in Asked, Post(m) PROVE OnScreen(w, kind)'
  <2>1. /\ UNCHANGED rows /\ liveUser' = w /\ m = w /\ post[w].at = "unsent"
        /\ post'[w].session = Shown /\ Shown \in Sessions
    BY <1>00, <1>6, PostSteps
  <2>2. \A k \in Kinds : <<w, k>> \notin rows'[Shown]
    BY <1>0, <2>1 DEF InOrder
  <2>3. kind = "user"
    BY <1>00, <2>1, <2>2 DEF Told
  <2> QED
    BY <2>1, <2>3 DEF OnScreen
<1>7. ~Abort
  BY <1>00, AbortSteps
<1>8. ASSUME NEW m \in Asked, Accept(m) \/ Refuse(m) \/ UseTool(m) \/ Answer(m) \/ Breaks(m)
      PROVE  OnScreen(w, kind)'
  <2>1. /\ UNCHANGED <<detail, liveUser, live, watched>> /\ Shown' = Shown
        /\ \A k \in Asked \ {m} : post'[k] = post[k] /\ wire'[k] = wire[k]
        /\ post[m].at \in {"asked", "open"}
    BY <1>00, <1>0, <1>8, ApiSteps
  <2>2. ASSUME Receive(w) PROVE FALSE
    <3>1. post' = post /\ rows' = rows /\ wire'[w] = Tail(wire[w]) /\ wire[w] # <<>>
      BY <1>00, <1>0, <2>2, ReceiveSteps
    <3>2. w = m
      <4>1. wire[w] \in Seq({"tool", "answer", "error"})
        BY <1>00 DEF PanelType
      <4>2. \A q \in Seq({"tool", "answer", "error"}) : q # <<>> => Len(Tail(q)) # Len(q)
        OBVIOUS
      <4> QED
        BY <2>1, <3>1, <4>1, <4>2, Zenon
    <3>3. wire' = wire \/ \E e \in {"tool", "answer", "error"} : Sends(w, <<e>>)
      BY <1>8, <3>2 DEF Accept, Refuse, UseTool, Answer, Breaks
    <3>4. ASSUME NEW e \in {"tool", "answer", "error"}, Sends(w, <<e>>) PROVE FALSE
      <4>1. wire[w] \in Seq({"tool", "answer", "error"}) /\ wire'[w] = wire[w] \o <<e>>
        BY <1>00, <3>4 DEF PanelType, Sends
      <4>2. \A q \in Seq({"tool", "answer", "error"}) : q # <<>> => Len(Tail(q)) # Len(q \o <<e>>)
        OBVIOUS
      <4> QED
        BY <3>1, <4>1, <4>2, Zenon
    <3> QED
      BY <1>3, <2>2, <3>3, <3>4
  <2> QED
    BY <1>2, <2>1, <2>2
<1>9. ASSUME NEW s \in Sessions, ReadDetail(s) PROVE OnScreen(w, kind)'
  <2>1. UNCHANGED <<wire, detail, liveUser, live, watched>> /\ Shown' = Shown
    BY <1>00, <1>9, ReadSteps
  <2> QED
    BY <1>2, <1>3, <2>1
<1>10. ASSUME NEW s \in Sessions, DetailArrives(s) \/ DetailFails(s) PROVE OnScreen(w, kind)'
  <2>1. /\ UNCHANGED <<wire, rows, post, mount, open, watched>> /\ Shown' = Shown
        /\ req[s] \notin Request /\ detail'[s] = req[s]
        /\ \A t \in Sessions \ {s} : detail'[t] = detail[t]
        /\ \/ open /\ mount \in clears[s] /\ liveUser' = Nobody /\ live' = {}
           \/ ~(open /\ mount \in clears[s]) /\ UNCHANGED <<liveUser, live>>
    BY <1>00, <1>10, SettleSteps
  <2>2. watched = w /\ kind \in Told(w) /\ OnScreen(w, kind)
    BY <1>1, <1>3, <2>1
  <2>3. detail[Shown].rows \subseteq detail'[Shown].rows
    BY <1>0, <1>1, <2>1, <2>2 DEF Requested
  <2>4. CASE UNCHANGED <<liveUser, live>>
    BY <2>1, <2>2, <2>3, <2>4 DEF OnScreen
  <2>5. CASE mount \in clears[s]
    <3>1. /\ s = Shown /\ "user" \in RowsOf(w)
          /\ \A k \in RowsOf(w) : <<w, k>> \in req[s].rows
      BY <1>00, <2>1, <2>2, <2>5 DEF PanelIInv, Watching
    <3>2. kind \in RowsOf(w)
      BY <1>00, <2>2, <3>1 DEF Told, RowsOf
    <3> QED
      BY <2>1, <3>1, <3>2 DEF OnScreen
  <2> QED
    BY <2>1, <2>4, <2>5
<1>11. ASSUME NEW m \in Asked, Receive(m) PROVE OnScreen(w, kind)'
  <2>1. /\ UNCHANGED <<post, left, mount, open, detail, streaming, watched>> /\ Shown' = Shown
        /\ m \notin left /\ wire[m] # <<>> /\ post[m].at # "unsent"
        /\ Head(wire[m]) \in {"tool", "answer", "error"}
        /\ Head(wire[m]) # "answer" => UNCHANGED liveUser
    BY <1>00, <1>0, <1>11, ReceiveSteps
  <2>2. watched = w /\ \A k \in Asked : Receive(k) => k = m
    BY <1>00, <1>0, <1>11, <2>1, OneIsRead
  <2>3. ASSUME post[m].mount = mount PROVE m = w
    <3>1. open
      BY <1>1, <2>2
    <3>2. streaming = m
      BY <2>1, <2>3, <3>1 DEF PanelIInv, OneStream
    <3> QED
      BY <1>00, <1>1, <2>2, <3>2
  <2>4. /\ UNCHANGED liveUser /\ live \subseteq live'
        /\ m = w /\ Head(wire[m]) # "error" => <<m, Head(wire[m])>> \in live'
    <3>1. CASE Head(wire[m]) = "tool"
      <4>1. IF Mine(m) THEN live' = live \cup {<<m, "tool">>} ELSE UNCHANGED live
        BY <1>11, <3>1 DEF Receive
      <4>2. m = w => Mine(m)
        BY <1>1, <2>2 DEF Mine
      <4> QED
        BY <2>1, <3>1, <4>1, <4>2
    <3>2. CASE Head(wire[m]) = "error"
      BY <1>11, <2>1, <3>2 DEF Receive
    <3>3. CASE Head(wire[m]) = "answer"
      <4> DEFINE s == post[m].session
      <4>1. /\ Shown = s =>
                 /\ live' = (IF post[m].mount = mount THEN live \cup {<<m, "answer">>} ELSE live)
                 /\ UNCHANGED liveUser
            /\ Shown # s =>
                 IF post[m].mount = mount /\ open THEN liveUser' = Nobody /\ live' = {}
                 ELSE UNCHANGED <<liveUser, live>>
        BY <1>00, <1>0, <1>11, <3>3, AnswerRead
      <4>2. m = w => Shown = s /\ post[m].mount = mount
        BY <1>1, <2>2
      <4> HIDE DEF s
      <4> QED
        BY <2>3, <3>3, <4>1, <4>2
    <3> QED
      BY <2>1, <3>1, <3>2, <3>3
  <2>5. CASE kind \in Told(w)
    BY <1>1, <2>1, <2>2, <2>4, <2>5 DEF OnScreen
  <2>6. CASE Receive(w) /\ Head(wire[w]) = kind
    <3>1. kind # "error"
      BY DEF Told
    <3> QED
      BY <2>2, <2>4, <2>6, <3>1 DEF OnScreen
  <2> QED
    BY <1>1, <2>2, <2>5, <2>6
<1> QED
  BY <1>4, <1>5, <1>6, <1>7, <1>8, <1>9, <1>10, <1>11 DEF PanelNext, Api, Analyst, Callbacks

\* The panel starts in its invariant.
LEMMA PanelInitIInv == PanelInit => PanelIInv
<1> SUFFICES ASSUME PanelInit PROVE PanelIInv
  OBVIOUS
<1> USE DEF PanelInit
<1>0. /\ Nobody \notin Asked /\ Idle \in Request /\ NoData \notin Answers
      /\ {"none", "active"} \subseteq Statuses
  BY PanelAssumption, NothingAssumption DEF Request, Statuses
<1>1. PanelType
  <2>1. <<>> \in Seq({"tool", "answer", "error"})
    OBVIOUS
  <2> QED
    BY <1>0, <2>1 DEF PanelType
<1>2. OneStream /\ Requested
  BY <1>0 DEF OneStream, Requested
<1>3. Fresh /\ \A m \in Asked : InOrder(m)
  BY DEF Fresh, Landed, InOrder
<1>4. LiveGoes
  BY <1>0 DEF LiveGoes
<1>5. Watching /\ NoGapInView
  BY DEF Watching, NoGapInView
<1> QED
  BY <1>1, <1>2, <1>3, <1>4, <1>5 DEF PanelIInv

LEMMA PanelIInvNext == PanelIInv /\ [PanelNext]_panel => PanelIInv'
BY PanelTypeNext, InOrderNext, OneStreamNext, RequestedNext, FreshNext, LiveGoesNext, WatchingNext,
   NoGapNext DEF PanelIInv

\* The panel's invariant, for any sessions and messages, any number of mounts and
\* other tabs that create and complete sessions meanwhile.
THEOREM PanelHolds == PanelSpec => []PanelIInv
BY PanelInitIInv, PanelIInvNext, PTL DEF PanelSpec

\* As long as its session stays in view, the message sent last is on the screen, and
\* what its panel has been told of the exchange.
THEOREM NothingGoesMissing == PanelSpec => []NoGapInView
<1>1. PanelIInv => NoGapInView
  BY DEF PanelIInv
<1> QED
  BY <1>1, PanelHolds, PTL

\* When nothing is under way, the history that is in view has every exchange that was
\* answered and every pin, and nothing of it is shown a second time.
THEOREM HistoryShowsAll == PanelSpec => []QuietShows
<1>1. PanelIInv => QuietShows
  <2> SUFFICES ASSUME PanelIInv, Quiet, Loaded, Shown \notin excused
               PROVE  /\ \A m \in Asked : Answered(m) /\ post[m].session = Shown =>
                           \A kind \in {"user", "tool", "answer"} :
                             <<m, kind>> \in rows[Shown] => <<m, kind>> \in detail[Shown].rows
                      /\ pins[Shown] = detail[Shown].pins
                      /\ \A m \in Asked : Answered(m) => liveUser # m /\ {e \in live : e[1] = m} = {}
    BY DEF QuietShows
  <2>0. /\ PanelType /\ Shown \in Sessions /\ detail[Shown] # NoData /\ req[Shown] = Idle
        /\ Kinds = {"user", "tool", "answer"}
    BY ShownType DEF PanelIInv, Loaded, Quiet, Kinds
  <2>1. ASSUME NEW m \in Asked, Answered(m)
        PROVE  Landed(m) /\ post[m].session \in Sessions
    <3>1. InOrder(m) /\ post[m].session \in Sessions
      BY <2>0, <2>1 DEF PanelIInv, PanelType, Answered
    <3>2. post[m].at # "unsent" /\ wire[m] = <<>>
      BY <2>0, <2>1, <3>1 DEF Quiet, InOrder, Answered
    <3> QED
      BY <2>0, <2>1, <3>1, <3>2 DEF Answered, Landed, RowsOf
  <2>2. ASSUME NEW m \in Asked, Answered(m), post[m].session = Shown,
               NEW kind \in {"user", "tool", "answer"}, <<m, kind>> \in rows[Shown]
        PROVE  <<m, kind>> \in detail[Shown].rows
    <3>1. kind \in RowsOf(m)
      BY <2>0, <2>2 DEF RowsOf
    <3>2. Landed(m)
      BY <2>1, <2>2
    <3> QED
      BY <2>0, <2>2, <3>1, <3>2 DEF PanelIInv, Fresh
  <2>3. pins[Shown] = detail[Shown].pins
    BY <2>0 DEF PanelIInv, Requested
  <2>4. ASSUME NEW m \in Asked, Answered(m)
        PROVE  liveUser # m /\ {e \in live : e[1] = m} = {}
    <3>1. Landed(m) /\ mount \notin clears[post[m].session]
      BY <2>1, <2>4 DEF PanelIInv, Requested, Quiet
    <3>2. liveUser # m /\ \A kind \in Kinds : <<m, kind>> \notin live
      BY <3>1 DEF PanelIInv, LiveGoes
    <3>3. ASSUME NEW e \in live PROVE e[1] # m
      <4>1. PICK a \in Asked, kind \in Kinds : e = <<a, kind>>
        BY <2>0, <3>3 DEF PanelType
      <4> QED
        BY <3>2, <3>3, <4>1
    <3> QED
      BY <3>2, <3>3
  <2> QED
    BY <2>2, <2>3, <2>4
<1> QED
  BY <1>1, PanelHolds, PTL
=============================================================================
