------------------------- MODULE HttpServer_proofs -------------------------
(* Proofs about the http server, for any number of clients.                 *)
EXTENDS HttpServer, TLAPS

\* A status that answers what c has asked for.
Right(c, code) == \/ code = 200 /\ asked[c] \in Pages
                  \/ code = 404 /\ asked[c] = "unknown"
                  \/ code = 501 /\ asked[c] = "refused"
                  \/ code = 500 /\ asked[c] \in Paths /\ c \in timed

\* Where the server is says whether it has a connection, what that client has
\* asked for, and that the response to be sent is the answer to it.
InPlace == /\ place \in {"idle", "ended"} => serving = Nobody
           /\ place = "route" => asked[serving] \in Paths \cup {"malformed"}
           /\ place = "send" => Right(serving, answer)

IInv == TypeOK /\ AlarmHitsItsOwn /\ InPlace /\ OwnAnswer

\* Nobody has connected.
LEMMA InitInv == Init => IInv
BY DEF Init, IInv, TypeOK, AlarmHitsItsOwn, InPlace, OwnAnswer, Nothing, Codes

\* What a client does changes neither what it has asked for nor what it got.
LEMMA ClientInv ==
  ASSUME IInv, NEW c \in Clients, Connect(c) \/ Ask(c) \/ Take(c) \/ Leave(c)
  PROVE  IInv'
<1> USE ClientAssumption DEF IInv
<1>1. TypeOK'
  <2>1. CASE Connect(c)
    BY <2>1 DEF Connect, serverVars, TypeOK, Codes
  <2>2. CASE Ask(c)
    BY <2>2 DEF Ask, serverVars, TypeOK, Codes
  <2>3. CASE Take(c)
    BY <2>3 DEF Take, serverVars, TypeOK, Codes
  <2>4. CASE Leave(c)
    BY <2>4 DEF Leave, serverVars, TypeOK, Codes
  <2> QED BY <2>1, <2>2, <2>3, <2>4
<1>2. UNCHANGED serverVars /\ left \subseteq left'
  BY DEF Connect, Ask, Take, Leave
<1>3. \A d \in Clients : asked[d] # "nothing" => asked'[d] = asked[d]
  BY DEF Connect, Ask, Take, Leave, TypeOK
<1>4. AlarmHitsItsOwn'
  BY <1>2 DEF AlarmHitsItsOwn, serverVars
<1>5. InPlace'
  <2>1. place \in {"route", "send"} => serving \in Clients /\ asked[serving] # "nothing"
    BY DEF InPlace, Right, TypeOK, Paths, Pages
  <2> QED BY <1>2, <1>3, <2>1 DEF InPlace, Right, serverVars
<1>6. OwnAnswer'
  <2>1. \A d \in Clients : got[d].code # 0 => asked[d] # "nothing"
    BY DEF OwnAnswer, RightCode, Paths, Pages
  <2> QED BY <1>2, <1>3, <2>1 DEF OwnAnswer, RightCode, serverVars
<1> QED BY <1>1, <1>4, <1>5, <1>6

\* A connection is taken with its alarm, and left without; the answer is the one to
\* the request that was read.
LEMMA ServerInv ==
  ASSUME IInv, ServerStep
  PROVE  IInv'
<1> USE ClientAssumption DEF IInv, TypeOK, AlarmHitsItsOwn, InPlace
<1>1. CASE Accept
  <2>1. Head(queue) \in Clients /\ Tail(queue) \in Seq(Clients)
    BY <1>1 DEF Accept
  <2> QED BY <1>1, <2>1 DEF Accept, OwnAnswer, RightCode
<1>2. CASE ReadRequest
  BY <1>2 DEF ReadRequest, OwnAnswer, RightCode, Right, clientVars, Requests, Paths, Codes
<1>3. CASE Route
  BY <1>3 DEF Route, OwnAnswer, RightCode, Right, clientVars, Requests, Paths, Codes
<1>4. CASE Send
  <2>1. serving \in Clients /\ Right(serving, answer)
    BY <1>4 DEF Send
  <2>2. \A c \in Clients : got'[c] = IF c = serving
                                     THEN [code |-> answer, whole |-> serving \notin left]
                                     ELSE got[c]
    BY <1>4, <2>1 DEF Send
  <2>3. got'[serving].code = answer /\ got'[serving].whole = (serving \notin left)
    BY <2>1, <2>2
  <2>4. ASSUME NEW c \in Clients, got'[c].code # 0
        PROVE  RightCode(c)' /\ (got'[c].whole \/ c \in timed' \cup left')
    <3>1. UNCHANGED <<asked, timed, left>>
      BY <1>4 DEF Send, clientVars
    <3>2. CASE c = serving
      <4>1. RightCode(c)'
        BY <2>1, <2>3, <3>1, <3>2 DEF RightCode, Right
      <4>2. got'[c].whole \/ c \in left'
        BY <2>3, <3>1, <3>2, Zenon
      <4> QED BY <4>1, <4>2
    <3>3. CASE c # serving
      <4>1. got'[c] = got[c]
        BY <2>2, <3>3
      <4> QED BY <2>4, <3>1, <4>1 DEF OwnAnswer, RightCode
    <3> QED BY <3>2, <3>3
  <2>5. OwnAnswer'
    BY <2>4 DEF OwnAnswer
  <2> QED BY <1>4, <2>1, <2>2, <2>5 DEF Send, clientVars
<1>5. CASE Close
  BY <1>5 DEF Close, OwnAnswer, RightCode, clientVars
<1>6. CASE Disarm
  BY <1>6 DEF Disarm, OwnAnswer, RightCode, clientVars
<1> QED BY <1>1, <1>2, <1>3, <1>4, <1>5, <1>6 DEF ServerStep

\* The alarm goes off in the request it was set for, which counts as timed out.
LEMMA AlarmInv ==
  ASSUME IInv, AlarmFires
  PROVE  IInv'
<1> USE ClientAssumption DEF IInv, TypeOK, AlarmHitsItsOwn, InPlace, AlarmFires
<1>1. serving \in Clients /\ alarm = serving /\ place # "idle" /\ timed' = timed \cup {serving}
  OBVIOUS
<1>2. \A c \in Clients :
        /\ RightCode(c) => \/ got[c].code = 200 /\ asked[c] \in Pages
                           \/ got[c].code = 404 /\ asked[c] = "unknown"
                           \/ got[c].code = 501 /\ asked[c] = "refused"
                           \/ got[c].code = 500 /\ asked[c] \in Paths /\ c \in timed'
  BY <1>1 DEF RightCode
<1>3. CASE place = "route"
  BY <1>1, <1>2, <1>3 DEF OwnAnswer, RightCode, Right, clientVars, Codes
<1>4. CASE place \in {"read", "close", "disarm"}
  BY <1>1, <1>2, <1>4 DEF OwnAnswer, RightCode, clientVars
<1>5. CASE place = "send"
  <2>1. Right(serving, answer)
    BY <1>5
  <2>2. got' \in [Clients -> [code : Codes, whole : BOOLEAN]]
    BY <1>1, <1>5
  <2>3. \A c \in Clients : /\ got'[c].code = IF c = serving THEN answer ELSE got[c].code
                           /\ got'[c].whole = got[c].whole
    BY <1>1, <1>5
  <2>4. OwnAnswer'
    BY <1>1, <1>5, <2>1, <2>3 DEF OwnAnswer, RightCode, Right, clientVars
  <2> QED BY <1>1, <1>5, <2>2, <2>4 DEF clientVars
<1> QED BY <1>1, <1>3, <1>4, <1>5

\* The inductive invariant: types, whose alarm is pending, where the server is, and
\* what the clients got.
THEOREM ServerInvariant == Spec => []IInv
<1>1. IInv /\ [Next]_vars => IInv'
  <2> SUFFICES ASSUME IInv, [Next]_vars PROVE IInv'
    OBVIOUS
  <2>1. CASE UNCHANGED vars
    BY <2>1 DEF vars, clientVars, serverVars, IInv, TypeOK, AlarmHitsItsOwn, InPlace, Right,
                OwnAnswer, RightCode
  <2>2. CASE Next
    BY <2>2, ClientInv, ServerInv, AlarmInv DEF Next
  <2> QED BY <2>1, <2>2
<1> QED BY <1>1, InitInv, PTL DEF Spec

\* The server, the clients and the alarm keep to their types: from the request on to
\* the disarming of the alarm the server has the client that it serves.
THEOREM TypeCorrect == Spec => []TypeOK
BY ServerInvariant, PTL DEF IInv

\* No alarm is pending but the one of the request that is served, since
\* process_request cancels what it has set.
THEOREM NoStrayAlarm == Spec => []AlarmHitsItsOwn
BY ServerInvariant, PTL DEF IInv

\* What a client gets is the answer to its own request, and an error page or a cut
\* answer only if it was timed out or has left.
THEOREM AnswersAreOwn == Spec => []OwnAnswer
BY ServerInvariant, PTL DEF IInv
=============================================================================
