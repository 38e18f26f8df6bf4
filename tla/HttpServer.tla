----------------------------- MODULE HttpServer -----------------------------
(***************************************************************************)
(* lib/snmpy/httpd.py: a server that handles one connection after another, *)
(* under an alarm of ten seconds, with the MIB text of                     *)
(* lib/snmpy/server.py.  The alarm's handler raises RuntimeError wherever  *)
(* the server is.                                                          *)
(*                                                                         *)
(* Clients connect, send their request or do not, take their answer or do  *)
(* not, and leave when they like.                                          *)
(***************************************************************************)
EXTENDS Integers, Sequences, SequencesExt

CONSTANTS Clients,
          Nobody

ASSUME ClientAssumption == Nobody \notin Clients

VARIABLES
  queue,     \* the connections that wait to be accepted
  asked,     \* asked[c]: what c has sent a request for
  taking,    \* the clients that take what is sent to them
  left,      \* the clients that have closed their connection
  place,     \* where the server is
  serving,   \* whose connection it has
  alarm,     \* whose request the pending alarm was set for
  answer,    \* the status of the response
  got,       \* got[c]: history, what was sent to c
  timed      \* history, the clients whose alarm went off

clientVars == <<queue, asked, taking, left>>
serverVars == <<place, serving, alarm, answer, got, timed>>
vars == <<clientVars, serverVars>>

\* The two paths that have a handler, one that has none, one that urlparse does not
\* take (//[ say), and what the library refuses by itself.
Pages == {"mib", "version"}
Paths == Pages \cup {"unknown"}
Requests == Paths \cup {"malformed", "refused"}
Nothing == [code |-> 0, whole |-> FALSE]
Codes == {0, 200, 404, 500, 501}

TypeOK == /\ queue \in Seq(Clients)
          /\ asked \in [Clients -> Requests \cup {"nothing"}]
          /\ taking \subseteq Clients /\ left \subseteq Clients
          /\ place \in {"idle", "read", "route", "send", "close", "disarm", "ended"}
          /\ {serving, alarm} \subseteq Clients \cup {Nobody}
          /\ place \in {"read", "route", "send", "close", "disarm"} => serving \in Clients
          /\ answer \in Codes
          /\ got \in [Clients -> [code : Codes, whole : BOOLEAN]]
          /\ timed \subseteq Clients

Init == /\ queue = <<>>
        /\ asked = [c \in Clients |-> "nothing"]
        /\ taking = {} /\ left = {}
        /\ place = "idle" /\ serving = Nobody /\ alarm = Nobody
        /\ answer = 0
        /\ got = [c \in Clients |-> Nothing]
        /\ timed = {}

-----------------------------------------------------------------------------
(* The clients.  External.                                                  *)

Waiting(c) == \E i \in DOMAIN queue : queue[i] = c
Connected(c) == Waiting(c) \/ (serving = c /\ place # "ended")

\* A client connects once.
Connect(c) == /\ ~Connected(c) /\ asked[c] = "nothing" /\ c \notin left
              /\ queue' = Append(queue, c)
              /\ UNCHANGED <<asked, taking, left, serverVars>>

Ask(c) == /\ Connected(c) /\ asked[c] = "nothing" /\ c \notin left
          /\ \E r \in Requests : asked' = [asked EXCEPT ![c] = r]
          /\ UNCHANGED <<queue, taking, left, serverVars>>

\* Data that the client has not taken fill its window, and a write waits.
Take(c) == /\ asked[c] # "nothing" /\ c \notin taking \cup left
           /\ taking' = taking \cup {c}
           /\ UNCHANGED <<queue, asked, left, serverVars>>

Leave(c) == /\ Connected(c) /\ c \notin left
            /\ left' = left \cup {c}
            /\ UNCHANGED <<queue, asked, taking, serverVars>>

-----------------------------------------------------------------------------
(* The server.                                                              *)

\* Mutant: no alarm is set.
AcceptUntimed ==
  /\ place = "idle" /\ queue # <<>>
  /\ serving' = Head(queue) /\ queue' = Tail(queue)
  /\ place' = "read"
  /\ UNCHANGED <<asked, taking, left, alarm, answer, got, timed>>

\* A connection is accepted, and process_request sets the alarm.
Accept ==
  /\ place = "idle" /\ queue # <<>>
  /\ serving' = Head(queue) /\ queue' = Tail(queue)
  /\ alarm' = Head(queue)
  /\ place' = "read"
  /\ UNCHANGED <<asked, taking, left, answer, got, timed>>

\* The library reads the request, or the end of the connection.
ReadRequest ==
  /\ place = "read"
  /\ \/ /\ asked[serving] \in Paths \cup {"malformed"}
        /\ place' = "route" /\ UNCHANGED answer
     \/ /\ asked[serving] = "refused"
        /\ place' = "send" /\ answer' = 501
     \/ /\ asked[serving] = "nothing" /\ serving \in left
        /\ place' = "close" /\ UNCHANGED answer
  /\ UNCHANGED <<clientVars, serving, alarm, got, timed>>

\* Mutant: the response is made once, and keeps the status of the last request.
RouteKeepsStatus ==
  /\ place = "route"
  /\ answer' = CASE asked[serving] = "malformed" -> answer
                 [] asked[serving] = "unknown" -> 404
                 [] OTHER -> IF answer = 0 THEN 200 ELSE answer
  /\ place' = IF asked[serving] = "malformed" THEN "disarm" ELSE "send"
  /\ UNCHANGED <<clientVars, serving, alarm, got, timed>>

\* route_request: the first handler whose pattern matches the path, with a new
\* response.  The path is parsed outside of its try: an exception of urlparse goes
\* to process_request, which logs it and drops the connection.
Route ==
  /\ place = "route"
  /\ \/ /\ asked[serving] = "malformed"
        /\ place' = "disarm" /\ UNCHANGED answer
     \/ /\ asked[serving] \in Paths
        /\ answer' = IF asked[serving] \in Pages THEN 200 ELSE 404
        /\ place' = "send"
  /\ UNCHANGED <<clientVars, serving, alarm, got, timed>>

\* Only the MIB text is longer than what a connection takes by itself.  A write
\* to a client that has left goes nowhere, or raises, which is logged.
Fits == answer # 200 \/ asked[serving] # "mib"

Send ==
  /\ place = "send"
  /\ Fits \/ serving \in taking \cup left
  /\ got' = [got EXCEPT ![serving] = [code |-> answer, whole |-> serving \notin left]]
  /\ place' \in IF serving \in left THEN {"close", "disarm"} ELSE {"close"}
  /\ UNCHANGED <<clientVars, serving, alarm, answer, timed>>

\* Mutant: the handler is gone before the alarm is cancelled.
CloseForgets ==
  /\ place = "close"
  /\ place' = "disarm"
  /\ serving' = Nobody
  /\ UNCHANGED <<clientVars, alarm, answer, got, timed>>

\* shutdown_request.
Close ==
  /\ place = "close"
  /\ place' = "disarm"
  /\ UNCHANGED <<clientVars, serving, alarm, answer, got, timed>>

\* Mutant: the alarm is not cancelled.
LeaveArmed ==
  /\ place = "disarm"
  /\ serving' = Nobody
  /\ place' = "idle"
  /\ UNCHANGED <<clientVars, alarm, answer, got, timed>>

\* The end of process_request: its except, if there is something to log, and its
\* finally.
Disarm ==
  /\ place = "disarm"
  /\ alarm' = Nobody
  /\ serving' = Nobody
  /\ place' = "idle"
  /\ UNCHANGED <<clientVars, answer, got, timed>>

\* handle_timeout.  The try of route_request makes an error page of the exception,
\* from everywhere else process_request drops the connection.  In its except and finally
\* nothing of httpd.py catches it: SocketServer's handle_error writes to a
\* standard error that the daemon has closed, which ends the process or not.
\* The handler stays installed: while no request is served it would end it.
AlarmFires ==
  /\ alarm # Nobody /\ place # "ended"
  /\ alarm' = Nobody
  /\ timed' = timed \cup {alarm}
  /\ \/ /\ place = "route" /\ asked[serving] \in Paths
        /\ answer' = 500 /\ place' = "send"
        /\ UNCHANGED <<serving, got>>
     \/ /\ place \in {"read", "route", "send", "close"}
        /\ got' = IF place = "send" THEN [got EXCEPT ![serving].code = answer] ELSE got
        /\ place' = "disarm"
        /\ UNCHANGED <<serving, answer>>
     \/ /\ place \in {"idle", "disarm"}
        /\ place' \in {"idle", "ended"} /\ (place = "idle" => place' = "ended")
        /\ serving' = Nobody
        /\ UNCHANGED <<answer, got>>
  /\ UNCHANGED clientVars

ServerStep == Accept \/ ReadRequest \/ Route \/ Send \/ Close \/ Disarm

-----------------------------------------------------------------------------
Next == \/ \E c \in Clients : Connect(c) \/ Ask(c) \/ Take(c) \/ Leave(c)
        \/ ServerStep \/ AlarmFires

Spec == Init /\ [][Next]_vars

\* The server runs, and ten seconds pass.  Clients need not do anything.
FairSpec == Spec /\ WF_vars(ServerStep) /\ WF_vars(AlarmFires)

-----------------------------------------------------------------------------
(* Properties.                                                              *)

\* An alarm only ever interrupts the request it was set for: none is pending
\* between two requests, where it would end the http process and with it the
\* whole agent.
AlarmHitsItsOwn == alarm \in {serving, Nobody}

\* What a client gets is the answer to its own request, whole but when it left or
\* was timed out, and an error page only when it was timed out.
RightCode(c) == \/ got[c].code = 200 /\ asked[c] \in Pages
                \/ got[c].code = 404 /\ asked[c] = "unknown"
                \/ got[c].code = 501 /\ asked[c] = "refused"
                \/ got[c].code = 500 /\ asked[c] \in Paths /\ c \in timed
OwnAnswer ==
  \A c \in Clients : got[c].code # 0 =>
    RightCode(c) /\ (got[c].whole \/ c \in timed \cup left)

\* Nobody waits for ever behind another client, a silent one say: whoever has
\* sent its request and takes its answer gets it, or is timed out.  A path that
\* cannot be parsed gets none: its connection is dropped, and the next one served.
Answered ==
  \A c \in Clients :
    (asked[c] # "nothing" /\ c \in taking)
      ~> \/ got[c].code # 0 \/ c \in timed \cup left \/ place = "ended"
         \/ asked[c] = "malformed" /\ ~Connected(c)
=============================================================================
