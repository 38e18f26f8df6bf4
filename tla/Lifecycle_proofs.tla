-------------------------- MODULE Lifecycle_proofs --------------------------
(* Proofs about the processes of snmpy, for any number of runs.             *)
EXTENDS Lifecycle, TLAPS

\* Only tail threads hold the lock of the log handler while the http process may be
\* forked, and so only their agents may have one that is blocked in it.
StuckTails == \A a \in Agents : logging[a] \/ child[a] = "stuck" => a \in Tailing

Inv == TypeOK /\ StuckTails

\* No run has begun.
LEMMA InitInv == Init => Inv
BY DEF Init, Inv, TypeOK, StuckTails, MainPlaces, ChildPlaces

\* The steps of the main process keep the invariant.
LEMMA MainInv ==
  ASSUME Inv, NEW a \in Agents,
         Start(a) \/ MainStep(a) \/ SetupFails(a) \/ Stop(a) \/ Killed(a)
  PROVE  Inv'
<1> USE DEF Inv, TypeOK, StuckTails, MainPlaces, ChildPlaces, Goto
<1>1. CASE Start(a)
  BY <1>1 DEF Start
<1>2. CASE Fork(a)
  BY <1>2 DEF Fork, ChildGoto
<1>3. CASE EnterLoop(a)
  BY <1>3 DEF EnterLoop
<1>4. CASE LeaveLoop(a)
  BY <1>4 DEF LeaveLoop, Leave, Alive
<1>5. CASE Finish(a)
  BY <1>5 DEF Finish
<1>6. CASE SetupFails(a)
  BY <1>6 DEF SetupFails, Leave, Alive
<1>7. CASE Stop(a)
  BY <1>7 DEF Stop
<1>8. CASE Killed(a)
  BY <1>8 DEF Killed, Ended
<1>. QED  BY <1>1, <1>2, <1>3, <1>4, <1>5, <1>6, <1>7, <1>8 DEF MainStep

\* So do those of the http process and of the tail thread.
LEMMA ChildInv ==
  ASSUME Inv, NEW a \in Agents,
         LogBegin(a) \/ LogEnd(a) \/ ChildStep(a) \/ HttpdExit(a)
  PROVE  Inv'
<1> USE DEF Inv, TypeOK, StuckTails, MainPlaces, ChildPlaces, ChildGoto, Alive
<1>1. CASE LogBegin(a)
  BY <1>1 DEF LogBegin
<1>2. CASE LogEnd(a)
  BY <1>2 DEF LogEnd
<1>3. CASE Tie(a)
  BY <1>3 DEF Tie
<1>4. CASE Bind(a)
  BY <1>4 DEF Bind
<1>5. CASE Terminate(a)
  BY <1>5 DEF Terminate
<1>6. CASE HttpdExit(a)
  BY <1>6 DEF HttpdExit
<1>. QED  BY <1>1, <1>2, <1>3, <1>4, <1>5, <1>6 DEF ChildStep

LEMMA AlwaysInv == Spec => []Inv
<1>1. Inv /\ [Next]_vars => Inv'
  <2>. SUFFICES ASSUME Inv, [Next]_vars PROVE Inv'
    OBVIOUS
  <2>1. CASE Next
    BY <2>1, MainInv, ChildInv DEF Next
  <2>2. CASE UNCHANGED vars
    BY <2>2 DEF vars, Inv, TypeOK, StuckTails
  <2>. QED  BY <2>1, <2>2
<1>. QED  BY <1>1, InitInv, PTL DEF Spec

\* The types: an http process and its signals come after the fork.
THEOREM TypeCorrect == Spec => []TypeOK
<1>1. Inv => TypeOK
  BY DEF Inv
<1>. QED  BY <1>1, AlwaysInv, PTL

\* An http process is blocked in a lock that it was forked with only if its agent has a
\* log_processor: the copy of a lock is held when a thread of the agent held it.
THEOREM OnlyTailsBlock ==
  Spec => [](\A a \in Agents : child[a] = "stuck" => a \in Tailing)
<1>1. Inv => \A a \in Agents : child[a] = "stuck" => a \in Tailing
  BY DEF Inv, StuckTails
<1>. QED  BY <1>1, AlwaysInv, PTL

\* README, httpd_port: where no agent has a log_processor, what PortKeepsApart says of
\* agents whose http process got to the port is true of all of them.
THEOREM OneWithoutTails ==
  ASSUME Tailing = {}
  PROVE  Spec /\ PortKeepsApart => OnlyOneRuns
<1>1. Inv => \A a \in Agents : child[a] # "stuck"
  BY DEF Inv, StuckTails
<1>2. ASSUME NEW a \in Agents, NEW b \in Agents
      PROVE  /\ Spec
             /\ (main[a] = "run" /\ main[b] = "run" /\ "stuck" \notin {child[a], child[b]}
                   ~> main[a] # "run" \/ main[b] # "run")
             => (main[a] = "run" /\ main[b] = "run" ~> main[a] # "run" \/ main[b] # "run")
  <2>1. Inv => "stuck" \notin {child[a], child[b]}
    BY <1>1
  <2>. QED  BY <2>1, AlwaysInv, PTL
<1>. QED  BY <1>2 DEF PortKeepsApart, OnlyOneRuns
=============================================================================
