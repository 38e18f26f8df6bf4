----------------------------- MODULE Lifecycle -----------------------------
(***************************************************************************)
(* The processes of snmpy: each agent is a main process and the http       *)
(* process it forks (task_func and work_func of lib/snmpy/__init__.py,     *)
(* SnmpyAgent.__init__, start_httpd and start_snmpd of lib/snmpy/server.py,*)
(* Server of lib/snmpy/httpd.py, the main script snmpy).                   *)
(*                                                                         *)
(* The http port is what keeps agents apart: the http process of a second  *)
(* agent cannot bind it and ends, and its main process ends for want of    *)
(* children.  An agent is one run of the script: a restart is another one. *)
(***************************************************************************)

CONSTANTS Agents,    \* bound: the runs of snmpy
          Tailing    \* those with a log_processor and a log

ASSUME TailingAssumption == Tailing \subseteq Agents

VARIABLES
  main,      \* main[a]: where the main process is
  child,     \* child[a]: where its http process is
  termed,    \* termed[a]: a SIGTERM is on its way to the http process
  logging    \* logging[a]: the tail thread holds the lock of the log handler

vars == <<main, child, termed, logging>>

MainPlaces == {"off", "init", "setup", "run", "told", "leaving", "gone", "killed"}
ChildPlaces == {"none", "forked", "stuck", "tied", "listening", "dead"}

\* The type invariant: the http process and its signals come after the fork.
TypeOK == /\ main \in [Agents -> MainPlaces]
          /\ child \in [Agents -> ChildPlaces]
          /\ termed \in [Agents -> BOOLEAN]
          /\ logging \in [Agents -> BOOLEAN]
          /\ \A a \in Agents : main[a] \in {"off", "init"} => child[a] = "none"
          /\ \A a \in Agents : termed[a] => main[a] \in {"leaving", "gone", "killed"}

Init == /\ main = [a \in Agents |-> "off"]
        /\ child = [a \in Agents |-> "none"]
        /\ termed = [a \in Agents |-> FALSE]
        /\ logging = [a \in Agents |-> FALSE]

Goto(a, place) == main' = [main EXCEPT ![a] = place]
ChildGoto(a, place) == child' = [child EXCEPT ![a] = place]

Ended == {"off", "gone", "killed"}
Alive(a) == child[a] \notin {"none", "dead"}

-----------------------------------------------------------------------------
(* The main process.                                                        *)

\* Nothing looks for another agent before the plugins are made.
Start(a) == /\ main[a] = "off"
            /\ Goto(a, "init")
            /\ UNCHANGED <<child, termed, logging>>

\* The tail thread, which the plugin's constructor started, writes to the log.
LogBegin(a) == /\ a \in Tailing /\ main[a] \notin Ended /\ ~logging[a]
               /\ logging' = [logging EXCEPT ![a] = TRUE]
               /\ UNCHANGED <<main, child, termed>>

LogEnd(a) == /\ main[a] \notin Ended /\ logging[a]
             /\ logging' = [logging EXCEPT ![a] = FALSE]
             /\ UNCHANGED <<main, child, termed>>

\* start_httpd.  The child has a copy of the locks and none of the threads: a
\* lock that another thread holds is never released in it.
Fork(a) == /\ main[a] = "init"
           /\ Goto(a, "setup")
           /\ ChildGoto(a, IF logging[a] THEN "stuck" ELSE "forked")
           /\ UNCHANGED <<termed, logging>>

\* start_agent has registered the plugins; the signal handlers are in place.
EnterLoop(a) == /\ main[a] = "setup"
                /\ Goto(a, "run")
                /\ UNCHANGED <<child, termed, logging>>

\* The interpreter's exit: multiprocessing terminates its daemonic children.
Leave(a) == /\ Goto(a, "leaving")
            /\ termed' = [termed EXCEPT ![a] = Alive(a)]
            /\ UNCHANGED <<child, logging>>

\* start_agent raises.
SetupFails(a) == main[a] = "setup" /\ Leave(a)

\* end_agent.
Stop(a) == /\ main[a] = "run"
           /\ Goto(a, "told")
           /\ UNCHANGED <<child, termed, logging>>

\* Mutant: the loop does not look at the children.
LeaveLoopWhenTold(a) == main[a] = "told" /\ Leave(a)

\* The loop's condition: not self.done and multiprocessing.active_children().
LeaveLoop(a) == /\ main[a] = "told" \/ (main[a] = "run" /\ child[a] = "dead")
                /\ Leave(a)

\* They are joined, and the process ends.
Finish(a) == /\ main[a] = "leaving" /\ ~Alive(a)
             /\ Goto(a, "gone")
             /\ logging' = [logging EXCEPT ![a] = FALSE]
             /\ UNCHANGED <<child, termed>>

\* Mutant: nobody is told of the parent's death.
KilledAlone(a) ==
  /\ main[a] \notin Ended
  /\ Goto(a, "killed")
  /\ logging' = [logging EXCEPT ![a] = FALSE]
  /\ UNCHANGED <<child, termed>>

\* log_fatal of any thread (os._exit), a SIGTERM before the handlers are in
\* place, a SIGKILL.  The kernel signals the http process that asked for it.
Killed(a) ==
  /\ main[a] \notin Ended
  /\ Goto(a, "killed")
  /\ termed' = [termed EXCEPT ![a] = @ \/ child[a] \in {"tied", "listening"}]
  /\ logging' = [logging EXCEPT ![a] = FALSE]
  /\ UNCHANGED child

MainStep(a) == Fork(a) \/ EnterLoop(a) \/ LeaveLoop(a) \/ Finish(a)

-----------------------------------------------------------------------------
(* The http process.                                                        *)

\* work_func: a line of log, then prctl(PR_SET_PDEATHSIG, SIGTERM).
Tie(a) == /\ child[a] = "forked"
          /\ ChildGoto(a, "tied")
          /\ UNCHANGED <<main, termed, logging>>

\* httpd.Server binds the port; that it is in use is an exception, and fatal.
Bind(a) == /\ child[a] = "tied"
           /\ ChildGoto(a, IF \E b \in Agents : child[b] = "listening" THEN "dead"
                                                                     ELSE "listening")
           /\ UNCHANGED <<main, termed, logging>>

\* Mutant: the http process has the handler end_agent, which is not run while it
\* waits for a lock.
TerminateAwake(a) == /\ termed[a] /\ Alive(a) /\ child[a] # "stuck"
                     /\ ChildGoto(a, "dead")
                     /\ UNCHANGED <<main, termed, logging>>

\* It was forked before start_snmpd set the handlers: SIGTERM has its default
\* action, stuck or not.
Terminate(a) == /\ termed[a] /\ Alive(a)
                /\ ChildGoto(a, "dead")
                /\ UNCHANGED <<main, termed, logging>>

\* A SIGINT, an error, a kill.
HttpdExit(a) == /\ child[a] = "listening"
                /\ ChildGoto(a, "dead")
                /\ UNCHANGED <<main, termed, logging>>

ChildStep(a) == Tie(a) \/ Bind(a) \/ Terminate(a)

-----------------------------------------------------------------------------
Next == \E a \in Agents :
          \/ Start(a) \/ MainStep(a) \/ SetupFails(a) \/ Stop(a) \/ Killed(a)
          \/ LogBegin(a) \/ LogEnd(a)
          \/ ChildStep(a) \/ HttpdExit(a)

Spec == Init /\ [][Next]_vars

\* Processes that can go on do.  Nobody has to start, stop or kill one.
FairSpec == Spec /\ \A a \in Agents : WF_vars(MainStep(a)) /\ WF_vars(ChildStep(a))

-----------------------------------------------------------------------------
(* Properties.                                                              *)

\* Two agents whose http processes got to the port do not go on running side by
\* side, whatever was killed and whatever http process was left behind.
PortKeepsApart ==
  \A a, b \in Agents : a # b =>
    (main[a] = "run" /\ main[b] = "run" /\ "stuck" \notin {child[a], child[b]}
       ~> main[a] # "run" \/ main[b] # "run")

\* README, httpd_port: "used to make sure only one SNMPy process is running on a
\* system".  The same of any two agents.
OnlyOneRuns ==
  \A a, b \in Agents : a # b =>
    (main[a] = "run" /\ main[b] = "run" ~> main[a] # "run" \/ main[b] # "run")

\* An agent that is told to end, has lost its http process or could not start does
\* end, unless it is killed, and leaves no http process behind: the join at its exit
\* does not wait for ever, wherever the http process is, one that is blocked for
\* good in a lock that it was forked with included.
Ends ==
  \A a \in Agents :
    main[a] \in {"told", "leaving"} \/ (main[a] = "run" /\ child[a] = "dead")
      ~> main[a] = "killed" \/ (main[a] = "gone" /\ ~Alive(a))

\* An http process that got as far as its prctl does not survive its main
\* process, however that ends.
TiedEnds ==
  \A a \in Agents :
    [](child[a] \in {"tied", "listening"} /\ main[a] # "killed" /\ <>(main[a] = "killed")
         => <>(child[a] = "dead"))
=============================================================================
