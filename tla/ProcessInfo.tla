---------------------------- MODULE ProcessInfo ----------------------------
(***************************************************************************)
(* lib/snmpy/module/process_info.py: the directory of processes is listed, *)
(* then each is looked at, while processes come and go.                    *)
(***************************************************************************)
EXTENDS Updates

CONSTANTS Pids,
          Unreadable   \* those the agent may not look into

ASSUME PidAssumption == Unreadable \subseteq Pids

VARIABLES
  live,       \* the processes there are
  todo,       \* those listed that the loop has not come to
  lasting     \* history, those that were listed and have not ended since

processVars == <<live, todo, lasting>>

ProcessTypeOK == /\ live \subseteq Pids
                 /\ todo \subseteq Pids
                 /\ lasting \subseteq live
                 /\ kind = "process_info" =>
                      Range(rows) \cup Range(served) \subseteq Pids \ Unreadable

ProcessInit == live = Pids /\ todo = {} /\ lasting = {}

\* External.  A process identifier may be used again.
Spawn(p) == /\ p \notin live
            /\ live' = live \cup {p}
            /\ UNCHANGED <<frameVars, todo, lasting>>

Exit(p) == /\ p \in live
           /\ live' = live \ {p} /\ lasting' = lasting \ {p}
           /\ UNCHANGED <<frameVars, todo>>

\* os.listdir.
List == /\ stage = "update"
        /\ todo' = live /\ lasting' = live
        /\ GoOn("loop")
        /\ UNCHANGED <<rows, live>>

\* process_data and the columns made of it: what a process that is gone, or one
\* that may not be looked into, raises.  A limit that is no number counts as such.
Readable(p) == p \in live \ Unreadable

\* Mutant: the handler is around the loop, so one process that is gone ends it.
GatherOrStop ==
  /\ stage = "loop"
  /\ \E p \in todo :
       IF Readable(p)
       THEN Add(p) /\ todo' = todo \ {p}
       ELSE UNCHANGED rows /\ todo' = {}
  /\ UNCHANGED <<kind, stage, served, live, lasting>>

\* A process that raises is logged and left out.  It may go between two of the files
\* that are read: nothing is appended before the last.  Entries come in any order.
Gather ==
  /\ stage = "loop"
  /\ \E p \in todo :
       /\ IF Readable(p) THEN Add(p) ELSE UNCHANGED rows
       /\ todo' = todo \ {p}
  /\ UNCHANGED <<kind, stage, served, live, lasting>>

GatherDone == /\ stage = "loop" /\ todo = {}
              /\ lasting' = {}
              /\ GoOn("return")
              /\ UNCHANGED <<rows, live, todo>>

ProcessNext == \/ \E p \in Pids : Spawn(p) \/ Exit(p)
               \/ List \/ Gather \/ GatherDone

-----------------------------------------------------------------------------
\* Whatever comes and goes during an update, every process that is there from its
\* listing to the end of the loop, and may be looked into, is in the new table,
\* and no process is there twice.
ProcessesComplete ==
  kind = "process_info" /\ stage = "loop" /\ todo = {} =>
    lasting \ Unreadable \subseteq Range(rows) /\ IsInjective(rows)
=============================================================================
