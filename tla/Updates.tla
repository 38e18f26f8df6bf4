------------------------------ MODULE Updates ------------------------------
(***************************************************************************)
(* One plugin's update thread, start_fetch of lib/snmpy/server.py, over    *)
(* the wrapper that Meta of lib/snmpy/module/__init__.py puts around       *)
(* update().  The modules that extend this one are the bodies of update(): *)
(* they take the thread from "update" to "return" or to "raise".           *)
(*                                                                         *)
(* Here a commit is one step, and the dump that comes before it is left    *)
(* out: SnmpyAgent has the steps of the one and Retention those of the     *)
(* other.                                                                  *)
(***************************************************************************)
EXTENDS Integers, Sequences, SequencesExt

VARIABLES
  kind,     \* the module of the plugin
  stage,    \* where its thread is
  rows,     \* TableModule.rows
  served    \* the rows of the table that is served

frameVars == <<kind, stage, rows, served>>

TableKinds == {"process_info", "filesystem_space", "raid_info", "disk_utilization",
               "regex_table"}
Stages == {"wait", "update", "open", "loop", "return", "raise"}

FrameInit == /\ stage = "wait"
             /\ rows = <<>> /\ served = <<>>

\* Mutant: the rows of the last update are not cleared.
KeepRows == UNCHANGED rows

\* TableModule.clear.
Clear == rows' = <<>>

\* A period is over: the wrapper clears and calls update.
Begin == /\ stage = "wait"
         /\ stage' = "update"
         /\ Clear
         /\ UNCHANGED <<kind, served>>

\* Mutant: what an update has left is committed although it raised.
CommitAnyway == served' = rows

\* The exception is logged.  The rows stay as they are until the next update.
SkipCommit == UNCHANGED served

Raise == /\ stage = "raise"
         /\ stage' = "wait"
         /\ SkipCommit
         /\ UNCHANGED <<kind, rows>>

\* commit_data of a table.
Commit == /\ stage = "return" /\ kind \in TableKinds
          /\ stage' = "wait"
          /\ served' = rows
          /\ UNCHANGED <<kind, rows>>

FrameStep == Begin \/ Raise \/ Commit

\* What a body of update() does to the frame.
GoOn(to) == stage' = to /\ UNCHANGED <<kind, served>>
Add(row) == rows' = Append(rows, row)
=============================================================================
