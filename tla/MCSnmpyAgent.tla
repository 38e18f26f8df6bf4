---------------------------- MODULE MCSnmpyAgent ----------------------------
(* Values for the constants of SnmpyAgent that a configuration cannot write. *)
EXTENDS SnmpyAgent

CONSTANTS r1, r2   \* two different rows

\* No row, and two rows: a half replaced table is neither.
MCTwoRows == {<<>>, <<r1, r2>>}

\* Two items, and one for a log processor.
MCItems == [v \in ValueMods |-> IF v \in Tailed THEN 1 ELSE 2]
=============================================================================
