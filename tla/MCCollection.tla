---------------------------- MODULE MCCollection ----------------------------
(* Values for the constants of Collection that a configuration cannot write. *)
EXTENDS Collection

\* All of the file, its start, and a span, both within a block and beyond it.
MCSettings == {[beg |-> 0, count |-> MaxSize]}
              \cup [beg : {0, 1, 3}, count : {1, 3}]
=============================================================================
