---------------------------- MODULE TableService ----------------------------
(***************************************************************************)
(* What snmpy promises the SNMP managers about its tables, and nothing of  *)
(* how.  A plugin collects a new list of rows when it likes; the collected *)
(* rows are published as a whole; and an answer about a table is the whole *)
(* of what is published of it.  SnmpyAgent implements this specification.  *)
(***************************************************************************)
EXTENDS Sequences

CONSTANTS Tables,    \* the plugins that serve a table
          RowSeqs,   \* the row lists a collection may end with
          Nobody     \* the "from" of the answer before the first one

VARIABLES latest,    \* latest[t]: the rows of t's last completed collection
          served,    \* served[t]: the rows of t that an answer is made of
          answer     \* the last answer: the table it is from and its rows

vars == <<latest, served, answer>>

\* The types of the three variables.
TypeOK == /\ latest \in [Tables -> RowSeqs]
          /\ served \in [Tables -> RowSeqs]
          /\ answer \in [from : Tables \cup {Nobody}, rows : RowSeqs]

\* Retained rows count as collected before anything is published.
Init == /\ latest \in [Tables -> RowSeqs]
        /\ served = [t \in Tables |-> <<>>]
        /\ answer = [from |-> Nobody, rows |-> <<>>]

Collect(t) == /\ \E new \in RowSeqs : latest' = [latest EXCEPT ![t] = new]
              /\ UNCHANGED <<served, answer>>

Publish(t) == /\ served' = [served EXCEPT ![t] = latest[t]]
              /\ UNCHANGED <<latest, answer>>

Answer(t) == /\ answer' = [from |-> t, rows |-> served[t]]
             /\ UNCHANGED <<latest, served>>

Next == \E t \in Tables : Collect(t) \/ Publish(t) \/ Answer(t)

Spec == Init /\ [][Next]_vars
=============================================================================
