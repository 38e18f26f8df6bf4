----------------------------- MODULE ItemValues -----------------------------
(***************************************************************************)
(* The items of an exec_value: lib/snmpy/module/exec_value.py, parse_value *)
(* of lib/snmpy/parser.py, commit_data of lib/snmpy/server.py for items,   *)
(* and set_value of lib/snmpy/agentx.py.  A manager reads items at any     *)
(* time: this commit is not under the lock.                                *)
(*                                                                         *)
(* What the command prints are numbers that only grow.                     *)
(***************************************************************************)
EXTENDS Updates, AsnTypes

CONSTANTS NumItems,
          Wide,        \* the items that are a Counter64, the others an Integer32
          MaxNumber    \* bound

ASSUME ItemAssumption == /\ NumItems \in Nat \ {0}
                         /\ Wide \subseteq 1..NumItems
                         /\ MaxNumber \in Nat

Items == 1..NumItems
None == -1   \* an item that has no value yet

VARIABLES
  held,     \* held[i]: ModuleItem.value
  wire,     \* wire[i]: the C data that is served
  pos,      \* the item that the loop of update or of commit_data is at
  midway,   \* set_value has stored the high half of a Counter64, and not the low
  floor     \* floor[i]: history, the last value of i that was stored whole

itemVars == <<held, wire, pos, midway, floor>>

ItemTypeOK == /\ held \in [Items -> 0..MaxNumber \cup {None}]
              /\ \A i \in Items : IF i \in Wide
                   THEN wire[i] \in [high : Nat, low : 0..(Half - 1)]
                   ELSE wire[i] \in -(Half \div 2)..(Half \div 2 - 1)
              /\ pos \in 1..NumItems + 1
              /\ midway \in BOOLEAN
              /\ floor \in [Items -> 0..MaxNumber]
              /\ \A i \in Items : held[i] # None => floor[i] <= held[i]

ItemInit == /\ held = [i \in Items |-> None]
            /\ wire = [i \in Items |-> IF i \in Wide THEN Split(0) ELSE Signed(0)]
            /\ pos = 1 /\ midway = FALSE
            /\ floor = [i \in Items |-> 0]

-----------------------------------------------------------------------------
\* communicate() returns the text.
RunCommand == /\ stage = "update"
              /\ pos' = 1
              /\ GoOn("loop")
              /\ UNCHANGED <<rows, held, wire, midway, floor>>

\* The pattern of the item finds a number; it finds none, and the item keeps its value;
\* or what it finds is no number, and update() ends here: the items before have
\* their new values, those after it the ones of an earlier text.
ParseItem ==
  /\ stage = "loop" /\ pos <= NumItems
  /\ \/ /\ \E n \in 0..MaxNumber : held[pos] <= n /\ held' = [held EXCEPT ![pos] = n]
        /\ pos' = pos + 1
        /\ UNCHANGED stage
     \/ /\ pos' = pos + 1
        /\ UNCHANGED <<held, stage>>
     \/ /\ stage' = "raise"
        /\ UNCHANGED <<held, pos>>
  /\ UNCHANGED <<kind, rows, served, wire, midway, floor>>

ParseDone == /\ stage = "loop" /\ pos > NumItems
             /\ pos' = 1
             /\ GoOn("return")
             /\ UNCHANGED <<rows, held, wire, midway, floor>>

-----------------------------------------------------------------------------
AtItem == kind = "exec_value" /\ stage = "return" /\ pos <= NumItems
Stored == /\ floor' = [floor EXCEPT ![pos] = held[pos]]
          /\ pos' = pos + 1

SkipItem == /\ AtItem /\ held[pos] = None
            /\ pos' = pos + 1
            /\ UNCHANGED <<frameVars, held, wire, midway, floor>>

SetInteger == /\ AtItem /\ held[pos] # None /\ pos \notin Wide
              /\ wire' = [wire EXCEPT ![pos] = Signed(held[pos])]
              /\ Stored
              /\ UNCHANGED <<frameVars, held, midway>>

\* Mutants: the halves are stored in the other order.
SetLowFirst == /\ AtItem /\ held[pos] # None /\ pos \in Wide /\ ~midway
               /\ wire' = [wire EXCEPT ![pos].low = Split(held[pos]).low]
               /\ midway' = TRUE
               /\ UNCHANGED <<frameVars, held, pos, floor>>

\* self._data.high, self._data.low = ...: two attributes are set, one after the
\* other.
SetHigh == /\ AtItem /\ held[pos] # None /\ pos \in Wide /\ ~midway
           /\ wire' = [wire EXCEPT ![pos].high = Split(held[pos]).high]
           /\ midway' = TRUE
           /\ UNCHANGED <<frameVars, held, pos, floor>>

\* Mutant: the mask is a bit short.
SetLowMasked == /\ AtItem /\ midway
                /\ wire' = [wire EXCEPT ![pos].low = Split(held[pos]).low % (Half \div 2)]
                /\ midway' = FALSE
                /\ Stored
                /\ UNCHANGED <<frameVars, held>>

SetLow == /\ AtItem /\ midway
          /\ wire' = [wire EXCEPT ![pos].low = Split(held[pos]).low]
          /\ midway' = FALSE
          /\ Stored
          /\ UNCHANGED <<frameVars, held>>

CommitDone == /\ kind = "exec_value" /\ stage = "return" /\ pos > NumItems
              /\ GoOn("wait")
              /\ UNCHANGED <<rows, itemVars>>

ItemNext == \/ RunCommand \/ ParseItem \/ ParseDone
            \/ SkipItem \/ SetInteger \/ SetHigh \/ SetLow \/ CommitDone

ItemSpec == /\ kind = "exec_value" /\ FrameInit /\ ItemInit
            /\ [][ItemNext \/ (FrameStep /\ UNCHANGED itemVars)]_<<frameVars, itemVars>>

-----------------------------------------------------------------------------
\* A Counter64 that is read between the stores of its two halves has a value that
\* nobody has set, but never one below the last that was: a counter that only grows
\* is never seen to fall below it, which a manager would take for a wrap.
NeverBelow == \A i \in Wide : floor[i] <= Join(wire[i])

\* When nothing is being stored, a Counter64 has the value that was committed last,
\* and an Integer32 has it modulo 2^32, negative from 2^31.
ServedAsHeld ==
  \A i \in Items :
    IF i \notin Wide THEN wire[i] = Signed(floor[i])
    ELSE ~(midway /\ pos = i) => Join(wire[i]) = floor[i]
=============================================================================
