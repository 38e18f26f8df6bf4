-------------------------- MODULE Collection_proofs --------------------------
(* Proofs about what the modules collect and serve: the values of an           *)
(* exec_value, for any number of items, any numbers and any width of a half.   *)
EXTENDS Collection, TLAPS, SequenceTheorems, WellFoundedInduction

(* Numbers and their halves.                                                   *)

\* A number is its two halves, put together.
LEMMA SplitJoin ==
  ASSUME NEW n \in Nat
  PROVE  /\ Split(n) \in [high : Nat, low : 0..(Half - 1)]
         /\ Join(Split(n)) = n
<1>1. Half \in Nat /\ Half > 0
  BY HalfAssumption
<1>2. n \div Half \in Nat /\ n % Half \in 0..(Half - 1)
  BY <1>1
<1>3. n = Half * (n \div Half) + (n % Half)
  BY <1>1
<1> QED BY <1>1, <1>2, <1>3 DEF Split, Join

\* The high half does not fall when the number grows.
LEMMA HighGrows ==
  ASSUME NEW m \in Nat, NEW n \in Nat, m <= n
  PROVE  Split(m).high <= Split(n).high
<1>1. Half \in Nat /\ Half > 0
  BY HalfAssumption
<1>2. m \div Half <= n \div Half
  BY <1>1
<1> QED BY <1>2 DEF Split

\* An Integer32 has a value of its type, whatever it is set to.
LEMMA SignedType ==
  ASSUME NEW n \in Nat
  PROVE  Signed(n) \in -(Half \div 2)..(Half \div 2 - 1)
<1>1. PICK h \in Nat : Half = 2 * h /\ h > 0
  BY HalfAssumption
<1>2. Half \div 2 = h
  BY <1>1
<1>3. (n + h) % Half \in 0..(2 * h - 1)
  BY <1>1
<1> QED BY <1>1, <1>2, <1>3 DEF Signed

-----------------------------------------------------------------------------
(* The values of an exec_value.                                                *)

Being(i) == midway /\ pos = i

\* But for the item whose halves are being stored, what is served is what was
\* stored last; of that one the high half is new, and the low half old.
ItemInv ==
  /\ ItemTypeOK
  /\ wire = [i \in Items |-> wire[i]]
  /\ \A i \in Items : held[i] = None => floor[i] = 0
  /\ \A i \in Items : IF i \notin Wide THEN wire[i] = Signed(floor[i])
                      ELSE ~Being(i) => wire[i] = Split(floor[i])
  /\ midway => /\ kind = "exec_value" /\ stage = "return"
               /\ pos \in Wide /\ held[pos] # None
               /\ wire[pos] = [high |-> Split(held[pos]).high, low |-> Split(floor[pos]).low]

\* What it says of the properties.
LEMMA ItemInvImplies == ItemInv => NeverBelow /\ ServedAsHeld
<1> SUFFICES ASSUME ItemInv PROVE NeverBelow /\ ServedAsHeld
  OBVIOUS
<1> USE ItemAssumption DEF Items, None
<1>1. ASSUME NEW i \in Wide, ~Being(i)
      PROVE  Join(wire[i]) = floor[i]
  <2>1. floor[i] \in Nat /\ wire[i] = Split(floor[i])
    BY <1>1 DEF ItemInv, ItemTypeOK
  <2> QED BY <2>1, SplitJoin
<1>2. ASSUME NEW i \in Wide, Being(i)
      PROVE  floor[i] <= Join(wire[i])
  <2>1. /\ floor[i] \in Nat /\ held[i] \in Nat /\ floor[i] <= held[i]
        /\ wire[i] = [high |-> Split(held[i]).high, low |-> Split(floor[i]).low]
    BY <1>2 DEF ItemInv, ItemTypeOK, Being
  <2>2. Split(floor[i]).high <= Split(held[i]).high
    BY <2>1, HighGrows
  <2>3. /\ Split(floor[i]) \in [high : Nat, low : 0..(Half - 1)]
        /\ Split(held[i]) \in [high : Nat, low : 0..(Half - 1)]
        /\ Join(Split(floor[i])) = floor[i]
    BY <2>1, SplitJoin
  <2> DEFINE a == Split(floor[i]).high
             b == Split(held[i]).high
  <2>4. a \in Nat /\ b \in Nat /\ a <= b /\ Half \in Nat
    BY <2>2, <2>3, HalfAssumption
  <2>5. a * Half <= b * Half
    <3> HIDE DEF a, b
    <3> QED BY <2>4
  <2>6. Join(wire[i]) = b * Half + Split(floor[i]).low
    BY <2>1 DEF Join
  <2>7. floor[i] = a * Half + Split(floor[i]).low
    BY <2>3 DEF Join
  <2>8. a * Half \in Int /\ b * Half \in Int
    <3> HIDE DEF a, b
    <3> QED BY <2>4
  <2>9. Split(floor[i]).low \in Int
    BY <2>3, HalfAssumption
  <2> HIDE DEF a, b
  <2> QED BY <2>5, <2>6, <2>7, <2>8, <2>9
<1>3. NeverBelow
  <2>1. \A i \in Wide : floor[i] \in Nat
    BY DEF ItemInv, ItemTypeOK
  <2> QED BY <1>1, <1>2, <2>1 DEF NeverBelow
<1>4. ServedAsHeld
  BY <1>1 DEF ServedAsHeld, ItemInv, Being
<1> QED BY <1>3, <1>4

\* Nothing is held or stored yet.
LEMMA ItemInitInv == ItemInit => ItemInv
<1> SUFFICES ASSUME ItemInit PROVE ItemInv
  OBVIOUS
<1> USE ItemAssumption DEF ItemInit, Items, None
<1>1. Split(0) \in [high : Nat, low : 0..(Half - 1)] /\ Signed(0) \in -(Half \div 2)..(Half \div 2 - 1)
  BY SplitJoin, SignedType
<1>2. \A i \in Items : wire[i] = IF i \in Wide THEN Split(0) ELSE Signed(0)
  OBVIOUS
<1>3. \A i \in Items : IF i \in Wide THEN wire[i] \in [high : Nat, low : 0..(Half - 1)]
                       ELSE wire[i] \in -(Half \div 2)..(Half \div 2 - 1)
  BY <1>1, <1>2
<1>4. \A i \in Items : held[i] = None /\ floor[i] = 0
  OBVIOUS
<1>5. held \in [Items -> 0..MaxNumber \cup {None}] /\ floor \in [Items -> 0..MaxNumber]
  OBVIOUS
<1>6. pos \in 1..NumItems + 1 /\ ~midway
  OBVIOUS
<1>7. ItemTypeOK
  BY <1>3, <1>4, <1>5, <1>6 DEF ItemTypeOK
<1>8. wire = [i \in Items |-> wire[i]]
  OBVIOUS
<1> QED BY <1>2, <1>4, <1>6, <1>7, <1>8 DEF ItemInv, Being

\* The loop of update() leaves what is served alone.
LEMMA ParseInv ==
  ASSUME ItemInv, kind = "exec_value", RunCommand \/ ParseItem \/ ParseDone
  PROVE  ItemInv'
<1> USE ItemAssumption DEF ItemInv, Items, None, Being
<1>1. ~midway /\ UNCHANGED <<wire, midway, floor>>
  BY DEF RunCommand, ParseItem, ParseDone
<1>2. held' \in [Items -> 0..MaxNumber \cup {None}] /\ \A i \in Items : held'[i] # None => floor[i] <= held'[i]
  <2>1. CASE UNCHANGED held
    BY <2>1 DEF ItemTypeOK
  <2>2. CASE pos <= NumItems /\ \E n \in 0..MaxNumber : held[pos] <= n /\ held' = [held EXCEPT ![pos] = n]
    <3>1. PICK n \in 0..MaxNumber : held[pos] <= n /\ held' = [held EXCEPT ![pos] = n]
      BY <2>2
    <3>2. pos \in Items
      BY <2>2 DEF ItemTypeOK
    <3>3. \A i \in Items : held'[i] = IF i = pos THEN n ELSE held[i]
      BY <3>1, <3>2 DEF ItemTypeOK
    <3>4. floor[pos] <= n
      BY <3>1, <3>2 DEF ItemTypeOK
    <3> QED BY <3>1, <3>3, <3>4 DEF ItemTypeOK
  <2> QED BY <2>1, <2>2 DEF RunCommand, ParseItem, ParseDone
<1>3. pos' \in 1..NumItems + 1
  BY DEF ItemTypeOK, RunCommand, ParseItem, ParseDone
<1>4. ItemTypeOK'
  BY <1>1, <1>2, <1>3 DEF ItemTypeOK
<1>5. \A i \in Items : held'[i] = None => held[i] = None
  BY DEF ItemTypeOK, RunCommand, ParseItem, ParseDone
<1> QED BY <1>1, <1>4, <1>5

\* The commit stores the items one by one.
LEMMA CommitInv ==
  ASSUME ItemInv, kind = "exec_value", SkipItem \/ SetInteger \/ SetHigh \/ SetLow \/ CommitDone
  PROVE  ItemInv'
<1> USE ItemAssumption DEF ItemInv, Items, None, Being, AtItem
<1>0. pos \in Nat /\ \A i \in Items : held[i] # None => held[i] \in Nat
  BY DEF ItemTypeOK
<1>1. CASE SkipItem
  <2>1. ~midway
    BY <1>1 DEF SkipItem
  <2> QED BY <1>1, <2>1 DEF SkipItem, ItemTypeOK, frameVars
<1>2. CASE SetInteger
  <2>1. ~midway /\ pos \in Items
    BY <1>0, <1>2 DEF SetInteger, ItemTypeOK
  <2>2. Signed(held[pos]) \in -(Half \div 2)..(Half \div 2 - 1)
    BY <1>0, <1>2, <2>1, SignedType DEF SetInteger
  <2>3. /\ \A i \in Items : wire'[i] = IF i = pos THEN Signed(held[pos]) ELSE wire[i]
        /\ \A i \in Items : floor'[i] = IF i = pos THEN held[pos] ELSE floor[i]
        /\ wire' = [i \in Items |-> wire'[i]]
    BY <1>2, <2>1 DEF SetInteger, Stored, ItemTypeOK
  <2>4. ItemTypeOK'
    BY <1>0, <1>2, <2>1, <2>2, <2>3 DEF SetInteger, Stored, ItemTypeOK, frameVars
  <2> QED BY <1>2, <2>1, <2>3, <2>4 DEF SetInteger
<1>3. CASE SetHigh
  <2>1. pos \in Items /\ wire[pos] = Split(floor[pos]) /\ floor[pos] \in Nat
    BY <1>3 DEF SetHigh, ItemTypeOK
  <2>2. /\ Split(floor[pos]) \in [high : Nat, low : 0..(Half - 1)]
        /\ Split(held[pos]) \in [high : Nat, low : 0..(Half - 1)]
    BY <1>0, <1>3, <2>1, SplitJoin DEF SetHigh
  <2>3. /\ \A i \in Items : i # pos => wire'[i] = wire[i]
        /\ wire'[pos] = [high |-> Split(held[pos]).high, low |-> Split(floor[pos]).low]
        /\ wire' = [i \in Items |-> wire'[i]]
    BY <1>3, <2>1, <2>2 DEF SetHigh
  <2>4. ItemTypeOK'
    BY <1>3, <2>2, <2>3 DEF SetHigh, ItemTypeOK, frameVars
  <2> QED BY <1>3, <2>3, <2>4 DEF SetHigh, frameVars
<1>4. CASE SetLow
  <2>1. /\ pos \in Wide /\ floor[pos] \in Nat /\ held[pos] \in Nat
        /\ wire[pos] = [high |-> Split(held[pos]).high, low |-> Split(floor[pos]).low]
    BY <1>0, <1>4 DEF SetLow, ItemTypeOK
  <2>2. Split(held[pos]) \in [high : Nat, low : 0..(Half - 1)]
    BY <2>1, SplitJoin
  <2>3. /\ \A i \in Items : i # pos => wire'[i] = wire[i]
        /\ wire'[pos] = [high |-> Split(held[pos]).high, low |-> Split(held[pos]).low]
        /\ wire' = [i \in Items |-> wire'[i]]
    <3> DEFINE low == Split(held[pos]).low
    <3>1. pos \in Items /\ wire' = [wire EXCEPT ![pos].low = low]
      BY <1>4, <2>1 DEF SetLow
    <3> HIDE DEF low
    <3>2. wire'[pos] = [wire[pos] EXCEPT !.low = low]
      BY <3>1
    <3>3. wire'[pos] = [high |-> Split(held[pos]).high, low |-> low]
      BY <2>1, <3>2
    <3> QED BY <3>1, <3>3 DEF low
  <2>4. wire'[pos] = Split(held[pos])
    BY <2>2, <2>3
  <2>5. \A i \in Items : floor'[i] = IF i = pos THEN held[pos] ELSE floor[i]
    BY <1>4 DEF SetLow, Stored, ItemTypeOK
  <2>6. ItemTypeOK'
    <3>0. wire'[pos] \in [high : Nat, low : 0..(Half - 1)]
      BY <2>2, <2>4
    <3>1. /\ wire'[pos] \in [high : Nat, low : 0..(Half - 1)]
          /\ pos' \in 1..NumItems + 1 /\ midway' = FALSE /\ held' = held
          /\ held[pos] \in 0..MaxNumber
      <4>1. held' = held /\ pos' = pos + 1 /\ midway' = FALSE
        BY <1>4 DEF SetLow, Stored, frameVars
      <4>2. pos \in 1..NumItems
        BY <2>1
      <4>3. held[pos] \in 0..MaxNumber
        BY <2>1, <4>2 DEF ItemTypeOK
      <4> QED BY <3>0, <4>1, <4>2, <4>3
    <3>2. floor' \in [Items -> 0..MaxNumber]
      BY <1>4, <3>1 DEF SetLow, Stored, ItemTypeOK
    <3>3. \A i \in Items : held'[i] # None => floor'[i] <= held'[i]
      <4> TAKE i \in Items
      <4>1. CASE i = pos
        BY <2>1, <2>5, <3>1, <4>1
      <4>2. CASE i # pos
        BY <2>5, <3>1, <4>2 DEF ItemTypeOK
      <4> QED BY <4>1, <4>2
    <3>4. \A i \in Items : IF i \in Wide THEN wire'[i] \in [high : Nat, low : 0..(Half - 1)]
                           ELSE wire'[i] \in -(Half \div 2)..(Half \div 2 - 1)
      BY <2>1, <2>3, <3>1 DEF ItemTypeOK
    <3> QED BY <3>1, <3>2, <3>3, <3>4 DEF ItemTypeOK
  <2> QED BY <1>4, <2>3, <2>4, <2>5, <2>6 DEF SetLow
<1>5. CASE CommitDone
  <2>1. ~midway
    BY <1>0, <1>5 DEF CommitDone
  <2> QED BY <1>5, <2>1 DEF CommitDone, GoOn, itemVars, ItemTypeOK
<1> QED BY <1>1, <1>2, <1>3, <1>4, <1>5

\* Every step.  The other modules of a plugin have no items, and no step of the
\* frame comes between two halves.
LEMMA ItemStepInv == ItemInv /\ [Next]_vars => ItemInv'
<1> SUFFICES ASSUME ItemInv, [Next]_vars PROVE ItemInv'
  OBVIOUS
<1>1. CASE kind = "exec_value" /\ ItemNext
  BY <1>1, ParseInv, CommitInv DEF ItemNext
<1>2. CASE FrameStep /\ UNCHANGED itemVars
  <2>1. ~midway
    BY <1>2 DEF FrameStep, Begin, Raise, Commit, ItemInv, TableKinds
  <2> QED BY <1>2, <2>1 DEF ItemInv, ItemTypeOK, itemVars, Being
<1>3. CASE kind # "exec_value" /\ UNCHANGED itemVars
  BY <1>3 DEF ItemInv, ItemTypeOK, itemVars, Being
<1>4. CASE UNCHANGED <<frameVars, itemVars>>
  BY <1>4 DEF ItemInv, ItemTypeOK, itemVars, frameVars, Being
<1> QED BY <1>1, <1>2, <1>3, <1>4 DEF Next, Body, Frame, vars, TextKinds

\* The inductive invariant of the values.
LEMMA ItemsInvariant == Spec => []ItemInv
<1>1. Init => ItemInv
  BY ItemInitInv DEF Init
<1> QED BY <1>1, ItemStepInv, PTL DEF Spec

\* A Counter64 that only grows is never seen to fall, although its halves are stored
\* one after the other and a manager may read it between them: the high one comes
\* first.
THEOREM CountersNeverFall == Spec => []NeverBelow
BY ItemsInvariant, ItemInvImplies, PTL

\* Between commits each value is served as it was set: whole if it is a Counter64,
\* modulo 2^32 if it is an Integer32.
THEOREM ValuesAreServed == Spec => []ServedAsHeld
BY ItemsInvariant, ItemInvImplies, PTL

-----------------------------------------------------------------------------
\* A plugin has the module it was configured with.
LEMMA KindFixed == [Next]_vars => kind' = kind
<1> USE DEF GoOn, frameVars
<1>1. ProcessNext => kind' = kind
  BY DEF ProcessNext, Spawn, Exit, List, Gather, GatherDone
<1>2. MountNext => kind' = kind
  BY DEF MountNext, Mount, Unmount, ReadMounts, NextLine, LinesDone
<1>3. TextNext => kind' = kind
  BY DEF TextNext, ReadText, ReadFails, BadParser, TakePart, Misfit, PartsDone
<1>4. ItemNext => kind' = kind
  BY DEF ItemNext, RunCommand, ParseItem, ParseDone, SkipItem, SetInteger, SetHigh, SetLow,
         CommitDone
<1>5. FileNext => kind' = kind
  BY DEF FileNext, AppendUnit, Truncate, Rename, Stat, OpenFile, ReadBlock, SetItems
<1>6. FrameStep => kind' = kind
  BY DEF FrameStep, Begin, Raise, Commit
<1> QED BY <1>1, <1>2, <1>3, <1>4, <1>5, <1>6 DEF Next, Body, Frame, vars

-----------------------------------------------------------------------------
(* The table of processes, for any number of them.                             *)

\* A process that lasts is still to come, may not be looked into, or has its row.
ProcessInv ==
  /\ lasting \subseteq live /\ live \subseteq Pids
  /\ kind = "process_info" /\ stage = "update" => rows = <<>>
  /\ kind = "process_info" /\ stage = "loop" =>
       /\ rows \in Seq(Pids) /\ todo \subseteq Pids
       /\ IsInjective(rows)
       /\ Range(rows) \cap todo = {}
       /\ lasting \subseteq todo \cup Unreadable \cup Range(rows)

\* A row more at the end of a table.
LEMMA AddOne ==
  ASSUME NEW S, NEW s \in Seq(S), NEW x \in S
  PROVE  /\ Append(s, x) \in Seq(S)
         /\ Range(Append(s, x)) = Range(s) \cup {x}
         /\ IsInjective(s) /\ x \notin Range(s) => IsInjective(Append(s, x))
<1>1. /\ Len(s) \in Nat /\ DOMAIN s = 1..Len(s)
      /\ Append(s, x) \in Seq(S) /\ DOMAIN Append(s, x) = 1..(Len(s) + 1)
      /\ Append(s, x)[Len(s) + 1] = x
      /\ \A i \in 1..Len(s) : Append(s, x)[i] = s[i]
  OBVIOUS
<1>2. Range(Append(s, x)) = Range(s) \cup {x}
  BY <1>1 DEF Range
<1>3. ASSUME IsInjective(s), x \notin Range(s) PROVE IsInjective(Append(s, x))
  BY <1>1, <1>3 DEF IsInjective, Range
<1> QED BY <1>1, <1>2, <1>3

LEMMA ProcessStepInv == ProcessInv /\ [Next]_vars => ProcessInv'
<1> SUFFICES ASSUME ProcessInv, [Next]_vars PROVE ProcessInv'
  OBVIOUS
<1> USE PidAssumption DEF ProcessInv
<1>0. kind' = kind
  BY KindFixed
<1>1. CASE kind = "process_info" /\ ProcessNext
  <2>1. CASE \E p \in Pids : Spawn(p) \/ Exit(p)
    BY <2>1 DEF Spawn, Exit, frameVars
  <2>2. CASE List
    <3>1. kind = "process_info" /\ UNCHANGED rows /\ rows = <<>> /\ todo' = live /\ lasting' = live
      BY <1>1, <2>2 DEF List
    <3>2. rows' \in Seq(Pids) /\ Range(rows') = {} /\ IsInjective(rows')
      BY <3>1 DEF IsInjective, Range
    <3> QED BY <2>2, <3>1, <3>2 DEF List, GoOn
  <2>3. CASE Gather
    <3>1. PICK p \in todo : /\ p \in live \ Unreadable => rows' = Append(rows, p)
                            /\ p \notin live \ Unreadable => rows' = rows
                            /\ todo' = todo \ {p}
      BY <2>3 DEF Gather, Add, Readable
    <3>2. kind = "process_info" /\ stage = "loop" /\ stage' = stage /\ live' = live /\ lasting' = lasting
      BY <1>1, <2>3 DEF Gather
    <3>3. /\ rows \in Seq(Pids) /\ todo \subseteq Pids /\ IsInjective(rows)
          /\ Range(rows) \cap todo = {}
          /\ lasting \subseteq todo \cup Unreadable \cup Range(rows)
          /\ lasting \subseteq live /\ live \subseteq Pids
      BY <3>2
    <3>4. p \in Pids /\ p \in todo /\ p \notin Range(rows)
      BY <3>3
    <3>5. /\ rows' \in Seq(Pids) /\ IsInjective(rows') /\ Range(rows') \subseteq Range(rows) \cup {p}
          /\ Range(rows) \subseteq Range(rows')
          /\ p \in Range(rows') \/ p \notin live \/ p \in Unreadable
      <4>1. CASE rows' = Append(rows, p)
        BY <3>3, <3>4, <4>1, AddOne
      <4>2. CASE rows' = rows /\ p \notin live \ Unreadable
        BY <3>3, <4>2
      <4> QED BY <3>1, <4>1, <4>2
    <3>6. todo' = todo \ {p}
      BY <3>1
    <3>7. Range(rows') \cap todo' = {} /\ todo' \subseteq Pids
      BY <3>3, <3>5, <3>6
    <3>8. lasting \subseteq todo' \cup Unreadable \cup Range(rows')
      BY <3>3, <3>5, <3>6
    <3> QED BY <1>0, <3>2, <3>3, <3>5, <3>7, <3>8
  <2>4. CASE GatherDone
    BY <2>4 DEF GatherDone, GoOn
  <2> QED BY <1>1, <2>1, <2>2, <2>3, <2>4 DEF ProcessNext
<1>2. CASE FrameStep /\ UNCHANGED processVars
  BY <1>2 DEF FrameStep, Begin, Clear, Raise, Commit, processVars
<1>3. CASE kind # "process_info" /\ UNCHANGED processVars
  BY <1>0, <1>3 DEF processVars
<1>4. CASE UNCHANGED vars
  BY <1>4 DEF vars, frameVars, processVars
<1> QED BY <1>1, <1>2, <1>3, <1>4 DEF Next, Body, Frame, TextKinds

\* Whatever comes and goes meanwhile, a process that is there from the listing to
\* the end of an update, and may be looked into, has its row, and only one: an
\* error about one process does not end the loop.
THEOREM ProcessesListed == Spec => []ProcessesComplete
<1>1. Init => ProcessInv
  BY DEF Init, FrameInit, ProcessInit, ProcessInv
<1>2. ProcessInv => ProcessesComplete
  BY DEF ProcessInv, ProcessesComplete
<1> QED BY <1>1, <1>2, ProcessStepInv, PTL DEF Spec

-----------------------------------------------------------------------------
(* The tables made of texts, for any number of parts.                          *)

WholeRows == [part : Nat, member : Nat] \ {Partial}

\* Only an update that has raised leaves part of a row.
TextInv ==
  /\ text \in Seq(Parts) /\ at \in Nat \ {0}
  /\ kind \in TextKinds => /\ served \in Seq(WholeRows)
                           /\ stage \in {"update", "loop", "return"} => rows \in Seq(WholeRows)

LEMMA RowsOfWhole ==
  ASSUME text \in Seq(Parts), at \in 1..Len(text)
  PROVE  RowsOf(at) \in Seq(WholeRows)
<1>1. text[at] \in Parts /\ at \in Nat \ {0}
  OBVIOUS
<1>2. text[at].members \in Nat
  BY <1>1, TextAssumption DEF Parts
<1>3. \A m \in Nat : Row(at, m) \in WholeRows
  BY <1>1 DEF WholeRows, Row, Partial
<1>4. [m \in 1..text[at].members |-> Row(at, m)] \in Seq(WholeRows)
  BY <1>2, <1>3
<1>5. \A m \in Nat : <<Row(at, m)>> \in Seq(WholeRows)
  BY <1>3
<1> QED BY <1>4, <1>5 DEF RowsOf

LEMMA TextStepInv == TextInv /\ [Next]_vars => TextInv'
<1> SUFFICES ASSUME TextInv, [Next]_vars PROVE TextInv'
  OBVIOUS
<1> USE DEF TextInv
<1>0. kind' = kind
  BY KindFixed
<1>1. CASE kind \in TextKinds /\ TextNext
  <2>0. UNCHANGED served /\ served \in Seq(WholeRows)
    BY <1>1 DEF TextNext, ReadText, ReadFails, BadParser, TakePart, Misfit, PartsDone, GoOn
  <2>1. CASE ReadText
    <3>1. Texts \subseteq Seq(Parts)
      BY TextAssumption DEF Texts
    <3> QED BY <1>1, <2>0, <2>1, <3>1 DEF ReadText, GoOn, Said
  <2>2. CASE ReadFails
    BY <1>1, <2>0, <2>2 DEF ReadFails, GoOn
  <2>3. CASE BadParser
    <3>1. Default \in WholeRows
      BY DEF Default, Partial, Row, WholeRows
    <3>2. rows \in Seq(WholeRows) /\ UNCHANGED textVars /\ rows' = Append(rows, Default)
      BY <1>1, <2>3 DEF BadParser, Add
    <3>3. rows' \in Seq(WholeRows)
      BY <3>1, <3>2
    <3> QED BY <2>0, <3>2, <3>3 DEF textVars
  <2>4. CASE TakePart
    <3>1. rows \in Seq(WholeRows) /\ at \in 1..Len(text)
      BY <1>1, <2>4 DEF TakePart
    <3>2. rows \o RowsOf(at) \in Seq(WholeRows)
      BY <3>1, RowsOfWhole
    <3> QED BY <2>0, <2>4, <3>2 DEF TakePart
  <2>5. CASE Misfit
    BY <1>1, <2>0, <2>5 DEF Misfit, GoOn, textVars
  <2>6. CASE PartsDone
    BY <1>1, <2>0, <2>6 DEF PartsDone, GoOn, textVars
  <2> QED BY <1>1, <2>1, <2>2, <2>3, <2>4, <2>5, <2>6 DEF TextNext
<1>2. CASE FrameStep /\ UNCHANGED textVars
  <2>1. CASE Begin
    BY <1>0, <1>2, <2>1 DEF Begin, Clear, textVars
  <2>2. CASE Raise
    BY <1>0, <1>2, <2>2 DEF Raise, SkipCommit, textVars
  <2>3. CASE Commit
    BY <1>0, <1>2, <2>3 DEF Commit, textVars
  <2> QED BY <1>2, <2>1, <2>2, <2>3 DEF FrameStep
<1>3. CASE kind \notin TextKinds /\ UNCHANGED textVars
  BY <1>0, <1>3 DEF textVars
<1>4. CASE UNCHANGED vars
  BY <1>4 DEF vars, frameVars, textVars
<1> QED BY <1>1, <1>2, <1>3, <1>4 DEF Next, Body, Frame, TextKinds

\* A row whose conversion failed is not served: only what an update that returned
\* has made is committed, and the next one starts from no rows.
THEOREM NoPartialRowServed == Spec => []NoPartialRow
<1>1. Init => TextInv
  BY DEF Init, FrameInit, TextInit, TextInv
<1>2. TextInv => NoPartialRow
  <2> SUFFICES ASSUME TextInv, kind \in TextKinds PROVE Partial \notin Range(served)
    BY DEF NoPartialRow
  <2>1. served \in Seq(WholeRows)
    BY DEF TextInv
  <2>2. Range(served) \subseteq WholeRows
    BY <2>1 DEF Range
  <2> QED BY <2>2 DEF WholeRows
<1> QED BY <1>1, <1>2, TextStepInv, PTL DEF Spec

-----------------------------------------------------------------------------
(* The rows of filesystem_space: for any devices and paths, and any number of  *)
(* mounts that come and go while they are looked at.                           *)


\* A row that is added is the only one that comes.
LEMMA AddAny ==
  ASSUME NEW s, s \in Seq(Range(s)), NEW x
  PROVE  /\ Append(s, x) \in Seq(Range(Append(s, x)))
         /\ Range(Append(s, x)) = Range(s) \cup {x}
         /\ DOMAIN Append(s, x) = DOMAIN s \cup {Len(s) + 1}
         /\ Append(s, x)[Len(s) + 1] = x
         /\ \A i \in DOMAIN s : Append(s, x)[i] = s[i]
<1> DEFINE S == Range(s) \cup {x}
<1>1. s \in Seq(S) /\ x \in S
  OBVIOUS
<1> HIDE DEF S
<1>2. Append(s, x) \in Seq(S) /\ Range(Append(s, x)) = Range(s) \cup {x}
  BY <1>1, AddOne
<1>3. /\ Len(s) \in Nat /\ DOMAIN s = 1..Len(s)
      /\ DOMAIN Append(s, x) = 1..(Len(s) + 1)
      /\ Append(s, x)[Len(s) + 1] = x
      /\ \A i \in 1..Len(s) : Append(s, x)[i] = s[i]
  BY <1>1
<1> QED BY <1>2, <1>3 DEF S

\* A mount that is removed leaves the others.
LEMMA RemoveKeepsType ==
  ASSUME NEW S, NEW s \in Seq(S), NEW i \in 1..Len(s)
  PROVE  RemoveAt(s, i) \in Seq(S)
<1>1. i \in Nat /\ Len(s) \in Nat /\ \A j \in 1..Len(s) : s[j] \in S
  OBVIOUS
<1>2. SubSeq(s, 1, i - 1) \in Seq(S)
  <2>1. \A j \in 1..(i - 1) : s[j] \in S
    BY <1>1
  <2> QED BY <1>1, <2>1, SubSeqProperties
<1>3. SubSeq(s, i + 1, Len(s)) \in Seq(S)
  <2>1. \A j \in (i + 1)..Len(s) : s[j] \in S
    BY <1>1
  <2> QED BY <1>1, <2>1, SubSeqProperties
<1> QED BY <1>2, <1>3 DEF RemoveAt

-----------------------------------------------------------------------------
Dev(i) == listed[i].dev

\* The row that a device gets whose first mount could be seen all the time.
HasRow(dev) ==
  (\A s \in shown : s[2] = FirstOf(dev) => s[1] = dev)
    => [dev |-> dev, path |-> FirstOf(dev), of |-> dev] \in Range(rows)

\* The lines before `next` are of excluded types or have been seen, and what has
\* been seen has its row, unless it is no disk, has no figures or was not in sight.
LoopInv ==
  /\ Visible \subseteq shown
  /\ \A i \in 1..(next - 1) : Dev(i) \in Excluded \cup seen
  /\ \A i \in DOMAIN rows : rows[i].dev \in seen /\ <<rows[i].of, rows[i].path>> \in shown
  /\ \A dev \in (seen \cap Disks) \ Failing : HasRow(dev)

MountInv ==
  /\ mounts \in Seq(Mounts) /\ listed \in Seq(Mounts)
  /\ next \in 1..Len(listed) + 1
  /\ kind = "filesystem_space" =>
       /\ rows \in Seq(Range(rows))
       /\ \A i, j \in DOMAIN rows : rows[i].dev = rows[j].dev => i = j
       /\ stage = "update" => rows = <<>>
       /\ stage = "loop" => LoopInv

\* The first line of a device that has not been seen is the first of all.
LEMMA FirstLine ==
  ASSUME listed \in Seq(Mounts), next \in 1..Len(listed),
         \A i \in 1..(next - 1) : Dev(i) # Dev(next)
  PROVE  FirstOf(Dev(next)) = listed[next].path
<1> DEFINE T == {i \in DOMAIN listed : listed[i].dev = Dev(next)}
<1>1. DOMAIN listed = 1..Len(listed) /\ Len(listed) \in Nat
  OBVIOUS
<1>2. next \in T /\ \A i \in T : i \in Nat /\ next <= i
  BY <1>1 DEF Dev
<1>3. \A x \in T : (\A y \in T : x <= y) => x = next
  BY <1>2
<1> HIDE DEF T
<1>4. Min(T) = next
  BY <1>2, <1>3 DEF Min
<1> QED BY <1>4 DEF T, FirstOf, Dev

\* One line of the list.
LEMMA LineKeepsRows ==
  ASSUME MountInv, kind = "filesystem_space", NextLine
  PROVE  MountInv'
<1> DEFINE line == listed[next]
           of == Figures(line.path)
           row == [dev |-> line.dev, path |-> line.path, of |-> of]
           adds == ~Skipped(line) /\ of # NoFigures /\ line.dev \in Disks
<1>1. /\ stage = "loop" /\ LoopInv /\ next \in 1..Len(listed) /\ Len(listed) \in Nat
      /\ mounts \in Seq(Mounts) /\ listed \in Seq(Mounts)
      /\ rows \in Seq(Range(rows))
      /\ \A i, j \in DOMAIN rows : rows[i].dev = rows[j].dev => i = j
  BY DEF MountInv, NextLine
<1>2. /\ UNCHANGED <<kind, stage, mounts, listed, shown>> /\ next' = next + 1
      /\ seen' = IF Skipped(line) THEN seen ELSE seen \cup {line.dev}
      /\ adds => rows' = Append(rows, row)
      /\ ~adds => rows' = rows
  BY DEF NextLine, Add
<1>3. line \in Mounts /\ line.dev \in AllDevices /\ line.path \in Paths \cup {RootPath}
  <2>1. line \in Mounts
    BY <1>1
  <2> QED BY <2>1 DEF Mounts
<1>4. <<OnTop(line.path), line.path>> \in shown
  BY <1>1, <1>3 DEF LoopInv, Visible
<1>5. of # NoFigures => of = OnTop(line.path) /\ OnTop(line.path) \notin Failing
  BY DEF Figures
<1>6. Visible' = Visible
  BY <1>2 DEF Visible, OnTop
<1>7. /\ rows' \in Seq(Range(rows'))
      /\ Range(rows) \subseteq Range(rows')
      /\ adds => row \in Range(rows')
      /\ \A i \in DOMAIN rows' : \/ i \in DOMAIN rows /\ rows'[i] = rows[i]
                                 \/ adds /\ i = Len(rows) + 1 /\ rows'[i] = row
  <2> HIDE DEF adds, row
  <2>1. CASE adds
    <3>1. /\ Append(rows, row) \in Seq(Range(Append(rows, row)))
          /\ Range(Append(rows, row)) = Range(rows) \cup {row}
          /\ DOMAIN Append(rows, row) = DOMAIN rows \cup {Len(rows) + 1}
          /\ Append(rows, row)[Len(rows) + 1] = row
          /\ \A i \in DOMAIN rows : Append(rows, row)[i] = rows[i]
      BY <1>1, AddAny
    <3>2. rows' = Append(rows, row)
      BY <1>2, <2>1
    <3> QED BY <2>1, <3>1, <3>2, Zenon
  <2>2. CASE ~adds
    <3>1. rows' = rows
      BY <1>2, <2>2
    <3> QED BY <1>1, <2>2, <3>1, Zenon
  <2> QED BY <2>1, <2>2
<1>8. adds => line.dev \notin seen \cup Excluded /\ seen' = seen \cup {line.dev}
  BY <1>2 DEF Skipped
<1>9. \A i, j \in DOMAIN rows' : rows'[i].dev = rows'[j].dev => i = j
  <2>1. \A i \in DOMAIN rows : rows[i].dev \in seen
    BY <1>1 DEF LoopInv
  <2>2. row.dev = line.dev
    OBVIOUS
  <2> HIDE DEF adds, row, line
  <2> QED BY <1>1, <1>7, <1>8, <2>1, <2>2
<1>10. \A i \in DOMAIN rows' : rows'[i].dev \in seen' /\ <<rows'[i].of, rows'[i].path>> \in shown'
  <2>1. /\ \A i \in DOMAIN rows : rows[i].dev \in seen /\ <<rows[i].of, rows[i].path>> \in shown
        /\ seen \subseteq seen' /\ shown' = shown
    BY <1>1, <1>2 DEF LoopInv
  <2>2. adds => row.dev \in seen' /\ <<row.of, row.path>> \in shown
    BY <1>4, <1>5, <1>8
  <2> HIDE DEF adds, row
  <2> QED BY <1>7, <2>1, <2>2
<1>11. \A i \in 1..(next' - 1) : Dev(i)' \in Excluded \cup seen'
  <2>1. Dev(next) \in Excluded \cup seen'
    BY <1>2 DEF Dev, Skipped
  <2>2. \A i \in 1..(next - 1) : Dev(i) \in Excluded \cup seen'
    BY <1>1, <1>2 DEF LoopInv
  <2>3. \A i : Dev(i)' = Dev(i)
    BY <1>2 DEF Dev
  <2> QED BY <1>1, <1>2, <2>1, <2>2, <2>3
<1>12. \A dev : FirstOf(dev)' = FirstOf(dev)
  BY <1>2 DEF FirstOf
<1>13. \A dev \in (seen' \cap Disks) \ Failing : HasRow(dev)'
  <2> SUFFICES ASSUME NEW dev \in (seen' \cap Disks) \ Failing,
                      \A s \in shown : s[2] = FirstOf(dev) => s[1] = dev
               PROVE  [dev |-> dev, path |-> FirstOf(dev), of |-> dev] \in Range(rows')
    BY <1>2, <1>12 DEF HasRow
  <2>1. CASE dev \in seen
    <3>1. HasRow(dev)
      BY <1>1, <2>1 DEF LoopInv
    <3> QED BY <1>7, <3>1 DEF HasRow
  <2>2. CASE dev \notin seen
    <3>1. dev = line.dev /\ ~Skipped(line) /\ line.dev \notin Excluded \cup seen
      BY <1>2, <2>2 DEF Skipped
    <3>2. \A i \in 1..(next - 1) : Dev(i) # Dev(next)
      BY <1>1, <3>1 DEF LoopInv, Dev
    <3>3. FirstOf(dev) = line.path
      BY <1>1, <3>1, <3>2, FirstLine DEF Dev
    <3>4. OnTop(line.path) = dev
      <4>1. <<OnTop(line.path), line.path>>[2] = FirstOf(dev)
        BY <3>3
      <4> HIDE DEF line
      <4> QED BY <1>4, <4>1
    <3>5. of = dev
      BY <3>4 DEF Figures
    <3>6. dev # NoFigures
      BY <1>3, <3>1, MountAssumption DEF AllDevices
    <3>7. adds
      BY <3>1, <3>5, <3>6
    <3> QED BY <1>7, <3>1, <3>3, <3>5, <3>7
  <2> QED BY <2>1, <2>2
<1>14. LoopInv'
  BY <1>1, <1>2, <1>6, <1>10, <1>11, <1>13 DEF LoopInv
<1>15. next' \in 1..Len(listed') + 1
  BY <1>1, <1>2
<1> QED BY <1>1, <1>2, <1>7, <1>9, <1>14, <1>15 DEF MountInv

\* Filesystems are mounted and unmounted.
LEMMA MountsKeepRows ==
  ASSUME MountInv, kind = "filesystem_space", Mount \/ Unmount
  PROVE  MountInv'
<1>1. /\ UNCHANGED <<kind, stage, rows, listed, next, seen>>
      /\ shown' = IF stage = "loop" THEN shown \cup Visible' ELSE {}
  BY DEF Mount, Unmount, Watch, frameVars
<1>2. mounts' \in Seq(Mounts)
  <2>1. CASE Mount
    <3>1. PICK d \in Devices, p \in Paths : mounts' = Append(mounts, [dev |-> d, path |-> p])
      BY <2>1 DEF Mount
    <3>2. [dev |-> d, path |-> p] \in Mounts
      BY DEF Mounts, AllDevices
    <3>3. mounts \in Seq(Mounts)
      BY DEF MountInv
    <3> QED BY <3>1, <3>2, <3>3, AddOne
  <2>2. CASE Unmount
    <3>1. PICK i \in 2..Len(mounts) : mounts' = RemoveAt(mounts, i)
      BY <2>2 DEF Unmount
    <3>2. mounts \in Seq(Mounts) /\ i \in 1..Len(mounts)
      BY DEF MountInv
    <3> QED BY <3>1, <3>2, RemoveKeepsType
  <2> QED BY <2>1, <2>2
<1>3. ASSUME stage = "loop" PROVE LoopInv'
  <2>1. LoopInv /\ shown \subseteq shown' /\ Visible' \subseteq shown'
    BY <1>1, <1>3 DEF MountInv
  <2>2. \A i : Dev(i)' = Dev(i)
    BY <1>1 DEF Dev
  <2>3. \A dev : FirstOf(dev)' = FirstOf(dev)
    BY <1>1 DEF FirstOf
  <2>4. \A dev : HasRow(dev) => HasRow(dev)'
    BY <1>1, <2>1, <2>3 DEF HasRow
  <2> QED BY <1>1, <2>1, <2>2, <2>4 DEF LoopInv
<1> QED BY <1>1, <1>2, <1>3 DEF MountInv

LEMMA MountStepInv == MountInv /\ [Next]_vars => MountInv'
<1> SUFFICES ASSUME MountInv, [Next]_vars PROVE MountInv'
  OBVIOUS
<1>0. kind' = kind
  BY KindFixed
<1>1. CASE kind = "filesystem_space" /\ MountNext
  <2>1. CASE Mount \/ Unmount
    BY <1>1, <2>1, MountsKeepRows
  <2>2. CASE ReadMounts
    <3>1. /\ stage' = "loop" /\ rows = <<>> /\ UNCHANGED <<rows, mounts>>
          /\ listed' = mounts /\ next' = 1 /\ seen' = {} /\ shown' = Visible
      BY <1>1, <2>2 DEF ReadMounts, GoOn, MountInv
    <3>2. Visible' = Visible
      BY <3>1 DEF Visible, OnTop
    <3>3. DOMAIN rows' = {} /\ rows' \in Seq(Range(rows'))
      BY <3>1
    <3>4. listed' \in Seq(Mounts) /\ mounts' \in Seq(Mounts) /\ next' \in 1..Len(listed') + 1
      <4>1. Len(listed') \in Nat
        BY <3>1 DEF MountInv
      <4> QED BY <3>1, <4>1 DEF MountInv
    <3>5. LoopInv'
      BY <3>1, <3>2, <3>3 DEF LoopInv
    <3> QED BY <3>1, <3>3, <3>4, <3>5 DEF MountInv
  <2>3. CASE NextLine
    BY <1>1, <2>3, LineKeepsRows
  <2>4. CASE LinesDone
    <3>1. /\ stage' = "return" /\ UNCHANGED <<rows, mounts>> /\ listed' = <<>> /\ next' = 1
      BY <2>4 DEF LinesDone, GoOn
    <3>2. listed' \in Seq(Mounts) /\ next' \in 1..Len(listed') + 1
      BY <3>1
    <3> QED BY <1>0, <3>1, <3>2 DEF MountInv
  <2> QED BY <1>1, <2>1, <2>2, <2>3, <2>4 DEF MountNext
<1>2. CASE FrameStep /\ UNCHANGED mountVars
  <2>1. CASE Begin
    <3>1. rows' = <<>> /\ stage' = "update"
      BY <2>1 DEF Begin, Clear
    <3>2. DOMAIN rows' = {} /\ rows' \in Seq(Range(rows'))
      BY <3>1
    <3> QED BY <1>2, <3>1, <3>2 DEF mountVars, MountInv
  <2>2. CASE Raise \/ Commit
    BY <1>0, <1>2, <2>2 DEF Raise, Commit, mountVars, MountInv
  <2> QED BY <1>2, <2>1, <2>2 DEF FrameStep
<1>3. CASE kind # "filesystem_space" /\ UNCHANGED mountVars
  BY <1>0, <1>3 DEF mountVars, MountInv
<1>4. CASE UNCHANGED vars
  <2>1. UNCHANGED <<kind, stage, rows, mounts, listed, next, seen, shown>>
    BY <1>4 DEF vars, frameVars, mountVars
  <2>2. LoopInv => LoopInv'
    BY <2>1 DEF LoopInv, Visible, OnTop, Dev, HasRow, FirstOf
  <2> QED BY <2>1, <2>2 DEF MountInv
<1> QED BY <1>1, <1>2, <1>3, <1>4 DEF Next, Body, Frame, TextKinds

LEMMA MountInitInv == Init => MountInv
<1> SUFFICES ASSUME Init PROVE MountInv
  OBVIOUS
<1>1. [dev |-> Root, path |-> RootPath] \in Mounts
  BY DEF Mounts, AllDevices
<1>2. mounts \in Seq(Mounts) /\ listed \in Seq(Mounts) /\ next \in 1..Len(listed) + 1
  BY <1>1 DEF Init, MountInit
<1>3. rows \in Seq(Range(rows)) /\ DOMAIN rows = {} /\ stage = "wait"
  BY DEF Init, FrameInit
<1> QED BY <1>2, <1>3 DEF MountInv

\* The inductive invariant of the rows.
LEMMA MountsInvariant == Spec => []MountInv
BY MountInitInv, MountStepInv, PTL DEF Spec

\* A device has one row, however often it is mounted and whatever is mounted and
\* unmounted while the rows are made.
THEOREM DevicesAreListedOnce == Spec => []OneRowPerDevice
<1>1. MountInv => OneRowPerDevice
  BY DEF MountInv, OneRowPerDevice
<1> QED BY <1>1, MountsInvariant, PTL

\* The figures of a row are of a filesystem that its path led to during the update.
THEOREM FiguresAreOfThePath == Spec => []FiguresOfOwnPath
<1>1. MountInv => FiguresOfOwnPath
  BY DEF MountInv, LoopInv, FiguresOfOwnPath
<1> QED BY <1>1, MountsInvariant, PTL

\* No disk is missing that could be seen at its first mount all the time.
THEOREM NoDiskIsMissing == Spec => []SpaceComplete
<1>1. MountInv => SpaceComplete
  <2> SUFFICES ASSUME MountInv, kind = "filesystem_space", stage = "loop", next > Len(listed),
                      NEW dev \in {listed[i].dev : i \in DOMAIN listed} \ (Excluded \cup Failing),
                      dev \in Disks, \A s \in shown : s[2] = FirstOf(dev) => s[1] = dev
               PROVE  [dev |-> dev, path |-> FirstOf(dev), of |-> dev] \in Range(rows)
    BY DEF SpaceComplete
  <2>1. /\ LoopInv /\ DOMAIN listed = 1..Len(listed) /\ Len(listed) \in Nat
        /\ next = Len(listed) + 1
    BY DEF MountInv
  <2>2. PICK i \in 1..Len(listed) : dev = listed[i].dev
    BY <2>1
  <2>3. dev \in seen
    BY <2>1, <2>2 DEF LoopInv, Dev
  <2>4. HasRow(dev)
    BY <2>1, <2>3 DEF LoopInv
  <2> QED BY <2>4 DEF HasRow
<1> QED BY <1>1, MountsInvariant, PTL

-----------------------------------------------------------------------------
(* The types of what a plugin keeps, for any values of the constants.          *)

\* The frame.
FrameTyped ==
  /\ kind \in TableKinds \cup {"exec_value", "file_value"}
  /\ stage \in Stages
  /\ kind \notin TableKinds => rows = <<>> /\ served = <<>>

LEMMA FrameTypedStep == FrameTyped /\ [Next]_vars => FrameTyped'
<1> SUFFICES ASSUME FrameTyped, [Next]_vars PROVE FrameTyped'
  OBVIOUS
<1> USE DEF FrameTyped, Stages, GoOn, frameVars, TableKinds
<1>0. kind' = kind
  BY KindFixed
<1>1. CASE kind = "process_info" /\ ProcessNext
  BY <1>0, <1>1 DEF ProcessNext, Spawn, Exit, List, Gather, GatherDone
<1>2. CASE kind = "filesystem_space" /\ MountNext
  BY <1>0, <1>2 DEF MountNext, Mount, Unmount, ReadMounts, NextLine, LinesDone
<1>3. CASE kind \in TextKinds /\ TextNext
  BY <1>0, <1>3 DEF TextKinds, TextNext, ReadText, ReadFails, BadParser, TakePart, Misfit, PartsDone
<1>4. CASE kind = "exec_value" /\ ItemNext
  BY <1>0, <1>4 DEF ItemNext, RunCommand, ParseItem, ParseDone, SkipItem, SetInteger, SetHigh,
                    SetLow, CommitDone
<1>5. CASE kind = "file_value" /\ FileNext
  BY <1>0, <1>5 DEF FileNext, AppendUnit, Truncate, Rename, Stat, OpenFile, ReadBlock, SetItems
<1>6. CASE FrameStep
  BY <1>0, <1>6 DEF FrameStep, Begin, Clear, Raise, SkipCommit, Commit
<1>7. CASE UNCHANGED vars
  BY <1>7 DEF vars
<1> QED BY <1>1, <1>2, <1>3, <1>4, <1>5, <1>6, <1>7 DEF Next, Body, Frame

\* What an update has added goes to the table that is served, or is cleared.
LEMMA RowsKept ==
  ASSUME NEW S, rows \in Seq(S), served \in Seq(S), FrameStep
  PROVE  rows' \in Seq(S) /\ served' \in Seq(S)
<1>1. CASE Begin
  BY <1>1 DEF Begin, Clear
<1>2. CASE Raise
  BY <1>2 DEF Raise, SkipCommit
<1>3. CASE Commit
  BY <1>3 DEF Commit
<1> QED BY <1>1, <1>2, <1>3 DEF FrameStep

\* process_info.
PidRows == Seq(Pids \ Unreadable)
ProcessTyped ==
  /\ live \subseteq Pids /\ todo \subseteq Pids /\ lasting \subseteq live
  /\ kind = "process_info" => rows \in PidRows /\ served \in PidRows

LEMMA ProcessTypedStep == ProcessTyped /\ [Next]_vars => ProcessTyped'
<1> SUFFICES ASSUME ProcessTyped, [Next]_vars PROVE ProcessTyped'
  OBVIOUS
<1>0. kind' = kind
  BY KindFixed
<1>1. CASE kind = "process_info" /\ ProcessNext
  <2>1. CASE \E p \in Pids : Spawn(p) \/ Exit(p)
    BY <2>1 DEF Spawn, Exit, frameVars, ProcessTyped
  <2>2. CASE List \/ GatherDone
    BY <2>2 DEF List, GatherDone, GoOn, ProcessTyped
  <2>3. CASE Gather
    <3>1. PICK p \in todo : /\ IF Readable(p) THEN Add(p) ELSE UNCHANGED rows
                            /\ todo' = todo \ {p}
      BY <2>3 DEF Gather
    <3>2. UNCHANGED <<kind, served, live, lasting>>
      BY <2>3 DEF Gather
    <3>3. rows \in PidRows /\ served \in PidRows /\ p \in Pids
      BY <1>1 DEF ProcessTyped
    <3>4. rows' \in PidRows
      <4>1. CASE Readable(p)
        <5>1. p \in Pids \ Unreadable /\ rows' = Append(rows, p)
          BY <3>1, <3>3, <4>1 DEF Readable, Add
        <5> QED BY <3>3, <5>1, AddOne DEF PidRows
      <4>2. CASE ~Readable(p)
        BY <3>1, <3>3, <4>2
      <4> QED BY <4>1, <4>2
    <3> QED BY <3>1, <3>2, <3>3, <3>4 DEF ProcessTyped
  <2> QED BY <1>1, <2>1, <2>2, <2>3 DEF ProcessNext
<1>2. CASE FrameStep /\ UNCHANGED processVars
  BY <1>0, <1>2, RowsKept DEF ProcessTyped, PidRows, processVars
<1>3. CASE kind # "process_info" /\ UNCHANGED processVars
  BY <1>0, <1>3 DEF ProcessTyped, processVars
<1>4. CASE UNCHANGED vars
  BY <1>4 DEF ProcessTyped, vars, frameVars, processVars
<1> QED BY <1>1, <1>2, <1>3, <1>4 DEF Next, Body, Frame, TextKinds

\* A set of numbers that is not empty has a least one.
LEMMA LeastOfSome ==
  ASSUME NEW T, T \subseteq Nat, T # {}
  PROVE  \E n \in T : \A m \in T : n <= m
<1> DEFINE R == {p \in Nat \X Nat : p[1] < p[2]}
<1>1. R = OpToRel(<, Nat)
  BY DEF OpToRel
<1>2. PICK n \in T : \A m \in T : ~(<<m, n>> \in R)
  <2> HIDE DEF R
  <2> QED BY <1>1, NatLessThanWellFounded, WFMin
<1>3. \A m \in T : ~(m < n)
  BY <1>2
<1> QED BY <1>3

\* A set of positions that is not empty has a last one.
LEMMA LastOfSome ==
  ASSUME NEW n \in Nat, NEW T, T \subseteq 1..n, T # {}
  PROVE  Max(T) \in T
<1> DEFINE U == {n - i : i \in T}
<1>1. \A i \in T : n - i \in Nat /\ n - i \in U
  OBVIOUS
<1>2. PICK x \in U : \A y \in U : x <= y
  <2>1. U \subseteq Nat /\ U # {}
    BY <1>1
  <2> HIDE DEF U
  <2> QED BY <2>1, LeastOfSome
<1>3. PICK i \in T : x = n - i
  OBVIOUS
<1>4. \A j \in T : i >= j
  <2> TAKE j \in T
  <2>1. n - i <= n - j
    BY <1>1, <1>2, <1>3
  <2> QED BY <2>1
<1> QED BY <1>3, <1>4 DEF Max

\* filesystem_space.
SpaceRows == Seq([dev : Disks, path : Paths \cup {RootPath}, of : AllDevices])
MountTyped ==
  /\ MountInv
  /\ Len(mounts) \in 1..MaxMounts
  /\ seen \subseteq AllDevices \ Excluded
  /\ shown \subseteq AllDevices \X (Paths \cup {RootPath})
  /\ kind = "filesystem_space" => rows \in SpaceRows /\ served \in SpaceRows

\* A path leads to a device.
LEMMA OnTopType == mounts \in Seq(Mounts) => \A path : OnTop(path) \in AllDevices
<1> SUFFICES ASSUME mounts \in Seq(Mounts), NEW path PROVE OnTop(path) \in AllDevices
  OBVIOUS
<1> DEFINE there == {i \in DOMAIN mounts : mounts[i].path = path}
<1>1. CASE there = {}
  BY <1>1 DEF OnTop, AllDevices
<1>2. CASE there # {}
  <2>1. Len(mounts) \in Nat /\ there \subseteq 1..Len(mounts)
    OBVIOUS
  <2>2. Max(there) \in there
    <3> HIDE DEF there
    <3> QED BY <1>2, <2>1, LastOfSome
  <2>3. mounts[Max(there)] \in Mounts
    BY <2>1, <2>2
  <2>4. mounts[Max(there)].dev \in AllDevices
    BY <2>3 DEF Mounts
  <2> QED BY <1>2, <2>4 DEF OnTop
<1> QED BY <1>1, <1>2

\* A mount more, and one less.
LEMMA MountsLength ==
  ASSUME MountTyped, Mount \/ Unmount
  PROVE  Len(mounts') \in 1..MaxMounts
<1>1. mounts \in Seq(Mounts) /\ Len(mounts) \in 1..MaxMounts /\ MaxMounts \in Nat
  BY MountAssumption DEF MountTyped, MountInv
<1>2. CASE Mount
  <2>1. PICK d \in Devices, p \in Paths : mounts' = Append(mounts, [dev |-> d, path |-> p])
    BY <1>2 DEF Mount
  <2>2. Len(mounts') = Len(mounts) + 1 /\ Len(mounts) < MaxMounts
    <3>1. [dev |-> d, path |-> p] \in Mounts
      BY DEF Mounts, AllDevices
    <3> QED BY <1>1, <1>2, <2>1, <3>1 DEF Mount
  <2> QED BY <1>1, <2>2
<1>3. CASE Unmount
  <2>1. PICK i \in 2..Len(mounts) : mounts' = RemoveAt(mounts, i)
    BY <1>3 DEF Unmount
  <2>2. i \in 1..Len(mounts) /\ \A j \in 1..Len(mounts) : mounts[j] \in Mounts
    BY <1>1
  <2>3. SubSeq(mounts, 1, i - 1) \in Seq(Mounts) /\ Len(SubSeq(mounts, 1, i - 1)) = i - 1
    <3>1. \A j \in 1..(i - 1) : mounts[j] \in Mounts
      BY <1>1, <2>2
    <3> QED BY <1>1, <2>2, <3>1, SubSeqProperties
  <2>4. /\ SubSeq(mounts, i + 1, Len(mounts)) \in Seq(Mounts)
        /\ Len(SubSeq(mounts, i + 1, Len(mounts))) = Len(mounts) - i
    <3>1. \A j \in (i + 1)..Len(mounts) : mounts[j] \in Mounts
      BY <1>1, <2>2
    <3> QED BY <1>1, <2>2, <3>1, SubSeqProperties
  <2>5. Len(mounts') = Len(mounts) - 1
    BY <1>1, <2>1, <2>2, <2>3, <2>4 DEF RemoveAt
  <2> QED BY <1>1, <2>2, <2>5
<1> QED BY <1>2, <1>3

LEMMA MountTypedStep == MountTyped /\ [Next]_vars => MountTyped'
<1> SUFFICES ASSUME MountTyped, [Next]_vars PROVE MountTyped'
  OBVIOUS
<1>0. kind' = kind /\ MountInv' /\ MountInv /\ mounts \in Seq(Mounts) /\ mounts' \in Seq(Mounts)
  BY KindFixed, MountStepInv DEF MountTyped, MountInv
<1>1. Visible \subseteq AllDevices \X (Paths \cup {RootPath})
  BY <1>0, OnTopType DEF Visible
<1>2. Visible' \subseteq AllDevices \X (Paths \cup {RootPath})
  <2>1. \A path : OnTop(path)' \in AllDevices
    <3>1. (mounts \in Seq(Mounts) => \A path : OnTop(path) \in AllDevices)'
      BY OnTopType, PTL
    <3> QED BY <1>0, <3>1
  <2> QED BY <2>1 DEF Visible
<1>3. CASE kind = "filesystem_space" /\ MountNext
  <2>1. CASE Mount \/ Unmount
    <3>1. /\ UNCHANGED <<kind, stage, rows, served, listed, next, seen>>
          /\ shown' = IF stage = "loop" THEN shown \cup Visible' ELSE {}
      BY <2>1 DEF Mount, Unmount, Watch, frameVars
    <3> QED BY <1>0, <1>2, <2>1, <3>1, MountsLength DEF MountTyped
  <2>2. CASE ReadMounts \/ LinesDone
    BY <1>0, <1>1, <2>2 DEF ReadMounts, LinesDone, GoOn, MountTyped
  <2>3. CASE NextLine
    <3> DEFINE line == listed[next]
               of == Figures(line.path)
               row == [dev |-> line.dev, path |-> line.path, of |-> of]
               adds == ~Skipped(line) /\ of # NoFigures /\ line.dev \in Disks
    <3>1. /\ UNCHANGED <<kind, stage, served, mounts, listed, shown>>
          /\ seen' = IF Skipped(line) THEN seen ELSE seen \cup {line.dev}
          /\ adds => rows' = Append(rows, row)
          /\ ~adds => rows' = rows
      BY <2>3 DEF NextLine, Add
    <3>2. line.dev \in AllDevices /\ line.path \in Paths \cup {RootPath}
      <4>1. listed \in Seq(Mounts) /\ next \in 1..Len(listed)
        BY <1>0, <2>3 DEF MountInv, NextLine
      <4>2. line \in Mounts
        BY <4>1
      <4> QED BY <4>2 DEF Mounts
    <3>3. seen' \subseteq AllDevices \ Excluded
      BY <3>1, <3>2 DEF Skipped, MountTyped
    <3>4. rows \in SpaceRows /\ served \in SpaceRows
      BY <1>3 DEF MountTyped
    <3>5. rows' \in SpaceRows
      <4>1. CASE adds
        <5>1. of \in AllDevices
          BY <1>0, <4>1, OnTopType DEF Figures
        <5>2. row \in [dev : Disks, path : Paths \cup {RootPath}, of : AllDevices]
          BY <3>2, <4>1, <5>1
        <5>3. rows' = Append(rows, row)
          BY <3>1, <4>1
        <5> HIDE DEF row
        <5> QED BY <3>4, <5>2, <5>3, AddOne DEF SpaceRows
      <4>2. CASE ~adds
        BY <3>1, <3>4, <4>2
      <4> QED BY <4>1, <4>2
    <3> QED BY <1>0, <3>1, <3>3, <3>4, <3>5 DEF MountTyped
  <2> QED BY <1>3, <2>1, <2>2, <2>3 DEF MountNext
<1>4. CASE FrameStep /\ UNCHANGED mountVars
  BY <1>0, <1>4, RowsKept DEF MountTyped, SpaceRows, mountVars
<1>5. CASE kind # "filesystem_space" /\ UNCHANGED mountVars
  BY <1>0, <1>5 DEF MountTyped, mountVars
<1>6. CASE UNCHANGED vars
  BY <1>0, <1>6 DEF MountTyped, vars, frameVars, mountVars
<1> QED BY <1>3, <1>4, <1>5, <1>6 DEF Next, Body, Frame, TextKinds

\* The tables made of texts.
PartRow == [part : 0..MaxParts, member : 0..(MaxMembers + 1)]
TextTyped ==
  /\ parser \in Parsers
  /\ text \in Texts
  /\ at \in 1..Len(text) + 1
  /\ kind \in TextKinds => rows \in Seq(PartRow) /\ served \in Seq(PartRow)

LEMMA TextsAre ==
  ASSUME NEW t \in Texts
  PROVE  /\ t \in Seq(Parts) /\ Len(t) \in 0..MaxParts /\ DOMAIN t = 1..Len(t)
         /\ \A i \in DOMAIN t : t[i].members \in 0..MaxMembers
<1>1. PICK n \in 0..MaxParts : t \in [1..n -> Parts]
  BY DEF Texts
<1>2. n \in Nat /\ t \in Seq(Parts) /\ Len(t) = n /\ DOMAIN t = 1..n
  BY <1>1, TextAssumption
<1>3. \A i \in DOMAIN t : t[i].members \in 0..MaxMembers
  <2> TAKE i \in DOMAIN t
  <2>1. t[i] \in Parts
    BY <1>1, <1>2
  <2> QED BY <2>1 DEF Parts
<1> QED BY <1>2, <1>3

LEMMA RowsOfTyped ==
  ASSUME text \in Texts, NEW i \in 1..Len(text)
  PROVE  RowsOf(i) \in Seq(PartRow)
<1>1. i \in 0..MaxParts /\ text[i].members \in 0..MaxMembers /\ MaxMembers \in Nat
  BY TextsAre, TextAssumption
<1>2. \A m \in 0..(MaxMembers + 1) : Row(i, m) \in PartRow
  BY <1>1 DEF Row, PartRow
<1>3. [m \in 1..text[i].members |-> Row(i, m)] \in Seq(PartRow)
  <2>1. \A m \in 1..text[i].members : m \in 0..(MaxMembers + 1)
    BY <1>1
  <2>2. text[i].members \in Nat
    BY <1>1
  <2> HIDE DEF PartRow
  <2> QED BY <1>2, <2>1, <2>2
<1>4. \A m \in 0..1 : <<Row(i, m)>> \in Seq(PartRow)
  <2>1. \A m \in 0..1 : m \in 0..(MaxMembers + 1)
    BY <1>1
  <2> QED BY <1>2, <2>1
<1> QED BY <1>3, <1>4 DEF RowsOf

LEMMA TextTypedStep == TextTyped /\ [Next]_vars => TextTyped'
<1> SUFFICES ASSUME TextTyped, [Next]_vars PROVE TextTyped'
  OBVIOUS
<1> USE TextAssumption
<1>0. kind' = kind
  BY KindFixed
<1>1. CASE kind \in TextKinds /\ TextNext
  <2>0. rows \in Seq(PartRow) /\ served \in Seq(PartRow)
    BY <1>1 DEF TextTyped
  <2>1. CASE ReadText
    <3>1. text' \in Texts /\ at' = 1 /\ UNCHANGED <<kind, rows, served, parser>>
      BY <2>1 DEF ReadText, GoOn, Said
    <3>2. Len(text') \in Nat
      BY <3>1, TextsAre
    <3> QED BY <2>0, <3>1, <3>2 DEF TextTyped
  <2>2. CASE ReadFails
    <3>1. text' = <<>> /\ at' = 1 /\ UNCHANGED <<kind, rows, served, parser>>
      BY <2>2 DEF ReadFails, GoOn
    <3>2. text' \in Texts /\ at' \in 1..Len(text') + 1
      <4>1. text' \in [1..0 -> Parts] /\ Len(text') = 0
        BY <3>1
      <4> QED BY <3>1, <4>1 DEF Texts
    <3> QED BY <2>0, <3>1, <3>2 DEF TextTyped
  <2>3. CASE BadParser
    <3>1. rows' = Append(rows, Default) /\ UNCHANGED <<kind, served, parser, text, at>>
      BY <2>3 DEF BadParser, Add, GoOn, textVars
    <3>2. Default \in PartRow
      BY DEF Default, Row, PartRow
    <3>3. rows' \in Seq(PartRow)
      BY <2>0, <3>1, <3>2, AddOne
    <3> QED BY <2>0, <3>1, <3>3 DEF TextTyped
  <2>4. CASE TakePart
    <3>1. /\ rows' = rows \o RowsOf(at) /\ at' = at + 1 /\ UNCHANGED <<kind, served, parser, text>>
          /\ at <= Len(text)
      BY <2>4 DEF TakePart
    <3>2. text \in Texts /\ Len(text) \in Nat /\ at \in 1..Len(text)
      <4>1. text \in Texts /\ at \in 1..Len(text) + 1
        BY DEF TextTyped
      <4>2. Len(text) \in Nat
        BY <4>1, TextsAre
      <4> QED BY <3>1, <4>1, <4>2
    <3>6. RowsOf(at) \in Seq(PartRow)
      BY <3>2, RowsOfTyped
    <3>7. rows' \in Seq(PartRow)
      BY <2>0, <3>1, <3>6
    <3> QED BY <2>0, <3>1, <3>2, <3>7 DEF TextTyped
  <2>5. CASE Misfit
    <3>1. /\ rows' = Append(rows, Partial) \/ rows' = rows
          /\ UNCHANGED <<kind, served, parser, text, at>>
      BY <2>5 DEF Misfit, Add, GoOn, textVars
    <3>2. Partial \in PartRow
      BY DEF Partial, Row, PartRow
    <3>3. rows' \in Seq(PartRow)
      BY <2>0, <3>1, <3>2, AddOne
    <3> QED BY <2>0, <3>1, <3>3 DEF TextTyped
  <2>6. CASE PartsDone
    BY <2>6 DEF PartsDone, GoOn, textVars, TextTyped
  <2> QED BY <1>1, <2>1, <2>2, <2>3, <2>4, <2>5, <2>6 DEF TextNext
<1>2. CASE FrameStep /\ UNCHANGED textVars
  BY <1>0, <1>2, RowsKept DEF TextTyped, textVars
<1>3. CASE kind \notin TextKinds /\ UNCHANGED textVars
  BY <1>0, <1>3 DEF TextTyped, textVars
<1>4. CASE UNCHANGED vars
  BY <1>4 DEF TextTyped, vars, frameVars, textVars
<1> QED BY <1>1, <1>2, <1>3, <1>4 DEF Next, Body, Frame, TextKinds

\* The types of all modules but file_value.
LEMMA TablesTyped ==
  FrameTyped /\ ProcessTyped /\ MountTyped /\ TextTyped =>
    ProcessTypeOK /\ MountTypeOK /\ ParsedTypeOK
<1> SUFFICES ASSUME FrameTyped, ProcessTyped, MountTyped, TextTyped
             PROVE  ProcessTypeOK /\ MountTypeOK /\ ParsedTypeOK
  OBVIOUS
<1>1. ProcessTypeOK
  <2>1. kind = "process_info" => Range(rows) \subseteq Pids \ Unreadable /\ Range(served) \subseteq Pids \ Unreadable
    BY RangeOfSeq DEF ProcessTyped, PidRows
  <2> QED BY <2>1 DEF ProcessTyped, ProcessTypeOK
<1>2. MountTypeOK
  <2> DEFINE R == [dev : Disks, path : Paths \cup {RootPath}, of : AllDevices]
  <2>1. kind = "filesystem_space" => Range(rows) \subseteq R /\ Range(served) \subseteq R
    <3> HIDE DEF R
    <3> SUFFICES ASSUME rows \in Seq(R), served \in Seq(R) PROVE Range(rows) \subseteq R /\ Range(served) \subseteq R
      BY DEF MountTyped, SpaceRows, R
    <3> QED BY RangeOfSeq
  <2> QED BY <2>1 DEF MountTyped, MountInv, MountTypeOK
<1>3. ParsedTypeOK
  <2>1. kind \in TextKinds => Range(rows) \subseteq PartRow /\ Range(served) \subseteq PartRow
    BY RangeOfSeq DEF TextTyped
  <2> QED BY <2>1 DEF TextTyped, ParsedTypeOK, PartRow
<1> QED BY <1>1, <1>2, <1>3

LEMMA TypedInit == Init => FrameTyped /\ ProcessTyped /\ TextTyped /\ (MountInv => MountTyped)
<1> SUFFICES ASSUME Init PROVE FrameTyped /\ ProcessTyped /\ TextTyped /\ (MountInv => MountTyped)
  OBVIOUS
<1>1. rows = <<>> /\ served = <<>> /\ stage = "wait"
  BY DEF Init, FrameInit
<1>2. FrameTyped
  BY <1>1 DEF Init, FrameTyped, Stages
<1>3. ProcessTyped
  BY <1>1 DEF Init, ProcessInit, ProcessTyped, PidRows
<1>4. TextTyped
  <2>1. text = <<>> /\ at = 1 /\ parser \in Parsers
    BY DEF Init, TextInit
  <2>2. text \in [1..0 -> Parts] /\ Len(text) = 0
    BY <2>1
  <2> QED BY <1>1, <2>1, <2>2, TextAssumption DEF TextTyped, Texts
<1>5. MountInv => MountTyped
  <2>1. Len(mounts) = 1 /\ seen = {} /\ shown = {}
    BY DEF Init, MountInit
  <2> QED BY <1>1, <2>1, MountAssumption DEF MountTyped, SpaceRows
<1> QED BY <1>2, <1>3, <1>4, <1>5

-----------------------------------------------------------------------------
(* The rows of a text that all fitted.                                         *)

\* The first n of the sequences s, put together; those of the rest of s.
Joined(f, s, n) ==
  /\ DOMAIN f = 1..n
  /\ \A i \in 1..n : f[i] = IF i = 1 THEN s[i] ELSE f[i - 1] \o s[i]

LEMMA JoinedIs ==
  ASSUME NEW f, NEW s, NEW n,
         f = [i \in 1..n |-> IF i = 1 THEN s[i] ELSE f[i - 1] \o s[i]]
  PROVE  Joined(f, s, n)
BY DEF Joined

LEMMA JoinedExists ==
  ASSUME NEW S, NEW s \in Seq(S)
  PROVE  \E f : f = [i \in 1..Len(s) |-> IF i = 1 THEN s[i] ELSE f[i - 1] \o s[i]]
<1> DEFINE T == {n \in Nat : ~\E f : f = [i \in 1..n |-> IF i = 1 THEN s[i] ELSE f[i - 1] \o s[i]]}
<1>1. T = {}
  <2> SUFFICES ASSUME T # {} PROVE FALSE
    OBVIOUS
  <2>1. PICK n \in T : \A m \in T : n <= m
    <3>1. T \subseteq Nat
      OBVIOUS
    <3> HIDE DEF T
    <3> QED BY <3>1, LeastOfSome
  <2>2. n \in Nat /\ ~\E f : f = [i \in 1..n |-> IF i = 1 THEN s[i] ELSE f[i - 1] \o s[i]]
    BY <2>1
  <2>3. n # 0
    <3> SUFFICES ASSUME n = 0 PROVE FALSE
      OBVIOUS
    <3> DEFINE f == [i \in 1..0 |-> s[i]]
    <3>1. f = [i \in 1..0 |-> IF i = 1 THEN s[i] ELSE f[i - 1] \o s[i]]
      OBVIOUS
    <3> QED BY <2>2, <3>1
  <2>4. PICK f : f = [i \in 1..(n - 1) |-> IF i = 1 THEN s[i] ELSE f[i - 1] \o s[i]]
    <3>1. n - 1 \in Nat /\ ~(n <= n - 1)
      BY <2>2, <2>3
    <3>2. n - 1 \notin T
      BY <2>1, <3>1
    <3> QED BY <3>1, <3>2
  <2>5. \A i \in 1..(n - 1) : f[i] = IF i = 1 THEN s[i] ELSE f[i - 1] \o s[i]
    BY <2>4, JoinedIs DEF Joined
  <2> DEFINE last == IF n = 1 THEN s[n] ELSE f[n - 1] \o s[n]
             g == [i \in 1..n |-> IF i = n THEN last ELSE f[i]]
  <2> HIDE DEF last
  <2>6. \A i \in 1..n : g[i] = IF i = n THEN last ELSE f[i]
    OBVIOUS
  <2> HIDE DEF g
  <2>7. \A i \in 1..n : g[i] = IF i = 1 THEN s[i] ELSE g[i - 1] \o s[i]
    <3> TAKE i \in 1..n
    <3>1. CASE i = n /\ i = 1
      BY <2>6, <3>1 DEF last
    <3>2. CASE i = n /\ i # 1
      <4>1. i - 1 \in 1..n /\ i - 1 # n
        BY <2>2, <3>2
      <4>2. g[i - 1] = f[n - 1]
        BY <2>6, <3>2, <4>1
      <4> QED BY <2>6, <3>2, <4>2 DEF last
    <3>3. CASE i # n
      <4>1. i \in 1..(n - 1) /\ (i # 1 => i - 1 \in 1..n /\ i - 1 # n)
        BY <2>2, <3>3
      <4>2. i # 1 => g[i - 1] = f[i - 1]
        BY <2>6, <4>1
      <4> QED BY <2>5, <2>6, <3>3, <4>1, <4>2
    <3> QED BY <3>1, <3>2, <3>3
  <2>8. g = [i \in 1..n |-> g[i]]
    BY DEF g
  <2>9. g = [i \in 1..n |-> IF i = 1 THEN s[i] ELSE g[i - 1] \o s[i]]
    BY <2>7, <2>8
  <2> QED BY <2>2, <2>9
<1>2. Len(s) \in Nat
  OBVIOUS
<1> QED BY <1>1, <1>2

\* What FlattenSeq computes with.
Flat(s) == CHOOSE f : f = [i \in 1..Len(s) |-> IF i = 1 THEN s[i] ELSE f[i - 1] \o s[i]]

LEMMA FlattenIs ==
  ASSUME NEW S, NEW s \in Seq(S)
  PROVE  /\ Joined(Flat(s), s, Len(s))
         /\ Len(s) > 0 => FlattenSeq(s) = Flat(s)[Len(s)]
         /\ Len(s) = 0 => FlattenSeq(s) = <<>>
<1>1. Flat(s) = [i \in 1..Len(s) |-> IF i = 1 THEN s[i] ELSE Flat(s)[i - 1] \o s[i]]
  BY JoinedExists DEF Flat
<1>2. Joined(Flat(s), s, Len(s))
  BY <1>1, JoinedIs
<1>3. Len(s) > 0 => FlattenSeq(s) = Flat(s)[Len(s)]
  BY DEF FlattenSeq, Flat
<1>4. Len(s) = 0 => FlattenSeq(s) = <<>>
  BY DEF FlattenSeq
<1> QED BY <1>2, <1>3, <1>4

\* The rows of each part, and those of the first n parts.
Pieces == [i \in DOMAIN text |-> RowsOf(i)]
UpTo(n) == IF n = 0 THEN <<>> ELSE Flat(Pieces)[n]

\* A part that does not end the update.
Fits(i) == text[i].fits \/ kind = "disk_utilization" \/ RowsOf(i) = <<>>

\* The loop has made the rows of the parts before the one it is at.
WholeTextInv ==
  kind \in TextKinds =>
    /\ stage = "update" => rows = <<>>
    /\ stage = "loop" => IF parser # "regex" THEN rows = <<>>
                         ELSE rows = UpTo(at - 1) /\ \A i \in 1..(at - 1) : Fits(i)
    /\ WholeText

\* The rows of the first parts, one part more.
LEMMA UpToNext ==
  ASSUME text \in Texts, NEW n \in 1..Len(text)
  PROVE  UpTo(n) = UpTo(n - 1) \o RowsOf(n)
<1>1. DOMAIN text = 1..Len(text) /\ Len(text) \in Nat
  BY TextsAre
<1>2. Pieces \in Seq({Pieces[i] : i \in 1..Len(text)}) /\ Len(Pieces) = Len(text)
  BY <1>1 DEF Pieces
<1>3. \A i \in 1..Len(text) : Flat(Pieces)[i] = IF i = 1 THEN Pieces[i] ELSE Flat(Pieces)[i - 1] \o Pieces[i]
  BY <1>2, FlattenIs DEF Joined
<1>4. Pieces[n] = RowsOf(n)
  BY <1>1 DEF Pieces
<1>5. CASE n = 1
  <2>1. RowsOf(n) \in Seq(PartRow)
    BY RowsOfTyped
  <2>2. UpTo(n) = RowsOf(n) /\ UpTo(n - 1) = <<>>
    BY <1>3, <1>4, <1>5 DEF UpTo
  <2> QED BY <2>1, <2>2, ConcatEmptySeq
<1>6. CASE n # 1
  <2>1. n \in Nat /\ n # 0 /\ n - 1 # 0
    BY <1>1, <1>6
  <2>2. UpTo(n) = Flat(Pieces)[n] /\ UpTo(n - 1) = Flat(Pieces)[n - 1]
    BY <2>1 DEF UpTo
  <2> QED BY <1>3, <1>4, <1>6, <2>2
<1> QED BY <1>5, <1>6

\* All the parts.
LEMMA UpToAll ==
  ASSUME text \in Texts
  PROVE  UpTo(Len(text)) = FlattenSeq([i \in DOMAIN text |-> RowsOf(i)])
<1>1. DOMAIN text = 1..Len(text) /\ Len(text) \in Nat
  BY TextsAre
<1>2. Pieces \in Seq({Pieces[i] : i \in 1..Len(text)}) /\ Len(Pieces) = Len(text)
  BY <1>1 DEF Pieces
<1>3. FlattenSeq(Pieces) = IF Len(text) = 0 THEN <<>> ELSE Flat(Pieces)[Len(text)]
  BY <1>1, <1>2, FlattenIs
<1> QED BY <1>3 DEF UpTo, Pieces

LEMMA WholeTextStep ==
  ASSUME TextTyped, WholeTextInv, [Next]_vars
  PROVE  WholeTextInv'
<1>0. kind' = kind
  BY KindFixed
<1>1. CASE kind \in TextKinds /\ TextNext
  <2>0. kind \in TextKinds /\ text \in Texts /\ Len(text) \in Nat /\ at \in 1..Len(text) + 1
    BY <1>1, TextsAre DEF TextTyped
  <2>1. CASE ReadText \/ ReadFails
    <3>1. /\ rows = <<>> /\ rows' = rows /\ at' = 1 /\ stage' \in {"loop", "raise"}
          /\ stage = "update"
      BY <2>0, <2>1 DEF ReadText, ReadFails, GoOn, WholeTextInv
    <3>2. UpTo(0)' = <<>> /\ at' - 1 = 0 /\ 1..(at' - 1) = {}
      BY <3>1 DEF UpTo
    <3>3. WholeText'
      BY <3>1 DEF WholeText
    <3>4. stage' = "loop" => rows' = UpTo(at - 1)' /\ \A i \in 1..(at' - 1) : Fits(i)'
      <4>1. UpTo(at - 1)' = <<>>
        BY <3>2 DEF UpTo
      <4> QED BY <3>1, <3>2, <4>1
    <3> QED BY <3>1, <3>3, <3>4 DEF WholeTextInv
  <2>2. CASE BadParser
    <3>1. /\ rows = <<>> /\ rows' = Append(rows, Default) /\ parser # "regex"
          /\ UNCHANGED <<parser, text, at>> /\ stage' \in {"return", "raise"}
      BY <2>0, <2>2 DEF BadParser, GoOn, Add, WholeTextInv, textVars
    <3>2. rows' = <<Default>>
      BY <3>1
    <3>3. WholeText'
      BY <3>1, <3>2 DEF WholeText, Default, Row
    <3> QED BY <3>1, <3>3 DEF WholeTextInv
  <2>3. CASE TakePart
    <3>1. /\ stage = "loop" /\ parser = "regex" /\ at <= Len(text) /\ Fits(at)
          /\ rows' = rows \o RowsOf(at) /\ at' = at + 1
          /\ UNCHANGED <<kind, stage, parser, text>>
      BY <2>3 DEF TakePart, Fits
    <3>2. rows = UpTo(at - 1) /\ \A i \in 1..(at - 1) : Fits(i)
      BY <2>0, <3>1 DEF WholeTextInv
    <3>3. rows' = UpTo(at)
      <4>1. at \in 1..Len(text)
        BY <2>0, <3>1
      <4>2. UpTo(at) = UpTo(at - 1) \o RowsOf(at)
        BY <2>0, <4>1, UpToNext
      <4> QED BY <3>1, <3>2, <4>2
    <3>4. /\ \A n : UpTo(n)' = UpTo(n') /\ \A i : Fits(i)' <=> Fits(i)
      BY <3>1 DEF UpTo, Pieces, RowsOf, Fits
    <3>5. at' - 1 = at /\ \A i \in 1..at : Fits(i)
      BY <2>0, <3>1, <3>2
    <3>6. WholeText'
      BY <3>1 DEF WholeText
    <3>7. UpTo(at - 1)' = UpTo(at)
      BY <3>1, <3>5 DEF UpTo, Pieces, RowsOf
    <3> QED BY <3>1, <3>3, <3>4, <3>5, <3>6, <3>7 DEF WholeTextInv
  <2>4. CASE Misfit
    <3>1. stage' = "raise"
      BY <2>4 DEF Misfit, GoOn
    <3> QED BY <3>1 DEF WholeTextInv, WholeText
  <2>5. CASE PartsDone
    <3>1. /\ stage = "loop" /\ parser = "regex" /\ at > Len(text) /\ stage' = "return"
          /\ UNCHANGED <<kind, rows, parser, text, at>>
      BY <2>5 DEF PartsDone, GoOn, textVars
    <3>2. at - 1 = Len(text)
      BY <2>0, <3>1
    <3>3. rows = UpTo(Len(text)) /\ \A i \in 1..Len(text) : Fits(i)
      BY <2>0, <3>1, <3>2 DEF WholeTextInv
    <3>4. rows = FlattenSeq([i \in DOMAIN text |-> RowsOf(i)]) /\ \A i \in DOMAIN text : Fits(i)
      BY <2>0, <3>3, UpToAll, TextsAre
    <3>5. WholeText'
      <4>1. [i \in DOMAIN text |-> RowsOf(i)]' = [i \in DOMAIN text |-> RowsOf(i)]
        BY <3>1 DEF RowsOf
      <4>2. \A i : Fits(i)' <=> Fits(i)
        BY <3>1 DEF Fits, RowsOf
      <4>3. \A i \in DOMAIN text' : (text[i].fits \/ kind = "disk_utilization" \/ RowsOf(i) = <<>>)'
        BY <3>1, <3>4, <4>2 DEF Fits
      <4> QED BY <3>1, <3>4, <4>1, <4>3 DEF WholeText
    <3> QED BY <3>1, <3>5 DEF WholeTextInv
  <2> QED BY <1>1, <2>1, <2>2, <2>3, <2>4, <2>5 DEF TextNext
<1>2. CASE FrameStep /\ UNCHANGED textVars
  <2>1. stage' \in {"update", "wait"} /\ (stage' = "update" => rows' = <<>>)
    BY <1>2 DEF FrameStep, Begin, Clear, Raise, Commit
  <2> QED BY <2>1 DEF WholeTextInv, WholeText
<1>3. CASE kind \notin TextKinds
  BY <1>0, <1>3 DEF WholeTextInv
<1>4. CASE UNCHANGED vars
  <2>1. UNCHANGED <<kind, stage, rows, parser, text, at>>
    BY <1>4 DEF vars, frameVars, textVars
  <2>2. UpTo(at - 1)' = UpTo(at - 1) /\ \A i : Fits(i)' <=> Fits(i)
    BY <2>1 DEF UpTo, Pieces, RowsOf, Fits
  <2>3. WholeText => WholeText'
    BY <2>1 DEF WholeText, RowsOf
  <2> QED BY <2>1, <2>2, <2>3 DEF WholeTextInv
<1> QED BY <1>1, <1>2, <1>3, <1>4 DEF Next, Body, Frame, TextKinds

\* What an update that returns has made is the rows of the whole text, one part after
\* the other, and all of it fitted.
THEOREM TextsWhole == Spec => []WholeText
<1>1. Init => TextTyped /\ WholeTextInv
  <2> SUFFICES ASSUME Init PROVE TextTyped /\ WholeTextInv
    OBVIOUS
  <2>1. stage = "wait"
    BY DEF Init, FrameInit
  <2> QED BY <2>1, TypedInit DEF WholeTextInv, WholeText
<1>2. TextTyped /\ WholeTextInv /\ [Next]_vars => (TextTyped /\ WholeTextInv)'
  BY TextTypedStep, WholeTextStep
<1>3. WholeTextInv => WholeText
  BY DEF WholeTextInv, WholeText
<1> QED BY <1>1, <1>2, <1>3, PTL DEF Spec
=============================================================================
