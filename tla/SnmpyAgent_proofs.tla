-------------------------- MODULE SnmpyAgent_proofs --------------------------
(***************************************************************************)
(* Proofs about SnmpyAgent: its type invariant, that the rows an answer is *)
(* gathered from stay in the table (CursorValid), that between two commits *)
(* a table is the last collection (Published), and that the agent          *)
(* implements TableService.  All of them follow from the inductive         *)
(* invariant IInv, whose parts say who holds the lock, how far a           *)
(* replacement is, and what snmp_read has gathered.                        *)
(***************************************************************************)
EXTENDS SnmpyAgent, TLAPS

\* A thread in a critical section is the holder of the lock.
LockInv ==
  /\ main \in {"read", "store"} => lock = Main
  /\ \A t \in TableMods : Writing(t) => lock = t

\* How far the replacement of t is.
Progress(t) ==
  /\ fetch[t] \in {"off", "boot", "commit", "clear", "append"} => rows[t] = latest[t]
  /\ fetch[t] \in {"off", "boot"} => table[t] = <<>>
  /\ fetch[t] \in {"off", "boot"} /\ t \notin Retained => latest[t] = <<>>
  /\ fetch[t] = "commit" => table[t] \in RowSeqs
  /\ fetch[t] = "clear" => index[t] = 0 /\ pos[t] = 0
  /\ fetch[t] = "append" => /\ index[t] = pos[t] /\ pos[t] <= Len(rows[t])
                            /\ DOMAIN table[t] = 1..pos[t]
                            /\ \A i \in 1..pos[t] : table[t][i] = rows[t][i]
  /\ fetch[t] \in {"loop", "collect", "period", "ended"} => table[t] = latest[t]

ProgressInv == \A t \in TableMods : Progress(t)

\* What snmp_read has gathered is the rows of the table up to some index.
CursorInv ==
  /\ main \notin {"read", "exited"} => got = <<>>
  /\ main = "read" /\ request \notin TableMods => got = <<>>
  /\ main = "read" /\ request \in TableMods =>
       \A j \in DOMAIN got, i \in DOMAIN table[request] : i <= j => i \in DOMAIN got

\* set_value is never half done past the last item.
SizeInv == \A v \in ValueMods : fetch[v] = "size" => item[v] \in Items(v)

IInv == TypeOK /\ SizeInv /\ LockInv /\ ProgressInv /\ CursorInv /\ CursorValid

-----------------------------------------------------------------------------
USE DEF Plugins, Values, Queries, Running, Writing, Goto, MainPlaces,
        TablePlaces, ValuePlaces

\* The variables by group, for the actions that leave a group alone.
LEMMA Groups ==
  ASSUME TRUE
  PROVE  vars' = vars <=>
           /\ UNCHANGED <<main, done, tripped, httpd, lock, fetch, booting>>
           /\ UNCHANGED <<rows, table, index, pos, latest>>
           /\ UNCHANGED <<vals, wire, item, request, got, answer>>
BY DEF vars, mainVars, tableVars, valueVars, queryVars

\* Putting a row where the index is free, or leaving one out, gives rows again.
LEMMA TableUpdate ==
  ASSUME NEW f, IsTable(f), NEW i \in Nat \ {0}, NEW r \in RowData
  PROVE  /\ IsTable(AddRow(f, i, r))
         /\ IsTable([j \in DOMAIN f \ {i} |-> f[j]])
         /\ IsTable([j \in DOMAIN f \cup {i} |-> IF j = i THEN r ELSE f[j]])
BY DEF IsTable, AddRow

\* A row list is a set of rows, with the indexes from 1.
LEMMA RowsAreTable ==
  ASSUME NEW s \in RowSeqs
  PROVE  IsTable(s) /\ DOMAIN s = 1..Len(s) /\ Len(s) \in Nat
BY RowAssumption DEF IsTable

LEMMA EmptyTable == IsTable(<<>>) /\ DOMAIN <<>> = {} /\ <<>> \in RowSeqs
BY RowAssumption, RowsAreTable

LEMMA InitIInv == Init => IInv
<1> SUFFICES ASSUME Init PROVE IInv
  OBVIOUS
<1> USE EmptyTable, PluginAssumption, HolderAssumption, ValueAssumption
<1>1. ThreadTypeOK
  BY DEF Init, ThreadTypeOK
<1>2. TableTypeOK
  BY DEF Init, TableTypeOK
<1>3. ValueTypeOK
  <2>1. Whole(Blank) \in [data : Text \cup {Blank}, size : Text \cup {Blank}]
    BY DEF Whole
  <2>2. wire \in PerItem([data : Text \cup {Blank}, size : Text \cup {Blank}])
    BY <2>1 DEF Init, PerItem
  <2>3. \A v \in ValueMods : item[v] = 1 /\ 1 \in 1..(NumItems[v] + 1)
    BY PluginAssumption DEF Init
  <2> QED
    BY <2>2, <2>3 DEF Init, ValueTypeOK
<1>4. QueryTypeOK
  BY DEF Init, QueryTypeOK
<1>5. SizeInv /\ LockInv /\ ProgressInv
  BY DEF Init, SizeInv, LockInv, ProgressInv, Progress
<1>6. CursorInv /\ CursorValid
  BY DEF Init, CursorInv, CursorValid
<1> QED BY <1>1, <1>2, <1>3, <1>4, <1>5, <1>6 DEF IInv, TypeOK

-----------------------------------------------------------------------------
(* What a step can change.                                                  *)

\* The steps that a table can see.
TableChange(t) == \/ CollectRows(t) \/ CollectFails(t)
                  \/ BeginReplace(t) \/ ClearRow(t) \/ AppendRow(t)

LEMMA NextTables ==
  ASSUME Next
  PROVE  UNCHANGED <<rows, table, index, pos, latest>> \/ \E t \in TableMods : TableChange(t)
<1> USE DEF tableVars, TableChange
<1>1. CASE MainStep
  BY <1>1 DEF MainStep, Register, InstallHandlers, StartSubagent, LoopTest, EnterSelect,
     SelectReady, SelectTimeout, AcquireRead, ReadRow, FinishRead, AcquireStore, Store
<1>2. CASE Signal \/ HandleSignal \/ HttpdExit \/ \E q \in Queries : Request(q)
  BY <1>2 DEF Signal, HandleSignal, HttpdExit, Request
<1>3. CASE \E p \in Plugins : ThreadStep(p)
  BY <1>3 DEF ThreadStep, BeginFetch, FetchTest, CollectFails, Period
<1>4. CASE \E t \in TableMods : TableStep(t)
  BY <1>4 DEF TableStep, ClearDone, FinishReplace
<1>5. CASE \E v \in ValueMods : ValueStep(v)
  BY <1>5 DEF ValueStep, CollectItems, SkipItem, SetData, SetSize, RejectItem, FinishItems
<1>6. CASE (\E v \in Tailed : TailLine(v)) \/ Terminated
  BY <1>6, Groups DEF TailLine, Terminated
<1> QED
  BY <1>1, <1>2, <1>3, <1>4, <1>5, <1>6 DEF Next

\* The steps that a value plugin's items can see.
ValueChange(v) == \/ Register(v) \/ CollectItems(v) \/ CollectFails(v)
                  \/ SkipItem(v) \/ SetData(v) \/ SetSize(v)
                  \/ RejectItem(v) \/ FinishItems(v) \/ TailLine(v)

LEMMA NextValues ==
  ASSUME Next
  PROVE  UNCHANGED <<vals, wire, item>> \/ \E v \in ValueMods : ValueChange(v)
<1> USE PluginAssumption DEF valueVars, ValueChange
<1>1. CASE MainStep
  BY <1>1 DEF MainStep, Register, InstallHandlers, StartSubagent, LoopTest, EnterSelect,
     SelectReady, SelectTimeout, AcquireRead, ReadRow, FinishRead, AcquireStore, Store
<1>2. CASE Signal \/ HandleSignal \/ HttpdExit \/ \E q \in Queries : Request(q)
  BY <1>2 DEF Signal, HandleSignal, HttpdExit, Request
<1>3. CASE \E p \in Plugins : ThreadStep(p)
  BY <1>3 DEF ThreadStep, BeginFetch, FetchTest, CollectFails, Period
<1>4. CASE \E t \in TableMods : TableStep(t)
  BY <1>4 DEF TableStep, CollectRows, BeginReplace, ClearRow, ClearDone, AppendRow, FinishReplace
<1>5. CASE \E v \in ValueMods : ValueStep(v)
  BY <1>5 DEF ValueStep
<1>6. CASE (\E v \in Tailed : TailLine(v)) \/ Terminated
  BY <1>6, Groups DEF Terminated
<1> QED
  BY <1>1, <1>2, <1>3, <1>4, <1>5, <1>6 DEF Next

-----------------------------------------------------------------------------
(* Types.                                                                   *)

LEMMA ThreadTypeStep ==
  ASSUME TypeOK, Next
  PROVE  ThreadTypeOK'
<1> USE PluginAssumption, HolderAssumption DEF TypeOK, ThreadTypeOK
<1>1. CASE MainStep
  BY <1>1 DEF MainStep, Register, InstallHandlers, StartSubagent, LoopTest, EnterSelect,
     SelectReady, SelectTimeout, AcquireRead, ReadRow, FinishRead, AcquireStore, Store, mainVars
<1>2. CASE Signal \/ HandleSignal \/ HttpdExit \/ \E q \in Queries : Request(q)
  BY <1>2 DEF Signal, HandleSignal, HttpdExit, Request, mainVars
<1>3. CASE \E p \in Plugins : ThreadStep(p)
  BY <1>3 DEF ThreadStep, BeginFetch, FetchTest, CollectFails, Period, CommitPlace, mainVars
<1>4. CASE \E t \in TableMods : TableStep(t)
  BY <1>4 DEF TableStep, CollectRows, BeginReplace, ClearRow, ClearDone, AppendRow,
     FinishReplace, AfterCommit, mainVars
<1>5. CASE \E v \in ValueMods : ValueStep(v)
  BY <1>5 DEF ValueStep, CollectItems, SkipItem, SetData, SetSize, RejectItem, FinishItems,
     AfterCommit, AtItem, mainVars
<1>6. CASE (\E v \in Tailed : TailLine(v)) \/ Terminated
  BY <1>6, Groups DEF TailLine, Terminated, mainVars
<1> QED
  BY <1>1, <1>2, <1>3, <1>4, <1>5, <1>6 DEF Next

LEMMA TableTypeStep ==
  ASSUME TypeOK, LockInv, ProgressInv, Next
  PROVE  TableTypeOK'
<1> USE DEF TypeOK, TableTypeOK
<1>1. CASE UNCHANGED <<rows, table, index, pos, latest>>
  BY <1>1
<1>2. ASSUME NEW t \in TableMods, CollectRows(t) \/ CollectFails(t) \/ BeginReplace(t)
      PROVE  TableTypeOK'
  <2>1. CASE CollectRows(t)
    BY <2>1 DEF CollectRows
  <2>2. CASE CollectFails(t)
    BY <2>2, PluginAssumption DEF CollectFails
  <2>3. CASE BeginReplace(t)
    BY <2>3 DEF BeginReplace
  <2> QED
    BY <1>2, <2>1, <2>2, <2>3
<1>3. ASSUME NEW t \in TableMods, ClearRow(t)
      PROVE  TableTypeOK'
  <2>1. \A i \in DOMAIN table[t] : i \in Nat \ {0} /\ table[t][i] \in RowData
    BY DEF IsTable
  <2>2. \A i \in DOMAIN table[t] : IsTable([j \in DOMAIN table[t] \ {i} |-> table[t][j]])
    BY <2>1, TableUpdate
  <2> QED
    BY <1>3, <2>2 DEF ClearRow
<1>4. ASSUME NEW t \in TableMods, AppendRow(t)
      PROVE  TableTypeOK'
  <2>1. rows[t] \in Seq(RowData) /\ pos[t] + 1 \in 1..Len(rows[t])
    BY <1>4, RowAssumption DEF AppendRow
  <2>2. rows[t][pos[t] + 1] \in RowData
    BY <2>1
  <2>3. index[t] + 1 \in Nat \ {0} /\ IsTable(table[t])
    OBVIOUS
  <2>4. IsTable(AddRow(table[t], index[t] + 1, rows[t][pos[t] + 1]))
    BY <2>2, <2>3, TableUpdate
  <2> QED
    BY <1>4, <2>4 DEF AppendRow
<1> QED
  BY <1>1, <1>2, <1>3, <1>4, NextTables DEF TableChange

\* The items of one ValueModule replaced, all of them or one.
LEMMA PerItemMap ==
  ASSUME NEW S, NEW f \in PerItem(S), NEW v \in ValueMods, NEW g \in [Items(v) -> S]
  PROVE  [f EXCEPT ![v] = g] \in PerItem(S)
BY DEF PerItem

LEMMA PerItemUpdate ==
  ASSUME NEW S, NEW f \in PerItem(S), NEW v \in ValueMods, NEW i \in Items(v), NEW x \in S
  PROVE  [f EXCEPT ![v][i] = x] \in PerItem(S)
<1>1. [f[v] EXCEPT ![i] = x] \in [Items(v) -> S]
  BY DEF PerItem
<1> QED
  BY <1>1, PerItemMap

\* What commit_data is at before it is past the last item is an item.
LEMMA AtAnItem ==
  ASSUME ValueTypeOK, NEW v \in ValueMods, AtItem(v)
  PROVE  item[v] \in Items(v)
BY PluginAssumption DEF ValueTypeOK, AtItem, Items

LEMMA ValueTypeStep ==
  ASSUME TypeOK, SizeInv, Next
  PROVE  ValueTypeOK'
<1> USE PluginAssumption DEF TypeOK, ValueTypeOK, valueVars
<1>1. CASE UNCHANGED <<vals, wire, item>>
  BY <1>1
<1>2. ASSUME NEW v \in ValueMods, Register(v)
      PROVE  ValueTypeOK'
  <2>1. CASE UNCHANGED wire
    BY <1>2, <2>1 DEF Register
  <2>2. CASE \A i \in Items(v) : vals[v][i] # Unfit
    <3> DEFINE start(i) == Whole(IF vals[v][i] = NoValue THEN Blank ELSE vals[v][i])
    <3>1. \A i \in Items(v) : start(i) \in [data : Text \cup {Blank}, size : Text \cup {Blank}]
      BY <2>2 DEF Whole, PerItem
    <3>2. [i \in Items(v) |-> start(i)]
            \in [Items(v) -> [data : Text \cup {Blank}, size : Text \cup {Blank}]]
      BY <3>1
    <3>3. wire' = [wire EXCEPT ![v] = [i \in Items(v) |-> start(i)]] /\ UNCHANGED <<vals, item>>
      BY <1>2, <2>2 DEF Register
    <3> QED
      BY <3>2, <3>3, PerItemMap
  <2> QED
    BY <1>2, <2>1, <2>2 DEF Register
<1>3. ASSUME NEW v \in ValueMods, CollectItems(v) \/ CollectFails(v) \/ TailLine(v)
      PROVE  ValueTypeOK'
  <2>1. UNCHANGED <<wire, item>>
    BY <1>3 DEF CollectItems, CollectFails, TailLine
  <2>2. CASE CollectItems(v)
    <3>1. PICK new \in [Items(v) -> Values] : vals' = [vals EXCEPT ![v] = new]
      BY <2>2 DEF CollectItems
    <3> QED
      BY <2>1, <3>1, PerItemMap
  <2>3. CASE CollectFails(v)
    <3>1. CASE vals' = vals
      BY <2>1, <3>1
    <3>2. ASSUME NEW new \in [Items(v) -> Values], vals' = [vals EXCEPT ![v] = new]
          PROVE  ValueTypeOK'
      BY <2>1, <3>2, PerItemMap
    <3>3. CASE v \in TableMods
      BY <1>3, <3>3, PluginAssumption
    <3> QED
      BY <2>3, <3>1, <3>2, <3>3, Zenon DEF CollectFails
  <2>4. CASE TailLine(v)
    <3>1. PICK i \in Items(v), new \in Text \cup {Unfit} : vals' = [vals EXCEPT ![v][i] = new]
      BY <2>4 DEF TailLine
    <3> QED
      BY <2>1, <3>1, PerItemUpdate
  <2> QED
    BY <1>3, <2>2, <2>3, <2>4
<1>4. ASSUME NEW v \in ValueMods, SkipItem(v) \/ RejectItem(v) \/ FinishItems(v)
      PROVE  ValueTypeOK'
  <2>1. CASE SkipItem(v)
    BY <2>1 DEF SkipItem, AtItem
  <2>2. CASE RejectItem(v)
    BY <2>2 DEF RejectItem
  <2>3. CASE FinishItems(v)
    BY <2>3 DEF FinishItems
  <2> QED
    BY <1>4, <2>1, <2>2, <2>3
<1>5. ASSUME NEW v \in ValueMods, SetData(v)
      PROVE  ValueTypeOK'
  <2>1. item[v] \in Items(v) /\ vals[v][item[v]] \in Text
    BY <1>5, AtAnItem DEF SetData, PerItem
  <2>2. wire[v][item[v]] \in [data : Text \cup {Blank}, size : Text \cup {Blank}]
    BY <2>1 DEF PerItem
  <2>3. [data |-> vals[v][item[v]], size |-> wire[v][item[v]].size]
          \in [data : Text \cup {Blank}, size : Text \cup {Blank}]
    BY <2>1, <2>2
  <2>4. wire' = [wire EXCEPT ![v][item[v]] =
                   [data |-> vals[v][item[v]], size |-> wire[v][item[v]].size]]
    BY <1>5, <2>1 DEF SetData, PerItem
  <2>5. wire' \in PerItem([data : Text \cup {Blank}, size : Text \cup {Blank}])
    BY <2>1, <2>3, <2>4, PerItemUpdate
  <2> QED
    BY <1>5, <2>5 DEF SetData
<1>6. ASSUME NEW v \in ValueMods, SetSize(v)
      PROVE  ValueTypeOK'
  <2>1. item[v] \in Items(v)
    BY <1>6 DEF SetSize, SizeInv
  <2>2. wire[v][item[v]] \in [data : Text \cup {Blank}, size : Text \cup {Blank}]
    BY <2>1 DEF PerItem
  <2>3. Whole(wire[v][item[v]].data) \in [data : Text \cup {Blank}, size : Text \cup {Blank}]
    BY <2>2 DEF Whole
  <2>4. wire' = [wire EXCEPT ![v][item[v]] = Whole(wire[v][item[v]].data)]
    BY <1>6, <2>1 DEF SetSize, PerItem
  <2>5. wire' \in PerItem([data : Text \cup {Blank}, size : Text \cup {Blank}])
    BY <2>1, <2>3, <2>4, PerItemUpdate
  <2>6. item' = [item EXCEPT ![v] = item[v] + 1] /\ item[v] + 1 \in 1..(NumItems[v] + 1)
    BY <1>6, <2>1 DEF SetSize, Items
  <2> QED
    BY <1>6, <2>5, <2>6 DEF SetSize
<1> QED
  BY <1>1, <1>2, <1>3, <1>4, <1>5, <1>6, NextValues DEF ValueChange

LEMMA SizeStep ==
  ASSUME TypeOK, SizeInv, Next
  PROVE  SizeInv'
<1> USE PluginAssumption DEF TypeOK, ThreadTypeOK, ValueTypeOK, SizeInv, valueVars
<1>1. CASE MainStep
  BY <1>1 DEF MainStep, Register, InstallHandlers, StartSubagent, LoopTest, EnterSelect,
     SelectReady, SelectTimeout, AcquireRead, ReadRow, FinishRead, AcquireStore, Store
<1>2. CASE Signal \/ HandleSignal \/ HttpdExit \/ \E q \in Queries : Request(q)
  BY <1>2 DEF Signal, HandleSignal, HttpdExit, Request
<1>3. CASE \E p \in Plugins : ThreadStep(p)
  BY <1>3 DEF ThreadStep, BeginFetch, FetchTest, CollectFails, Period, CommitPlace
<1>4. CASE \E t \in TableMods : TableStep(t)
  BY <1>4 DEF TableStep, CollectRows, BeginReplace, ClearRow, ClearDone, AppendRow,
     FinishReplace, AfterCommit
<1>5. CASE \E v \in ValueMods : ValueStep(v)
  <2>1. PICK v \in ValueMods : ValueStep(v)
    BY <1>5
  <2>2. CASE SetData(v)
    <3>1. AtItem(v)
      BY <2>2 DEF SetData
    <3>2. item[v] \in Items(v)
      BY <3>1, AtAnItem
    <3> QED
      BY <2>2, <3>2 DEF SetData
  <2>3. CASE ~SetData(v)
    BY <2>1, <2>3 DEF ValueStep, CollectItems, SkipItem, SetSize, RejectItem, FinishItems,
       AfterCommit, AtItem
  <2> QED
    BY <2>2, <2>3
<1>6. CASE (\E v \in Tailed : TailLine(v)) \/ Terminated
  BY <1>6, Groups DEF TailLine, Terminated
<1> QED
  BY <1>1, <1>2, <1>3, <1>4, <1>5, <1>6 DEF Next

LEMMA LockStep ==
  ASSUME TypeOK, LockInv, Next
  PROVE  LockInv'
<1> USE PluginAssumption, HolderAssumption DEF TypeOK, ThreadTypeOK, LockInv
<1>1. CASE MainStep
  BY <1>1 DEF MainStep, Register, InstallHandlers, StartSubagent, LoopTest, EnterSelect,
     SelectReady, SelectTimeout, AcquireRead, ReadRow, FinishRead, AcquireStore, Store, mainVars
<1>2. CASE Signal \/ HandleSignal \/ HttpdExit \/ \E q \in Queries : Request(q)
  BY <1>2 DEF Signal, HandleSignal, HttpdExit, Request, mainVars
<1>3. CASE \E p \in Plugins : ThreadStep(p)
  BY <1>3 DEF ThreadStep, BeginFetch, FetchTest, CollectFails, Period, CommitPlace, mainVars
<1>4. CASE \E t \in TableMods : TableStep(t)
  BY <1>4 DEF TableStep, CollectRows, BeginReplace, ClearRow, ClearDone, AppendRow,
     FinishReplace, AfterCommit, mainVars
<1>5. CASE \E v \in ValueMods : ValueStep(v)
  BY <1>5 DEF ValueStep, CollectItems, SkipItem, SetData, SetSize, RejectItem, FinishItems,
     AfterCommit, AtItem, mainVars
<1>6. CASE (\E v \in Tailed : TailLine(v)) \/ Terminated
  BY <1>6, Groups DEF TailLine, Terminated, mainVars
<1> QED
  BY <1>1, <1>2, <1>3, <1>4, <1>5, <1>6 DEF Next

-----------------------------------------------------------------------------
(* How far a replacement is, and what is served between two.                *)

\* All that Progress(t) speaks of.
TableState(t) == <<fetch[t], rows[t], table[t], index[t], pos[t], latest[t]>>

LEMMA Untouched ==
  ASSUME NEW t \in TableMods, Progress(t), TableState(t)' = TableState(t)
  PROVE  Progress(t)'
BY DEF Progress, TableState

\* A table is changed by a step of its own thread only.
LEMMA OwnThread ==
  ASSUME TypeOK, Next, NEW t \in TableMods
  PROVE  \/ TableState(t)' = TableState(t)
         \/ Register(t) \/ ThreadStep(t) \/ TableStep(t)
<1> USE PluginAssumption DEF TypeOK, ThreadTypeOK, TableTypeOK, TableState, tableVars
<1>1. CASE MainStep
  BY <1>1 DEF MainStep, Register, InstallHandlers, StartSubagent, LoopTest, EnterSelect,
     SelectReady, SelectTimeout, AcquireRead, ReadRow, FinishRead, AcquireStore, Store
<1>2. CASE Signal \/ HandleSignal \/ HttpdExit \/ \E q \in Queries : Request(q)
  BY <1>2 DEF Signal, HandleSignal, HttpdExit, Request
<1>3. CASE \E p \in Plugins : ThreadStep(p)
  <2>1. PICK p \in Plugins : ThreadStep(p)
    BY <1>3
  <2>2. p # t => TableState(t)' = TableState(t)
    BY <2>1 DEF ThreadStep, BeginFetch, FetchTest, CollectFails, Period
  <2> QED
    BY <2>1, <2>2
<1>4. CASE \E u \in TableMods : TableStep(u)
  <2>1. PICK u \in TableMods : TableStep(u)
    BY <1>4
  <2>2. u # t => TableState(t)' = TableState(t)
    BY <2>1 DEF TableStep, CollectRows, BeginReplace, ClearRow, ClearDone, AppendRow,
       FinishReplace
  <2> QED
    BY <2>1, <2>2
<1>5. CASE \E v \in ValueMods : ValueStep(v)
  BY <1>5 DEF ValueStep, CollectItems, SkipItem, SetData, SetSize, RejectItem, FinishItems
<1>6. CASE (\E v \in Tailed : TailLine(v)) \/ Terminated
  BY <1>6, Groups DEF TailLine, Terminated
<1> QED
  BY <1>1, <1>2, <1>3, <1>4, <1>5, <1>6 DEF Next

\* Two tables of the same indices and rows are one.
LEMMA SameRows ==
  ASSUME NEW f, NEW g, IsTable(f), IsTable(g), DOMAIN f = DOMAIN g,
         \A i \in DOMAIN f : f[i] = g[i]
  PROVE  f = g
BY DEF IsTable

LEMMA ProgressStep ==
  ASSUME TypeOK, ProgressInv, Next
  PROVE  ProgressInv'
<1> SUFFICES ASSUME NEW t \in TableMods
             PROVE  Progress(t)'
  BY DEF ProgressInv
<1>0. Progress(t) /\ fetch[t] \in TablePlaces /\ t \in Plugins /\ t \notin ValueMods
  BY PluginAssumption DEF ProgressInv, TypeOK, ThreadTypeOK
<1> USE <1>0 DEF TypeOK, ThreadTypeOK, TableTypeOK, tableVars
<1>1. CASE TableState(t)' = TableState(t)
  BY <1>1, Untouched
<1>2. CASE Register(t)
  BY <1>2 DEF Register, Progress
<1>3. CASE BeginFetch(t)
  <2>1. /\ table[t] = <<>> /\ rows[t] = latest[t] /\ (t \notin Retained => latest[t] = <<>>)
        /\ UNCHANGED <<rows, table, index, pos, latest>>
    BY <1>3 DEF BeginFetch, Progress
  <2>2. fetch'[t] = IF t \in Retained THEN "commit" ELSE "loop"
    BY <1>3 DEF BeginFetch, CommitPlace
  <2>3. CASE t \in Retained
    BY <2>1, <2>2, <2>3, EmptyTable DEF Progress
  <2>4. CASE t \notin Retained
    BY <2>1, <2>2, <2>4 DEF Progress
  <2> QED
    BY <2>3, <2>4
<1>4. CASE FetchTest(t) \/ Period(t)
  BY <1>4 DEF FetchTest, Period, Progress
<1>5. CASE CollectFails(t)
  BY <1>5 DEF CollectFails, Progress
<1>6. CASE CollectRows(t)
  BY <1>6 DEF CollectRows, Progress, Published
<1>7. CASE BeginReplace(t)
  BY <1>7 DEF BeginReplace, Progress
<1>8. CASE ClearRow(t)
  BY <1>8 DEF ClearRow, Progress
<1>9. CASE ClearDone(t)
  <2>1. /\ index[t] = 0 /\ pos[t] = 0 /\ rows[t] = latest[t] /\ DOMAIN table[t] = {}
        /\ fetch'[t] = "append" /\ UNCHANGED <<rows, table, index, pos, latest>>
    BY <1>9 DEF ClearDone, Progress
  <2>2. Len(rows[t]) \in Nat
    BY RowsAreTable
  <2>3. DOMAIN table'[t] = 1..0 /\ pos'[t] <= Len(rows'[t])
    BY <2>1, <2>2
  <2>4. \A i \in 1..pos'[t] : table'[t][i] = rows'[t][i]
    BY <2>1
  <2> QED
    BY <2>1, <2>3, <2>4 DEF Progress
<1>10. CASE AppendRow(t)
  <2>1. /\ index'[t] = index[t] + 1 /\ pos'[t] = pos[t] + 1
        /\ table'[t] = AddRow(table[t], pos[t] + 1, rows[t][pos[t] + 1])
        /\ pos[t] + 1 <= Len(rows[t]) /\ DOMAIN table[t] = 1..pos[t] /\ index[t] = pos[t]
        /\ \A i \in 1..pos[t] : table[t][i] = rows[t][i]
        /\ fetch[t] = "append" /\ rows[t] = latest[t] /\ UNCHANGED <<fetch, rows, latest>>
    BY <1>10, RowsAreTable DEF AppendRow, Progress
  <2>2. /\ DOMAIN table'[t] = 1..pos'[t]
        /\ \A i \in 1..pos'[t] : table'[t][i] = rows[t][i]
    BY <2>1 DEF AddRow
  <2> QED
    BY <2>1, <2>2 DEF Progress
<1>11. CASE FinishReplace(t)
  <2>1. /\ pos[t] = Len(rows[t]) /\ DOMAIN table[t] = 1..pos[t] /\ rows[t] = latest[t]
        /\ \A i \in 1..pos[t] : table[t][i] = rows[t][i]
    BY <1>11 DEF FinishReplace, Progress
  <2>2. IsTable(table[t]) /\ IsTable(rows[t]) /\ DOMAIN rows[t] = 1..Len(rows[t])
    BY RowsAreTable
  <2>3. table[t] = latest[t]
    BY ONLY <2>1, <2>2, SameRows
  <2>4. /\ fetch'[t] \in {"loop", "period"}
        /\ UNCHANGED <<rows, table, index, pos, latest>>
    BY <1>11 DEF FinishReplace, AfterCommit
  <2> QED
    BY <2>3, <2>4 DEF Progress
<1> QED
  BY <1>1, <1>2, <1>3, <1>4, <1>5, <1>6, <1>7, <1>8, <1>9, <1>10, <1>11, OwnThread
     DEF ThreadStep, TableStep

-----------------------------------------------------------------------------
(* What snmp_read has gathered.                                             *)

\* Only some steps of the main thread gather rows or make it read.
LEMMA NextQueries ==
  ASSUME Next
  PROVE  \/ /\ UNCHANGED <<request, got, answer>>
            /\ \/ main' = main \/ main' = "exited"
               \/ main \notin {"read", "exited"} /\ main' # "read"
         \/ AcquireRead \/ ReadRow \/ FinishRead
         \/ \E q \in Queries : Request(q)
<1> USE DEF mainVars, queryVars
<1>1. CASE MainStep
  BY <1>1 DEF MainStep, Register, InstallHandlers, StartSubagent, LoopTest, EnterSelect,
     SelectReady, SelectTimeout, AcquireStore, Store
<1>2. CASE Signal \/ HandleSignal \/ HttpdExit \/ \E q \in Queries : Request(q)
  BY <1>2 DEF Signal, HandleSignal, HttpdExit
<1>3. CASE \E p \in Plugins : ThreadStep(p)
  BY <1>3 DEF ThreadStep, BeginFetch, FetchTest, CollectFails, Period
<1>4. CASE \E t \in TableMods : TableStep(t)
  BY <1>4 DEF TableStep, CollectRows, BeginReplace, ClearRow, ClearDone, AppendRow, FinishReplace
<1>5. CASE \E v \in ValueMods : ValueStep(v)
  BY <1>5 DEF ValueStep, CollectItems, SkipItem, SetData, SetSize, RejectItem, FinishItems
<1>6. CASE (\E v \in Tailed : TailLine(v)) \/ Terminated
  BY <1>6, Groups DEF TailLine, Terminated
<1> QED
  BY <1>1, <1>2, <1>3, <1>4, <1>5, <1>6 DEF Next

\* No table is written while the main thread reads, because both hold the lock.
LEMMA NoWriterWhileReading ==
  ASSUME TypeOK, LockInv, main = "read"
  PROVE  \A t \in TableMods : ~Writing(t)
BY PluginAssumption, HolderAssumption DEF LockInv

\* The rows of a table change in the two loops of replace_table only.
LEMMA TableKept ==
  ASSUME TypeOK, Next, NEW t \in TableMods, ~Writing(t)
  PROVE  table'[t] = table[t]
<1>1. ASSUME NEW u \in TableMods, TableChange(u)
      PROVE  table'[t] = table[t]
  BY <1>1 DEF TableChange, CollectRows, CollectFails, BeginReplace, ClearRow, AppendRow,
     TypeOK, TableTypeOK
<1> QED
  BY <1>1, NextTables

LEMMA CursorStep ==
  ASSUME TypeOK, LockInv, CursorInv, CursorValid, Next
  PROVE  CursorInv' /\ CursorValid'
<1> USE DEF CursorInv, CursorValid
<1>0. main = "read" /\ request \in TableMods => table'[request] = table[request]
  BY NoWriterWhileReading, TableKept
<1>1. CASE /\ UNCHANGED <<request, got, answer>>
           /\ \/ main' = main \/ main' = "exited"
              \/ main \notin {"read", "exited"} /\ main' # "read"
  BY <1>0, <1>1
<1>2. CASE AcquireRead
  BY <1>2, EmptyTable DEF AcquireRead, queryVars, tableVars
<1>3. CASE ReadRow
  <2>1. /\ main = "read" /\ main' = "read" /\ request \in TableMods
        /\ UNCHANGED <<request, table>>
    BY <1>3 DEF ReadRow, mainVars, tableVars
  <2>2. PICK i \in NextRows : /\ \A j \in NextRows : i <= j
                              /\ got' = [j \in DOMAIN got \cup {i} |->
                                           IF j = i THEN table[request][i] ELSE got[j]]
    BY <1>3 DEF ReadRow
  <2>3. i \in DOMAIN table[request] /\ \A j \in DOMAIN got : j < i
    BY DEF NextRows
  <2>4. DOMAIN got' = DOMAIN got \cup {i} /\ \A j \in DOMAIN got' : got'[j] = table[request][j]
    BY <2>1, <2>2, <2>3
  <2>5. ASSUME NEW j \in DOMAIN got', NEW k \in DOMAIN table[request], k <= j
        PROVE  k \in DOMAIN got'
    <3>1. CASE j \in DOMAIN got
      BY <2>1, <2>4, <2>5, <3>1
    <3>2. CASE j = i /\ k \in NextRows
      <4>1. i <= k /\ k <= i /\ i \in Nat /\ k \in Nat
        BY <2>1, <2>2, <2>3, <2>5, <3>2 DEF TypeOK, TableTypeOK, IsTable
      <4> QED
        BY <2>4, <4>1
    <3>3. CASE j = i /\ k \notin NextRows
      <4>1. PICK m \in DOMAIN got : ~(m < k)
        BY <3>3 DEF NextRows
      <4>2. m \in Nat /\ k \in Nat
        BY <2>1 DEF TypeOK, TableTypeOK, QueryTypeOK, IsTable
      <4> QED
        BY <2>1, <2>4, <4>1, <4>2
    <3> QED
      BY <2>4, <3>1, <3>2, <3>3
  <2> QED
    BY <2>1, <2>3, <2>4, <2>5
<1>4. CASE FinishRead
  BY <1>4 DEF FinishRead
<1>5. ASSUME NEW q \in Queries, Request(q)
      PROVE  CursorInv' /\ CursorValid'
  BY <1>5 DEF Request, mainVars
<1> QED
  BY <1>1, <1>2, <1>3, <1>4, <1>5, NextQueries

\* When no row is left to read, what was gathered is the table, whole.
LEMMA ReadAll ==
  ASSUME IInv, main = "read", request \in TableMods, NextRows = {}
  PROVE  got = table[request] /\ got \in RowSeqs /\ ~Writing(request)
<1>1. ~Writing(request)
  BY NoWriterWhileReading DEF IInv
<1>2. \A i \in DOMAIN table[request] : i \in DOMAIN got
  <2> SUFFICES ASSUME NEW i \in DOMAIN table[request] PROVE i \in DOMAIN got
    OBVIOUS
  <2>1. PICK j \in DOMAIN got : ~(j < i)
    BY DEF NextRows
  <2>2. i \in Nat /\ j \in Nat
    BY DEF IInv, TypeOK, TableTypeOK, QueryTypeOK, IsTable
  <2> QED
    BY <2>1, <2>2 DEF IInv, CursorInv
<1>3. DOMAIN got = DOMAIN table[request] /\ \A i \in DOMAIN got : got[i] = table[request][i]
  BY <1>2 DEF IInv, CursorValid
<1>4. IsTable(got) /\ IsTable(table[request])
  BY DEF IInv, TypeOK, TableTypeOK, QueryTypeOK
<1>5. got = table[request]
  BY <1>3, <1>4 DEF IsTable
<1>6. table[request] \in RowSeqs
  <2>1. Progress(request) /\ latest[request] \in RowSeqs /\ fetch[request] \in TablePlaces
    BY DEF IInv, ProgressInv, TypeOK, TableTypeOK, ThreadTypeOK
  <2> QED
    BY <1>1, <2>1, EmptyTable DEF Progress
<1> QED
  BY <1>1, <1>5, <1>6

LEMMA QueryTypeStep ==
  ASSUME IInv, Next
  PROVE  QueryTypeOK'
<1> USE DEF QueryTypeOK
<1>0. QueryTypeOK
  BY DEF IInv, TypeOK
<1>1. CASE UNCHANGED <<request, got, answer>>
  BY <1>0, <1>1
<1>2. CASE AcquireRead
  BY <1>0, <1>2 DEF AcquireRead, queryVars
<1>3. CASE ReadRow
  <2>1. PICK i \in NextRows : got' = [j \in DOMAIN got \cup {i} |->
                                        IF j = i THEN table[request][i] ELSE got[j]]
    BY <1>3 DEF ReadRow
  <2>2. i \in Nat \ {0} /\ table[request][i] \in RowData /\ UNCHANGED <<request, answer>>
    BY <1>3 DEF ReadRow, NextRows, IInv, TypeOK, TableTypeOK, IsTable
  <2>3. IsTable([j \in DOMAIN got \cup {i} |-> IF j = i THEN table[request][i] ELSE got[j]])
    BY <1>0, <2>2 DEF IsTable
  <2>4. IsTable(got')
    BY <2>1, <2>3
  <2> QED
    BY <1>0, <2>2, <2>4
<1>4. CASE FinishRead
  <2>1. request' = NoRequest /\ got' = <<>> /\ main = "read"
    BY <1>4 DEF FinishRead
  <2>2. CASE UNCHANGED answer
    BY <1>0, <2>1, <2>2, EmptyTable
  <2>3. CASE request \in TableMods /\ NextRows = {}
             /\ answer' = [from |-> request, rows |-> got]
    <3>1. got \in RowSeqs
      BY <2>1, <2>3, ReadAll
    <3> QED
      BY <2>1, <2>3, <3>1, EmptyTable
  <2> QED
    BY <1>4, <2>2, <2>3 DEF FinishRead
<1>5. ASSUME NEW q \in Queries, Request(q)
      PROVE  QueryTypeOK'
  BY <1>0, <1>5 DEF Request
<1> QED
  BY <1>1, <1>2, <1>3, <1>4, <1>5, NextQueries

-----------------------------------------------------------------------------
(* The theorems.                                                            *)

LEMMA IInvStep == IInv /\ [Next]_vars => IInv'
<1> SUFFICES ASSUME IInv, [Next]_vars PROVE IInv'
  OBVIOUS
<1>1. CASE Next
  <2>1. TypeOK /\ SizeInv /\ LockInv /\ ProgressInv /\ CursorInv /\ CursorValid
    BY DEF IInv
  <2>2. TypeOK'
    BY <1>1, <2>1, ThreadTypeStep, TableTypeStep, ValueTypeStep, QueryTypeStep DEF TypeOK
  <2> QED
    BY <1>1, <2>1, <2>2, SizeStep, LockStep, ProgressStep, CursorStep DEF IInv
<1>2. CASE UNCHANGED vars
  <2> USE <1>2, Groups
  <2>1. ThreadTypeOK' /\ TableTypeOK'
    BY DEF IInv, TypeOK, ThreadTypeOK, TableTypeOK
  <2>2. ValueTypeOK' /\ QueryTypeOK'
    BY DEF IInv, TypeOK, ValueTypeOK, QueryTypeOK
  <2>3. SizeInv' /\ LockInv'
    BY DEF IInv, SizeInv, LockInv
  <2>4. ProgressInv' /\ CursorInv' /\ CursorValid'
    BY DEF IInv, ProgressInv, Progress, CursorInv, CursorValid
  <2> QED
    BY <2>1, <2>2, <2>3, <2>4 DEF IInv, TypeOK
<1> QED
  BY <1>1, <1>2

\* The inductive invariant holds in every state.
THEOREM Invariant == Spec => []IInv
BY InitIInv, IInvStep, PTL DEF Spec

\* The agent never serves None or a value that its type refuses, and its loops
\* stay in their bounds, for any plugins, rows and values.
THEOREM TypeCorrect == Spec => []TypeOK
<1>1. IInv => TypeOK
  BY DEF IInv
<1> QED
  BY Invariant, <1>1, PTL

\* No row is freed or replaced between snmp_read reaching it and the end of the
\* answer, however many update threads replace tables.
THEOREM CursorIsValid == Spec => []CursorValid
<1>1. IInv => CursorValid
  BY DEF IInv
<1> QED
  BY Invariant, <1>1, PTL

\* Between two commits a table is its last completed collection.
THEOREM LatestIsPublished == Spec => []Published
<1>1. IInv => Published
  BY DEF IInv, ProgressInv, Progress, Published
<1> QED
  BY Invariant, <1>1, PTL

-----------------------------------------------------------------------------
(* SnmpyAgent implements TableService.                                      *)

\* What is served of a table changes at the start of its replacement, to the
\* rows of its last collection, and at no other step.
LEMMA ServedStep ==
  ASSUME IInv, Next, NEW t \in TableMods
  PROVE  \/ Served'[t] = Served[t] /\ latest'[t] = latest[t]
         \/ Served'[t] = Served[t] /\ CollectRows(t)
         \/ Served'[t] = latest[t] /\ BeginReplace(t)
<1>0. /\ fetch \in [Plugins -> TablePlaces \cup ValuePlaces] /\ t \in Plugins
      /\ DOMAIN table = TableMods /\ rows \in [TableMods -> RowSeqs]
      /\ latest \in [TableMods -> RowSeqs] /\ Progress(t)
  BY DEF IInv, TypeOK, ThreadTypeOK, TableTypeOK, ProgressInv
<1> USE <1>0 DEF Served, tableVars
<1>1. CASE TableState(t)' = TableState(t)
  BY <1>1 DEF TableState
<1>2. CASE Register(t)
  BY <1>2 DEF Register
<1>3. CASE BeginFetch(t)
  BY <1>3 DEF BeginFetch, CommitPlace
<1>4. CASE FetchTest(t) \/ Period(t)
  BY <1>4 DEF FetchTest, Period
<1>5. CASE CollectFails(t)
  BY <1>5 DEF CollectFails
<1>6. CASE CollectRows(t)
  BY <1>6 DEF CollectRows
<1>7. CASE BeginReplace(t)
  BY <1>7 DEF BeginReplace, Progress
<1>8. CASE ClearRow(t) \/ ClearDone(t) \/ AppendRow(t)
  BY <1>8 DEF ClearRow, ClearDone, AppendRow
<1>9. CASE FinishReplace(t)
  <2>1. /\ fetch[t] = "append" /\ fetch'[t] \in {"loop", "period"}
        /\ UNCHANGED <<rows, table, latest>>
    BY <1>9 DEF FinishReplace, AfterCommit
  <2>2. pos[t] = Len(rows[t]) /\ IsTable(table[t]) /\ IsTable(rows[t])
        /\ DOMAIN rows[t] = 1..Len(rows[t])
    BY <1>9, RowsAreTable DEF FinishReplace, IInv, TypeOK, TableTypeOK
  <2>3. table[t] = rows[t]
    BY <2>1, <2>2 DEF Progress, IsTable
  <2> QED
    BY <2>1, <2>3
<1> QED
  BY <1>1, <1>2, <1>3, <1>4, <1>5, <1>6, <1>7, <1>8, <1>9, OwnThread
     DEF IInv, ThreadStep, TableStep

LEMMA ServiceInit == Init => Service!Init
BY PluginAssumption DEF Init, Service!Init, Served

LEMMA ServiceStep == IInv /\ [Next]_vars => [Service!Next]_(Service!vars)
<1> SUFFICES ASSUME IInv, [Next]_vars PROVE [Service!Next]_(Service!vars)
  OBVIOUS
<1>0. /\ Served = [t \in TableMods |-> Served[t]] /\ Served' = [t \in TableMods |-> Served'[t]]
      /\ DOMAIN Served = TableMods /\ latest \in [TableMods -> RowSeqs]
  BY DEF Served, IInv, TypeOK, TableTypeOK
<1>1. CASE UNCHANGED vars
  BY <1>1, Groups DEF Served, Service!vars
<1>2. ASSUME Next, NEW t \in TableMods, CollectRows(t)
      PROVE  Service!Next
  <2>1. \A u \in TableMods : Served'[u] = Served[u]
    BY <1>2, PluginAssumption DEF CollectRows, Served, IInv, TypeOK, ThreadTypeOK, TableTypeOK
  <2>2. UNCHANGED answer /\ \E new \in RowSeqs : latest' = [latest EXCEPT ![t] = new]
    BY <1>2 DEF CollectRows, queryVars
  <2>3. Served' = Served
    BY <1>0, <2>1
  <2> QED
    BY <2>2, <2>3 DEF Service!Next, Service!Collect
<1>3. ASSUME Next, NEW t \in TableMods, BeginReplace(t)
      PROVE  Service!Next
  <2>1. Served'[t] = latest[t]
    BY <1>3, ServedStep DEF CollectRows, BeginReplace, Served, IInv, TypeOK, ThreadTypeOK,
       TableTypeOK, ProgressInv, Progress
  <2>2. \A u \in TableMods \ {t} : Served'[u] = Served[u]
    BY <1>3 DEF BeginReplace, Served, IInv, TypeOK, ThreadTypeOK
  <2>3. UNCHANGED <<latest, answer>>
    BY <1>3 DEF BeginReplace, queryVars
  <2> QED
    BY <1>0, <2>1, <2>2, <2>3 DEF Service!Next, Service!Publish
<1>4. CASE Next /\ \A t \in TableMods : ~CollectRows(t) /\ ~BeginReplace(t)
  <2>1. \A t \in TableMods : Served'[t] = Served[t]
    BY <1>4, ServedStep
  <2>2. UNCHANGED <<latest, Served>>
    <3>1. UNCHANGED latest
      BY <1>4, NextTables DEF TableChange, CollectFails, ClearRow, AppendRow
    <3> QED
      BY <1>0, <2>1, <3>1
  <2>3. CASE UNCHANGED answer
    BY <2>2, <2>3 DEF Service!vars
  <2>4. CASE FinishRead /\ request \in TableMods /\ NextRows = {}
    <3>1. answer' = [from |-> request, rows |-> Served[request]]
      BY <2>4, ReadAll DEF FinishRead, Served
    <3> QED
      BY <2>2, <2>4, <3>1 DEF Service!Next, Service!Answer
  <2> QED
    BY <1>4, <2>3, <2>4, NextQueries DEF AcquireRead, ReadRow, FinishRead, Request, queryVars
<1> QED
  BY <1>1, <1>2, <1>3, <1>4

\* Every answer about a table is the whole of one completed collection: the
\* agent implements the abstract service, for any plugins and rows.
THEOREM Implements == Spec => ServiceSpec
BY ServiceInit, ServiceStep, Invariant, PTL DEF Spec, ServiceSpec, Service!Spec

-----------------------------------------------------------------------------
(* The items of a value plugin.                                                *)

Committing(v) == fetch[v] \in {"items", "size"}

\* The loop of commit_data has set the items before item[v], and none is half set
\* but the one it is at.
ItemInv(v) ==
  /\ ~Committing(v) => item[v] = 1
  /\ v \notin Tailed =>
       /\ fetch[v] = "size" => wire[v][item[v]].data = vals[v][item[v]]
       /\ Committing(v) => \A i \in 1..(item[v] - 1) :
                             vals[v][i] = NoValue \/ wire[v][i] = Whole(vals[v][i])
  /\ \A i \in Items(v) : wire[v][i].data # wire[v][i].size => fetch[v] = "size" /\ item[v] = i

ItemsInv == \A v \in ValueMods : ItemInv(v)

\* All that ItemInv(v) speaks of.
ValueState(v) == <<fetch[v], vals[v], wire[v], item[v]>>

LEMMA ValueUntouched ==
  ASSUME NEW v \in ValueMods, ItemInv(v), ValueState(v)' = ValueState(v)
  PROVE  ItemInv(v)'
BY DEF ItemInv, ValueState, Committing, Whole, Items

\* The items of a plugin are set by its own threads only.
LEMMA OwnItems ==
  ASSUME TypeOK, Next, NEW v \in ValueMods
  PROVE  \/ ValueState(v)' = ValueState(v)
         \/ Register(v) \/ ThreadStep(v) \/ ValueStep(v)
         \/ v \in Tailed /\ TailLine(v)
<1> USE PluginAssumption DEF TypeOK, ThreadTypeOK, ValueTypeOK, ValueState, valueVars
<1>0. /\ vals = [u \in ValueMods |-> vals[u]] /\ wire = [u \in ValueMods |-> wire[u]]
      /\ item = [u \in ValueMods |-> item[u]] /\ fetch = [p \in Plugins |-> fetch[p]]
      /\ v \in Plugins /\ v \notin TableMods
  BY DEF PerItem
<1>1. CASE MainStep
  <2>1. ASSUME NEW p \in Plugins, Register(p), p # v
        PROVE  ValueState(v)' = ValueState(v)
    BY <1>0, <2>1 DEF Register
  <2>2. CASE \A p \in Plugins : ~Register(p)
    BY <1>1, <2>2 DEF MainStep, InstallHandlers, StartSubagent, LoopTest, EnterSelect,
       SelectReady, SelectTimeout, AcquireRead, ReadRow, FinishRead, AcquireStore, Store
  <2> QED
    BY <2>1, <2>2
<1>2. CASE Signal \/ HandleSignal \/ HttpdExit \/ \E q \in Queries : Request(q)
  BY <1>2 DEF Signal, HandleSignal, HttpdExit, Request
<1>3. CASE \E p \in Plugins : ThreadStep(p)
  <2>1. PICK p \in Plugins : ThreadStep(p)
    BY <1>3
  <2>2. CASE BeginFetch(p) \/ FetchTest(p) \/ Period(p)
    BY <1>0, <2>1, <2>2 DEF BeginFetch, FetchTest, Period
  <2>3. CASE CollectFails(p)
    BY <1>0, <2>1, <2>3 DEF CollectFails
  <2> QED
    BY <2>1, <2>2, <2>3 DEF ThreadStep
<1>4. CASE \E t \in TableMods : TableStep(t)
  BY <1>0, <1>4 DEF TableStep, CollectRows, BeginReplace, ClearRow, ClearDone, AppendRow, FinishReplace
<1>5. CASE \E u \in ValueMods : ValueStep(u)
  <2>1. PICK u \in ValueMods : ValueStep(u)
    BY <1>5
  <2>2. ASSUME u # v PROVE ValueState(v)' = ValueState(v)
    <3>1. CASE CollectItems(u) \/ SkipItem(u)
      BY <1>0, <2>2, <3>1 DEF CollectItems, SkipItem
    <3>2. CASE SetData(u)
      BY <1>0, <2>2, <3>2 DEF SetData
    <3>3. CASE SetSize(u)
      BY <1>0, <2>2, <3>3 DEF SetSize
    <3>4. CASE RejectItem(u) \/ FinishItems(u)
      BY <1>0, <2>2, <3>4 DEF RejectItem, FinishItems
    <3> QED
      BY <2>1, <3>1, <3>2, <3>3, <3>4 DEF ValueStep
  <2> QED
    BY <2>1, <2>2
<1>6. CASE \E u \in Tailed : TailLine(u)
  BY <1>0, <1>6 DEF TailLine
<1>7. CASE Terminated
  BY <1>7, Groups DEF Terminated
<1> QED
  BY <1>1, <1>2, <1>3, <1>4, <1>5, <1>6, <1>7 DEF Next

LEMMA ItemStep ==
  ASSUME TypeOK, SizeInv, ItemsInv, Next
  PROVE  ItemsInv'
<1> SUFFICES ASSUME NEW v \in ValueMods PROVE ItemInv(v)'
  BY DEF ItemsInv
<1>0. /\ ItemInv(v) /\ v \in Plugins /\ v \notin TableMods
      /\ item[v] \in Nat /\ item[v] \in 1..(NumItems[v] + 1) /\ NumItems[v] \in Nat
      /\ Items(v) = 1..NumItems[v]
  BY PluginAssumption DEF ItemsInv, TypeOK, ValueTypeOK, Items
<1>1. /\ wire = [u \in ValueMods |-> wire[u]] /\ wire[v] = [i \in Items(v) |-> wire[v][i]]
      /\ vals = [u \in ValueMods |-> vals[u]] /\ vals[v] = [i \in Items(v) |-> vals[v][i]]
      /\ item = [u \in ValueMods |-> item[u]] /\ fetch = [p \in Plugins |-> fetch[p]]
  BY DEF TypeOK, ThreadTypeOK, ValueTypeOK, PerItem
<1> USE DEF valueVars
<1>2. CASE ValueState(v)' = ValueState(v)
  BY <1>0, <1>2, ValueUntouched
<1>3. CASE ThreadStep(v)
  <2>1. CASE BeginFetch(v) \/ FetchTest(v) \/ Period(v)
    <3>1. /\ UNCHANGED <<wire, vals, item>> /\ ~Committing(v)
          /\ fetch'[v] # "size"
      BY <1>0, <1>1, <2>1 DEF BeginFetch, FetchTest, Period, CommitPlace, Committing
    <3>2. item[v] = 1 /\ \A i \in Items(v) : wire[v][i].data = wire[v][i].size
      BY <1>0, <3>1 DEF ItemInv, Committing
    <3> QED
      BY <3>1, <3>2 DEF ItemInv, Items
  <2>2. CASE CollectFails(v)
    <3>1. /\ UNCHANGED <<wire, item>> /\ fetch[v] = "collect" /\ fetch'[v] = "period"
      BY <1>0, <1>1, <2>2 DEF CollectFails
    <3> QED
      BY <1>0, <3>1 DEF ItemInv, Committing, Items
  <2> QED
    BY <1>3, <2>1, <2>2 DEF ThreadStep
<1>4. CASE Register(v)
  <2>1. fetch[v] = "off" /\ UNCHANGED <<vals, item>> /\ item[v] = 1
    BY <1>0, <1>4 DEF Register, ItemInv, Committing
  <2>2. CASE UNCHANGED <<fetch, wire>>
    BY <1>0, <2>1, <2>2, ValueUntouched DEF ValueState
  <2>3. CASE /\ fetch' = [fetch EXCEPT ![v] = "boot"]
             /\ wire' = [wire EXCEPT ![v] = [i \in Items(v) |->
                           Whole(IF vals[v][i] = NoValue THEN Blank ELSE vals[v][i])]]
    <3>1. /\ fetch'[v] = "boot"
          /\ \A i \in Items(v) : wire'[v][i].data = wire'[v][i].size
      BY <1>0, <1>1, <2>3 DEF Whole
    <3> QED
      BY <2>1, <3>1 DEF ItemInv, Committing, Items
  <2> QED
    BY <1>0, <1>4, <2>2, <2>3 DEF Register
<1>5. CASE CollectItems(v)
  <2>1. /\ UNCHANGED <<wire, item>> /\ fetch[v] = "collect" /\ fetch'[v] = "items"
    BY <1>0, <1>1, <1>5 DEF CollectItems
  <2> QED
    BY <1>0, <2>1 DEF ItemInv, Committing, Items
<1>6. CASE SkipItem(v)
  <2>1. /\ UNCHANGED <<wire, vals, fetch>> /\ fetch[v] = "items" /\ item'[v] = item[v] + 1
        /\ vals[v][item[v]] = NoValue
    BY <1>0, <1>1, <1>6 DEF SkipItem, AtItem
  <2>2. \A i \in 1..(item'[v] - 1) : i \in 1..(item[v] - 1) \/ i = item[v]
    BY <1>0, <2>1
  <2> QED
    BY <1>0, <2>1, <2>2 DEF ItemInv, Committing, Whole, Items
<1>7. CASE SetData(v)
  <2>1. AtItem(v) /\ UNCHANGED <<vals, item>>
    BY <1>7 DEF SetData
  <2>2. item[v] \in Items(v) /\ fetch[v] = "items"
    BY <2>1, AtAnItem DEF TypeOK, AtItem
  <2>3. /\ fetch'[v] = "size"
        /\ wire'[v][item[v]].data = vals[v][item[v]]
        /\ \A i \in Items(v) \ {item[v]} : wire'[v][i] = wire[v][i]
    BY <1>0, <1>1, <1>7, <2>2 DEF SetData
  <2>4. \A i \in 1..(item[v] - 1) : i \in Items(v) \ {item[v]}
    BY <1>0
  <2> QED
    BY <1>0, <2>1, <2>2, <2>3, <2>4 DEF ItemInv, Committing, Whole, Items
<1>8. CASE SetSize(v)
  <2>1. UNCHANGED vals /\ fetch[v] = "size" /\ item[v] \in Items(v)
    BY <1>8 DEF SetSize, SizeInv
  <2>2. /\ fetch'[v] = "items" /\ item'[v] = item[v] + 1
        /\ wire'[v][item[v]] = Whole(wire[v][item[v]].data)
        /\ \A i \in Items(v) \ {item[v]} : wire'[v][i] = wire[v][i]
    BY <1>0, <1>1, <1>8, <2>1 DEF SetSize
  <2>3. \A i \in 1..(item'[v] - 1) : (i \in 1..(item[v] - 1) /\ i \in Items(v) \ {item[v]}) \/ i = item[v]
    BY <1>0, <2>2
  <2>4. \A i \in Items(v) : wire'[v][i].data = wire'[v][i].size
    BY <1>0, <2>1, <2>2 DEF ItemInv, Whole
  <2> QED
    BY <1>0, <2>1, <2>2, <2>3, <2>4 DEF ItemInv, Committing, Whole, Items
<1>9. CASE RejectItem(v) \/ FinishItems(v)
  <2>1. /\ UNCHANGED <<wire, vals>> /\ fetch[v] = "items" /\ fetch'[v] \in {"period", "loop"}
        /\ item'[v] = 1
    BY <1>0, <1>1, <1>9 DEF RejectItem, FinishItems, AtItem, AfterCommit
  <2> QED
    BY <1>0, <2>1 DEF ItemInv, Committing, Items
<1>10. CASE TailLine(v) /\ v \in Tailed
  <2>1. UNCHANGED <<wire, item, fetch>>
    BY <1>10 DEF TailLine
  <2> QED
    BY <1>0, <1>10, <2>1 DEF ItemInv, Committing, Items
<1> QED
  BY <1>2, <1>3, <1>4, <1>5, <1>6, <1>7, <1>8, <1>9, <1>10, OwnItems DEF ValueStep

\* A commit gets past an item only when its value is served, or it has none, and a
\* size that does not fit its buffer is only ever that of the item being set.
THEOREM ItemsAreInOrder == Spec => []ItemsInOrder
<1>1. Init => ItemsInv
  <2> SUFFICES ASSUME Init, NEW v \in ValueMods PROVE ItemInv(v)
    BY DEF ItemsInv
  <2>1. fetch[v] = "off" /\ item[v] = 1 /\ \A i \in Items(v) : wire[v][i] = Whole(Blank)
    BY DEF Init
  <2> QED BY <2>1 DEF ItemInv, Committing, Whole
<1>2. IInv /\ ItemsInv /\ [Next]_vars => ItemsInv'
  <2> SUFFICES ASSUME IInv, ItemsInv, [Next]_vars PROVE ItemsInv'
    OBVIOUS
  <2>1. CASE Next
    BY <2>1, ItemStep DEF IInv
  <2>2. CASE vars' = vars
    BY <2>2, Groups, ValueUntouched DEF ItemsInv, ValueState
  <2> QED BY <2>1, <2>2
<1>3. ItemsInv => ItemsInOrder
  BY DEF ItemsInv, ItemInv, Committing, ItemsInOrder
<1> QED BY <1>1, <1>2, <1>3, Invariant, PTL DEF Spec
=============================================================================
