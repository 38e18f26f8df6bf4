----------------------------- MODULE SnmpyAgent -----------------------------
(***************************************************************************)
(* The core of snmpy: lib/snmpy/server.py over the Table, ASNType and      *)
(* AgentX classes of lib/snmpy/agentx.py.                                  *)
(*                                                                         *)
(* The main thread registers every plugin and starts its update thread,    *)
(* then runs the event loop (select, snmp_read, store) until a signal or   *)
(* the death of the http process stops it.  Each update thread commits     *)
(* what was retained, then collects and commits, period after period.      *)
(* Tables are replaced row by row under SnmpyAgent.lock, the lock that     *)
(* snmp_read runs under; item values are replaced without it.              *)
(***************************************************************************)
EXTENDS Integers, Sequences

CONSTANTS TableMods,   \* the plugins that are a TableModule
          ValueMods,   \* the plugins that are a ValueModule
          Tailed,      \* the ValueMods a log tail thread also writes to
          Once,        \* the plugins whose period is 'once', 'boot' or 0
          Retained,    \* the plugins with a save file
          RowData,     \* what one table row may hold
          RowSeqs,     \* the row lists a collection may end with
          Text,        \* item values their SNMP type accepts
          NumItems,    \* NumItems[v]: the items of the ValueModule v
          NoValue,     \* None: an item that was never collected
          Unfit,       \* a value its type refuses, a too long string say
          Blank,       \* what an OctetString holds when made without value
          Main, Free,  \* holders of the lock that are not an update thread
          NoRequest

Plugins == TableMods \cup ValueMods
Items(v) == 1..NumItems[v]
Values == Text \cup {NoValue, Unfit}
Queries == TableMods \cup UNION {{v} \X Items(v) : v \in ValueMods}

ASSUME PluginAssumption == /\ TableMods \cap ValueMods = {}
                           /\ Tailed \subseteq ValueMods
                           /\ Once \cup Retained \subseteq Plugins
                           /\ NumItems \in [ValueMods -> Nat \ {0}]
ASSUME RowAssumption == /\ RowSeqs \subseteq Seq(RowData)
                        /\ <<>> \in RowSeqs
ASSUME ValueAssumption == /\ {NoValue, Unfit, Blank} \cap Text = {}
                          /\ NoValue # Unfit
ASSUME HolderAssumption == /\ Main # Free
                           /\ {Main, Free} \cap Plugins = {}
                           /\ NoRequest \notin Queries

VARIABLES
  main,      \* where the main thread is
  done,      \* SnmpyAgent.done
  tripped,   \* a signal has arrived whose Python handler has not run
  httpd,     \* multiprocessing.active_children() is not empty
  lock,      \* who holds SnmpyAgent.lock
  fetch,     \* fetch[p]: where p's update thread is
  booting,   \* the plugins whose thread is before its first update
  rows,      \* rows[t]: TableModule.rows
  table,     \* table[t]: the rows net-snmp has, a function of their index
  index,     \* index[t]: Table.index
  pos,       \* pos[t]: rows the loop of replace_table is done with
  vals,      \* vals[v][i]: ModuleItem.value
  wire,      \* wire[v][i]: the ctypes buffer and the watcher's data_size
  item,      \* item[v]: the item the loop of commit_data is at
  request,   \* what the query waiting to be answered is about
  got,       \* the rows snmp_read has gathered so far for it
  latest,    \* latest[t]: history, the last completed collection of t
  answer     \* history, the last answer about a table

mainVars == <<main, done, tripped, httpd>>
tableVars == <<rows, table, index, pos, latest>>
valueVars == <<vals, wire, item>>
queryVars == <<request, got, answer>>
vars == <<mainVars, lock, fetch, booting, tableVars, valueVars, queryVars>>

-----------------------------------------------------------------------------
(* Where threads can be.                                                    *)

MainPlaces == {"setup", "handlers", "loop", "poll", "blocked", "want_read",
               "read", "want_store", "store", "exited"}
TablePlaces == {"off", "boot", "loop", "collect", "commit", "clear", "append",
                "period", "ended"}
ValuePlaces == {"off", "boot", "loop", "collect", "items", "size", "period",
                "ended"}

Running == main # "exited"   \* the threads are daemons: they end with main
Writing(t) == fetch[t] \in {"clear", "append"}
Whole(x) == [data |-> x, size |-> x]

\* A set of rows that net-snmp keeps in the order of their index.
IsTable(f) == /\ f = [i \in DOMAIN f |-> f[i]]
              /\ DOMAIN f \subseteq Nat \ {0}
              /\ \A i \in DOMAIN f : f[i] \in RowData

\* What gives an element of S to every item of every ValueModule.
PerItem(S) == {f \in [ValueMods -> UNION {[Items(v) -> S] : v \in ValueMods}] :
                 \A v \in ValueMods : f[v] \in [Items(v) -> S]}

ThreadTypeOK ==
  /\ main \in MainPlaces
  /\ done \in BOOLEAN /\ tripped \in BOOLEAN /\ httpd \in BOOLEAN
  /\ lock \in TableMods \cup {Main, Free}
  /\ fetch \in [Plugins -> TablePlaces \cup ValuePlaces]
  /\ \A t \in TableMods : fetch[t] \in TablePlaces
  /\ \A v \in ValueMods : fetch[v] \in ValuePlaces
  /\ booting \subseteq Plugins

TableTypeOK ==
  /\ rows \in [TableMods -> RowSeqs]
  /\ latest \in [TableMods -> RowSeqs]
  /\ DOMAIN table = TableMods /\ \A t \in TableMods : IsTable(table[t])
  /\ index \in [TableMods -> Nat]
  /\ pos \in [TableMods -> Nat]

ValueTypeOK ==
  /\ vals \in PerItem(Values)
  /\ wire \in PerItem([data : Text \cup {Blank}, size : Text \cup {Blank}])
  /\ item \in [ValueMods -> Nat]
  /\ \A v \in ValueMods : item[v] \in 1..(NumItems[v] + 1)

QueryTypeOK ==
  /\ request \in Queries \cup {NoRequest}
  /\ IsTable(got)
  /\ answer \in [from : TableMods \cup {NoRequest}, rows : RowSeqs]

\* The type invariant: neither None nor a value its type refuses gets into the
\* buffers that are served, and no loop of commit_data leaves its items.
TypeOK == ThreadTypeOK /\ TableTypeOK /\ ValueTypeOK /\ QueryTypeOK

\* What load() brought back is there before the agent is made.  A plugin that
\* retains nothing has no rows and no values.
Init ==
  /\ main = "setup" /\ done = FALSE /\ tripped = FALSE /\ httpd = TRUE
  /\ lock = Free
  /\ fetch = [p \in Plugins |-> "off"]
  /\ booting = Plugins
  /\ rows \in [TableMods -> RowSeqs]
  /\ \A t \in TableMods \ Retained : rows[t] = <<>>
  /\ latest = rows
  /\ table = [t \in TableMods |-> <<>>]
  /\ index = [t \in TableMods |-> 0]
  /\ pos = [t \in TableMods |-> 0]
  /\ vals \in PerItem(Values)
  /\ \A v \in ValueMods \ Retained : \A i \in Items(v) : vals[v][i] = NoValue
  /\ wire = [v \in ValueMods |-> [i \in Items(v) |-> Whole(Blank)]]
  /\ item = [v \in ValueMods |-> 1]
  /\ request = NoRequest
  /\ got = <<>>
  /\ answer = [from |-> NoRequest, rows |-> <<>>]

-----------------------------------------------------------------------------
(* The main thread: start_agent, start_snmpd, check_and_process.            *)

Goto(place) == main' = place /\ UNCHANGED <<done, tripped, httpd>>

\* The body of start_agent's loop.  The table or the items of p are registered
\* with what p holds, and p's thread begins.  A value its type refuses raises
\* ValueError, which nothing catches.
Register(p) ==
  /\ main = "setup" /\ fetch[p] = "off"
  /\ \/ /\ p \in TableMods
        /\ fetch' = [fetch EXCEPT ![p] = "boot"]
        /\ UNCHANGED <<mainVars, wire>>
     \/ /\ p \in ValueMods
        /\ \A i \in Items(p) : vals[p][i] # Unfit
        /\ wire' = [wire EXCEPT ![p] = [i \in Items(p) |->
                      Whole(IF vals[p][i] = NoValue THEN Blank ELSE vals[p][i])]]
        /\ fetch' = [fetch EXCEPT ![p] = "boot"]
        /\ UNCHANGED mainVars
     \/ /\ p \in ValueMods
        /\ \E i \in Items(p) : vals[p][i] = Unfit
        /\ Goto("exited")
        /\ UNCHANGED <<fetch, wire>>
  /\ UNCHANGED <<lock, booting, tableVars, vals, item, queryVars>>

InstallHandlers ==
  /\ main = "setup" /\ \A p \in Plugins : fetch[p] # "off"
  /\ Goto("handlers")
  /\ UNCHANGED <<lock, fetch, booting, tableVars, valueVars, queryVars>>

StartSubagent ==
  /\ main = "handlers"
  /\ Goto("loop")
  /\ UNCHANGED <<lock, fetch, booting, tableVars, valueVars, queryVars>>

\* Mutant: the loop looks at done only.
LoopTestDoneOnly ==
  /\ main = "loop" /\ ~tripped
  /\ Goto(IF done THEN "exited" ELSE "poll")
  /\ UNCHANGED <<lock, fetch, booting, tableVars, valueVars, queryVars>>

\* The condition of start_snmpd's loop.  A pending handler runs before it.
LoopTest ==
  /\ main = "loop" /\ ~tripped
  /\ Goto(IF done \/ ~httpd THEN "exited" ELSE "poll")
  /\ UNCHANGED <<lock, fetch, booting, tableVars, valueVars, queryVars>>

EnterSelect ==
  /\ main = "poll"
  /\ Goto("blocked")
  /\ UNCHANGED <<lock, fetch, booting, tableVars, valueVars, queryVars>>

\* count > 0: a query, or a message of the master agent that is none.
SelectReady ==
  /\ main = "blocked"
  /\ Goto("want_read")
  /\ UNCHANGED <<lock, fetch, booting, tableVars, valueVars, queryVars>>

\* count = 0: snmp_timeout reads no table, and runs without the lock.
SelectTimeout ==
  /\ main = "blocked" /\ request = NoRequest
  /\ Goto("want_store")
  /\ UNCHANGED <<lock, fetch, booting, tableVars, valueVars, queryVars>>

\* Mutant: check_and_process is called without the lock.
AcquireReadUnlocked ==
  /\ main = "want_read"
  /\ lock' = Main
  /\ Goto("read")
  /\ UNCHANGED <<fetch, booting, tableVars, valueVars, queryVars>>

AcquireRead ==
  /\ main = "want_read" /\ lock = Free
  /\ lock' = Main
  /\ Goto("read")
  /\ UNCHANGED <<fetch, booting, tableVars, valueVars, queryVars>>

\* snmp_read walks the table in index order, from the row it is at.
NextRows == {i \in DOMAIN table[request] : \A j \in DOMAIN got : j < i}

ReadRow ==
  /\ main = "read" /\ request \in TableMods
  /\ \E i \in NextRows :
       /\ \A j \in NextRows : i <= j
       /\ got' = [j \in DOMAIN got \cup {i} |->
                    IF j = i THEN table[request][i] ELSE got[j]]
  /\ UNCHANGED <<mainVars, lock, fetch, booting, tableVars, valueVars, request, answer>>

FinishRead ==
  /\ main = "read"
  /\ \/ request \in TableMods /\ NextRows = {}
        /\ answer' = [from |-> request, rows |-> got]
     \/ request \notin TableMods /\ UNCHANGED answer
  /\ request' = NoRequest
  /\ got' = <<>>
  /\ lock' = Free
  /\ Goto("want_store")
  /\ UNCHANGED <<fetch, booting, tableVars, valueVars>>

AcquireStore ==
  /\ main = "want_store" /\ lock = Free
  /\ lock' = Main
  /\ Goto("store")
  /\ UNCHANGED <<fetch, booting, tableVars, valueVars, queryVars>>

\* Mutant: the second release of check_and_process is missing.
StoreKeepsLock ==
  /\ main = "store"
  /\ Goto("loop")
  /\ UNCHANGED <<lock, fetch, booting, tableVars, valueVars, queryVars>>

Store ==
  /\ main = "store"
  /\ lock' = Free
  /\ Goto("loop")
  /\ UNCHANGED <<fetch, booting, tableVars, valueVars, queryVars>>

MainStep == \/ \E p \in Plugins : Register(p)
            \/ InstallHandlers \/ StartSubagent
            \/ LoopTest \/ EnterSelect
            \/ SelectReady \/ SelectTimeout
            \/ AcquireRead \/ ReadRow \/ FinishRead
            \/ AcquireStore \/ Store

-----------------------------------------------------------------------------
(* What happens to the main thread from outside.                            *)

\* SIGINT or SIGTERM.  Before the handlers are installed it ends the process.
\* A blocked select returns with EINTR and end_agent runs before the loop's
\* condition; elsewhere the handler waits for the next bytecode.
Signal ==
  /\ Running /\ ~tripped
  /\ \/ main = "setup" /\ Goto("exited")
     \/ /\ main = "blocked"
        /\ main' = "loop" /\ done' = TRUE
        /\ UNCHANGED <<tripped, httpd>>
     \/ /\ main \notin {"setup", "blocked"}
        /\ tripped' = TRUE
        /\ UNCHANGED <<main, done, httpd>>
  /\ UNCHANGED <<lock, fetch, booting, tableVars, valueVars, queryVars>>

\* end_agent runs between two bytecodes: not inside select, snmp_read, store.
HandleSignal ==
  /\ tripped /\ main \in {"handlers", "loop", "poll", "want_read", "want_store"}
  /\ tripped' = FALSE
  /\ done' = TRUE
  /\ UNCHANGED <<main, httpd, lock, fetch, booting, tableVars, valueVars, queryVars>>

HttpdExit ==
  /\ Running /\ httpd
  /\ httpd' = FALSE
  /\ UNCHANGED <<main, done, tripped, lock, fetch, booting, tableVars, valueVars, queryVars>>

\* A query arrives from the master agent; at most one is outstanding, and one
\* that comes during a snmp_read is for the next.
Request(q) ==
  /\ Running /\ main \notin {"setup", "handlers"} /\ request = NoRequest
  /\ main # "read"
  /\ request' = q
  /\ UNCHANGED <<mainVars, lock, fetch, booting, tableVars, valueVars, got, answer>>

-----------------------------------------------------------------------------
(* The update threads: start_fetch and commit_data.                         *)

\* Where commit_data begins.
CommitPlace(p) == IF p \in TableMods THEN "commit" ELSE "items"

BeginFetch(p) ==
  /\ Running /\ fetch[p] = "boot"
  /\ fetch' = [fetch EXCEPT ![p] = IF p \in Retained THEN CommitPlace(p) ELSE "loop"]
  /\ UNCHANGED <<mainVars, lock, booting, tableVars, valueVars, queryVars>>

\* while not self.done
FetchTest(p) ==
  /\ Running /\ fetch[p] = "loop"
  /\ fetch' = [fetch EXCEPT ![p] = IF done THEN "ended" ELSE "collect"]
  /\ booting' = booting \ {p}
  /\ UNCHANGED <<mainVars, lock, tableVars, valueVars, queryVars>>

\* mod.update() of a table that ends well: clear, func, dump.
CollectRows(t) ==
  /\ Running /\ fetch[t] = "collect"
  /\ \E new \in RowSeqs : /\ rows' = [rows EXCEPT ![t] = new]
                          /\ latest' = [latest EXCEPT ![t] = new]
  /\ fetch' = [fetch EXCEPT ![t] = "commit"]
  /\ UNCHANGED <<mainVars, lock, booting, table, index, pos, valueVars, queryVars>>

\* mod.update() of a value plugin: an item keeps its value or gets a new one.
\* That of log_processor does nothing.
CollectItems(v) ==
  /\ Running /\ fetch[v] = "collect"
  /\ \E new \in [Items(v) -> Values] :
       /\ \A i \in Items(v) : new[i] = vals[v][i] \/ (new[i] # NoValue /\ v \notin Tailed)
       /\ vals' = [vals EXCEPT ![v] = new]
  /\ fetch' = [fetch EXCEPT ![v] = "items"]
  /\ UNCHANGED <<mainVars, lock, booting, tableVars, wire, item, queryVars>>

\* mod.update() raises after some rows or items: logged, nothing is committed.
CollectFails(p) ==
  /\ Running /\ fetch[p] = "collect"
  /\ \/ /\ p \in TableMods
        /\ \E part \in RowSeqs : rows' = [rows EXCEPT ![p] = part]
        /\ UNCHANGED vals
     \/ /\ p \in ValueMods
        /\ \E new \in [Items(p) -> Values] :
             /\ \A i \in Items(p) : new[i] = vals[p][i] \/ (new[i] # NoValue /\ p \notin Tailed)
             /\ vals' = [vals EXCEPT ![p] = new]
        /\ UNCHANGED rows
  /\ fetch' = [fetch EXCEPT ![p] = "period"]
  /\ UNCHANGED <<mainVars, lock, booting, table, index, pos, latest, wire, item, queryVars>>

\* Mutant: commit_data does not take the lock.
BeginReplaceUnlocked(t) ==
  /\ Running /\ fetch[t] = "commit"
  /\ lock' = t
  /\ index' = [index EXCEPT ![t] = 0]
  /\ pos' = [pos EXCEPT ![t] = 0]
  /\ fetch' = [fetch EXCEPT ![t] = "clear"]
  /\ UNCHANGED <<mainVars, booting, rows, table, latest, valueVars, queryVars>>

\* Mutant: Table.clear does not reset the index.
BeginReplaceKeepsIndex(t) ==
  /\ Running /\ fetch[t] = "commit" /\ lock = Free
  /\ lock' = t
  /\ pos' = [pos EXCEPT ![t] = 0]
  /\ fetch' = [fetch EXCEPT ![t] = "clear"]
  /\ UNCHANGED <<mainVars, booting, rows, table, index, latest, valueVars, queryVars>>

\* commit_data of a table takes the lock; Table.clear resets the index.
BeginReplace(t) ==
  /\ Running /\ fetch[t] = "commit" /\ lock = Free
  /\ lock' = t
  /\ index' = [index EXCEPT ![t] = 0]
  /\ pos' = [pos EXCEPT ![t] = 0]
  /\ fetch' = [fetch EXCEPT ![t] = "clear"]
  /\ UNCHANGED <<mainVars, booting, rows, table, latest, valueVars, queryVars>>

\* Table.clear deletes the first row.
ClearRow(t) ==
  /\ Running /\ fetch[t] = "clear"
  /\ \E first \in DOMAIN table[t] :
       /\ \A i \in DOMAIN table[t] : first <= i
       /\ table' = [table EXCEPT ![t] = [i \in DOMAIN @ \ {first} |-> @[i]]]
  /\ UNCHANGED <<mainVars, lock, fetch, booting, rows, index, pos, latest, valueVars, queryVars>>

ClearDone(t) ==
  /\ Running /\ fetch[t] = "clear" /\ DOMAIN table[t] = {}
  /\ fetch' = [fetch EXCEPT ![t] = "append"]
  /\ UNCHANGED <<mainVars, lock, booting, tableVars, valueVars, queryVars>>

\* netsnmp_table_dataset_add_row: an index that is taken keeps its row.
AddRow(f, idx, row) ==
  [i \in DOMAIN f \cup {idx} |-> IF i \in DOMAIN f THEN f[i] ELSE row]

\* Table.append of the next of mod.rows.
AppendRow(t) ==
  /\ Running /\ fetch[t] = "append" /\ pos[t] < Len(rows[t])
  /\ index' = [index EXCEPT ![t] = @ + 1]
  /\ pos' = [pos EXCEPT ![t] = @ + 1]
  /\ table' = [table EXCEPT ![t] = AddRow(@, index[t] + 1, rows[t][pos[t] + 1])]
  /\ UNCHANGED <<mainVars, lock, fetch, booting, rows, latest, valueVars, queryVars>>

\* Where the thread goes when commit_data returns, from before the loop or in it.
AfterCommit(p) == IF p \in booting THEN "loop" ELSE "period"

\* Mutant: the release is not in a finally, and is missed.
FinishReplaceKeepsLock(t) ==
  /\ Running /\ fetch[t] = "append" /\ pos[t] = Len(rows[t])
  /\ fetch' = [fetch EXCEPT ![t] = AfterCommit(t)]
  /\ UNCHANGED <<mainVars, lock, booting, tableVars, valueVars, queryVars>>

FinishReplace(t) ==
  /\ Running /\ fetch[t] = "append" /\ pos[t] = Len(rows[t])
  /\ lock' = Free
  /\ fetch' = [fetch EXCEPT ![t] = AfterCommit(t)]
  /\ UNCHANGED <<mainVars, booting, tableVars, valueVars, queryVars>>

\* commit_data of a value plugin, item by item, without the lock.
AtItem(v) == Running /\ fetch[v] = "items" /\ item[v] <= NumItems[v]

SkipItem(v) ==
  /\ AtItem(v) /\ vals[v][item[v]] = NoValue
  /\ item' = [item EXCEPT ![v] = @ + 1]
  /\ UNCHANGED <<mainVars, lock, fetch, booting, tableVars, vals, wire, queryVars>>

\* Mutant: commit_data does not look for None.
SetDataOfNone(v) ==
  /\ AtItem(v) /\ vals[v][item[v]] # Unfit
  /\ wire' = [wire EXCEPT ![v][item[v]] = [data |-> vals[v][item[v]], size |-> @.size]]
  /\ fetch' = [fetch EXCEPT ![v] = "size"]
  /\ UNCHANGED <<mainVars, lock, booting, tableVars, vals, item, queryVars>>

\* ASNType.set_value: the buffer first, then the watcher's size.
SetData(v) ==
  /\ AtItem(v) /\ vals[v][item[v]] \notin {NoValue, Unfit}
  /\ wire' = [wire EXCEPT ![v][item[v]] = [data |-> vals[v][item[v]], size |-> @.size]]
  /\ fetch' = [fetch EXCEPT ![v] = "size"]
  /\ UNCHANGED <<mainVars, lock, booting, tableVars, vals, item, queryVars>>

\* Mutant: set_value leaves the size of the watcher alone.
SetSizeForgotten(v) ==
  /\ Running /\ fetch[v] = "size"
  /\ item' = [item EXCEPT ![v] = @ + 1]
  /\ fetch' = [fetch EXCEPT ![v] = "items"]
  /\ UNCHANGED <<mainVars, lock, booting, tableVars, vals, wire, queryVars>>

SetSize(v) ==
  /\ Running /\ fetch[v] = "size"
  /\ wire' = [wire EXCEPT ![v][item[v]] = Whole(@.data)]
  /\ item' = [item EXCEPT ![v] = @ + 1]
  /\ fetch' = [fetch EXCEPT ![v] = "items"]
  /\ UNCHANGED <<mainVars, lock, booting, tableVars, vals, queryVars>>

\* set_value raises.  In the loop start_fetch logs it and the other items wait
\* for the next period; before the loop work_func ends the process.
RejectItem(v) ==
  /\ AtItem(v) /\ vals[v][item[v]] = Unfit
  /\ \/ v \notin booting /\ UNCHANGED mainVars
     \/ v \in booting /\ Goto("exited")
  /\ item' = [item EXCEPT ![v] = 1]
  /\ fetch' = [fetch EXCEPT ![v] = "period"]
  /\ UNCHANGED <<lock, booting, tableVars, vals, wire, queryVars>>

FinishItems(v) ==
  /\ Running /\ fetch[v] = "items" /\ item[v] = NumItems[v] + 1
  /\ item' = [item EXCEPT ![v] = 1]
  /\ fetch' = [fetch EXCEPT ![v] = AfterCommit(v)]
  /\ UNCHANGED <<mainVars, lock, booting, tableVars, vals, wire, queryVars>>

\* A plugin that runs once is done; any other sleeps for its period.
Period(p) ==
  /\ Running /\ fetch[p] = "period"
  /\ fetch' = [fetch EXCEPT ![p] = IF p \in Once THEN "ended" ELSE "loop"]
  /\ UNCHANGED <<mainVars, lock, booting, tableVars, valueVars, queryVars>>

\* The tail thread of a log_processor gives an item a value at any time.
TailLine(v) ==
  /\ Running
  /\ \E i \in Items(v), new \in Text \cup {Unfit} : vals' = [vals EXCEPT ![v][i] = new]
  /\ UNCHANGED <<mainVars, lock, fetch, booting, tableVars, wire, item, queryVars>>

TableStep(t) == \/ CollectRows(t)
                \/ BeginReplace(t) \/ ClearRow(t) \/ ClearDone(t)
                \/ AppendRow(t) \/ FinishReplace(t)

ValueStep(v) == \/ CollectItems(v)
                \/ SkipItem(v) \/ SetData(v) \/ SetSize(v)
                \/ RejectItem(v) \/ FinishItems(v)

ThreadStep(p) == BeginFetch(p) \/ FetchTest(p) \/ CollectFails(p) \/ Period(p)

-----------------------------------------------------------------------------
\* The process has ended; without this step the model would stop there.
Terminated == main = "exited" /\ UNCHANGED vars

Next == \/ MainStep
        \/ Signal \/ HandleSignal \/ HttpdExit
        \/ \E q \in Queries : Request(q)
        \/ \E p \in Plugins : ThreadStep(p)
        \/ \E t \in TableMods : TableStep(t)
        \/ \E v \in ValueMods : ValueStep(v)
        \/ \E v \in Tailed : TailLine(v)
        \/ Terminated

Spec == Init /\ [][Next]_vars

\* What an update thread does without waiting for the outside: not collecting,
\* for a command it runs may never end.
Prompt(p) == \/ BeginFetch(p) \/ FetchTest(p) \/ Period(p)
             \/ p \in TableMods /\ (ClearRow(p) \/ ClearDone(p) \/ AppendRow(p) \/ FinishReplace(p))
             \/ p \in ValueMods /\ (SkipItem(p) \/ SetData(p) \/ SetSize(p) \/ RejectItem(p) \/ FinishItems(p))

\* Threads run.  A signal handler takes a few bytecodes, so signals alone cannot
\* keep the main thread from its loop.  A thread that asks for the lock while
\* others take and release it gets it: they sleep between two commits.
Fairness == /\ WF_vars(MainStep)
            /\ WF_vars(HandleSignal)
            /\ SF_vars(LoopTest) /\ SF_vars(AcquireRead) /\ SF_vars(AcquireStore)
            /\ \A p \in Plugins : WF_vars(Prompt(p))
            /\ \A t \in TableMods : SF_vars(BeginReplace(t))

FairSpec == Spec /\ Fairness

-----------------------------------------------------------------------------
(* Properties.                                                              *)

\* The rows that the main thread is going through while it gathers an answer
\* are still those of the table: no row it has read is freed or replaced before
\* the answer is complete (changelog: "Avoid table clearing race condition with
\* request processing").
CursorValid ==
  main = "read" /\ request \in TableMods =>
    \A i \in DOMAIN got : i \in DOMAIN table[request] /\ got[i] = table[request][i]

\* Between two commits a table holds exactly the rows of the last collection
\* that completed, the retained ones included: a collection that fails does not
\* touch what is served, and no plugin polls before what it retained is served.
Published ==
  \A t \in TableMods : fetch[t] \in {"loop", "collect", "period", "ended"} =>
    table[t] = latest[t]

\* A commit gets past an item only when the item has no value or its value is
\* served, buffer and size; whatever commit_data did, a size that does not fit
\* its buffer belongs to the one item whose set_value is half done.
ItemsInOrder ==
  \A v \in ValueMods :
    /\ fetch[v] \in {"items", "size"} /\ v \notin Tailed =>
         \A i \in 1..(item[v] - 1) :
           vals[v][i] = NoValue \/ wire[v][i] = Whole(vals[v][i])
    /\ \A i \in Items(v) : wire[v][i].data # wire[v][i].size =>
         fetch[v] = "size" /\ item[v] = i

\* Seen from outside, a table whose replacement has begun holds its new rows:
\* nobody can ask before the replacement ends.
Served == [t \in TableMods |-> IF Writing(t) THEN rows[t] ELSE table[t]]

Service == INSTANCE TableService WITH Tables <- TableMods, Nobody <- NoRequest,
                                      served <- Served

\* Every answer about a table is the whole of one completed collection of it.
ServiceSpec == Service!Spec

\* A query is answered, however many tables are being replaced and whether or
\* not collections end, unless the agent stops.
RequestAnswered == request # NoRequest ~> (request = NoRequest \/ main = "exited")

\* A commit that has begun ends: the main thread cannot keep the lock from it.
CommitFinishes ==
  \A p \in Plugins : fetch[p] \in {"commit", "clear", "append", "items", "size"} ~>
    (fetch[p] \in {"loop", "period"} \/ main = "exited")

\* A signal, wherever it finds the main thread, and the death of the http
\* process end the agent, even if an update thread never returns.
StopsWhenTold == (tripped \/ done \/ ~httpd) /\ main # "setup" ~> main = "exited"
=============================================================================
