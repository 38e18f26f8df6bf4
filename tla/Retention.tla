----------------------------- MODULE Retention -----------------------------
(***************************************************************************)
(* What a plugin with "retain: true" keeps between two runs of snmpy:      *)
(* load and dump of ValueModule and TableModule (lib/snmpy/module),        *)
(* initialize (snmpy), and the parts of start_agent, start_fetch and       *)
(* commit_data that use what was loaded or dumped.                         *)
(*                                                                         *)
(* Every update ends with a dump: the file is opened for writing, which    *)
(* truncates it, then written.  The process may end between any two steps  *)
(* of any plugin: the update threads are daemons, so an ordinary stop      *)
(* ends them anywhere, and so does a fatal error of another plugin.  The   *)
(* next run starts from the file, under a configuration that may differ.   *)
(*                                                                         *)
(* The items of a log_processor are set by its tail thread, from the       *)
(* constructor on and at any time: while they are registered, while they   *)
(* are read for the dump, and between the dump and the commit.  So what is *)
(* done item by item in the code is done item by item here.                *)
(***************************************************************************)
EXTENDS Integers, Sequences, FiniteSetsExt

CONSTANTS TableMods,   \* the plugins that are a TableModule
          ValueMods,   \* the plugins that are a ValueModule
          Schemas,     \* what a plugin's items or columns may be configured as
          MayBeLong,   \* whether collected strings may exceed MAX_STR_LEN
          MaxCount,    \* bound: collections of one plugin, or items set by its tail
          MaxTotal,    \* bound: collections of all plugins
          Absent,      \* a save file that was never made
          Cut          \* one cut short: opened for writing and not written whole

Plugins == TableMods \cup ValueMods
Types == {"int", "str"}

ASSUME RetentionAssumption == /\ TableMods \cap ValueMods = {}
                              /\ Schemas \subseteq Seq(Types) \ {<<>>}
                              /\ MayBeLong \in BOOLEAN
                              /\ MaxCount \in Nat
                              /\ Absent # Cut

\* The value of an item or of a column: an integer, a string, one too long for an
\* OctetString, one that was clipped to fit, or None; and when it was collected.
None == [n |-> 0, is |-> "none"]
Cell == {None} \cup [n : 1..MaxCount, is : {"int", "str", "long", "clip"}]

\* What a plugin holds: a cell per item, or per column of its row, under some schema.
Contents == {<<>>} \cup UNION {[DOMAIN s -> Cell] : s \in Schemas}

ASSUME FileAssumption == {Absent, Cut} \cap Contents = {}

VARIABLES
  up,        \* the process: down, in initialize, or in start_agent and after
  died,      \* history: where the last fatal error was, "" if none
  schema,    \* schema[p]: conf[p]['items'] or conf[p]['table']
  tailed,    \* the value plugins that are a log_processor
  stage,     \* stage[p]: where the plugin is
  pos,       \* pos[p]: the item the loop it is in has come to
  mem,       \* mem[p]: what the plugin object holds
  snap,      \* snap[p]: the list the dump makes and writes
  served,    \* served[p]: what the SNMP side holds
  file,      \* file[p]: the save file
  count,     \* count[p]: history, collections so far in all runs
  due,       \* due[p]: history, what of each item must not be lost any more
  tooLong,   \* tooLong[p]: history, in this run the tail set a string too long before the boot commit
  lost,      \* lost[p]: history, the last dump failed or was interrupted
  changed    \* changed[p]: history, configured anew since the last dump

proc == <<up, died>>
conf == <<schema, tailed>>
disk == <<file, lost, changed>>
vars == <<proc, conf, disk, stage, pos, mem, snap, served, count, due, tooLong>>

Stages == {"off", "loaded", "boot", "idle", "collected", "read", "dumping", "dumped"}

\* What is kept of a plugin: each of its items, or its rows as a whole.
AllItems == UNION {DOMAIN s : s \in Schemas}
Slots(p) == IF p \in TableMods THEN {1} ELSE AllItems

\* The type invariant: a save file is absent, cut, or holds one whole dump.
TypeOK == /\ up \in {"down", "load", "setup"}
          /\ died \in {"", "load", "setup", "boot"}
          /\ schema \in [Plugins -> Schemas] /\ tailed \subseteq ValueMods
          /\ stage \in [Plugins -> Stages] /\ pos \in [Plugins -> AllItems \cup {1}]
          /\ mem \in [Plugins -> Contents] /\ snap \in [Plugins -> Contents]
          /\ served \in [Plugins -> Contents]
          /\ file \in [Plugins -> Contents \cup {Absent, Cut}]
          /\ count \in [Plugins -> 0..MaxCount]
          /\ due \in [Plugins -> [AllItems \cup {1} -> 0..MaxCount]]
          /\ tooLong \in [Plugins -> BOOLEAN]
          /\ lost \in [Plugins -> BOOLEAN] /\ changed \in [Plugins -> BOOLEAN]

Init == /\ up = "down" /\ died = ""
        /\ schema \in [Plugins -> Schemas] /\ tailed \in SUBSET ValueMods
        /\ stage = [p \in Plugins |-> "off"] /\ pos = [p \in Plugins |-> 1]
        /\ mem = [p \in Plugins |-> <<>>] /\ snap = [p \in Plugins |-> <<>>]
        /\ served = [p \in Plugins |-> <<>>]
        /\ file = [p \in Plugins |-> Absent]
        /\ count = [p \in Plugins |-> 0]
        /\ due = [p \in Plugins |-> [i \in AllItems \cup {1} |-> 0]]
        /\ tooLong = [p \in Plugins |-> FALSE]
        /\ lost = [p \in Plugins |-> FALSE] /\ changed = [p \in Plugins |-> FALSE]

Newest(a, b) == IF a < b THEN b ELSE a
Stamp(contents, i) == IF i \in DOMAIN contents THEN contents[i].n ELSE 0

\* A loop over the items of a plugin goes on, and after the last to another stage.
Advance(p, next) ==
  LET last == Len(schema[p])
  IN  /\ pos' = [pos EXCEPT ![p] = IF @ = last THEN 1 ELSE @ + 1]
      /\ stage' = [stage EXCEPT ![p] = IF pos[p] = last THEN next ELSE @]

-----------------------------------------------------------------------------
(* The process.                                                             *)

Reconfigure(p) ==
  /\ up = "down"
  /\ \E s \in Schemas \ {schema[p]} : schema' = [schema EXCEPT ![p] = s]
  /\ changed' = [changed EXCEPT ![p] = TRUE]
  /\ UNCHANGED <<proc, tailed, file, lost, stage, pos, mem, snap, served, count, due, tooLong>>

Start ==
  /\ up = "down"
  /\ up' = "load" /\ died' = ""
  /\ tooLong' = [p \in Plugins |-> FALSE]
  /\ UNCHANGED <<conf, disk, stage, pos, mem, snap, served, count, due>>

\* The process ends: every thread with it, the dump of one in the middle.
Exit(why) ==
  /\ up' = "down" /\ died' = why
  /\ stage' = [p \in Plugins |-> "off"] /\ pos' = [p \in Plugins |-> 1]
  /\ mem' = [p \in Plugins |-> <<>>] /\ snap' = [p \in Plugins |-> <<>>]
  /\ served' = [p \in Plugins |-> <<>>]
  /\ lost' = [p \in Plugins |-> lost[p] \/ stage[p] = "dumping"]
  /\ UNCHANGED <<conf, file, changed, count, due, tooLong>>

\* A signal, the death of the http process, a kill; a fatal error that has nothing to
\* do with retained data, as of a tail thread.
Stop == up # "down" /\ Exit("")

-----------------------------------------------------------------------------
(* From the file to what is served.                                         *)

\* load(): a missing file is an IOError, which is logged.  What pickle raises
\* on a cut file is none, nor is the KeyError of an item that is not configured
\* any more; initialize makes them fatal.
Whole(p) == file[p] \notin {Absent, Cut}
LoadRaises(p) == \/ file[p] = Cut
                 \/ p \in ValueMods /\ Whole(p) /\ ~(DOMAIN file[p] \subseteq DOMAIN schema[p])

\* The rows that were dumped, or a value for each item, None if the file has none.
Loaded(p) ==
  IF p \in ValueMods
    THEN [i \in DOMAIN schema[p] |-> IF Whole(p) /\ i \in DOMAIN file[p] THEN file[p][i] ELSE None]
    ELSE IF Whole(p) THEN file[p] ELSE <<>>

\* Nothing is served of a value plugin before it is registered.
Blank(p) == IF p \in ValueMods THEN [i \in DOMAIN schema[p] |-> None] ELSE <<>>

\* Mutant: load() drops what it read.
LoadNothing(p) ==
  /\ up = "load" /\ stage[p] = "off" /\ ~LoadRaises(p)
  /\ mem' = [mem EXCEPT ![p] = Blank(p)]
  /\ served' = [served EXCEPT ![p] = Blank(p)]
  /\ stage' = [stage EXCEPT ![p] = "loaded"]
  /\ UNCHANGED <<proc, conf, disk, pos, snap, count, due, tooLong>>

Load(p) ==
  /\ up = "load" /\ stage[p] = "off" /\ ~LoadRaises(p)
  /\ mem' = [mem EXCEPT ![p] = Loaded(p)]
  /\ served' = [served EXCEPT ![p] = Blank(p)]
  /\ stage' = [stage EXCEPT ![p] = "loaded"]
  /\ UNCHANGED <<proc, conf, disk, pos, snap, count, due, tooLong>>

LoadFatal(p) == up = "load" /\ stage[p] = "off" /\ LoadRaises(p) /\ Exit("load")

EndLoad ==
  /\ up = "load" /\ \A p \in Plugins : stage[p] = "loaded"
  /\ up' = "setup"
  /\ UNCHANGED <<died, conf, disk, stage, pos, mem, snap, served, count, due, tooLong>>

\* set_value refuses what is not of its type and a string that is too long.
Refused(p) == mem[p][pos[p]].is \notin {"none", schema[p][pos[p]]}

\* The item the loop has come to is served as it is now; one without a value is not.
\* Of a plugin without a tail thread it must not be lost from then on.
ServeItem(p) ==
  LET i == pos[p] IN
  /\ served' = [served EXCEPT ![p][i] = IF mem[p][i].is = "none" THEN @ ELSE mem[p][i]]
  /\ due' = [due EXCEPT ![p][i] = IF p \in tailed THEN @ ELSE Newest(@, mem[p][i].n)]

\* Mutant: the constructor does not cut.
ConstructorRefuses(type, x) == type = x

\* The constructor, as Table.append calls it, cuts a long string instead.
ConstructorAccepts(type, x) == type = x \/ (type = "str" /\ x = "long")

Clipped(c) == IF c.is = "long" THEN [c EXCEPT !.is = "clip"] ELSE c
Row(contents) == [i \in DOMAIN contents |-> Clipped(contents[i])]

\* Table.append of a row.  One datum too many makes the first the index; more
\* raise IndexError.
Shifted(p) == DOMAIN mem[p] = 1..Len(schema[p]) + 1
RowOf(p) == IF Shifted(p) THEN [i \in DOMAIN schema[p] |-> mem[p][i + 1]] ELSE mem[p]
AppendRaises(p) ==
  \/ Shifted(p) /\ mem[p][1].is # "int"
  \/ ~(DOMAIN RowOf(p) \subseteq DOMAIN schema[p])
  \/ \E i \in DOMAIN RowOf(p) \cap DOMAIN schema[p] :
       ~ConstructorAccepts(schema[p][i], RowOf(p)[i].is)

ServeTable(p, contents) ==
  /\ served' = [served EXCEPT ![p] = Row(contents)]
  /\ due' = [due EXCEPT ![p][1] = Newest(@, Stamp(contents, 1))]

\* start_agent registers the plugins one after another, and starts the thread of
\* each.  A table is registered without its rows, an item with its value.
SetupTable(p) ==
  /\ up = "setup" /\ p \in TableMods /\ stage[p] = "loaded"
  /\ \A q \in Plugins : stage[q] = "loaded" => pos[q] = 1
  /\ stage' = [stage EXCEPT ![p] = "boot"]
  /\ UNCHANGED <<proc, conf, disk, pos, mem, snap, served, count, due, tooLong>>

SetupItem(p) ==
  /\ up = "setup" /\ p \in ValueMods /\ stage[p] = "loaded"
  /\ \A q \in Plugins \ {p} : stage[q] = "loaded" => pos[q] = 1
  /\ ~Refused(p) /\ ServeItem(p)
  /\ Advance(p, "boot")
  /\ UNCHANGED <<proc, conf, disk, mem, snap, count, tooLong>>

\* An exception in start_agent is caught by nobody.
SetupFatal(p) ==
  /\ up = "setup" /\ p \in ValueMods /\ stage[p] = "loaded"
  /\ \A q \in Plugins \ {p} : stage[q] = "loaded" => pos[q] = 1
  /\ Refused(p)
  /\ Exit("setup")

\* start_fetch commits what was loaded before the first update; of a log_processor,
\* what its items are by now.
BootTable(p) ==
  /\ stage[p] = "boot" /\ p \in TableMods /\ ~AppendRaises(p)
  /\ ServeTable(p, RowOf(p))
  /\ stage' = [stage EXCEPT ![p] = "idle"]
  /\ UNCHANGED <<proc, conf, disk, pos, mem, snap, count, tooLong>>

BootItem(p) ==
  /\ stage[p] = "boot" /\ p \in ValueMods
  /\ ~Refused(p) /\ ServeItem(p)
  /\ Advance(p, "idle")
  /\ UNCHANGED <<proc, conf, disk, mem, snap, count, tooLong>>

\* It does so outside its try: work_func ends the process.
BootFatal(p) ==
  /\ stage[p] = "boot"
  /\ IF p \in TableMods THEN AppendRaises(p) ELSE Refused(p)
  /\ Exit("boot")

-----------------------------------------------------------------------------
(* An update: Meta.wrapper is clear, the plugin's update, dump; then commit. *)

Produces(type) == IF type = "str" /\ MayBeLong THEN {"str", "long"} ELSE {type}

\* A value the plugin has collected just now for an item or column of that type.
Fresh(p, type) == [n : {count[p] + 1}, is : Produces(type)]
CountOne(p) ==
  /\ count[p] < MaxCount /\ MapThenSumSet(LAMBDA q : count[q], Plugins) < MaxTotal
  /\ count' = [count EXCEPT ![p] = @ + 1]

\* The tail thread of a log_processor finds an item in a line.
TailSets(p) ==
  /\ p \in tailed /\ stage[p] # "off" /\ CountOne(p)
  /\ \E i \in DOMAIN schema[p] : \E c \in Fresh(p, schema[p][i]) :
       /\ mem' = [mem EXCEPT ![p][i] = c]
       /\ tooLong' = [tooLong EXCEPT ![p] = 
                       @ \/ (c.is = "long" /\ stage[p] \in {"loaded", "boot"})]
  /\ UNCHANGED <<proc, conf, disk, stage, pos, snap, served, due>>

\* The rows are all new, a value is if it was found.  log_processor's update is empty.
CollectTable(p) ==
  /\ stage[p] = "idle" /\ p \in TableMods /\ CountOne(p)
  /\ \E row \in [DOMAIN schema[p] -> UNION {Fresh(p, type) : type \in Types}] :
       /\ \A i \in DOMAIN row : row[i] \in Fresh(p, schema[p][i])
       /\ mem' = [mem EXCEPT ![p] = row] /\ snap' = [snap EXCEPT ![p] = row]
  /\ stage' = [stage EXCEPT ![p] = "read"]
  /\ UNCHANGED <<proc, conf, disk, pos, served, due, tooLong>>

\* The items before the k-th have been looked for.
Updated(p, k) ==
  {items \in [DOMAIN schema[p] -> UNION {Fresh(p, type) : type \in Types}
                                    \cup {mem[p][i] : i \in DOMAIN schema[p]}] :
     \A i \in DOMAIN schema[p] : \/ items[i] = mem[p][i]
                                 \/ i < k /\ items[i] \in Fresh(p, schema[p][i])}

CollectItems(p) ==
  /\ stage[p] = "idle" /\ p \in ValueMods \ tailed /\ CountOne(p)
  /\ \E items \in Updated(p, Len(schema[p]) + 1) :
       mem' = [mem EXCEPT ![p] = items] /\ snap' = [snap EXCEPT ![p] = items]
  /\ stage' = [stage EXCEPT ![p] = "collected"]
  /\ UNCHANGED <<proc, conf, disk, pos, served, due, tooLong>>

CollectNothing(p) ==
  /\ stage[p] = "idle" /\ p \in tailed
  /\ snap' = [snap EXCEPT ![p] = mem[p]]
  /\ stage' = [stage EXCEPT ![p] = "collected"]
  /\ UNCHANGED <<proc, conf, disk, pos, mem, served, count, due, tooLong>>

\* The update raises: no dump, no commit.  TableModule.clear has emptied the rows,
\* and what it got to of them is replaced by the next update that ends well; the
\* items it got to stay set.
CollectFails(p) ==
  /\ stage[p] = "idle" /\ p \notin tailed
  /\ \/ p \in TableMods /\ mem' = [mem EXCEPT ![p] = <<>>] /\ UNCHANGED count
     \/ /\ p \in ValueMods /\ CountOne(p)
        /\ \E items \in Updated(p, Len(schema[p])) : mem' = [mem EXCEPT ![p] = items]
  /\ UNCHANGED <<proc, conf, disk, stage, pos, snap, served, due, tooLong>>

\* dump() makes the list of items and values before it opens the file.
ReadItem(p) ==
  /\ stage[p] = "collected" /\ p \in ValueMods
  /\ snap' = [snap EXCEPT ![p][pos[p]] = mem[p][pos[p]]]
  /\ Advance(p, "read")
  /\ UNCHANGED <<proc, conf, disk, mem, served, count, due, tooLong>>

\* open(..., 'w') truncates.
DumpOpen(p) ==
  /\ stage[p] = "read"
  /\ file' = [file EXCEPT ![p] = Cut]
  /\ stage' = [stage EXCEPT ![p] = "dumping"]
  /\ UNCHANGED <<proc, conf, lost, changed, pos, mem, snap, served, count, due, tooLong>>

\* From now on what has been served in this run must not be lost, nor what was not
\* lost by earlier ones.
DumpWrite(p) ==
  /\ stage[p] = "dumping"
  /\ file' = [file EXCEPT ![p] = snap[p]]
  /\ due' = [due EXCEPT ![p] = [i \in DOMAIN @ |->
               IF i \in Slots(p) THEN Newest(IF lost[p] THEN 0 ELSE @[i], Stamp(served[p], i)) ELSE 0]]
  /\ lost' = [lost EXCEPT ![p] = FALSE]
  /\ changed' = [changed EXCEPT ![p] = FALSE]
  /\ stage' = [stage EXCEPT ![p] = "dumped"] /\ snap' = [snap EXCEPT ![p] = <<>>]
  /\ UNCHANGED <<proc, conf, pos, mem, served, count, tooLong>>

\* The IOError of an open that is refused or of a write that finds the disk full
\* is logged, and the update goes on.
DumpFails(p) ==
  /\ stage[p] \in {"read", "dumping"}
  /\ lost' = [lost EXCEPT ![p] = TRUE]
  /\ stage' = [stage EXCEPT ![p] = "dumped"] /\ snap' = [snap EXCEPT ![p] = <<>>]
  /\ UNCHANGED <<proc, conf, file, changed, pos, mem, served, count, due, tooLong>>

\* commit_data, in the loop and its try.
CommitTable(p) ==
  /\ stage[p] = "dumped" /\ p \in TableMods
  /\ ServeTable(p, mem[p])
  /\ stage' = [stage EXCEPT ![p] = "idle"]
  /\ UNCHANGED <<proc, conf, disk, pos, mem, snap, count, tooLong>>

\* Mutant: the commit does not wait for the dump.
CommitBeforeDump(p) ==
  /\ stage[p] \in {"read", "dumped"} /\ p \in ValueMods
  /\ ~Refused(p) /\ ServeItem(p)
  /\ Advance(p, "idle")
  /\ UNCHANGED <<proc, conf, disk, mem, snap, count, tooLong>>

CommitItem(p) ==
  /\ stage[p] = "dumped" /\ p \in ValueMods
  /\ ~Refused(p) /\ ServeItem(p)
  /\ Advance(p, "idle")
  /\ UNCHANGED <<proc, conf, disk, mem, snap, count, tooLong>>

\* A value that is too long ends it: the items before stay served, the rest waits.
CommitRaises(p) ==
  /\ stage[p] = "dumped" /\ p \in ValueMods
  /\ Refused(p)
  /\ stage' = [stage EXCEPT ![p] = "idle"] /\ pos' = [pos EXCEPT ![p] = 1]
  /\ UNCHANGED <<proc, conf, disk, mem, snap, served, count, due, tooLong>>

-----------------------------------------------------------------------------
PluginStep(p) == \/ Reconfigure(p) \/ TailSets(p)
                 \/ Load(p) \/ LoadFatal(p)
                 \/ SetupTable(p) \/ SetupItem(p) \/ SetupFatal(p)
                 \/ BootTable(p) \/ BootItem(p) \/ BootFatal(p)
                 \/ CollectTable(p) \/ CollectItems(p) \/ CollectNothing(p) \/ CollectFails(p)
                 \/ ReadItem(p) \/ DumpOpen(p) \/ DumpWrite(p) \/ DumpFails(p)
                 \/ CommitTable(p) \/ CommitItem(p) \/ CommitRaises(p)

Next == Start \/ EndLoad \/ Stop \/ \E p \in Plugins : PluginStep(p)

Spec == Init /\ [][Next]_vars

-----------------------------------------------------------------------------
(* Properties.                                                              *)

\* No restart goes back in time: whatever has been served is in the save file,
\* or something later is, outside of a dump and unless the last one failed or
\* was interrupted.  This is why the dump comes before the commit.  Of a
\* log_processor it holds of what was served when the last dump was written: what
\* its tail thread has set since may be served and is in no file.
Durable ==
  \A p \in Plugins : ~lost[p] /\ stage[p] # "dumping" =>
    /\ file[p] # Cut
    /\ \A i \in Slots(p) : (IF Whole(p) THEN Stamp(file[p], i) ELSE 0) >= due[p][i]

\* A restart under the same configuration serves what was saved before it collects
\* anything: the row as it was but for strings that are too long, which are cut; each
\* item unaltered, unless a tail thread has already found it again.
RestoredAsSaved ==
  [][\A p \in Plugins : stage[p] = "boot" /\ stage'[p] = "idle" /\ ~changed[p] =>
       IF p \in TableMods THEN served'[p] = IF Whole(p) THEN Row(file[p]) ELSE <<>>
       ELSE \A i \in DOMAIN schema[p] :
              LET saved == IF Whole(p) /\ i \in DOMAIN file[p] THEN file[p][i] ELSE None
              IN  \/ served'[p][i] = saved
                  \/ p \in tailed /\ served'[p][i].n > saved.n]_vars

\* What can keep the agent from starting: a dump that failed or was interrupted,
\* a new configuration for old data, a value item's string that is too long, saved
\* or found by a tail thread before the commit at start.  Nothing else does.
OnlyBadDataIsFatal ==
  died # "" => \E p \in Plugins :
    \/ lost[p] \/ changed[p]
    \/ p \in ValueMods /\ Whole(p) /\ \E i \in DOMAIN file[p] : file[p][i].is = "long"
    \/ p \in tailed /\ tooLong[p]

\* changelog, "Fix bad data plugin crashes preventing system startup": a save
\* file left by a dump that did not end does not keep the agent from starting.
LoadSurvives == died # "load"
=============================================================================
