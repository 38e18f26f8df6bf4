------------------------------ MODULE Registry ------------------------------
(***************************************************************************)
(* From the plugin files to the objects an agent registers: parse_conf and *)
(* initialize (snmpy), the constructors of lib/snmpy/module/__init__.py,   *)
(* lib/snmpy/mibgen.py, start_agent (lib/snmpy/server.py) and the register *)
(* functions of lib/snmpy/agentx.py.                                       *)
(*                                                                         *)
(* A plugin is "NNNN_some_name.yml"; it owns the OID subtree NNNN, and its *)
(* objects are named snmpySomeName... in the generated MIB.  Objects are   *)
(* registered, and their values replaced, by that name.  camel_case drops  *)
(* the underscores, so a name is modelled as its sequence of words, and    *)
(* the name of an object is the words of the plugin, then its own.  Names  *)
(* are in lower case, and no file sets "name" or "snmpy_index" itself.     *)
(***************************************************************************)
EXTENDS Integers, Sequences, FiniteSets

CONSTANT Files   \* the plugin files that may lie in include_dir

ASSUME FilesAssumption ==
  \A f \in Files : /\ f.index \in Nat
                   /\ f.kind \in {"value", "table"}
                   /\ \A i, j \in DOMAIN f.labels : f.labels[i] = f.labels[j] => i = j

VARIABLES
  files,    \* those that do; they do not change
  place,    \* where the main thread is
  conf,     \* the files parse_conf has taken
  todo,     \* those whose objects are not registered
  data,     \* AgentX.data: from an object's name to the index of whose it is
  mtbl      \* the table of plugins: from an index to a name

vars == <<files, place, conf, todo, data, mtbl>>

Global == <<"snmpy", "global">>

Init == /\ files \in SUBSET Files
        /\ place = "reading"
        /\ conf = {} /\ todo = {}
        /\ data = <<>> /\ mtbl = <<>>

-----------------------------------------------------------------------------
(* The MIB: names, each defined by the name of its parent and a number.      *)

Root == <<"MIB">>
Object(name, parent, number) == [name |-> name, parent |-> parent, number |-> number]

Predefined == {Object(<<"info">>, Root, 0), Object(<<"info", "version">>, <<"info">>, 0),
               Object(<<"info", "plugins", "table">>, <<"info">>, 1),
               Object(<<"info", "plugins", "entry">>, <<"info", "plugins", "table">>, 1),
               Object(<<"info", "plugins", "name">>, <<"info", "plugins", "entry">>, 1)}

\* Items and columns are numbered from 1, in the order of the file.
ValueMib(f) == {Object(f.name \o f.labels[i], f.name, i) : i \in DOMAIN f.labels}

TableMib(f) ==
  {Object(f.name \o <<"table">>, f.name, 1), Object(f.name \o <<"entry">>, f.name \o <<"table">>, 1)}
    \cup {Object(f.name \o f.labels[i], f.name \o <<"entry">>, i) : i \in DOMAIN f.labels}

config_mib(f) == {Object(f.name, Root, f.index)}
                   \cup IF f.kind = "value" THEN ValueMib(f) ELSE TableMib(f)

\* A plugin of this name is registered, and has no place in the MIB.
LeftOut(f) == f.name = <<"snmpy", "info">>

create_mib(plugins) == Predefined \cup UNION {config_mib(f) : f \in {f \in plugins : ~LeftOut(f)}}

\* net-snmp puts an object below whatever has the name of its parent.  Pairs of a
\* name and an OID below snmpyMIB; the columns of a table are the deepest.
Below(mib, placed) ==
  {<<c[1].name, Append(c[2][2], c[1].number)>> :
     c \in {c \in mib \X placed : c[1].parent = c[2][1]}}

Resolved(mib) ==
  LET first  == Below(mib, {<<Root, <<>>>>})
      second == Below(mib, first)
      third  == Below(mib, second)
  IN  first \cup second \cup third \cup Below(mib, third)

\* Where an object may be registered: read_objid finds one of the OIDs of its name.
Oids(n) == {r[2] : r \in {r \in Resolved(create_mib(files)) : r[1] = n}}

-----------------------------------------------------------------------------
(* Reading the configuration.                                               *)

\* Mutant: the index is not compared with those of the other plugins.
RefusedIgnoringIndex(f) == f.name \in {g.name : g \in conf} \cup {Global} \/ f.index < 1

\* Mutant: index 0, that of the agent's own subtree, is let through.
RefusedFromIndex(f) == \/ f.name \in {g.name : g \in conf} \cup {Global}
                       \/ f.index \in {g.index : g \in conf}

\* Each of the three raises a ValueError that nothing catches.
Refused(f) == \/ f.name \in {g.name : g \in conf} \cup {Global}
              \/ f.index < 1
              \/ f.index \in {g.index : g \in conf}

\* glob lists the directory in no particular order.
ReadFile(f) ==
  /\ place = "reading" /\ f \in files \ conf
  /\ IF Refused(f) THEN place' = "refused" /\ UNCHANGED conf
                   ELSE conf' = conf \cup {f} /\ UNCHANGED place
  /\ UNCHANGED <<files, todo, data, mtbl>>

OwnNames == {<<"info", "version">>, <<"info", "plugins", "table">>}

\* The agent registers its own objects before those of the plugins.
EndReading ==
  /\ place = "reading" /\ conf = files
  /\ place' = "making"
  /\ todo' = conf
  /\ data' = [n \in OwnNames |-> 0]
  /\ UNCHANGED <<files, conf, mtbl>>

-----------------------------------------------------------------------------
(* start_agent.                                                             *)

\* The names under which objects of a plugin are registered: its items, or its
\* table, whose columns are not registered.
Names(f) == IF f.kind = "value" THEN {f.name \o f.labels[i] : i \in DOMAIN f.labels}
                                ELSE {f.name \o <<"table">>}

\* Mutant: a second object of the same name takes the place of the first.
TakenNever(f) == FALSE

\* register_value and register_table raise a ValueError.
Taken(f) == Names(f) \cap DOMAIN data # {}

\* Mutant: rows of the table of plugins are numbered in the order they come.
RowNumber(f) == Cardinality(DOMAIN mtbl) + 1

\* The first of the two values that append is given.
RowIndex(f) == f.index

\* The plugins are sorted by name; here they come in any order.  Nothing catches
\* the error.  A row whose index is taken is not added.
Register(f) ==
  /\ place = "making" /\ f \in todo
  /\ todo' = todo \ {f}
  /\ mtbl' = [i \in DOMAIN mtbl \cup {RowIndex(f)} |-> IF i \in DOMAIN mtbl THEN mtbl[i] ELSE f.name]
  /\ IF Taken(f)
     THEN place' = "refused" /\ UNCHANGED data
     ELSE /\ data' = [n \in DOMAIN data \cup Names(f) |->
                         IF n \in Names(f) THEN f.index ELSE data[n]]
          /\ UNCHANGED place
  /\ UNCHANGED <<files, conf>>

EndRegister ==
  /\ place = "making" /\ todo = {}
  /\ place' = "up"
  /\ UNCHANGED <<files, conf, todo, data, mtbl>>

Next == \/ \E f \in Files : ReadFile(f) \/ Register(f)
        \/ EndReading \/ EndRegister

Spec == Init /\ [][Next]_vars

-----------------------------------------------------------------------------
(* Properties.                                                              *)

\* The type invariant: every object belongs to a plugin that was taken, or to
\* the agent itself.
TypeOK == /\ files \subseteq Files /\ conf \subseteq files /\ todo \subseteq conf
          /\ place \in {"reading", "making", "up", "refused"}
          /\ \A n \in DOMAIN data : data[n] \in {0} \cup {f.index : f \in conf}
          /\ DOMAIN mtbl \subseteq {f.index : f \in conf}

\* Two objects of different plugins, or of a plugin and the agent, of one name.
ObjectClash == \/ \E f, g \in files : f # g /\ Names(f) \cap Names(g) # {}
               \/ \E f \in files : Names(f) \cap OwnNames # {}
PluginClash == \/ \E f, g \in files : f # g /\ (f.index = g.index \/ f.name = g.name)
               \/ \E f \in files : f.index = 0 \/ f.name = Global

\* Whether the agent starts depends on the files alone, not on the order in
\* which the directory lists them, and it is refused only for a clash.
OutcomeByFiles == /\ place = "up" => ~ObjectClash /\ ~PluginClash
                  /\ place = "refused" => ObjectClash \/ PluginClash

\* What a plugin commits under the name of an object goes to its own object:
\* replace_value and replace_table look the name up in the same dictionary.  And
\* the table of plugins shows every plugin, at the index that its subtree has.
OwnObjects ==
  place = "up" => \A f \in files :
    /\ \A n \in Names(f) : n \in DOMAIN data /\ data[n] = f.index
    /\ f.index \in DOMAIN mtbl /\ mtbl[f.index] = f.name

NamesOnce(mib) == /\ \A d \in mib : d.name # Root
                  /\ \A d, e \in mib : d.name = e.name => d = e

\* The name of a registered object leads to one OID, in the subtree of the plugin
\* that registered it and of no other such object, if the plugin is in the MIB and the
\* MIB defines no name twice.  It does define one twice for a plugin "info", whose
\* items may end up below the agent's own snmpyInfo, or for an item "io" of a plugin
\* "disk" beside a plugin "disk_io".
OwnOids ==
  place = "up" /\ NamesOnce(create_mib(files)) =>
    LET shown == {n \in DOMAIN data : \A f \in files : LeftOut(f) => n \notin Names(f)}
    IN  /\ \A n \in shown : \E oid \in Oids(n) : Oids(n) = {oid} /\ oid[1] = data[n]
        /\ \A m, n \in shown : m # n => Oids(m) \cap Oids(n) = {}
=============================================================================
