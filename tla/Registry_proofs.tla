-------------------------- MODULE Registry_proofs --------------------------
(* Proofs about what an agent registers: for any set of plugin files, in any   *)
(* order.                                                                      *)
EXTENDS Registry, TLAPS, SequenceTheorems

Done == conf \ todo

\* The plugins that parse_conf has taken differ in name and index.
ConfInv ==
  /\ \A f \in conf : f.name # Global /\ f.index \in Nat \ {0}
  /\ \A f, g \in conf : f # g => f.index # g.index /\ f.name # g.name

\* What is registered is the agent's own and that of the plugins that are done,
\* each under the index of its plugin, and no two of them have a name in common.
DataInv ==
  /\ conf = files
  /\ \A n \in DOMAIN data : n \in OwnNames \/ \E f \in Done : n \in Names(f)
  /\ \A n \in OwnNames : n \in DOMAIN data /\ data[n] = 0
  /\ \A f \in Done : Names(f) \cap OwnNames = {}
  /\ \A f \in Done : \A n \in Names(f) : n \in DOMAIN data /\ data[n] = f.index
  /\ \A f, g \in Done : f # g => Names(f) \cap Names(g) = {}
  /\ \A i \in DOMAIN mtbl : \E f \in Done : i = f.index
  /\ \A f \in Done : f.index \in DOMAIN mtbl /\ mtbl[f.index] = f.name

RegistryInv ==
  /\ files \subseteq Files /\ conf \subseteq files /\ todo \subseteq conf
  /\ place \in {"reading", "making", "up", "refused"}
  /\ ConfInv
  /\ place = "reading" => todo = {} /\ DOMAIN data = {} /\ DOMAIN mtbl = {}
  /\ place \in {"making", "up"} => DataInv
  /\ place = "up" => todo = {}
  /\ place = "refused" =>
       /\ ObjectClash \/ PluginClash
       /\ \A n \in DOMAIN data : data[n] \in {0} \cup {f.index : f \in conf}
       /\ DOMAIN mtbl \subseteq {f.index : f \in conf}

LEMMA RegistryInit == Init => RegistryInv
<1> SUFFICES ASSUME Init PROVE RegistryInv
  OBVIOUS
<1>1. DOMAIN data = {} /\ DOMAIN mtbl = {}
  BY DEF Init
<1> QED BY <1>1 DEF Init, RegistryInv, ConfInv

\* A file that is refused clashes with one that was taken, or with the agent.
LEMMA ReadKeeps ==
  ASSUME RegistryInv, NEW f \in Files, ReadFile(f)
  PROVE  RegistryInv'
<1>1. /\ place = "reading" /\ f \in files \ conf /\ UNCHANGED <<files, todo, data, mtbl>>
      /\ files \subseteq Files /\ conf \subseteq files /\ ConfInv
      /\ todo = {} /\ DOMAIN data = {} /\ DOMAIN mtbl = {}
  BY DEF ReadFile, RegistryInv
<1>2. f.index \in Nat
  BY FilesAssumption
<1>3. CASE Refused(f)
  <2>1. place' = "refused" /\ conf' = conf
    BY <1>3 DEF ReadFile
  <2>2. PluginClash
    <3>1. CASE f.name = Global
      BY <1>1, <3>1 DEF PluginClash
    <3>2. CASE f.index < 1
      BY <1>1, <1>2, <3>2 DEF PluginClash
    <3>3. CASE f.name \in {g.name : g \in conf} \/ f.index \in {g.index : g \in conf}
      <4>1. PICK g \in conf : f.name = g.name \/ f.index = g.index
        BY <3>3
      <4> QED BY <1>1, <4>1 DEF PluginClash
    <3> QED BY <1>3, <3>1, <3>2, <3>3 DEF Refused
  <2>3. PluginClash'
    BY <1>1, <2>2 DEF PluginClash
  <2> QED BY <1>1, <2>1, <2>3 DEF RegistryInv, ConfInv
<1>4. CASE ~Refused(f)
  <2>1. place' = place /\ conf' = conf \cup {f}
    BY <1>4 DEF ReadFile
  <2>2. /\ f.name # Global /\ f.index \in Nat \ {0}
        /\ \A g \in conf : g.name # f.name /\ g.index # f.index
    BY <1>2, <1>4 DEF Refused
  <2>3. ConfInv'
    BY <1>1, <2>1, <2>2 DEF ConfInv
  <2> QED BY <1>1, <2>1, <2>3 DEF RegistryInv
<1> QED BY <1>3, <1>4

\* All are read: the agent's own objects are registered.
LEMMA EndReadingKeeps ==
  ASSUME RegistryInv, EndReading
  PROVE  RegistryInv'
<1>1. /\ conf = files /\ place' = "making" /\ todo' = conf
      /\ data' = [n \in OwnNames |-> 0] /\ UNCHANGED <<files, conf, mtbl>>
      /\ files \subseteq Files /\ ConfInv /\ DOMAIN mtbl = {}
  BY DEF EndReading, RegistryInv
<1>2. Done' = {} /\ OwnNames' = OwnNames
  BY <1>1 DEF Done, OwnNames
<1>3. DOMAIN data' = OwnNames /\ \A n \in OwnNames : data'[n] = 0
  BY <1>1
<1>4. DataInv'
  BY <1>1, <1>2, <1>3 DEF DataInv
<1> QED BY <1>1, <1>4 DEF RegistryInv, ConfInv

\* The objects of one plugin are registered, or one of their names is taken.
LEMMA RegisterKeeps ==
  ASSUME RegistryInv, NEW f \in Files, Register(f)
  PROVE  RegistryInv'
<1>1. /\ place = "making" /\ f \in todo /\ todo' = todo \ {f} /\ UNCHANGED <<files, conf>>
      /\ files \subseteq Files /\ todo \subseteq conf /\ conf = files
      /\ ConfInv /\ DataInv
  BY DEF Register, RegistryInv, DataInv
<1>2. Done' = Done \cup {f} /\ f \notin Done /\ Done \subseteq conf /\ f \in conf
  BY <1>1 DEF Done
<1>3. \A g \in Done : g.index # f.index
  BY <1>1, <1>2 DEF ConfInv
<1>4. f.index \notin DOMAIN mtbl
  BY <1>1, <1>3 DEF DataInv
<1>5. mtbl' = [i \in DOMAIN mtbl \cup {f.index} |-> IF i \in DOMAIN mtbl THEN mtbl[i] ELSE f.name]
  BY DEF Register, RowIndex
<1>6. /\ \A i \in DOMAIN mtbl' : \E g \in Done' : i = g.index
      /\ \A g \in Done' : g.index \in DOMAIN mtbl' /\ mtbl'[g.index] = g.name
  BY <1>1, <1>2, <1>4, <1>5 DEF DataInv
<1>7. CASE Taken(f)
  <2>1. place' = "refused" /\ data' = data
    BY <1>7 DEF Register
  <2>2. PICK n \in Names(f) : n \in DOMAIN data
    BY <1>7 DEF Taken
  <2>3. ObjectClash
    <3>1. CASE n \in OwnNames
      BY <1>1, <1>2, <2>2, <3>1 DEF ObjectClash
    <3>2. CASE \E g \in Done : n \in Names(g)
      BY <1>1, <1>2, <2>2, <3>2 DEF ObjectClash
    <3> QED BY <1>1, <2>2, <3>1, <3>2 DEF DataInv
  <2>4. ObjectClash'
    BY <1>1, <2>3 DEF ObjectClash, Names, OwnNames
  <2>5. \A m \in DOMAIN data : data[m] \in {0} \cup {g.index : g \in conf}
    BY <1>1, <1>2 DEF DataInv
  <2>6. DOMAIN mtbl' \subseteq {g.index : g \in conf}
    BY <1>2, <1>6
  <2> QED BY <1>1, <2>1, <2>4, <2>5, <2>6 DEF RegistryInv, ConfInv
<1>8. CASE ~Taken(f)
  <2>1. /\ place' = place
        /\ data' = [n \in DOMAIN data \cup Names(f) |-> IF n \in Names(f) THEN f.index ELSE data[n]]
    BY <1>8 DEF Register
  <2>2. Names(f) \cap DOMAIN data = {}
    BY <1>8 DEF Taken
  <2>3. /\ DOMAIN data' = DOMAIN data \cup Names(f)
        /\ \A n \in Names(f) : data'[n] = f.index
        /\ \A n \in DOMAIN data : data'[n] = data[n]
    BY <2>1, <2>2
  <2>4. Names(f) \cap OwnNames = {} /\ \A g \in Done : Names(f) \cap Names(g) = {}
    BY <1>1, <2>2 DEF DataInv
  <2>5. OwnNames' = OwnNames /\ \A g : Names(g)' = Names(g)
    BY DEF OwnNames, Names
  <2>6. /\ \A n \in DOMAIN data' : n \in OwnNames \/ \E g \in Done' : n \in Names(g)
        /\ \A n \in OwnNames : n \in DOMAIN data' /\ data'[n] = 0
        /\ \A g \in Done' : Names(g) \cap OwnNames = {}
        /\ \A g \in Done' : \A n \in Names(g) : n \in DOMAIN data' /\ data'[n] = g.index
        /\ \A g, h \in Done' : g # h => Names(g) \cap Names(h) = {}
    BY <1>1, <1>2, <2>3, <2>4 DEF DataInv
  <2>7. DataInv'
    BY <1>1, <1>6, <2>6 DEF DataInv, Names, OwnNames
  <2> QED BY <1>1, <2>1, <2>7 DEF RegistryInv, ConfInv
<1> QED BY <1>7, <1>8

LEMMA RegistryStep == RegistryInv /\ [Next]_vars => RegistryInv'
<1> SUFFICES ASSUME RegistryInv, [Next]_vars PROVE RegistryInv'
  OBVIOUS
<1>1. CASE \E f \in Files : ReadFile(f) \/ Register(f)
  BY <1>1, ReadKeeps, RegisterKeeps
<1>2. CASE EndReading
  BY <1>2, EndReadingKeeps
<1>3. CASE EndRegister
  <2>1. place = "making" /\ todo = {} /\ place' = "up" /\ UNCHANGED <<files, conf, todo, data, mtbl>>
    BY <1>3 DEF EndRegister
  <2>2. Done' = Done /\ OwnNames' = OwnNames /\ \A f : Names(f)' = Names(f)
    BY <2>1 DEF Done, OwnNames, Names
  <2>3. DataInv
    BY <2>1 DEF RegistryInv
  <2>4. DataInv'
    BY <2>1, <2>2, <2>3 DEF DataInv
  <2>5. /\ files \subseteq Files /\ conf \subseteq files /\ todo \subseteq conf /\ ConfInv
    BY DEF RegistryInv
  <2> QED BY <2>1, <2>4, <2>5 DEF RegistryInv, ConfInv
<1>4. CASE UNCHANGED vars
  <2>1. UNCHANGED <<files, place, conf, todo, data, mtbl>>
    BY <1>4 DEF vars
  <2>2. Done' = Done /\ OwnNames' = OwnNames /\ \A f : Names(f)' = Names(f)
    BY <2>1 DEF Done, OwnNames, Names
  <2>3. ObjectClash' = ObjectClash /\ PluginClash' = PluginClash /\ ConfInv' = ConfInv
    BY <2>1, <2>2 DEF ObjectClash, PluginClash, ConfInv
  <2>4. DataInv => DataInv'
    BY <2>1, <2>2 DEF DataInv
  <2> QED BY <2>1, <2>3, <2>4 DEF RegistryInv
<1> QED BY <1>1, <1>2, <1>3, <1>4 DEF Next

\* The inductive invariant.
THEOREM RegistryInvariant == Spec => []RegistryInv
<1> QED BY RegistryInit, RegistryStep, PTL DEF Spec

\* Every object belongs to a plugin that was taken, or to the agent itself.
THEOREM RegistryTypes == Spec => []TypeOK
<1>1. RegistryInv => TypeOK
  <2> SUFFICES ASSUME RegistryInv PROVE TypeOK
    OBVIOUS
  <2>1. CASE place \in {"making", "up"}
    <3>1. DataInv /\ Done \subseteq conf
      BY <2>1 DEF RegistryInv, Done
    <3> QED BY <3>1 DEF RegistryInv, DataInv, TypeOK
  <2>2. CASE place \in {"reading", "refused"}
    BY <2>2 DEF RegistryInv, TypeOK
  <2> QED BY <2>1, <2>2 DEF RegistryInv
<1> QED BY <1>1, RegistryInvariant, PTL

\* The agent starts if no two files clash, and is refused only if two do: the order
\* in which the directory lists them does not matter.
THEOREM OrderIsNoMatter == Spec => []OutcomeByFiles
<1>1. RegistryInv => OutcomeByFiles
  <2> SUFFICES ASSUME RegistryInv, place = "up" PROVE ~ObjectClash /\ ~PluginClash
    BY DEF RegistryInv, OutcomeByFiles
  <2>1. DataInv /\ ConfInv /\ Done = files /\ conf = files
    BY DEF RegistryInv, DataInv, Done
  <2>2. ~ObjectClash
    BY <2>1 DEF DataInv, ObjectClash
  <2>3. ~PluginClash
    BY <2>1 DEF ConfInv, PluginClash
  <2> QED BY <2>2, <2>3
<1> QED BY <1>1, RegistryInvariant, PTL

\* Each plugin's objects are its own, and the table of plugins shows it at its index.
THEOREM ObjectsAreOwn == Spec => []OwnObjects
<1>1. RegistryInv => OwnObjects
  BY DEF RegistryInv, DataInv, Done, OwnObjects
<1> QED BY <1>1, RegistryInvariant, PTL

-----------------------------------------------------------------------------
(* The OIDs of the MIB, where it defines no name twice.                        *)

\* Whether no name has two OIDs, one in each of two sets.
Agree(S, T) == \A r \in S, q \in T : r[1] = q[1] => r[2] = q[2]

LEMMA BelowIs ==
  ASSUME NEW mib, NEW S
  PROVE  /\ \A r \in Below(mib, S) : \E d \in mib, s \in S :
              d.parent = s[1] /\ r = <<d.name, Append(s[2], d.number)>>
         /\ \A d \in mib, s \in S :
              d.parent = s[1] => <<d.name, Append(s[2], d.number)>> \in Below(mib, S)
<1>1. ASSUME NEW r \in Below(mib, S)
      PROVE  \E d \in mib, s \in S : d.parent = s[1] /\ r = <<d.name, Append(s[2], d.number)>>
  <2>1. PICK c \in mib \X S : c[1].parent = c[2][1] /\ r = <<c[1].name, Append(c[2][2], c[1].number)>>
    BY DEF Below
  <2>2. c[1] \in mib /\ c[2] \in S
    BY <2>1
  <2> QED BY <2>1, <2>2
<1>2. ASSUME NEW d \in mib, NEW s \in S, d.parent = s[1]
      PROVE  <<d.name, Append(s[2], d.number)>> \in Below(mib, S)
  <2> DEFINE c == <<d, s>>
  <2>1. c \in mib \X S /\ c[1] = d /\ c[2] = s
    OBVIOUS
  <2> HIDE DEF c
  <2>2. c \in {b \in mib \X S : b[1].parent = b[2][1]}
    BY <1>2, <2>1
  <2>3. <<c[1].name, Append(c[2][2], c[1].number)>> \in Below(mib, S)
    BY <2>2 DEF Below
  <2> QED BY <2>1, <2>3
<1> QED BY <1>1, <1>2

LEMMA AgreeBelow ==
  ASSUME NEW mib, NamesOnce(mib), NEW S, NEW T, Agree(S, T)
  PROVE  Agree(Below(mib, S), Below(mib, T))
<1> SUFFICES ASSUME NEW r \in Below(mib, S), NEW q \in Below(mib, T), r[1] = q[1]
             PROVE  r[2] = q[2]
  BY DEF Agree
<1>1. PICK d \in mib, s \in S : d.parent = s[1] /\ r = <<d.name, Append(s[2], d.number)>>
  BY BelowIs
<1>2. PICK e \in mib, t \in T : e.parent = t[1] /\ q = <<e.name, Append(t[2], e.number)>>
  BY BelowIs
<1>3. d = e
  <2>1. r[1] = d.name /\ q[1] = e.name
    BY <1>1, <1>2
  <2> QED BY <2>1 DEF NamesOnce
<1>4. s[2] = t[2]
  BY <1>1, <1>2, <1>3 DEF Agree
<1>5. r[2] = Append(s[2], d.number) /\ q[2] = Append(t[2], e.number)
  BY <1>1, <1>2
<1> QED BY <1>3, <1>4, <1>5

\* Nothing is below itself: the root of the MIB is no object of it.
LEMMA AgreeRoot ==
  ASSUME NEW mib, NamesOnce(mib), NEW S
  PROVE  Agree({<<Root, <<>>>>}, Below(mib, S))
<1> SUFFICES ASSUME NEW q \in Below(mib, S), q[1] = Root PROVE FALSE
  BY DEF Agree
<1>1. PICK d \in mib, s \in S : d.parent = s[1] /\ q = <<d.name, Append(s[2], d.number)>>
  BY BelowIs
<1>2. q[1] = d.name
  BY <1>1
<1> QED BY <1>2 DEF NamesOnce

\* A name has one OID at most.
LEMMA ResolvedOnce ==
  ASSUME NEW mib, NamesOnce(mib)
  PROVE  Agree(Resolved(mib), Resolved(mib))
<1> DEFINE L0 == {<<Root, <<>>>>}
           L1 == Below(mib, L0)
           L2 == Below(mib, L1)
           L3 == Below(mib, L2)
           L4 == Below(mib, L3)
<1>1. Agree(L0, L0)
  BY DEF Agree
<1>2. Agree(L0, L1) /\ Agree(L0, L2) /\ Agree(L0, L3)
  BY AgreeRoot
<1>3. Resolved(mib) = L1 \cup L2 \cup L3 \cup L4
  BY DEF Resolved
<1> HIDE DEF L0
<1>4. Agree(L1, L1) /\ Agree(L1, L2) /\ Agree(L1, L3) /\ Agree(L1, L4)
  BY <1>1, <1>2, AgreeBelow
<1> HIDE DEF L1
<1>5. Agree(L2, L2) /\ Agree(L2, L3) /\ Agree(L2, L4)
  BY <1>4, AgreeBelow
<1> HIDE DEF L2
<1>6. Agree(L3, L3) /\ Agree(L3, L4)
  BY <1>5, AgreeBelow
<1> HIDE DEF L3
<1>7. Agree(L4, L4)
  BY <1>6, AgreeBelow
<1> HIDE DEF L4
<1> QED BY <1>3, <1>4, <1>5, <1>6, <1>7 DEF Agree

LEMMA AppendOne ==
  ASSUME NEW a, NEW b
  PROVE  Append(<<a>>, b) = <<a, b>>
<1>1. /\ <<a>> \in Seq({a, b}) /\ Len(<<a>>) = 1 /\ <<a>>[1] = a
      /\ <<a, b>> \in Seq({a, b}) /\ Len(<<a, b>>) = 2 /\ <<a, b>>[1] = a /\ <<a, b>>[2] = b
  OBVIOUS
<1> DEFINE s == <<a>>
           t == <<a, b>>
<1> HIDE DEF s, t
<1>2. /\ Append(s, b) \in Seq({a, b}) /\ Len(Append(s, b)) = 2
      /\ Append(s, b)[1] = a /\ Append(s, b)[2] = b
  BY <1>1 DEF s
<1>3. t \in Seq({a, b}) /\ Len(t) = 2 /\ t[1] = a /\ t[2] = b
  BY <1>1 DEF t
<1>4. Append(s, b) = t
  BY <1>2, <1>3, SeqEqual
<1> QED BY <1>4 DEF s, t

\* An object below a plugin's, or the agent's, own.
LEMMA SecondLevel ==
  ASSUME NEW mib, NEW top \in mib, top.parent = Root, NEW d \in mib, d.parent = top.name
  PROVE  <<d.name, <<top.number, d.number>>>> \in Resolved(mib)
<1> DEFINE L0 == {<<Root, <<>>>>}
           L1 == Below(mib, L0)
<1>1. <<top.name, <<top.number>>>> \in L1
  <2>1. <<Root, <<>>>>[1] = Root /\ <<Root, <<>>>>[2] = <<>> /\ Append(<<>>, top.number) = <<top.number>>
    OBVIOUS
  <2> QED BY <2>1, BelowIs
<1> HIDE DEF L1
<1>2. <<d.name, <<top.number, d.number>>>> \in Below(mib, L1)
  <2> DEFINE s == <<top.name, <<top.number>>>>
  <2>1. s[1] = top.name /\ s[2] = <<top.number>> /\ Append(<<top.number>>, d.number) = <<top.number, d.number>>
    BY AppendOne
  <2>2. s \in L1
    BY <1>1
  <2> HIDE DEF s
  <2>3. <<d.name, Append(s[2], d.number)>> \in Below(mib, L1)
    BY <2>1, <2>2, BelowIs
  <2> QED BY <2>1, <2>3
<1> QED BY <1>2 DEF Resolved, L1

\* Where a name is placed is its only OID.
LEMMA OnlyOid ==
  ASSUME NamesOnce(create_mib(files)), NEW n, NEW oid, <<n, oid>> \in Resolved(create_mib(files))
  PROVE  Oids(n) = {oid}
<1>1. Agree(Resolved(create_mib(files)), Resolved(create_mib(files)))
  BY ResolvedOnce
<1>2. <<n, oid>>[1] = n /\ <<n, oid>>[2] = oid
  OBVIOUS
<1>3. oid \in Oids(n)
  BY <1>2 DEF Oids
<1>4. ASSUME NEW o \in Oids(n) PROVE o = oid
  <2>1. PICK r \in Resolved(create_mib(files)) : r[1] = n /\ o = r[2]
    BY DEF Oids
  <2> QED BY <1>1, <1>2, <2>1 DEF Agree
<1> QED BY <1>3, <1>4

\* The numbers of the objects that are registered for one plugin.
LEMMA PluginOids ==
  ASSUME NamesOnce(create_mib(files)), NEW f \in files, ~LeftOut(f), NEW n \in Names(f)
  PROVE  \E i : /\ Oids(n) = {<<f.index, i>>}
                /\ f.kind = "value" => i \in DOMAIN f.labels /\ n = f.name \o f.labels[i]
<1> DEFINE mib == create_mib(files)
           top == Object(f.name, Root, f.index)
<1>1. config_mib(f) \subseteq mib
  BY DEF create_mib
<1>2. top \in mib /\ top.parent = Root /\ top.name = f.name /\ top.number = f.index
  BY <1>1 DEF config_mib, Object
<1>3. PICK i : /\ Object(n, f.name, i) \in mib
               /\ f.kind = "value" => i \in DOMAIN f.labels /\ n = f.name \o f.labels[i]
  <2>1. CASE f.kind = "value"
    <3>1. PICK i \in DOMAIN f.labels : n = f.name \o f.labels[i]
      BY <2>1 DEF Names
    <3>2. Object(n, f.name, i) \in config_mib(f)
      BY <2>1, <3>1 DEF config_mib, ValueMib
    <3> QED BY <1>1, <3>1, <3>2
  <2>2. CASE f.kind # "value"
    <3>1. n = f.name \o <<"table">>
      BY <2>2 DEF Names
    <3>2. Object(n, f.name, 1) \in config_mib(f)
      BY <2>2, <3>1 DEF config_mib, TableMib
    <3> QED BY <1>1, <2>2, <3>2
  <2> QED BY <2>1, <2>2
<1> DEFINE d == Object(n, f.name, i)
<1>4. d.parent = top.name /\ d.name = n /\ d.number = i /\ d \in mib
  BY <1>2, <1>3 DEF Object
<1> HIDE DEF mib, top, d
<1>5. <<n, <<f.index, i>>>> \in Resolved(mib)
  BY <1>2, <1>4, SecondLevel
<1>6. Oids(n) = {<<f.index, i>>}
  BY <1>5, OnlyOid DEF mib
<1> QED BY <1>3, <1>6

LEMMA AgentOids ==
  ASSUME NamesOnce(create_mib(files))
  PROVE  /\ Oids(<<"info", "version">>) = {<<0, 0>>}
         /\ Oids(<<"info", "plugins", "table">>) = {<<0, 1>>}
<1> DEFINE mib == create_mib(files)
           top == Object(<<"info">>, Root, 0)
           version == Object(<<"info", "version">>, <<"info">>, 0)
           table == Object(<<"info", "plugins", "table">>, <<"info">>, 1)
<1>1. {top, version, table} \subseteq mib
  BY DEF create_mib, Predefined
<1>2. /\ top.parent = Root /\ top.name = <<"info">> /\ top.number = 0
      /\ version.parent = <<"info">> /\ version.name = <<"info", "version">> /\ version.number = 0
      /\ table.parent = <<"info">> /\ table.name = <<"info", "plugins", "table">> /\ table.number = 1
  BY DEF Object
<1> HIDE DEF mib, top, version, table
<1>3. /\ <<version.name, <<top.number, version.number>>>> \in Resolved(mib)
      /\ <<table.name, <<top.number, table.number>>>> \in Resolved(mib)
  BY <1>1, <1>2, SecondLevel
<1>4. /\ Oids(version.name) = {<<top.number, version.number>>}
      /\ Oids(table.name) = {<<top.number, table.number>>}
  BY <1>3, OnlyOid DEF mib
<1> QED BY <1>2, <1>4

\* Where an object is registered: below the number of its plugin, or below 0.
Home(n, oid) ==
  \/ n = <<"info", "version">> /\ oid = <<0, 0>>
  \/ n = <<"info", "plugins", "table">> /\ oid = <<0, 1>>
  \/ \E f \in files : \E i :
       /\ n \in Names(f) /\ oid = <<f.index, i>>
       /\ f.kind = "value" => i \in DOMAIN f.labels /\ n = f.name \o f.labels[i]

\* Every object in the MIB of an agent that is up is registered in the subtree of its
\* plugin, and no two at one OID, if no name is defined twice.
THEOREM OidsAreOwn == Spec => []OwnOids
<1> DEFINE shown == {n \in DOMAIN data : \A f \in files : LeftOut(f) => n \notin Names(f)}
<1>1. ASSUME RegistryInv, place = "up", NamesOnce(create_mib(files)), NEW n \in shown
      PROVE  \E oid : Oids(n) = {oid} /\ oid[1] = data[n] /\ Home(n, oid)
  <2>1. DataInv /\ Done = files
    BY <1>1 DEF RegistryInv, DataInv, Done
  <2>2. CASE n \in OwnNames
    <3>1. data[n] = 0 /\ <<0, 0>>[1] = 0 /\ <<0, 1>>[1] = 0
      BY <2>1, <2>2 DEF DataInv
    <3> QED BY <1>1, <2>2, <3>1, AgentOids DEF OwnNames, Home
  <2>3. CASE \E f \in files : n \in Names(f)
    <3>1. PICK f \in files : n \in Names(f)
      BY <2>3
    <3>2. ~LeftOut(f) /\ data[n] = f.index
      BY <2>1, <3>1 DEF DataInv
    <3>3. PICK i : /\ Oids(n) = {<<f.index, i>>}
                   /\ f.kind = "value" => i \in DOMAIN f.labels /\ n = f.name \o f.labels[i]
      BY <1>1, <3>1, <3>2, PluginOids
    <3>4. <<f.index, i>>[1] = f.index
      OBVIOUS
    <3>5. Home(n, <<f.index, i>>)
      BY <3>1, <3>3 DEF Home
    <3> QED BY <3>2, <3>3, <3>4, <3>5
  <2> QED BY <2>1, <2>2, <2>3 DEF DataInv
<1>2. ASSUME RegistryInv, place = "up", NEW m, NEW n, NEW oid, Home(m, oid), Home(n, oid)
      PROVE  m = n
  <2>1. \A f, g \in files : f.index # 0 /\ (f.index = g.index => f = g)
    BY <1>2 DEF RegistryInv, DataInv, ConfInv
  <2>2. \A a, b, c, d : <<a, b>> = <<c, d>> => a = c /\ b = d
    OBVIOUS
  <2>3. CASE oid[1] = 0
    <3>1. ASSUME NEW f \in files, NEW i PROVE oid # <<f.index, i>>
      <4>1. <<f.index, i>>[1] = f.index
        OBVIOUS
      <4> QED BY <2>1, <2>3, <4>1
    <3>2. <<0, 0>> # <<0, 1>>
      BY <2>2
    <3> DEFINE version == <<"info", "version">>
               table == <<"info", "plugins", "table">>
               first == <<0, 0>>
               second == <<0, 1>>
    <3>3. (m = version /\ oid = first) \/ (m = table /\ oid = second)
      BY <1>2, <3>1 DEF Home
    <3>4. (n = version /\ oid = first) \/ (n = table /\ oid = second)
      BY <1>2, <3>1 DEF Home
    <3> HIDE DEF version, table, first, second
    <3>5. first # second
      BY <3>2 DEF first, second
    <3> QED BY <3>3, <3>4, <3>5
  <2>4. CASE oid[1] # 0
    <3>0. oid # <<0, 0>> /\ oid # <<0, 1>>
      BY <2>4
    <3>1. PICK f \in files : \E i :
            /\ m \in Names(f) /\ oid = <<f.index, i>>
            /\ f.kind = "value" => i \in DOMAIN f.labels /\ m = f.name \o f.labels[i]
      BY <1>2, <3>0 DEF Home
    <3>2. PICK g \in files : \E j :
            /\ n \in Names(g) /\ oid = <<g.index, j>>
            /\ g.kind = "value" => j \in DOMAIN g.labels /\ n = g.name \o g.labels[j]
      BY <1>2, <3>0 DEF Home
    <3>3. PICK i : /\ m \in Names(f) /\ oid = <<f.index, i>>
                   /\ f.kind = "value" => i \in DOMAIN f.labels /\ m = f.name \o f.labels[i]
      BY <3>1
    <3>4. PICK j : /\ n \in Names(g) /\ oid = <<g.index, j>>
                   /\ g.kind = "value" => j \in DOMAIN g.labels /\ n = g.name \o g.labels[j]
      BY <3>2
    <3>5. f = g /\ i = j
      BY <2>1, <2>2, <3>3, <3>4
    <3> QED BY <3>3, <3>4, <3>5 DEF Names
  <2> QED BY <2>3, <2>4
<1>3. RegistryInv => OwnOids
  <2> SUFFICES ASSUME RegistryInv, place = "up", NamesOnce(create_mib(files))
               PROVE  /\ \A n \in shown : \E oid \in Oids(n) : Oids(n) = {oid} /\ oid[1] = data[n]
                      /\ \A m, n \in shown : m # n => Oids(m) \cap Oids(n) = {}
    BY DEF OwnOids
  <2>1. ASSUME NEW n \in shown PROVE \E oid : Oids(n) = {oid} /\ oid[1] = data[n] /\ Home(n, oid)
    BY <1>1, <2>1
  <2> HIDE DEF shown
  <2>2. ASSUME NEW m \in shown, NEW n \in shown, m # n PROVE Oids(m) \cap Oids(n) = {}
    <3>1. PICK a : Oids(m) = {a} /\ Home(m, a)
      BY <2>1
    <3>2. PICK b : Oids(n) = {b} /\ Home(n, b)
      BY <2>1
    <3>3. a # b
      BY <1>2, <2>2, <3>1, <3>2
    <3> QED BY <3>1, <3>2, <3>3
  <2> QED BY <2>1, <2>2
<1> QED BY <1>3, RegistryInvariant, PTL
=============================================================================
