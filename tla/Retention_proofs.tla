-------------------------- MODULE Retention_proofs --------------------------
(* Proofs about what survives a restart: for any plugins and schemas, any      *)
(* number of collections, and any number of runs.                              *)
EXTENDS Retention, TLAPS

\* Whether a cell is what a plugin collects for an item or column of that type.
CellFits(type, c) == c.is \in {type, "none"} \/ (type = "str" /\ c.is = "long")
Fits(p, contents) == /\ DOMAIN contents = DOMAIN schema[p]
                     /\ \A i \in DOMAIN schema[p] : CellFits(schema[p][i], contents[i])
                     /\ p \in TableMods => \A i \in DOMAIN schema[p] : contents[i].is # "none"

\* The columns of a row are of one collection.
Even(contents) == \A i, j \in DOMAIN contents : contents[i].n = contents[j].n

Saved(p, i) == IF Whole(p) THEN Stamp(file[p], i) ELSE 0

\* Whether an item is as it was loaded, or the tail thread has found it since.
SinceLoad(p, i, c) == c = Loaded(p)[i] \/ (p \in tailed /\ c.n > Loaded(p)[i].n)

-----------------------------------------------------------------------------
(* The inductive invariant, for each plugin.                                   *)

\* No stamp is later than the last collection.
StampsInv(p) ==
  /\ \A i \in DOMAIN mem[p] : mem[p][i].n <= count[p]
  /\ \A i \in DOMAIN served[p] : served[p][i].n <= count[p]
  /\ Whole(p) => \A i \in DOMAIN file[p] : file[p][i].n <= count[p]
  /\ \A i \in Slots(p) : due[p][i] <= count[p]

\* What was loaded is what the file holds, until the first update.
LoadedInv(p) ==
  /\ IF stage[p] = "off" THEN pos[p] = 1 ELSE up # "down"
  /\ stage[p] \in {"loaded", "boot"} => ~LoadRaises(p)
  /\ stage[p] \in {"loaded", "boot"} /\ p \in TableMods => mem[p] = Loaded(p)
  /\ stage[p] \in {"loaded", "boot"} /\ p \in ValueMods => \A i \in DOMAIN schema[p] :
       /\ SinceLoad(p, i, mem[p][i])
       /\ \/ mem[p][i] = Loaded(p)[i]
          \/ CellFits(schema[p][i], mem[p][i]) /\ (mem[p][i].is = "long" => tooLong[p])
       /\ IF stage[p] = "boot" \/ i < pos[p] THEN SinceLoad(p, i, served[p][i])
                                            ELSE served[p][i] = None

\* The items of a value plugin only get newer, and were of their types when they were
\* registered.
ItemsInv(p) ==
  p \in ValueMods /\ stage[p] # "off" =>
    /\ DOMAIN mem[p] = DOMAIN schema[p] /\ DOMAIN served[p] = DOMAIN schema[p]
    /\ pos[p] \in DOMAIN schema[p]
    /\ \A i \in DOMAIN schema[p] :
         /\ served[p][i].n <= mem[p][i].n
         /\ ~lost[p] => due[p][i] <= mem[p][i].n
         /\ stage[p] # "loaded" \/ i < pos[p] => CellFits(schema[p][i], mem[p][i])
    /\ ~lost[p] => \A i \in Slots(p) \ DOMAIN schema[p] : due[p][i] = 0

\* What is being dumped fits the configuration, and is as new as what must be kept.
DumpInv(p) ==
  stage[p] \in {"collected", "read", "dumping"} =>
    /\ Fits(p, snap[p]) /\ (p \notin tailed => snap[p] = mem[p])
    /\ p \in TableMods => Even(snap[p])
    /\ \A i \in DOMAIN snap[p] : snap[p][i].n <= count[p]
    /\ \A i \in Slots(p) : /\ Stamp(served[p], i) <= Stamp(snap[p], i)
                           /\ ~lost[p] => due[p][i] <= Stamp(snap[p], i)

\* What is in the file is as new as what must be kept, unless a dump is under way or
\* was lost, and fits the configuration unless that is new.
FileInv(p) ==
  /\ ~lost[p] /\ stage[p] # "dumping" => file[p] # Cut /\ \A i \in Slots(p) : Saved(p, i) >= due[p][i]
  /\ stage[p] = "dumped" /\ ~lost[p] /\ p \notin tailed => file[p] = mem[p]
  /\ ~changed[p] /\ Whole(p) => Fits(p, file[p])
  /\ p \in TableMods /\ Whole(p) => Even(file[p])

PluginInv(p) == StampsInv(p) /\ LoadedInv(p) /\ ItemsInv(p) /\ DumpInv(p) /\ FileInv(p)

\* What can keep the agent from starting.
Excused ==
  \E p \in Plugins :
    \/ lost[p] \/ changed[p]
    \/ p \in ValueMods /\ Whole(p) /\ \E i \in DOMAIN file[p] : file[p][i].is = "long"
    \/ p \in tailed /\ tooLong[p]

RetentionInv ==
  /\ TypeOK
  /\ \A p \in Plugins : PluginInv(p)
  /\ up # "down" => died = ""
  /\ died # "" => Excused

-----------------------------------------------------------------------------
(* Data.                                                                       *)

LEMMA BoundIsNat == MaxCount \in Nat
<1> QED BY RetentionAssumption

LEMMA SchemaIs ==
  ASSUME NEW s \in Schemas
  PROVE  /\ Len(s) \in Nat /\ Len(s) >= 1 /\ DOMAIN s = 1..Len(s)
         /\ 1 \in DOMAIN s /\ Len(s) \in DOMAIN s
         /\ DOMAIN s \subseteq AllItems /\ \A i \in DOMAIN s : i \in Nat /\ s[i] \in Types
<1>1. s \in Seq(Types) /\ s # <<>>
  BY RetentionAssumption
<1>2. Len(s) \in Nat /\ DOMAIN s = 1..Len(s) /\ Len(s) >= 1 /\ \A i \in DOMAIN s : s[i] \in Types
  BY <1>1
<1>3. DOMAIN s \subseteq AllItems
  BY DEF AllItems
<1> QED BY <1>2, <1>3

LEMMA CellIs ==
  ASSUME NEW c \in Cell
  PROVE  /\ c.n \in 0..MaxCount /\ c.n \in Nat /\ (c.is = "none" => c = None)
         /\ (c.n >= 1 => c.is # "none")
<1>1. MaxCount \in Nat
  BY BoundIsNat
<1> QED BY <1>1 DEF Cell, None

LEMMA NoneIs == None \in Cell /\ None.n = 0 /\ None.is = "none"
<1> QED BY DEF Cell, None

LEMMA EmptyIs == <<>> \in Contents /\ DOMAIN <<>> = {}
<1> QED BY DEF Contents

LEMMA ContentsIs ==
  ASSUME NEW c \in Contents
  PROVE  /\ \A i \in DOMAIN c : c[i] \in Cell /\ c[i].n \in Nat
         /\ \A i : Stamp(c, i) \in 0..MaxCount /\ Stamp(c, i) \in Nat
         /\ \A s \in Schemas : DOMAIN c = DOMAIN s => c \in [DOMAIN s -> Cell]
         /\ c # Absent /\ c # Cut
<1>0. MaxCount \in Nat
  BY BoundIsNat
<1>1. c = <<>> \/ \E s \in Schemas : c \in [DOMAIN s -> Cell]
  BY DEF Contents
<1>2. \A i \in DOMAIN c : c[i] \in Cell
  BY <1>1
<1>3. \A i \in DOMAIN c : c[i].n \in 0..MaxCount /\ c[i].n \in Nat
  BY <1>2, CellIs
<1>4. \A i : Stamp(c, i) \in 0..MaxCount /\ Stamp(c, i) \in Nat
  BY <1>0, <1>3 DEF Stamp
<1>5. ASSUME NEW s \in Schemas, DOMAIN c = DOMAIN s PROVE c \in [DOMAIN s -> Cell]
  <2>1. 1 \in DOMAIN s
    BY SchemaIs
  <2>2. c # <<>>
    BY <1>5, <2>1, EmptyIs
  <2> QED BY <1>1, <1>5, <2>2
<1>6. c # Absent /\ c # Cut
  BY FileAssumption
<1> QED BY <1>2, <1>3, <1>4, <1>5, <1>6

LEMMA ContentsMade ==
  ASSUME NEW s \in Schemas, NEW c \in [DOMAIN s -> Cell]
  PROVE  c \in Contents /\ DOMAIN c = DOMAIN s
<1> QED BY DEF Contents

LEMMA NewestIs ==
  ASSUME NEW a \in Nat, NEW b \in Nat
  PROVE  Newest(a, b) \in {a, b} /\ Newest(a, b) >= a /\ Newest(a, b) >= b
<1> QED BY DEF Newest

\* What the invariant says of the types of one plugin.
LEMMA PluginTypes ==
  ASSUME RetentionInv, NEW p \in Plugins
  PROVE  /\ PluginInv(p) /\ schema[p] \in Schemas
         /\ mem[p] \in Contents /\ snap[p] \in Contents /\ served[p] \in Contents
         /\ file[p] \in Contents \cup {Absent, Cut} /\ (Whole(p) => file[p] \in Contents)
         /\ count[p] \in 0..MaxCount /\ count[p] \in Nat
         /\ \A i \in Slots(p) : due[p][i] \in Nat
         /\ \A i \in Slots(p) : i \in AllItems \cup {1}
<1>1. /\ PluginInv(p) /\ schema[p] \in Schemas
      /\ mem[p] \in Contents /\ snap[p] \in Contents /\ served[p] \in Contents
      /\ file[p] \in Contents \cup {Absent, Cut} /\ count[p] \in 0..MaxCount
  BY DEF RetentionInv, TypeOK
<1>2. Whole(p) => file[p] \in Contents
  BY <1>1 DEF Whole
<1>3. count[p] \in Nat
  BY <1>1, BoundIsNat
<1>4. \A i \in Slots(p) : i \in AllItems \cup {1}
  BY DEF Slots
<1>5. due[p] \in [AllItems \cup {1} -> 0..MaxCount]
  BY DEF RetentionInv, TypeOK
<1>6. \A i \in Slots(p) : due[p][i] \in Nat
  BY <1>4, <1>5, BoundIsNat
<1> QED BY <1>1, <1>2, <1>3, <1>4, <1>6

\* What is derived from the configuration and the file only.
LEMMA DerivedSame ==
  ASSUME NEW p \in Plugins, schema'[p] = schema[p], file'[p] = file[p], tailed' = tailed
  PROVE  /\ Loaded(p)' = Loaded(p) /\ (Whole(p)' <=> Whole(p)) /\ (LoadRaises(p)' <=> LoadRaises(p))
         /\ \A i : Saved(p, i)' = Saved(p, i)
         /\ \A c : Fits(p, c)' <=> Fits(p, c)
         /\ \A i, c : SinceLoad(p, i, c)' <=> SinceLoad(p, i, c)
<1>1. (Whole(p)' <=> Whole(p)) /\ (LoadRaises(p)' <=> LoadRaises(p))
  BY DEF Whole, LoadRaises
<1>2. Loaded(p)' = Loaded(p)
  BY DEF Loaded, Whole
<1>3. \A i : Saved(p, i)' = Saved(p, i)
  BY DEF Saved, Whole, Stamp
<1>4. \A c : Fits(p, c)' <=> Fits(p, c)
  BY DEF Fits
<1>5. \A i, c : SinceLoad(p, i, c)' <=> SinceLoad(p, i, c)
  BY <1>2 DEF SinceLoad
<1> QED BY <1>1, <1>2, <1>3, <1>4, <1>5

LEMMA RetentionInit == Init => RetentionInv
<1> SUFFICES ASSUME Init PROVE RetentionInv
  OBVIOUS
<1>1. MaxCount \in Nat /\ 0 \in 0..MaxCount
  BY BoundIsNat
<1>2. TypeOK
  <2>1. "off" \in Stages /\ <<>> \in Contents
    BY EmptyIs DEF Stages
  <2> QED BY <1>1, <2>1 DEF Init, TypeOK
<1>3. ASSUME NEW p \in Plugins PROVE PluginInv(p)
  <2>1. /\ stage[p] = "off" /\ mem[p] = <<>> /\ served[p] = <<>> /\ file[p] = Absent
        /\ pos[p] = 1 /\ count[p] = 0 /\ \A i \in AllItems \cup {1} : due[p][i] = 0
    BY <1>3 DEF Init
  <2>2. Slots(p) \subseteq AllItems \cup {1}
    BY DEF Slots
  <2>3. ~Whole(p) /\ \A i \in Slots(p) : Saved(p, i) = 0 /\ due[p][i] = 0
    BY <2>1, <2>2 DEF Whole, Saved
  <2>4. file[p] # Cut
    BY <2>1, RetentionAssumption
  <2> QED BY <2>1, <2>3, <2>4, EmptyIs
          DEF PluginInv, StampsInv, LoadedInv, ItemsInv, DumpInv, FileInv
<1> QED BY <1>2, <1>3 DEF Init, RetentionInv

-----------------------------------------------------------------------------
(* Steps.                                                                      *)

\* Nothing of a plugin changes.
Same(q) == /\ schema'[q] = schema[q] /\ stage'[q] = stage[q] /\ pos'[q] = pos[q]
           /\ mem'[q] = mem[q] /\ snap'[q] = snap[q] /\ served'[q] = served[q]
           /\ file'[q] = file[q] /\ count'[q] = count[q] /\ due'[q] = due[q]
           /\ tooLong'[q] = tooLong[q] /\ lost'[q] = lost[q] /\ changed'[q] = changed[q]

LEMMA SameKeeps ==
  ASSUME NEW q \in Plugins, PluginInv(q), Same(q), up # "down" => up' # "down", tailed' = tailed
  PROVE  PluginInv(q)'
<1>1. /\ Loaded(q)' = Loaded(q) /\ (Whole(q)' <=> Whole(q)) /\ (LoadRaises(q)' <=> LoadRaises(q))
      /\ \A i : Saved(q, i)' = Saved(q, i)
      /\ \A c : Fits(q, c)' <=> Fits(q, c)
      /\ \A i, c : SinceLoad(q, i, c)' <=> SinceLoad(q, i, c)
  BY DerivedSame DEF Same
<1>2. StampsInv(q)'
  BY <1>1 DEF PluginInv, StampsInv, Same, Slots
<1>3. LoadedInv(q)'
  BY <1>1 DEF PluginInv, LoadedInv, Same
<1>4. ItemsInv(q)'
  BY DEF PluginInv, ItemsInv, Same, Slots
<1>5. DumpInv(q)'
  BY <1>1 DEF PluginInv, DumpInv, Same, Slots, Stamp
<1>6. FileInv(q)'
  BY <1>1 DEF PluginInv, FileInv, Same, Slots
<1> QED BY <1>2, <1>3, <1>4, <1>5, <1>6 DEF PluginInv

\* A step of one plugin, that does not end the process, keeps the invariant if it
\* keeps that plugin's part of it.
LEMMA OneStep ==
  ASSUME RetentionInv, NEW p \in Plugins, TypeOK', PluginInv(p)',
         \A q \in Plugins \ {p} : Same(q),
         UNCHANGED <<up, died, tailed>>, up = "down" => changed'[p]
  PROVE  RetentionInv'
<1>1. \A q \in Plugins : PluginInv(q)'
  <2>1. \A q \in Plugins \ {p} : PluginInv(q)'
    BY SameKeeps DEF RetentionInv
  <2> QED BY <2>1
<1>2. died' # "" => Excused'
  <2>1. up = "down" => Excused'
    BY DEF Excused
  <2> QED BY <2>1 DEF RetentionInv
<1> QED BY <1>1, <1>2 DEF RetentionInv

\* The end of the process, for any reason that is excused.
LEMMA ExitKeeps ==
  ASSUME RetentionInv, NEW why \in {"", "load", "setup", "boot"}, Exit(why)
  PROVE  (why # "" => Excused) => RetentionInv'
<1>1. /\ up' = "down" /\ died' = why
      /\ UNCHANGED <<schema, tailed, file, changed, count, due, tooLong>>
      /\ \A p \in Plugins : /\ stage'[p] = "off" /\ pos'[p] = 1 /\ mem'[p] = <<>> /\ served'[p] = <<>>
                            /\ lost'[p] = (lost[p] \/ stage[p] = "dumping")
  BY DEF Exit, conf
<1>2. TypeOK'
  <2>1. /\ mem' \in [Plugins -> Contents] /\ snap' \in [Plugins -> Contents]
        /\ served' \in [Plugins -> Contents] /\ stage' \in [Plugins -> Stages]
        /\ pos' \in [Plugins -> AllItems \cup {1}] /\ lost' \in [Plugins -> BOOLEAN]
    BY EmptyIs DEF Exit, Stages
  <2> QED BY <1>1, <2>1 DEF RetentionInv, TypeOK
<1>3. ASSUME NEW p \in Plugins PROVE PluginInv(p)'
  <2>1. PluginInv(p)
    BY DEF RetentionInv
  <2>2. (Whole(p)' <=> Whole(p)) /\ (\A i : Saved(p, i)' = Saved(p, i)) /\ \A c : Fits(p, c)' <=> Fits(p, c)
    BY <1>1, DerivedSame
  <2>3. stage'[p] = "off" /\ pos'[p] = 1 /\ (~lost'[p] => ~lost[p] /\ stage[p] # "dumping")
    BY <1>1
  <2>4. StampsInv(p)'
    BY <1>1, <2>1, <2>2, EmptyIs DEF PluginInv, StampsInv, Slots
  <2>5. FileInv(p)'
    BY <1>1, <2>1, <2>2, <2>3 DEF PluginInv, FileInv, Slots
  <2> QED BY <2>3, <2>4, <2>5 DEF PluginInv, LoadedInv, ItemsInv, DumpInv
<1>4. Excused => Excused'
  <2>1. \A p \in Plugins : Whole(p)' <=> Whole(p)
    BY <1>1 DEF Whole
  <2> QED BY <1>1, <2>1 DEF Excused
<1> QED BY <1>1, <1>2, <1>3, <1>4 DEF RetentionInv

LEMMA ReconfigureKeeps ==
  ASSUME RetentionInv, NEW p \in Plugins, Reconfigure(p)
  PROVE  RetentionInv'
<1>1. PICK s \in Schemas : schema' = [schema EXCEPT ![p] = s]
  BY DEF Reconfigure
<1>2. /\ up = "down" /\ changed' = [changed EXCEPT ![p] = TRUE]
      /\ UNCHANGED <<up, died, tailed, file, lost, stage, pos, mem, snap, served, count, due, tooLong>>
  BY DEF Reconfigure, proc
<1>3. changed'[p] /\ \A q \in Plugins \ {p} : Same(q)
  BY <1>1, <1>2 DEF RetentionInv, TypeOK, Same
<1>4. TypeOK'
  BY <1>1, <1>2 DEF RetentionInv, TypeOK
<1>5. PluginInv(p)'
  <2>1. PluginInv(p) /\ stage[p] = "off"
    BY <1>2, PluginTypes DEF PluginInv, LoadedInv
  <2>2. (Whole(p)' <=> Whole(p)) /\ \A i : Saved(p, i)' = Saved(p, i)
    BY <1>2 DEF Saved, Whole, Stamp
  <2>3. StampsInv(p)'
    BY <1>2, <2>1, <2>2 DEF PluginInv, StampsInv, Slots
  <2>4. FileInv(p)'
    BY <1>2, <1>3, <2>1, <2>2 DEF PluginInv, FileInv, Slots
  <2>5. stage'[p] = "off" /\ pos'[p] = 1
    BY <1>2, <2>1 DEF PluginInv, LoadedInv
  <2> QED BY <2>3, <2>4, <2>5 DEF PluginInv, LoadedInv, ItemsInv, DumpInv
<1> QED BY <1>2, <1>3, <1>4, <1>5, OneStep

LEMMA LoadedIs ==
  ASSUME RetentionInv, NEW p \in Plugins, ~LoadRaises(p)
  PROVE  /\ Loaded(p) \in Contents /\ file[p] # Cut
         /\ p \in ValueMods => Loaded(p) \in [DOMAIN schema[p] -> Cell]
         /\ p \in ValueMods => \A i : Stamp(Loaded(p), i) = Saved(p, i)
         /\ \A i \in DOMAIN Loaded(p) : Loaded(p)[i].n <= count[p]
<1>1. /\ PluginInv(p) /\ schema[p] \in Schemas /\ (Whole(p) => file[p] \in Contents) /\ count[p] \in Nat
      /\ file[p] # Cut
  BY PluginTypes DEF LoadRaises
<1>2. CASE p \in ValueMods
  <2>1. Whole(p) => \A i \in DOMAIN file[p] : file[p][i] \in Cell /\ file[p][i].n <= count[p]
    BY <1>1, ContentsIs DEF PluginInv, StampsInv
  <2>2. Loaded(p) = [i \in DOMAIN schema[p] |-> IF Whole(p) /\ i \in DOMAIN file[p] THEN file[p][i] ELSE None]
    BY <1>2 DEF Loaded
  <2>3. Loaded(p) \in [DOMAIN schema[p] -> Cell]
    BY <2>1, <2>2, NoneIs
  <2>4. ASSUME NEW i PROVE Stamp(Loaded(p), i) = Saved(p, i)
    <3>1. Whole(p) => DOMAIN file[p] \subseteq DOMAIN schema[p]
      BY <1>2 DEF LoadRaises
    <3>2. CASE i \in DOMAIN schema[p]
      BY <2>2, <3>2, NoneIs DEF Stamp, Saved
    <3>3. CASE i \notin DOMAIN schema[p]
      BY <2>2, <3>1, <3>3 DEF Stamp, Saved
    <3> QED BY <3>2, <3>3
  <2>5. \A i \in DOMAIN Loaded(p) : Loaded(p)[i].n <= count[p]
    BY <1>1, <2>1, <2>2, NoneIs
  <2>6. Loaded(p) \in Contents
    BY <1>1, <2>3, ContentsMade
  <2> QED BY <1>1, <2>3, <2>4, <2>5, <2>6
<1>3. CASE p \notin ValueMods
  <2>1. Loaded(p) = IF Whole(p) THEN file[p] ELSE <<>>
    BY <1>3 DEF Loaded
  <2> QED BY <1>1, <1>3, <2>1, EmptyIs DEF PluginInv, StampsInv
<1> QED BY <1>2, <1>3

LEMMA LoadKeeps ==
  ASSUME RetentionInv, NEW p \in Plugins, Load(p)
  PROVE  RetentionInv'
<1>1. /\ up = "load" /\ stage[p] = "off" /\ ~LoadRaises(p)
      /\ mem' = [mem EXCEPT ![p] = Loaded(p)] /\ served' = [served EXCEPT ![p] = Blank(p)]
      /\ stage' = [stage EXCEPT ![p] = "loaded"]
      /\ UNCHANGED <<up, died, schema, tailed, file, lost, changed, pos, snap, count, due, tooLong>>
  BY DEF Load, proc, conf, disk
<1>2. /\ Loaded(p) \in Contents /\ file[p] # Cut
      /\ p \in ValueMods => Loaded(p) \in [DOMAIN schema[p] -> Cell]
      /\ p \in ValueMods => \A i : Stamp(Loaded(p), i) = Saved(p, i)
      /\ \A i \in DOMAIN Loaded(p) : Loaded(p)[i].n <= count[p]
  BY <1>1, LoadedIs
<1>3. Blank(p) \in Contents /\ (p \in ValueMods => Blank(p) = [i \in DOMAIN schema[p] |-> None])
  <2>1. schema[p] \in Schemas
    BY PluginTypes
  <2> QED BY <2>1, NoneIs, EmptyIs, ContentsMade DEF Blank
<1>4. /\ mem'[p] = Loaded(p) /\ served'[p] = Blank(p) /\ stage'[p] = "loaded" /\ pos'[p] = pos[p]
      /\ schema'[p] = schema[p] /\ file'[p] = file[p] /\ lost'[p] = lost[p] /\ changed'[p] = changed[p]
      /\ count'[p] = count[p] /\ due'[p] = due[p]
      /\ \A q \in Plugins \ {p} : Same(q)
  BY <1>1 DEF RetentionInv, TypeOK, Same
<1>5. TypeOK'
  <2>1. mem' \in [Plugins -> Contents] /\ served' \in [Plugins -> Contents] /\ stage' \in [Plugins -> Stages]
    BY <1>1, <1>2, <1>3 DEF RetentionInv, TypeOK, Stages
  <2> QED BY <1>1, <2>1 DEF RetentionInv, TypeOK
<1>6. PluginInv(p)'
  <2>1. /\ PluginInv(p) /\ schema[p] \in Schemas /\ count[p] \in Nat
    BY PluginTypes
  <2>2. /\ Loaded(p)' = Loaded(p) /\ (Whole(p)' <=> Whole(p)) /\ (LoadRaises(p)' <=> LoadRaises(p))
        /\ \A i : Saved(p, i)' = Saved(p, i)
        /\ \A c : Fits(p, c)' <=> Fits(p, c)
        /\ \A i, c : SinceLoad(p, i, c)' <=> SinceLoad(p, i, c)
    BY <1>1, <1>4, DerivedSame
  <2>3. \A i \in DOMAIN served'[p] : served'[p][i].n <= count'[p]
    <3>1. CASE p \in ValueMods
      BY <1>3, <1>4, <2>1, <3>1, NoneIs
    <3>2. CASE p \notin ValueMods
      BY <1>4, <3>2, EmptyIs DEF Blank
    <3> QED BY <3>1, <3>2
  <2>4. StampsInv(p)'
    BY <1>1, <1>2, <1>4, <2>1, <2>2, <2>3 DEF PluginInv, StampsInv, Slots
  <2>5. pos[p] = 1
    BY <1>1, <2>1 DEF PluginInv, LoadedInv
  <2>6. LoadedInv(p)'
    <3>1. \A i \in DOMAIN schema[p] : SinceLoad(p, i, Loaded(p)[i])
      BY DEF SinceLoad
    <3>2. p \in ValueMods => \A i \in DOMAIN schema[p] : served'[p][i] = None /\ ~(i < 1)
      BY <1>3, <1>4, <2>1, SchemaIs
    <3> QED BY <1>1, <1>4, <2>2, <2>5, <3>1, <3>2 DEF LoadedInv
  <2>7. ItemsInv(p)'
    <3> SUFFICES ASSUME p \in ValueMods PROVE ItemsInv(p)'
      BY DEF ItemsInv
    <3>1. DOMAIN mem'[p] = DOMAIN schema[p] /\ DOMAIN served'[p] = DOMAIN schema[p]
      BY <1>2, <1>3, <1>4
    <3>2. 1 \in DOMAIN schema[p] /\ \A i \in DOMAIN schema[p] : ~(i < 1)
      BY <2>1, SchemaIs
    <3>3. \A i \in DOMAIN schema[p] : served'[p][i].n = 0 /\ mem'[p][i] \in Cell /\ mem'[p][i].n \in Nat
      BY <1>2, <1>3, <1>4, NoneIs, CellIs
    <3>4. ~lost[p] => \A i \in Slots(p) : due[p][i] <= Stamp(Loaded(p), i)
      BY <1>1, <1>2, <2>1 DEF PluginInv, FileInv
    <3>5. DOMAIN schema[p] \subseteq Slots(p)
      <4>1. p \notin TableMods
        BY RetentionAssumption
      <4> QED BY <2>1, <4>1, SchemaIs DEF Slots
    <3>6. ~lost[p] => \A i \in DOMAIN schema[p] : due[p][i] <= mem'[p][i].n
      BY <1>2, <1>4, <3>4, <3>5 DEF Stamp
    <3>7. ~lost[p] => \A i \in Slots(p) \ DOMAIN schema[p] : due[p][i] = 0
      <4>1. \A i \in Slots(p) : due[p][i] \in Nat
        BY PluginTypes
      <4>2. \A i \in Slots(p) \ DOMAIN schema[p] : Stamp(Loaded(p), i) = 0
        BY <1>2 DEF Stamp
      <4> QED BY <3>4, <4>1, <4>2
    <3> QED BY <1>4, <2>5, <3>1, <3>2, <3>3, <3>6, <3>7 DEF ItemsInv, Slots
  <2>8. FileInv(p)'
    BY <1>1, <1>4, <2>1, <2>2 DEF PluginInv, FileInv, Slots
  <2> QED BY <1>4, <2>4, <2>6, <2>7, <2>8 DEF PluginInv, DumpInv
<1> QED BY <1>1, <1>4, <1>5, <1>6, OneStep

-----------------------------------------------------------------------------
(* Loops over the items of a value plugin.                                     *)

LEMMA AdvanceIs ==
  ASSUME RetentionInv, NEW p \in Plugins, NEW next \in Stages, stage[p] # next,
         pos[p] \in DOMAIN schema[p], Advance(p, next)
  PROVE  /\ pos' \in [Plugins -> AllItems \cup {1}] /\ stage' \in [Plugins -> Stages]
         /\ \A q \in Plugins \ {p} : pos'[q] = pos[q] /\ stage'[q] = stage[q]
         /\ pos'[p] \in DOMAIN schema[p] /\ stage'[p] \in {stage[p], next}
         /\ \A i \in DOMAIN schema[p] : stage'[p] = next \/ i < pos'[p] => i < pos[p] \/ i = pos[p]
         /\ stage'[p] # next => \A i \in DOMAIN schema[p] : ~(i < pos'[p]) => i # pos[p] /\ ~(i < pos[p])
<1>1. /\ schema[p] \in Schemas /\ Len(schema[p]) \in Nat /\ Len(schema[p]) >= 1
      /\ DOMAIN schema[p] = 1..Len(schema[p]) /\ DOMAIN schema[p] \subseteq AllItems
  BY PluginTypes, SchemaIs
<1>2. /\ pos' = [pos EXCEPT ![p] = IF pos[p] = Len(schema[p]) THEN 1 ELSE pos[p] + 1]
      /\ stage' = [stage EXCEPT ![p] = IF pos[p] = Len(schema[p]) THEN next ELSE stage[p]]
  BY DEF Advance
<1>3. pos \in [Plugins -> AllItems \cup {1}] /\ stage \in [Plugins -> Stages]
  BY DEF RetentionInv, TypeOK
<1>4. pos[p] \in 1..Len(schema[p])
  BY <1>1
<1>5. CASE pos[p] = Len(schema[p])
  <2>1. pos'[p] = 1 /\ stage'[p] = next
    BY <1>2, <1>3, <1>5
  <2> QED BY <1>1, <1>2, <1>3, <1>4, <1>5, <2>1
<1>6. CASE pos[p] # Len(schema[p])
  <2>1. pos'[p] = pos[p] + 1 /\ stage'[p] = stage[p]
    BY <1>2, <1>3, <1>6
  <2>2. pos'[p] \in 1..Len(schema[p])
    BY <1>1, <1>4, <1>6, <2>1
  <2> QED BY <1>1, <1>2, <1>3, <1>4, <1>6, <2>1, <2>2
<1> QED BY <1>5, <1>6

\* The items of a registered value plugin.
LEMMA ItemsAre ==
  ASSUME RetentionInv, NEW p \in Plugins, p \in ValueMods, stage[p] # "off"
  PROVE  /\ p \notin TableMods /\ schema[p] \in Schemas /\ pos[p] \in DOMAIN schema[p]
         /\ DOMAIN schema[p] \subseteq Slots(p)
         /\ DOMAIN mem[p] = DOMAIN schema[p] /\ DOMAIN served[p] = DOMAIN schema[p]
         /\ mem[p] \in [DOMAIN schema[p] -> Cell] /\ served[p] \in [DOMAIN schema[p] -> Cell]
         /\ \A i \in DOMAIN schema[p] :
              /\ mem[p][i] \in Cell /\ mem[p][i].n \in Nat /\ mem[p][i].n <= count[p]
              /\ served[p][i] \in Cell /\ served[p][i].n \in Nat /\ served[p][i].n <= count[p]
              /\ due[p][i] \in Nat /\ i \in AllItems
         /\ up # "down"
<1>1. /\ PluginInv(p) /\ schema[p] \in Schemas /\ mem[p] \in Contents /\ served[p] \in Contents
      /\ \A i \in Slots(p) : due[p][i] \in Nat
  BY PluginTypes
<1>2. p \notin TableMods
  BY RetentionAssumption
<1>3. DOMAIN schema[p] \subseteq Slots(p) /\ DOMAIN schema[p] \subseteq AllItems
  BY <1>1, <1>2, SchemaIs DEF Slots
<1>4. /\ pos[p] \in DOMAIN schema[p]
      /\ DOMAIN mem[p] = DOMAIN schema[p] /\ DOMAIN served[p] = DOMAIN schema[p] /\ up # "down"
  BY <1>1 DEF PluginInv, ItemsInv, LoadedInv
<1>5. mem[p] \in [DOMAIN schema[p] -> Cell] /\ served[p] \in [DOMAIN schema[p] -> Cell]
  BY <1>1, <1>4, ContentsIs
<1>6. \A i \in DOMAIN schema[p] : /\ mem[p][i] \in Cell /\ mem[p][i].n \in Nat
                                  /\ served[p][i] \in Cell /\ served[p][i].n \in Nat
  BY <1>5, CellIs
<1>7. \A i \in DOMAIN schema[p] : mem[p][i].n <= count[p] /\ served[p][i].n <= count[p]
  BY <1>1, <1>4 DEF PluginInv, StampsInv
<1> QED BY <1>1, <1>2, <1>3, <1>4, <1>5, <1>6, <1>7

\* What serving an item does.
LEMMA ServeItemIs ==
  ASSUME RetentionInv, NEW p \in Plugins, p \in ValueMods, stage[p] # "off", ServeItem(p)
  PROVE  /\ served' \in [Plugins -> Contents] /\ due' \in [Plugins -> [AllItems \cup {1} -> 0..MaxCount]]
         /\ \A q \in Plugins \ {p} : served'[q] = served[q] /\ due'[q] = due[q]
         /\ DOMAIN served'[p] = DOMAIN schema[p]
         /\ \A i \in DOMAIN schema[p] \ {pos[p]} : served'[p][i] = served[p][i]
         /\ \A i \in Slots(p) \ {pos[p]} : due'[p][i] = due[p][i]
         /\ served'[p][pos[p]] = IF mem[p][pos[p]].is = "none" THEN served[p][pos[p]] ELSE mem[p][pos[p]]
         /\ due'[p][pos[p]] \in {due[p][pos[p]], mem[p][pos[p]].n}
         /\ p \in tailed => due'[p] = due[p]
<1> DEFINE i == pos[p]
           c == IF mem[p][i].is = "none" THEN served[p][i] ELSE mem[p][i]
           d == IF p \in tailed THEN due[p][i] ELSE Newest(due[p][i], mem[p][i].n)
<1>1. /\ schema[p] \in Schemas /\ i \in DOMAIN schema[p]
      /\ served[p] \in [DOMAIN schema[p] -> Cell] /\ mem[p][i] \in Cell /\ mem[p][i].n \in Nat
      /\ served[p][i] \in Cell /\ due[p][i] \in Nat /\ i \in AllItems
  BY ItemsAre
<1>2. served' = [served EXCEPT ![p][i] = c] /\ due' = [due EXCEPT ![p][i] = d]
  BY DEF ServeItem
<1>3. served \in [Plugins -> Contents] /\ due \in [Plugins -> [AllItems \cup {1} -> 0..MaxCount]]
  BY DEF RetentionInv, TypeOK
<1>4. c \in Cell /\ mem[p][i].n \in 0..MaxCount
  BY <1>1, CellIs
<1>5. d \in {due[p][i], mem[p][i].n} /\ d \in 0..MaxCount
  <2>1. due[p][i] \in 0..MaxCount
    BY <1>1, <1>3
  <2> QED BY <1>4, <2>1 DEF Newest
<1>6. [served[p] EXCEPT ![i] = c] \in [DOMAIN schema[p] -> Cell]
  BY <1>1, <1>4
<1>7. [served[p] EXCEPT ![i] = c] \in Contents
  BY <1>1, <1>6, ContentsMade
<1>8. served'[p] = [served[p] EXCEPT ![i] = c] /\ due'[p] = [due[p] EXCEPT ![i] = d]
  BY <1>2, <1>3
<1>9. served' \in [Plugins -> Contents] /\ \A q \in Plugins \ {p} : served'[q] = served[q]
  BY <1>2, <1>3, <1>7
<1>10. due' \in [Plugins -> [AllItems \cup {1} -> 0..MaxCount]] /\ \A q \in Plugins \ {p} : due'[q] = due[q]
  BY <1>2, <1>3, <1>5
<1>11. DOMAIN served'[p] = DOMAIN schema[p] /\ served'[p][i] = c
       /\ \A j \in DOMAIN schema[p] \ {i} : served'[p][j] = served[p][j]
  BY <1>1, <1>8
<1>12. due'[p][i] = d /\ (\A j \in Slots(p) \ {i} : due'[p][j] = due[p][j]) /\ (p \in tailed => due'[p] = due[p])
  <2>1. due[p] \in [AllItems \cup {1} -> 0..MaxCount] /\ \A j \in Slots(p) : j \in AllItems \cup {1}
    BY <1>3, PluginTypes
  <2>2. p \in tailed => d = due[p][i]
    OBVIOUS
  <2> QED BY <1>1, <1>8, <2>1, <2>2
<1> QED BY <1>5, <1>9, <1>10, <1>11, <1>12

\* An item is served as it was loaded, or as the tail thread has found it since.
LEMMA BootServes ==
  ASSUME RetentionInv, NEW p \in Plugins, p \in ValueMods, stage[p] \in {"loaded", "boot"}, ServeItem(p)
  PROVE  /\ SinceLoad(p, pos[p], served'[p][pos[p]])
         /\ stage[p] = "boot" => \A j \in DOMAIN schema[p] : SinceLoad(p, j, served'[p][j])
<1> DEFINE i == pos[p]
<1>1. /\ PluginInv(p) /\ i \in DOMAIN schema[p] /\ mem[p][i] \in Cell /\ mem[p][i].n \in Nat
  BY ItemsAre, PluginTypes
<1>2. /\ ~LoadRaises(p)
      /\ \A j \in DOMAIN schema[p] :
           /\ SinceLoad(p, j, mem[p][j])
           /\ IF stage[p] = "boot" \/ j < i THEN SinceLoad(p, j, served[p][j])
                                            ELSE served[p][j] = None
  BY <1>1 DEF PluginInv, LoadedInv
<1>3. /\ \A j \in DOMAIN schema[p] \ {i} : served'[p][j] = served[p][j]
      /\ served'[p][i] = IF mem[p][i].is = "none" THEN served[p][i] ELSE mem[p][i]
  BY ServeItemIs
<1>4. Loaded(p)[i] \in Cell
  BY <1>1, <1>2, LoadedIs
<1>5. SinceLoad(p, i, served'[p][i])
  <2>1. CASE mem[p][i].is # "none"
    BY <1>1, <1>2, <1>3, <2>1
  <2>2. CASE mem[p][i].is = "none"
    <3>1. mem[p][i] = None /\ Loaded(p)[i].n \in Nat /\ None.n = 0
      BY <1>1, <1>4, <2>2, CellIs, NoneIs
    <3>2. Loaded(p)[i] = None
      BY <1>1, <1>2, <3>1 DEF SinceLoad
    <3>3. SinceLoad(p, i, served[p][i])
      BY <1>1, <1>2, <3>2 DEF SinceLoad
    <3> QED BY <1>3, <2>2, <3>3
  <2> QED BY <2>1, <2>2
<1>6. stage[p] = "boot" => \A j \in DOMAIN schema[p] : SinceLoad(p, j, served'[p][j])
  BY <1>2, <1>3, <1>5
<1> QED BY <1>5, <1>6

\* Serving one item of those that were loaded, or dumped, and going on.  What must not
\* be lost is in the file.
LEMMA ServeItemKeeps ==
  ASSUME RetentionInv, NEW p \in Plugins, p \in ValueMods,
         NEW next \in {"boot", "idle"}, stage[p] \in {"loaded", "boot", "dumped"},
         stage[p] = "loaded" <=> next = "boot",
         ~Refused(p), ServeItem(p), Advance(p, next),
         UNCHANGED <<up, died, schema, tailed, file, lost, changed, mem, snap, count, tooLong>>
  PROVE  RetentionInv'
<1> DEFINE i == pos[p]
<1>1. /\ p \notin TableMods /\ schema[p] \in Schemas /\ i \in DOMAIN schema[p]
      /\ DOMAIN schema[p] \subseteq Slots(p)
      /\ DOMAIN mem[p] = DOMAIN schema[p] /\ DOMAIN served[p] = DOMAIN schema[p]
      /\ mem[p] \in [DOMAIN schema[p] -> Cell] /\ served[p] \in [DOMAIN schema[p] -> Cell]
      /\ \A j \in DOMAIN schema[p] :
           /\ mem[p][j] \in Cell /\ mem[p][j].n \in Nat /\ mem[p][j].n <= count[p]
           /\ served[p][j] \in Cell /\ served[p][j].n \in Nat /\ served[p][j].n <= count[p]
           /\ due[p][j] \in Nat /\ j \in AllItems
      /\ up # "down" /\ stage[p] # "off"
  BY ItemsAre
<1>2. PluginInv(p) /\ count[p] \in Nat /\ \A j \in Slots(p) : due[p][j] \in Nat
  BY PluginTypes
<1>3. /\ pos' \in [Plugins -> AllItems \cup {1}] /\ stage' \in [Plugins -> Stages]
      /\ \A q \in Plugins \ {p} : pos'[q] = pos[q] /\ stage'[q] = stage[q]
      /\ pos'[p] \in DOMAIN schema[p] /\ stage'[p] \in {stage[p], next}
      /\ \A j \in DOMAIN schema[p] : stage'[p] = next \/ j < pos'[p] => j < i \/ j = i
      /\ stage'[p] # next => \A j \in DOMAIN schema[p] : ~(j < pos'[p]) => j # i /\ ~(j < i)
  <2>1. next \in Stages /\ stage[p] # next
    BY DEF Stages
  <2> QED BY <1>1, <2>1, AdvanceIs
<1>4. /\ served' \in [Plugins -> Contents] /\ due' \in [Plugins -> [AllItems \cup {1} -> 0..MaxCount]]
      /\ \A q \in Plugins \ {p} : served'[q] = served[q] /\ due'[q] = due[q]
      /\ DOMAIN served'[p] = DOMAIN schema[p]
      /\ \A j \in DOMAIN schema[p] \ {i} : served'[p][j] = served[p][j]
      /\ \A j \in Slots(p) \ {i} : due'[p][j] = due[p][j]
      /\ served'[p][i] = IF mem[p][i].is = "none" THEN served[p][i] ELSE mem[p][i]
      /\ due'[p][i] \in {due[p][i], mem[p][i].n}
      /\ p \in tailed => due'[p] = due[p]
  BY <1>1, ServeItemIs
<1>5. TypeOK'
  BY <1>3, <1>4 DEF RetentionInv, TypeOK
<1>6. \A q \in Plugins \ {p} : Same(q)
  BY <1>3, <1>4 DEF Same
<1>7. /\ Loaded(p)' = Loaded(p) /\ (Whole(p)' <=> Whole(p)) /\ (LoadRaises(p)' <=> LoadRaises(p))
      /\ \A j : Saved(p, j)' = Saved(p, j)
      /\ \A c : Fits(p, c)' <=> Fits(p, c)
      /\ \A j, c : SinceLoad(p, j, c)' <=> SinceLoad(p, j, c)
  BY DerivedSame
<1>8. \A j \in DOMAIN schema[p] : served'[p][j].n <= mem[p][j].n
  <2>1. \A j \in DOMAIN schema[p] : served[p][j].n <= mem[p][j].n
    BY <1>1, <1>2 DEF PluginInv, ItemsInv
  <2> QED BY <1>1, <1>4, <2>1
<1>9. StampsInv(p)'
  <2>1. \A j \in DOMAIN served'[p] : served'[p][j].n <= count[p]
    BY <1>1, <1>4
  <2>2. \A j \in Slots(p) : due'[p][j] <= count[p]
    BY <1>1, <1>2, <1>4 DEF PluginInv, StampsInv
  <2> QED BY <1>2, <1>7, <2>1, <2>2 DEF PluginInv, StampsInv, Slots
<1>10. ItemsInv(p)'
  <2>1. \A j \in DOMAIN schema[p] : stage'[p] # "loaded" \/ j < pos'[p] => CellFits(schema[p][j], mem[p][j])
    <3>1. CellFits(schema[p][i], mem[p][i])
      BY DEF Refused, CellFits
    <3>2. \A j \in DOMAIN schema[p] : stage[p] # "loaded" \/ j < i => CellFits(schema[p][j], mem[p][j])
      BY <1>1, <1>2 DEF PluginInv, ItemsInv
    <3> QED BY <1>3, <3>1, <3>2
  <2>2. ~lost[p] => \A j \in DOMAIN schema[p] : due'[p][j] <= mem[p][j].n
    <3>1. ~lost[p] => \A j \in DOMAIN schema[p] : due[p][j] <= mem[p][j].n
      BY <1>1, <1>2 DEF PluginInv, ItemsInv
    <3> QED BY <1>1, <1>4, <3>1
  <2>3. ~lost[p] => \A j \in Slots(p) \ DOMAIN schema[p] : due'[p][j] = 0
    <3>1. ~lost[p] => \A j \in Slots(p) \ DOMAIN schema[p] : due[p][j] = 0
      BY <1>1, <1>2 DEF PluginInv, ItemsInv
    <3> QED BY <1>1, <1>4, <3>1
  <2> QED BY <1>1, <1>3, <1>4, <1>8, <2>1, <2>2, <2>3 DEF ItemsInv, Slots
<1>11. FileInv(p)'
  <2>1. CASE lost[p]
    BY <1>2, <1>7, <2>1 DEF PluginInv, FileInv
  <2>2. CASE ~lost[p]
    <3>1. file[p] # Cut /\ \A j \in Slots(p) : Saved(p, j) >= due[p][j]
      BY <1>2, <2>2 DEF PluginInv, FileInv
    <3>2. p \notin tailed => Saved(p, i) = mem[p][i].n
      <4>1. CASE stage[p] = "dumped" /\ p \notin tailed
        <5>1. file[p] = mem[p]
          BY <1>2, <2>2, <4>1 DEF PluginInv, FileInv
        <5>2. mem[p] \in Contents /\ Whole(p)
          BY <5>1, PluginTypes, ContentsIs DEF Whole
        <5> QED BY <1>1, <5>1, <5>2 DEF Saved, Stamp
      <4>2. CASE stage[p] # "dumped" /\ p \notin tailed
        <5>1. ~LoadRaises(p) /\ mem[p][i] = Loaded(p)[i]
          BY <1>1, <1>2, <4>2 DEF PluginInv, LoadedInv, SinceLoad
        <5>2. Loaded(p) \in [DOMAIN schema[p] -> Cell] /\ Stamp(Loaded(p), i) = Saved(p, i)
          BY <5>1, LoadedIs
        <5> QED BY <1>1, <5>1, <5>2 DEF Stamp
      <4> QED BY <4>1, <4>2
    <3>3. \A j \in Slots(p) : Saved(p, j) >= due'[p][j]
      BY <1>1, <1>2, <1>4, <3>1, <3>2
    <3> QED BY <1>2, <1>3, <1>7, <3>1, <3>3 DEF PluginInv, FileInv, Slots
  <2> QED BY <2>1, <2>2
<1>12. LoadedInv(p)'
  <2>1. CASE stage[p] = "dumped"
    BY <1>1, <1>3, <2>1 DEF LoadedInv
  <2>2. CASE stage[p] \in {"loaded", "boot"}
    <3>1. /\ ~LoadRaises(p)
          /\ \A j \in DOMAIN schema[p] :
               /\ SinceLoad(p, j, mem[p][j])
               /\ \/ mem[p][j] = Loaded(p)[j]
                  \/ CellFits(schema[p][j], mem[p][j]) /\ (mem[p][j].is = "long" => tooLong[p])
               /\ IF stage[p] = "boot" \/ j < i THEN SinceLoad(p, j, served[p][j])
                                                ELSE served[p][j] = None
      BY <1>1, <1>2, <2>2 DEF PluginInv, LoadedInv
    <3>2. SinceLoad(p, i, served'[p][i])
      BY <2>2, BootServes
    <3>3. \A j \in DOMAIN schema[p] : stage'[p] \in {"loaded", "boot"} =>
            IF stage'[p] = "boot" \/ j < pos'[p] THEN SinceLoad(p, j, served'[p][j])
                                                 ELSE served'[p][j] = None
      <4> SUFFICES ASSUME NEW j \in DOMAIN schema[p], stage'[p] \in {"loaded", "boot"}
                   PROVE  IF stage'[p] = "boot" \/ j < pos'[p] THEN SinceLoad(p, j, served'[p][j])
                                                 ELSE served'[p][j] = None
        OBVIOUS
      <4>1. CASE stage[p] = "boot"
        BY <1>3, <1>4, <3>1, <3>2, <4>1
      <4>2. CASE stage[p] = "loaded"
        BY <1>3, <1>4, <3>1, <3>2, <4>2
      <4> QED BY <2>2, <4>1, <4>2
    <3> QED BY <1>1, <1>3, <1>7, <3>1, <3>3 DEF LoadedInv
  <2> QED BY <2>1, <2>2
<1>13. DumpInv(p)'
  BY <1>3 DEF DumpInv
<1> QED BY <1>1, <1>5, <1>6, <1>9, <1>10, <1>11, <1>12, <1>13, OneStep DEF PluginInv

LEMMA SetupTableKeeps ==
  ASSUME RetentionInv, NEW p \in Plugins, SetupTable(p)
  PROVE  RetentionInv'
<1>1. /\ p \in TableMods /\ stage[p] = "loaded" /\ stage' = [stage EXCEPT ![p] = "boot"] /\ up # "down"
      /\ UNCHANGED <<up, died, schema, tailed, file, lost, changed, pos, mem, snap, served, count, due, tooLong>>
  BY DEF SetupTable, proc, conf, disk
<1>2. PluginInv(p) /\ p \notin ValueMods
  BY <1>1, PluginTypes, RetentionAssumption
<1>3. stage'[p] = "boot" /\ \A q \in Plugins \ {p} : Same(q)
  BY <1>1 DEF RetentionInv, TypeOK, Same
<1>4. TypeOK'
  <2>1. stage' \in [Plugins -> Stages]
    BY <1>1 DEF RetentionInv, TypeOK, Stages
  <2> QED BY <1>1, <2>1 DEF RetentionInv, TypeOK
<1>5. PluginInv(p)'
  <2>1. /\ Loaded(p)' = Loaded(p) /\ (Whole(p)' <=> Whole(p)) /\ (LoadRaises(p)' <=> LoadRaises(p))
        /\ \A j : Saved(p, j)' = Saved(p, j)
        /\ \A c : Fits(p, c)' <=> Fits(p, c)
    BY <1>1, DerivedSame
  <2>2. StampsInv(p)'
    BY <1>1, <1>2, <2>1 DEF PluginInv, StampsInv, Slots
  <2>3. LoadedInv(p)'
    BY <1>1, <1>2, <1>3, <2>1 DEF PluginInv, LoadedInv
  <2>4. FileInv(p)'
    BY <1>1, <1>2, <1>3, <2>1 DEF PluginInv, FileInv, Slots
  <2> QED BY <1>2, <1>3, <2>2, <2>3, <2>4 DEF PluginInv, ItemsInv, DumpInv
<1> QED BY <1>1, <1>3, <1>4, <1>5, OneStep

-----------------------------------------------------------------------------
(* Tables.                                                                     *)

LEMMA RowIs ==
  ASSUME NEW c \in Contents
  PROVE  /\ Row(c) \in Contents /\ DOMAIN Row(c) = DOMAIN c
         /\ \A i \in DOMAIN c : Row(c)[i].n = c[i].n
         /\ \A i : Stamp(Row(c), i) = Stamp(c, i)
<1>1. \A i \in DOMAIN c : c[i] \in Cell
  BY ContentsIs
<1>2. \A d \in Cell : Clipped(d) \in Cell /\ Clipped(d).n = d.n
  BY DEF Clipped, Cell, None
<1>3. Row(c) = [i \in DOMAIN c |-> Clipped(c[i])]
  BY DEF Row
<1>4. DOMAIN Row(c) = DOMAIN c /\ \A i \in DOMAIN c : Row(c)[i] = Clipped(c[i])
  BY <1>3
<1>5. Row(c) \in Contents
  <2>1. CASE c = <<>>
    <3>1. Row(c) = <<>>
      BY <1>3, <2>1
    <3> QED BY <3>1, EmptyIs
  <2>2. CASE \E s \in Schemas : c \in [DOMAIN s -> Cell]
    <3>1. PICK s \in Schemas : c \in [DOMAIN s -> Cell]
      BY <2>2
    <3>2. Row(c) \in [DOMAIN s -> Cell]
      BY <1>1, <1>2, <1>3, <3>1
    <3> QED BY <3>1, <3>2, ContentsMade
  <2> QED BY <2>1, <2>2 DEF Contents
<1>6. \A i \in DOMAIN c : Row(c)[i].n = c[i].n
  BY <1>1, <1>2, <1>4
<1> QED BY <1>4, <1>5, <1>6 DEF Stamp

\* The row that was loaded is served, or one with its first datum as the index.
LEMMA RowOfIs ==
  ASSUME RetentionInv, NEW p \in Plugins
  PROVE  /\ RowOf(p) \in Contents
         /\ \A i \in DOMAIN RowOf(p) : RowOf(p)[i].n <= count[p]
<1>1. PluginInv(p) /\ mem[p] \in Contents /\ schema[p] \in Schemas
  BY PluginTypes
<1>2. \A i \in DOMAIN mem[p] : mem[p][i] \in Cell /\ mem[p][i].n <= count[p]
  BY <1>1, ContentsIs DEF PluginInv, StampsInv
<1>3. CASE ~Shifted(p)
  BY <1>1, <1>2, <1>3 DEF RowOf
<1>4. CASE Shifted(p)
  <2>1. \A i \in DOMAIN schema[p] : i + 1 \in DOMAIN mem[p]
    <3>1. Len(schema[p]) \in Nat /\ DOMAIN schema[p] = 1..Len(schema[p])
      BY <1>1, SchemaIs
    <3> QED BY <1>4, <3>1 DEF Shifted
  <2>2. RowOf(p) = [i \in DOMAIN schema[p] |-> mem[p][i + 1]]
    BY <1>4 DEF RowOf
  <2>3. RowOf(p) \in [DOMAIN schema[p] -> Cell] /\ \A i \in DOMAIN RowOf(p) : RowOf(p)[i].n <= count[p]
    BY <1>2, <2>1, <2>2
  <2> QED BY <1>1, <2>3, ContentsMade
<1> QED BY <1>3, <1>4

\* Serving rows, of which what is in the file is as new.
LEMMA ServeTableKeeps ==
  ASSUME RetentionInv, NEW p \in Plugins, p \in TableMods, stage[p] \in {"boot", "dumped"},
         NEW c \in Contents, \A i \in DOMAIN c : c[i].n <= count[p],
         ~lost[p] => Saved(p, 1) >= Stamp(c, 1), ServeTable(p, c),
         stage' = [stage EXCEPT ![p] = "idle"],
         UNCHANGED <<up, died, schema, tailed, file, lost, changed, pos, mem, snap, count, tooLong>>
  PROVE  RetentionInv'
<1>1. PluginInv(p) /\ count[p] \in Nat /\ p \notin ValueMods /\ up # "down"
  BY PluginTypes, RetentionAssumption DEF PluginInv, LoadedInv
<1>2. /\ Row(c) \in Contents /\ DOMAIN Row(c) = DOMAIN c /\ Stamp(c, 1) \in 0..MaxCount /\ Stamp(c, 1) \in Nat
      /\ \A i \in DOMAIN c : Row(c)[i].n = c[i].n
  BY RowIs, ContentsIs
<1>3. /\ served \in [Plugins -> Contents] /\ due \in [Plugins -> [AllItems \cup {1} -> 0..MaxCount]]
      /\ stage \in [Plugins -> Stages] /\ due[p][1] \in Nat
  <2>1. 1 \in Slots(p)
    BY DEF Slots
  <2>2. due[p][1] \in Nat
    BY <2>1, PluginTypes
  <2> QED BY <2>2 DEF RetentionInv, TypeOK
<1>4. /\ served' = [served EXCEPT ![p] = Row(c)]
      /\ due' = [due EXCEPT ![p][1] = Newest(due[p][1], Stamp(c, 1))]
  BY DEF ServeTable
<1>5. /\ Newest(due[p][1], Stamp(c, 1)) \in {due[p][1], Stamp(c, 1)}
      /\ Newest(due[p][1], Stamp(c, 1)) \in 0..MaxCount
  <2>1. due[p][1] \in 0..MaxCount
    BY <1>3
  <2> QED BY <1>2, <2>1 DEF Newest
<1>6. TypeOK'
  <2>1. stage' \in [Plugins -> Stages] /\ served' \in [Plugins -> Contents]
    BY <1>2, <1>3, <1>4 DEF Stages
  <2>2. due' \in [Plugins -> [AllItems \cup {1} -> 0..MaxCount]]
    BY <1>3, <1>4, <1>5
  <2> QED BY <2>1, <2>2 DEF RetentionInv, TypeOK
<1>7. /\ stage'[p] = "idle" /\ served'[p] = Row(c)
      /\ due'[p][1] \in {due[p][1], Stamp(c, 1)}
      /\ \A q \in Plugins \ {p} : Same(q)
  BY <1>3, <1>4, <1>5 DEF Same
<1>8. Slots(p) = {1}
  BY DEF Slots
<1>9. PluginInv(p)'
  <2>1. /\ (Whole(p)' <=> Whole(p)) /\ (\A j : Saved(p, j)' = Saved(p, j)) /\ \A d : Fits(p, d)' <=> Fits(p, d)
    BY DerivedSame
  <2>2. Stamp(c, 1) <= count[p]
    BY <1>1 DEF Stamp
  <2>3. StampsInv(p)'
    BY <1>1, <1>2, <1>7, <1>8, <2>1, <2>2 DEF PluginInv, StampsInv, Slots
  <2>4. FileInv(p)'
    BY <1>1, <1>7, <1>8, <2>1 DEF PluginInv, FileInv, Slots
  <2> QED BY <1>1, <1>7, <2>3, <2>4 DEF PluginInv, LoadedInv, ItemsInv, DumpInv
<1> QED BY <1>1, <1>6, <1>7, <1>9, OneStep

LEMMA CommitTableKeeps ==
  ASSUME RetentionInv, NEW p \in Plugins, CommitTable(p)
  PROVE  RetentionInv'
<1>1. /\ stage[p] = "dumped" /\ p \in TableMods /\ ServeTable(p, mem[p])
      /\ stage' = [stage EXCEPT ![p] = "idle"]
      /\ UNCHANGED <<up, died, schema, tailed, file, lost, changed, pos, mem, snap, count, tooLong>>
  BY DEF CommitTable, proc, conf, disk
<1>2. PluginInv(p) /\ mem[p] \in Contents
  BY PluginTypes
<1>3. \A i \in DOMAIN mem[p] : mem[p][i].n <= count[p]
  BY <1>2 DEF PluginInv, StampsInv
<1>4. ~lost[p] => Saved(p, 1) >= Stamp(mem[p], 1)
  <2> SUFFICES ASSUME ~lost[p] PROVE Saved(p, 1) >= Stamp(mem[p], 1)
    OBVIOUS
  <2>1. p \notin tailed
    BY <1>1, RetentionAssumption DEF RetentionInv, TypeOK
  <2>2. file[p] = mem[p]
    BY <1>1, <1>2, <2>1 DEF PluginInv, FileInv
  <2>3. Saved(p, 1) = Stamp(mem[p], 1) /\ Stamp(mem[p], 1) \in Nat
    BY <1>2, <2>2, ContentsIs DEF Saved, Whole
  <2> QED BY <2>3
<1> QED BY <1>1, <1>2, <1>3, <1>4, ServeTableKeeps

\* A row that was saved under the present configuration is neither too long nor refused.
LEMMA RowsFit ==
  ASSUME RetentionInv, NEW p \in Plugins, p \in TableMods, stage[p] = "boot", ~changed[p]
  PROVE  ~Shifted(p) /\ ~AppendRaises(p) /\ mem[p] = Loaded(p)
<1>1. /\ PluginInv(p) /\ schema[p] \in Schemas /\ p \notin ValueMods
  BY PluginTypes, RetentionAssumption
<1>2. /\ mem[p] = Loaded(p) /\ Len(schema[p]) \in Nat /\ DOMAIN schema[p] = 1..Len(schema[p])
  BY <1>1, SchemaIs DEF PluginInv, LoadedInv
<1>3. CASE ~Whole(p)
  <2>1. mem[p] = <<>>
    BY <1>1, <1>2, <1>3 DEF Loaded
  <2>2. DOMAIN mem[p] = {} /\ 1 \in 1..Len(schema[p]) + 1
    BY <1>2, <2>1, EmptyIs
  <2>3. ~Shifted(p) /\ DOMAIN RowOf(p) = {}
    BY <2>2 DEF Shifted, RowOf
  <2> QED BY <1>2, <2>3 DEF AppendRaises
<1>4. CASE Whole(p)
  <2>1. mem[p] = file[p] /\ Fits(p, file[p])
    BY <1>1, <1>2, <1>4 DEF Loaded, PluginInv, FileInv
  <2>2. DOMAIN mem[p] = DOMAIN schema[p]
    BY <2>1 DEF Fits
  <2>3. ~Shifted(p)
    BY <1>2, <2>2 DEF Shifted
  <2>4. RowOf(p) = mem[p]
    BY <2>3 DEF RowOf
  <2>5. \A i \in DOMAIN schema[p] : ConstructorAccepts(schema[p][i], mem[p][i].is)
    <3> QED BY <2>1 DEF Fits, CellFits, ConstructorAccepts
  <2> QED BY <1>2, <2>2, <2>3, <2>4, <2>5 DEF AppendRaises
<1> QED BY <1>3, <1>4

LEMMA BootTableKeeps ==
  ASSUME RetentionInv, NEW p \in Plugins, BootTable(p)
  PROVE  RetentionInv'
<1>1. /\ stage[p] = "boot" /\ p \in TableMods /\ ServeTable(p, RowOf(p))
      /\ stage' = [stage EXCEPT ![p] = "idle"]
      /\ UNCHANGED <<up, died, schema, tailed, file, lost, changed, pos, mem, snap, count, tooLong>>
  BY DEF BootTable, proc, conf, disk
<1>2. PluginInv(p) /\ mem[p] \in Contents /\ schema[p] \in Schemas /\ p \notin ValueMods
  BY <1>1, PluginTypes, RetentionAssumption
<1>3. RowOf(p) \in Contents /\ \A i \in DOMAIN RowOf(p) : RowOf(p)[i].n <= count[p]
  BY RowOfIs
<1>4. ~lost[p] => Saved(p, 1) >= Stamp(RowOf(p), 1)
  <2>1. mem[p] = IF Whole(p) THEN file[p] ELSE <<>>
    BY <1>1, <1>2 DEF PluginInv, LoadedInv, Loaded
  <2>2. Stamp(mem[p], 1) = Saved(p, 1) /\ Saved(p, 1) \in Nat /\ Stamp(RowOf(p), 1) \in Nat
    BY <1>2, <1>3, <2>1, EmptyIs, ContentsIs DEF Saved, Stamp
  <2>3. CASE ~Shifted(p)
    BY <2>2, <2>3 DEF RowOf
  <2>4. CASE Shifted(p)
    <3>1. Len(schema[p]) \in Nat /\ DOMAIN schema[p] = 1..Len(schema[p]) /\ 1 \in DOMAIN schema[p]
      BY <1>2, SchemaIs
    <3>2. 1 \in DOMAIN mem[p] /\ 2 \in DOMAIN mem[p]
      BY <2>4, <3>1 DEF Shifted
    <3>3. Even(mem[p])
      BY <1>1, <1>2, <2>1, EmptyIs DEF PluginInv, FileInv, Even
    <3>4. RowOf(p)[1] = mem[p][1 + 1] /\ 1 \in DOMAIN RowOf(p)
      BY <2>4, <3>1 DEF RowOf
    <3>5. Stamp(RowOf(p), 1) = mem[p][2].n /\ Stamp(mem[p], 1) = mem[p][1].n
      BY <3>2, <3>4 DEF Stamp
    <3> QED BY <2>2, <3>2, <3>3, <3>5 DEF Even
  <2> QED BY <2>3, <2>4
<1> QED BY <1>1, <1>3, <1>4, ServeTableKeeps

-----------------------------------------------------------------------------
(* What is collected.                                                          *)

LEMMA FreshIs ==
  ASSUME RetentionInv, NEW p \in Plugins, count[p] < MaxCount,
         NEW type \in Types, NEW c \in Fresh(p, type)
  PROVE  /\ c \in Cell /\ c.n = count[p] + 1 /\ count[p] + 1 \in 0..MaxCount /\ c.is # "none"
         /\ CellFits(type, c)
<1>1. count[p] \in Nat /\ MaxCount \in Nat
  BY PluginTypes, BoundIsNat
<1>2. c.n = count[p] + 1 /\ c.is \in Produces(type) /\ c \in [n : {count[p] + 1}, is : Produces(type)]
  BY DEF Fresh
<1>3. Produces(type) \subseteq {"int", "str", "long"} /\ "none" \notin Produces(type)
  BY DEF Produces, Types
<1>4. count[p] + 1 \in 1..MaxCount
  BY <1>1
<1>5. c \in Cell
  BY <1>2, <1>3, <1>4 DEF Cell
<1>6. CellFits(type, c)
  BY <1>2 DEF Produces, CellFits
<1> QED BY <1>2, <1>3, <1>4, <1>5, <1>6

LEMMA CountOneIs ==
  ASSUME RetentionInv, NEW p \in Plugins, CountOne(p)
  PROVE  /\ count[p] < MaxCount /\ count' \in [Plugins -> 0..MaxCount]
         /\ count'[p] = count[p] + 1 /\ count'[p] \in Nat /\ count[p] \in Nat
         /\ \A q \in Plugins \ {p} : count'[q] = count[q]
<1>1. count[p] < MaxCount /\ count' = [count EXCEPT ![p] = count[p] + 1]
  BY DEF CountOne
<1>2. count \in [Plugins -> 0..MaxCount] /\ MaxCount \in Nat /\ count[p] \in Nat
  BY PluginTypes, BoundIsNat DEF RetentionInv, TypeOK
<1>3. count[p] + 1 \in 0..MaxCount
  BY <1>1, <1>2
<1> QED BY <1>1, <1>2, <1>3

LEMMA TailSetsKeeps ==
  ASSUME RetentionInv, NEW p \in Plugins, TailSets(p)
  PROVE  RetentionInv'
<1>1. /\ p \in tailed /\ stage[p] # "off" /\ CountOne(p)
      /\ UNCHANGED <<up, died, schema, tailed, file, lost, changed, stage, pos, snap, served, due>>
  BY DEF TailSets, proc, conf, disk
<1>2. PICK i \in DOMAIN schema[p] : \E c \in Fresh(p, schema[p][i]) :
        /\ mem' = [mem EXCEPT ![p][i] = c]
        /\ tooLong' = [tooLong EXCEPT ![p] =
                       tooLong[p] \/ (c.is = "long" /\ stage[p] \in {"loaded", "boot"})]
  BY DEF TailSets
<1>3. PICK c \in Fresh(p, schema[p][i]) :
        /\ mem' = [mem EXCEPT ![p][i] = c]
        /\ tooLong' = [tooLong EXCEPT ![p] =
                       tooLong[p] \/ (c.is = "long" /\ stage[p] \in {"loaded", "boot"})]
  BY <1>2
<1>4. /\ p \in ValueMods /\ p \notin TableMods
  BY <1>1, RetentionAssumption DEF RetentionInv, TypeOK
<1>5. /\ schema[p] \in Schemas /\ DOMAIN mem[p] = DOMAIN schema[p]
      /\ mem[p] \in [DOMAIN schema[p] -> Cell] /\ DOMAIN served[p] = DOMAIN schema[p]
      /\ \A j \in DOMAIN schema[p] :
           /\ mem[p][j].n \in Nat /\ mem[p][j].n <= count[p]
           /\ served[p][j].n \in Nat /\ served[p][j].n <= count[p] /\ due[p][j] \in Nat
      /\ up # "down" /\ DOMAIN schema[p] \subseteq Slots(p)
  BY <1>1, <1>4, ItemsAre
<1>6. /\ PluginInv(p) /\ \A j \in DOMAIN schema[p] : due[p][j] <= count[p]
  BY <1>5, PluginTypes DEF PluginInv, StampsInv
<1>7. /\ count[p] < MaxCount /\ count' \in [Plugins -> 0..MaxCount]
      /\ count'[p] = count[p] + 1 /\ count'[p] \in Nat /\ count[p] \in Nat
      /\ \A q \in Plugins \ {p} : count'[q] = count[q]
  BY <1>1, CountOneIs
<1>8. c \in Cell /\ c.n = count[p] + 1 /\ c.is # "none" /\ CellFits(schema[p][i], c)
  <2>1. schema[p][i] \in Types
    BY <1>5, SchemaIs
  <2> QED BY <1>7, <2>1, FreshIs
<1>9. /\ mem \in [Plugins -> Contents] /\ tooLong \in [Plugins -> BOOLEAN]
  BY DEF RetentionInv, TypeOK
<1>10. /\ mem'[p] = [mem[p] EXCEPT ![i] = c] 
      /\ tooLong'[p] = (tooLong[p] \/ (c.is = "long" /\ stage[p] \in {"loaded", "boot"}))
      /\ \A q \in Plugins \ {p} : Same(q)
  BY <1>1, <1>3, <1>7, <1>9 DEF Same
<1>11. /\ mem'[p] \in [DOMAIN schema[p] -> Cell] /\ mem'[p][i] = c /\ DOMAIN mem'[p] = DOMAIN schema[p]
       /\ \A j \in DOMAIN schema[p] \ {i} : mem'[p][j] = mem[p][j]
       /\ \A j \in DOMAIN schema[p] : mem'[p][j].n \in Nat /\ mem'[p][j].n >= mem[p][j].n
  BY <1>5, <1>7, <1>8, <1>10
<1>12. TypeOK'
  <2>1. [mem[p] EXCEPT ![i] = c] \in Contents
    BY <1>5, <1>10, <1>11, ContentsMade
  <2>2. mem' \in [Plugins -> Contents] /\ tooLong' \in [Plugins -> BOOLEAN]
    BY <1>3, <1>9, <2>1
  <2> QED BY <1>1, <1>7, <2>2 DEF RetentionInv, TypeOK
<1>13. PluginInv(p)'
  <2>1. /\ Loaded(p)' = Loaded(p) /\ (Whole(p)' <=> Whole(p)) /\ (LoadRaises(p)' <=> LoadRaises(p))
        /\ \A j : Saved(p, j)' = Saved(p, j)
        /\ \A d : Fits(p, d)' <=> Fits(p, d)
        /\ \A j, d : SinceLoad(p, j, d)' <=> SinceLoad(p, j, d)
    BY <1>1, DerivedSame
  <2>2. StampsInv(p)'
    <3>1. /\ \A j \in DOMAIN mem'[p] : mem'[p][j].n <= count'[p]
          /\ \A j \in DOMAIN served[p] : served[p][j].n <= count'[p]
      BY <1>5, <1>7, <1>8, <1>11
    <3>2. Whole(p) => \A j \in DOMAIN file[p] : file[p][j].n <= count'[p]
      <4>1. Whole(p) => \A j \in DOMAIN file[p] : file[p][j].n \in Nat /\ file[p][j].n <= count[p]
        BY <1>6, PluginTypes, ContentsIs DEF PluginInv, StampsInv
      <4> QED BY <1>7, <4>1
    <3>3. \A j \in Slots(p) : due[p][j] <= count'[p]
      <4>1. \A j \in Slots(p) : due[p][j] \in Nat /\ due[p][j] <= count[p]
        BY <1>6, PluginTypes DEF PluginInv, StampsInv
      <4> QED BY <1>7, <4>1
    <3> QED BY <1>1, <2>1, <3>1, <3>2, <3>3 DEF StampsInv, Slots
  <2>3. LoadedInv(p)'
    <3>1. CASE stage[p] \notin {"loaded", "boot"}
      BY <1>1, <1>5, <3>1 DEF LoadedInv
    <3>2. CASE stage[p] \in {"loaded", "boot"}
      <4>1. /\ ~LoadRaises(p)
            /\ \A j \in DOMAIN schema[p] :
                 /\ SinceLoad(p, j, mem[p][j])
                 /\ \/ mem[p][j] = Loaded(p)[j]
                    \/ CellFits(schema[p][j], mem[p][j]) /\ (mem[p][j].is = "long" => tooLong[p])
                 /\ IF stage[p] = "boot" \/ j < pos[p] THEN SinceLoad(p, j, served[p][j])
                                                       ELSE served[p][j] = None
        BY <1>4, <1>6, <3>2 DEF PluginInv, LoadedInv
      <4>2. SinceLoad(p, i, c)
        <5>1. Loaded(p) \in [DOMAIN schema[p] -> Cell] /\ Loaded(p)[i].n <= count[p]
          BY <1>4, <4>1, LoadedIs
        <5>2. Loaded(p)[i].n \in Nat
          BY <5>1, CellIs
        <5> QED BY <1>1, <1>7, <1>8, <5>1, <5>2 DEF SinceLoad
      <4>3. \A j \in DOMAIN schema[p] :
              /\ SinceLoad(p, j, mem'[p][j])
              /\ \/ mem'[p][j] = Loaded(p)[j]
                 \/ CellFits(schema[p][j], mem'[p][j]) /\ (mem'[p][j].is = "long" => tooLong'[p])
        BY <1>8, <1>10, <1>11, <3>2, <4>1, <4>2
      <4> QED BY <1>1, <1>4, <1>5, <2>1, <4>1, <4>3 DEF LoadedInv
    <3> QED BY <3>1, <3>2
  <2>4. ItemsInv(p)'
    <3>1. /\ pos[p] \in DOMAIN schema[p]
          /\ \A j \in DOMAIN schema[p] :
               /\ served[p][j].n <= mem[p][j].n
               /\ ~lost[p] => due[p][j] <= mem[p][j].n
               /\ stage[p] # "loaded" \/ j < pos[p] => CellFits(schema[p][j], mem[p][j])
          /\ ~lost[p] => \A j \in Slots(p) \ DOMAIN schema[p] : due[p][j] = 0
      BY <1>1, <1>4, <1>6 DEF PluginInv, ItemsInv
    <3>2. \A j \in DOMAIN schema[p] :
               /\ served[p][j].n <= mem'[p][j].n
               /\ ~lost[p] => due[p][j] <= mem'[p][j].n
      BY <1>5, <1>11, <3>1
    <3>3. \A j \in DOMAIN schema[p] :
            stage[p] # "loaded" \/ j < pos[p] => CellFits(schema[p][j], mem'[p][j])
      BY <1>8, <1>11, <3>1
    <3> QED BY <1>1, <1>5, <1>11, <3>1, <3>2, <3>3 DEF ItemsInv, Slots
  <2>5. DumpInv(p)'
    <3> SUFFICES ASSUME stage[p] \in {"collected", "read", "dumping"} PROVE DumpInv(p)'
      BY <1>1 DEF DumpInv
    <3>1. /\ Fits(p, snap[p])
          /\ \A j \in DOMAIN snap[p] : snap[p][j].n <= count[p]
          /\ \A j \in Slots(p) : /\ Stamp(served[p], j) <= Stamp(snap[p], j)
                                 /\ ~lost[p] => due[p][j] <= Stamp(snap[p], j)
      BY <1>6 DEF PluginInv, DumpInv
    <3>2. \A j \in DOMAIN snap[p] : snap[p][j].n \in Nat
      BY PluginTypes, ContentsIs
    <3>3. \A j \in DOMAIN snap[p] : snap[p][j].n <= count'[p]
      BY <1>7, <3>1, <3>2
    <3> QED BY <1>1, <1>4, <2>1, <3>1, <3>3 DEF DumpInv, Slots, Stamp
  <2>6. FileInv(p)'
    BY <1>1, <1>4, <1>6, <2>1 DEF PluginInv, FileInv, Slots
  <2> QED BY <2>2, <2>3, <2>4, <2>5, <2>6 DEF PluginInv
<1> QED BY <1>1, <1>5, <1>10, <1>12, <1>13, OneStep

\* The stamps of what is not collected stay below the count.
LEMMA OlderStamps ==
  ASSUME RetentionInv, NEW p \in Plugins, CountOne(p)
  PROVE  /\ \A i : Stamp(served[p], i) \in Nat /\ Stamp(served[p], i) <= count[p]
         /\ \A i \in DOMAIN served[p] : served[p][i].n <= count'[p]
         /\ Whole(p) => \A i \in DOMAIN file[p] : file[p][i].n <= count'[p]
         /\ \A i \in Slots(p) : due[p][i] \in Nat /\ due[p][i] <= count[p] /\ due[p][i] <= count'[p]
<1>1. PluginInv(p) /\ count'[p] = count[p] + 1 /\ count[p] \in Nat
  BY PluginTypes, CountOneIs
<1>2. \A i \in DOMAIN served[p] : served[p][i].n \in Nat /\ served[p][i].n <= count[p]
  BY <1>1, PluginTypes, ContentsIs DEF PluginInv, StampsInv
<1>3. Whole(p) => \A i \in DOMAIN file[p] : file[p][i].n \in Nat /\ file[p][i].n <= count[p]
  BY <1>1, PluginTypes, ContentsIs DEF PluginInv, StampsInv
<1>4. \A i \in Slots(p) : due[p][i] \in Nat /\ due[p][i] <= count[p]
  BY <1>1, PluginTypes DEF PluginInv, StampsInv
<1> QED BY <1>1, <1>2, <1>3, <1>4 DEF Stamp

LEMMA CollectTableKeeps ==
  ASSUME RetentionInv, NEW p \in Plugins, CollectTable(p)
  PROVE  RetentionInv'
<1>1. /\ stage[p] = "idle" /\ p \in TableMods /\ CountOne(p) /\ stage' = [stage EXCEPT ![p] = "read"]
      /\ UNCHANGED <<up, died, schema, tailed, file, lost, changed, pos, served, due, tooLong>>
  BY DEF CollectTable, proc, conf, disk
<1>2. PICK row \in [DOMAIN schema[p] -> UNION {Fresh(p, type) : type \in Types}] :
        /\ \A i \in DOMAIN row : row[i] \in Fresh(p, schema[p][i])
        /\ mem' = [mem EXCEPT ![p] = row] /\ snap' = [snap EXCEPT ![p] = row]
  BY DEF CollectTable
<1>3. /\ PluginInv(p) /\ schema[p] \in Schemas /\ p \notin ValueMods /\ up # "down"
      /\ \A i \in DOMAIN schema[p] : schema[p][i] \in Types
      /\ 1 \in DOMAIN schema[p]
  BY <1>1, PluginTypes, SchemaIs, RetentionAssumption DEF PluginInv, LoadedInv
<1>4. /\ count[p] < MaxCount /\ count' \in [Plugins -> 0..MaxCount]
      /\ count'[p] = count[p] + 1 /\ count'[p] \in Nat /\ count[p] \in Nat
      /\ \A q \in Plugins \ {p} : count'[q] = count[q]
  BY <1>1, CountOneIs
<1>5. /\ DOMAIN row = DOMAIN schema[p]
      /\ \A i \in DOMAIN schema[p] : /\ row[i] \in Cell /\ row[i].n = count[p] + 1 /\ row[i].is # "none"
                                     /\ CellFits(schema[p][i], row[i])
  BY <1>2, <1>3, <1>4, FreshIs
<1>6. row \in [DOMAIN schema[p] -> Cell] /\ row \in Contents
  <2>1. row \in [DOMAIN schema[p] -> Cell]
    BY <1>2, <1>5
  <2> QED BY <1>3, <2>1, ContentsMade
<1>7. /\ mem'[p] = row /\ snap'[p] = row /\ stage'[p] = "read" /\ \A q \in Plugins \ {p} : Same(q)
  BY <1>1, <1>2, <1>4 DEF RetentionInv, TypeOK, Same
<1>8. TypeOK'
  <2>1. stage' \in [Plugins -> Stages] /\ mem' \in [Plugins -> Contents] /\ snap' \in [Plugins -> Contents]
    BY <1>1, <1>2, <1>6 DEF RetentionInv, TypeOK, Stages
  <2> QED BY <1>1, <1>4, <2>1 DEF RetentionInv, TypeOK
<1>9. PluginInv(p)'
  <2>1. /\ (Whole(p)' <=> Whole(p)) /\ (\A j : Saved(p, j)' = Saved(p, j)) /\ \A d : Fits(p, d)' <=> Fits(p, d)
    BY <1>1, DerivedSame
  <2>2. /\ \A i : Stamp(served[p], i) \in Nat /\ Stamp(served[p], i) <= count[p]
        /\ \A i \in DOMAIN served[p] : served[p][i].n <= count'[p]
        /\ Whole(p) => \A i \in DOMAIN file[p] : file[p][i].n <= count'[p]
        /\ \A i \in Slots(p) : due[p][i] \in Nat /\ due[p][i] <= count[p] /\ due[p][i] <= count'[p]
    BY <1>1, OlderStamps
  <2>3. StampsInv(p)'
    BY <1>1, <1>4, <1>5, <1>7, <2>1, <2>2 DEF StampsInv, Slots
  <2>4. DumpInv(p)'
    <3>1. Fits(p, row) /\ Even(row)
      BY <1>5 DEF Fits, Even
    <3>2. \A i \in Slots(p) : i = 1 /\ Stamp(row, i) = count[p] + 1
      BY <1>1, <1>3, <1>5 DEF Slots, Stamp
    <3>3. Even(row)'
      BY <3>1 DEF Even
    <3>4. \A i \in Slots(p) : /\ Stamp(served[p], i) <= Stamp(row, i) /\ due[p][i] <= Stamp(row, i)
      BY <1>4, <2>2, <3>2
    <3>5. \A i \in DOMAIN row : row[i].n <= count'[p]
      BY <1>4, <1>5
    <3> QED BY <1>1, <1>7, <2>1, <3>1, <3>3, <3>4, <3>5 DEF DumpInv, Slots, Stamp, Even
  <2>5. FileInv(p)'
    BY <1>1, <1>3, <1>7, <2>1 DEF PluginInv, FileInv, Slots
  <2> QED BY <1>1, <1>3, <1>7, <2>3, <2>4, <2>5 DEF PluginInv, LoadedInv, ItemsInv
<1> QED BY <1>1, <1>3, <1>7, <1>8, <1>9, OneStep

\* The items as an update may leave them: as new as they were, and of their types.
LEMMA UpdatedIs ==
  ASSUME RetentionInv, NEW p \in Plugins, p \in ValueMods, stage[p] = "idle", CountOne(p),
         NEW k \in Nat, NEW items \in Updated(p, k)
  PROVE  /\ items \in [DOMAIN schema[p] -> Cell] /\ items \in Contents /\ DOMAIN items = DOMAIN schema[p]
         /\ \A i \in DOMAIN schema[p] : /\ CellFits(schema[p][i], items[i])
                                        /\ items[i].n \in Nat /\ items[i].n >= mem[p][i].n
                                        /\ items[i].n <= count'[p]
<1>1. /\ schema[p] \in Schemas /\ mem[p] \in [DOMAIN schema[p] -> Cell] /\ PluginInv(p)
      /\ \A i \in DOMAIN schema[p] : /\ mem[p][i] \in Cell /\ mem[p][i].n \in Nat
                                     /\ mem[p][i].n <= count[p]
  BY ItemsAre, PluginTypes
<1>2. count[p] < MaxCount /\ count'[p] = count[p] + 1 /\ count[p] \in Nat
  BY CountOneIs
<1>3. /\ DOMAIN items = DOMAIN schema[p] /\ items = [i \in DOMAIN schema[p] |-> items[i]]
      /\ \A i \in DOMAIN schema[p] : items[i] = mem[p][i] \/ items[i] \in Fresh(p, schema[p][i])
  BY DEF Updated
<1>4. ASSUME NEW i \in DOMAIN schema[p]
      PROVE  /\ items[i] \in Cell /\ CellFits(schema[p][i], items[i])
             /\ items[i].n \in Nat /\ items[i].n >= mem[p][i].n /\ items[i].n <= count'[p]
  <2>1. CASE items[i] = mem[p][i]
    <3>1. CellFits(schema[p][i], mem[p][i])
      BY <1>1 DEF PluginInv, ItemsInv
    <3> QED BY <1>1, <1>2, <2>1, <3>1
  <2>2. CASE items[i] \in Fresh(p, schema[p][i])
    <3>1. schema[p][i] \in Types
      BY <1>1, SchemaIs
    <3>2. items[i] \in Cell /\ items[i].n = count[p] + 1 /\ CellFits(schema[p][i], items[i])
      BY <1>2, <2>2, <3>1, FreshIs
    <3> QED BY <1>1, <1>2, <3>2
  <2> QED BY <1>3, <2>1, <2>2
<1>5. items \in [DOMAIN schema[p] -> Cell]
  BY <1>3, <1>4
<1> QED BY <1>1, <1>3, <1>4, <1>5, ContentsMade

\* An update of a plugin without a tail thread, before its dump or instead of it.
LEMMA UpdatedKeeps ==
  ASSUME RetentionInv, NEW p \in Plugins, p \in ValueMods, stage[p] = "idle", CountOne(p),
         NEW k \in Nat, NEW items \in Updated(p, k), mem' = [mem EXCEPT ![p] = items],
         \/ UNCHANGED <<stage, snap>>
         \/ stage' = [stage EXCEPT ![p] = "collected"] /\ snap' = [snap EXCEPT ![p] = items],
         UNCHANGED <<up, died, schema, tailed, file, lost, changed, pos, served, due, tooLong>>
  PROVE  RetentionInv'
<1>1. /\ p \notin TableMods /\ schema[p] \in Schemas /\ pos[p] \in DOMAIN schema[p]
      /\ DOMAIN schema[p] \subseteq Slots(p) /\ DOMAIN served[p] = DOMAIN schema[p]
      /\ \A i \in DOMAIN schema[p] : /\ mem[p][i].n \in Nat /\ served[p][i].n \in Nat /\ due[p][i] \in Nat
      /\ up # "down"
  BY ItemsAre
<1>2. /\ count[p] < MaxCount /\ count' \in [Plugins -> 0..MaxCount]
      /\ \A q \in Plugins \ {p} : count'[q] = count[q]
  BY CountOneIs
<1>3. /\ items \in [DOMAIN schema[p] -> Cell] /\ items \in Contents /\ DOMAIN items = DOMAIN schema[p]
      /\ \A i \in DOMAIN schema[p] : /\ CellFits(schema[p][i], items[i])
                                     /\ items[i].n \in Nat /\ items[i].n >= mem[p][i].n
                                     /\ items[i].n <= count'[p]
  BY UpdatedIs
<1>4. PluginInv(p) /\ mem \in [Plugins -> Contents] /\ snap \in [Plugins -> Contents] /\ stage \in [Plugins -> Stages]
  BY PluginTypes DEF RetentionInv, TypeOK
<1>5. /\ mem'[p] = items /\ (stage'[p] = "idle" \/ (stage'[p] = "collected" /\ snap'[p] = items))
      /\ \A q \in Plugins \ {p} : Same(q)
  <2>1. CASE UNCHANGED <<stage, snap>>
    BY <1>2, <1>4, <2>1 DEF Same
  <2>2. CASE stage' = [stage EXCEPT ![p] = "collected"] /\ snap' = [snap EXCEPT ![p] = items]
    BY <1>2, <1>4, <2>2 DEF Same
  <2> QED BY <2>1, <2>2
<1>6. TypeOK'
  <2>1. stage' \in [Plugins -> Stages] /\ mem' \in [Plugins -> Contents] /\ snap' \in [Plugins -> Contents]
    BY <1>3, <1>4 DEF Stages
  <2> QED BY <1>2, <2>1 DEF RetentionInv, TypeOK
<1>7. /\ (Whole(p)' <=> Whole(p)) /\ (\A j : Saved(p, j)' = Saved(p, j)) /\ \A d : Fits(p, d)' <=> Fits(p, d)
  BY DerivedSame
<1>8. StampsInv(p)'
  <2>1. /\ \A i \in DOMAIN served[p] : served[p][i].n <= count'[p]
        /\ Whole(p) => \A i \in DOMAIN file[p] : file[p][i].n <= count'[p]
        /\ \A i \in Slots(p) : due[p][i] <= count'[p]
    BY OlderStamps
  <2> QED BY <1>3, <1>5, <1>7, <2>1 DEF StampsInv, Slots
<1>9. /\ \A i \in DOMAIN schema[p] : /\ served[p][i].n <= items[i].n
                                     /\ ~lost[p] => due[p][i] <= items[i].n
      /\ ~lost[p] => \A i \in Slots(p) \ DOMAIN schema[p] : due[p][i] = 0
  <2>1. /\ \A i \in DOMAIN schema[p] : /\ served[p][i].n <= mem[p][i].n
                                       /\ ~lost[p] => due[p][i] <= mem[p][i].n
        /\ ~lost[p] => \A i \in Slots(p) \ DOMAIN schema[p] : due[p][i] = 0
    BY <1>4 DEF PluginInv, ItemsInv
  <2> QED BY <1>1, <1>3, <2>1
<1>10. ItemsInv(p)'
  BY <1>1, <1>3, <1>5, <1>9 DEF ItemsInv, Slots
<1>11. DumpInv(p)'
  <2>1. Fits(p, items)
    BY <1>1, <1>3 DEF Fits
  <2>2. \A i \in Slots(p) : /\ Stamp(served[p], i) <= Stamp(items, i)
                            /\ ~lost[p] => due[p][i] <= Stamp(items, i)
    BY <1>1, <1>3, <1>9 DEF Stamp
  <2> QED BY <1>1, <1>3, <1>5, <1>7, <2>1, <2>2 DEF DumpInv, Slots, Stamp
<1>12. FileInv(p)'
  BY <1>1, <1>4, <1>5, <1>7 DEF PluginInv, FileInv, Slots
<1>13. LoadedInv(p)'
  BY <1>1, <1>5 DEF LoadedInv
<1> QED BY <1>1, <1>5, <1>6, <1>8, <1>10, <1>11, <1>12, <1>13, OneStep DEF PluginInv

LEMMA CollectItemsKeeps ==
  ASSUME RetentionInv, NEW p \in Plugins, CollectItems(p)
  PROVE  RetentionInv'
<1>1. /\ stage[p] = "idle" /\ p \in ValueMods /\ CountOne(p) /\ stage' = [stage EXCEPT ![p] = "collected"]
      /\ UNCHANGED <<up, died, schema, tailed, file, lost, changed, pos, served, due, tooLong>>
  BY DEF CollectItems, proc, conf, disk
<1>2. PICK items \in Updated(p, Len(schema[p]) + 1) :
        mem' = [mem EXCEPT ![p] = items] /\ snap' = [snap EXCEPT ![p] = items]
  BY DEF CollectItems
<1>3. Len(schema[p]) + 1 \in Nat
  BY PluginTypes, SchemaIs
<1> QED BY <1>1, <1>2, <1>3, UpdatedKeeps

LEMMA CollectFailsKeeps ==
  ASSUME RetentionInv, NEW p \in Plugins, CollectFails(p)
  PROVE  RetentionInv'
<1>1. /\ stage[p] = "idle"
      /\ UNCHANGED <<up, died, schema, tailed, file, lost, changed, stage, pos, snap, served, due, tooLong>>
  BY DEF CollectFails, proc, conf, disk
<1>2. CASE p \in ValueMods /\ CountOne(p) /\ \E items \in Updated(p, Len(schema[p])) : mem' = [mem EXCEPT ![p] = items]
  <2>1. PICK items \in Updated(p, Len(schema[p])) : mem' = [mem EXCEPT ![p] = items]
    BY <1>2
  <2>2. Len(schema[p]) \in Nat
    BY PluginTypes, SchemaIs
  <2> QED BY <1>1, <1>2, <2>1, <2>2, UpdatedKeeps
<1>3. CASE p \in TableMods /\ mem' = [mem EXCEPT ![p] = <<>>] /\ UNCHANGED count
  <2>1. /\ PluginInv(p) /\ p \notin ValueMods /\ up # "down"
    BY <1>1, <1>3, PluginTypes, RetentionAssumption DEF PluginInv, LoadedInv
  <2>2. mem'[p] = <<>> /\ \A q \in Plugins \ {p} : Same(q)
    BY <1>1, <1>3 DEF RetentionInv, TypeOK, Same
  <2>3. TypeOK'
    <3>1. mem' \in [Plugins -> Contents]
      BY <1>3, EmptyIs DEF RetentionInv, TypeOK
    <3> QED BY <1>1, <1>3, <3>1 DEF RetentionInv, TypeOK
  <2>4. PluginInv(p)'
    <3>1. /\ (Whole(p)' <=> Whole(p)) /\ (\A j : Saved(p, j)' = Saved(p, j)) /\ \A d : Fits(p, d)' <=> Fits(p, d)
      BY <1>1, DerivedSame
    <3>2. StampsInv(p)'
      BY <1>1, <1>3, <2>1, <2>2, <3>1, EmptyIs DEF PluginInv, StampsInv, Slots
    <3>3. FileInv(p)'
      BY <1>1, <2>1, <2>2, <3>1 DEF PluginInv, FileInv, Slots
    <3> QED BY <1>1, <2>1, <3>2, <3>3 DEF PluginInv, LoadedInv, ItemsInv, DumpInv
  <2> QED BY <1>1, <2>1, <2>2, <2>3, <2>4, OneStep
<1> QED BY <1>2, <1>3 DEF CollectFails

LEMMA CollectNothingKeeps ==
  ASSUME RetentionInv, NEW p \in Plugins, CollectNothing(p)
  PROVE  RetentionInv'
<1>1. /\ stage[p] = "idle" /\ p \in tailed /\ snap' = [snap EXCEPT ![p] = mem[p]]
      /\ stage' = [stage EXCEPT ![p] = "collected"]
      /\ UNCHANGED <<up, died, schema, tailed, file, lost, changed, pos, mem, served, count, due, tooLong>>
  BY DEF CollectNothing, proc, conf, disk
<1>2. p \in ValueMods
  BY <1>1 DEF RetentionInv, TypeOK
<1>3. /\ p \notin TableMods /\ schema[p] \in Schemas /\ DOMAIN schema[p] \subseteq Slots(p)
      /\ DOMAIN mem[p] = DOMAIN schema[p] /\ DOMAIN served[p] = DOMAIN schema[p] /\ up # "down"
  BY <1>1, <1>2, ItemsAre
<1>4. PluginInv(p) /\ mem[p] \in Contents
  BY PluginTypes
<1>5. /\ stage'[p] = "collected" /\ snap'[p] = mem[p] /\ \A q \in Plugins \ {p} : Same(q)
  BY <1>1 DEF RetentionInv, TypeOK, Same
<1>6. TypeOK'
  <2>1. stage' \in [Plugins -> Stages] /\ snap' \in [Plugins -> Contents]
    BY <1>1, <1>4 DEF RetentionInv, TypeOK, Stages
  <2> QED BY <1>1, <2>1 DEF RetentionInv, TypeOK
<1>7. PluginInv(p)'
  <2>1. /\ (Whole(p)' <=> Whole(p)) /\ (\A j : Saved(p, j)' = Saved(p, j)) /\ \A d : Fits(p, d)' <=> Fits(p, d)
    BY <1>1, DerivedSame
  <2>2. StampsInv(p)'
    BY <1>1, <1>4, <2>1 DEF PluginInv, StampsInv, Slots
  <2>3. ItemsInv(p)'
    BY <1>1, <1>2, <1>4, <1>5 DEF PluginInv, ItemsInv, Slots
  <2>4. DumpInv(p)'
    <3>1. Fits(p, mem[p])
      BY <1>1, <1>2, <1>3, <1>4 DEF PluginInv, ItemsInv, Fits
    <3>2. \A i \in Slots(p) : /\ Stamp(served[p], i) <= Stamp(mem[p], i)
                              /\ ~lost[p] => due[p][i] <= Stamp(mem[p], i)
      BY <1>1, <1>2, <1>3, <1>4 DEF PluginInv, ItemsInv, Stamp
    <3>3. \A i \in DOMAIN mem[p] : mem[p][i].n <= count[p]
      BY <1>4 DEF PluginInv, StampsInv
    <3> QED BY <1>1, <1>3, <1>5, <2>1, <3>1, <3>2, <3>3 DEF DumpInv, Slots, Stamp
  <2>5. FileInv(p)'
    BY <1>1, <1>4, <1>5, <2>1 DEF PluginInv, FileInv, Slots
  <2> QED BY <1>1, <1>3, <1>5, <2>2, <2>3, <2>4, <2>5 DEF PluginInv, LoadedInv
<1> QED BY <1>1, <1>3, <1>5, <1>6, <1>7, OneStep

-----------------------------------------------------------------------------
(* Dumps.                                                                      *)

LEMMA ReadItemKeeps ==
  ASSUME RetentionInv, NEW p \in Plugins, ReadItem(p)
  PROVE  RetentionInv'
<1> DEFINE i == pos[p]
<1>1. /\ stage[p] = "collected" /\ p \in ValueMods /\ snap' = [snap EXCEPT ![p][i] = mem[p][i]] /\ Advance(p, "read")
      /\ UNCHANGED <<up, died, schema, tailed, file, lost, changed, mem, served, count, due, tooLong>>
  BY DEF ReadItem, proc, conf, disk
<1>2. PluginInv(p) /\ schema[p] \in Schemas /\ snap[p] \in Contents
  BY PluginTypes
<1>3. p \in ValueMods
  BY <1>1
<1>4. /\ p \notin TableMods /\ i \in DOMAIN schema[p] /\ DOMAIN schema[p] \subseteq Slots(p)
      /\ DOMAIN mem[p] = DOMAIN schema[p] /\ DOMAIN served[p] = DOMAIN schema[p]
      /\ mem[p] \in [DOMAIN schema[p] -> Cell]
      /\ \A j \in DOMAIN schema[p] : mem[p][j] \in Cell /\ mem[p][j].n \in Nat
      /\ up # "down"
  BY <1>1, <1>3, ItemsAre
<1>5. /\ pos' \in [Plugins -> AllItems \cup {1}] /\ stage' \in [Plugins -> Stages]
      /\ \A q \in Plugins \ {p} : pos'[q] = pos[q] /\ stage'[q] = stage[q]
      /\ pos'[p] \in DOMAIN schema[p] /\ stage'[p] \in {"collected", "read"}
  <2>1. "read" \in Stages
    BY DEF Stages
  <2> QED BY <1>1, <1>4, <2>1, AdvanceIs
<1>6. DOMAIN snap[p] = DOMAIN schema[p] /\ snap[p] \in [DOMAIN schema[p] -> Cell]
  <2>1. DOMAIN snap[p] = DOMAIN schema[p]
    BY <1>1, <1>2 DEF PluginInv, DumpInv, Fits
  <2> QED BY <1>2, <2>1, ContentsIs
<1>7. snap \in [Plugins -> Contents]
  BY DEF RetentionInv, TypeOK
<1>8. /\ snap'[p] = [snap[p] EXCEPT ![i] = mem[p][i]] /\ \A q \in Plugins \ {p} : Same(q)
  BY <1>1, <1>5, <1>7 DEF Same
<1>9. /\ snap'[p] \in [DOMAIN schema[p] -> Cell] /\ snap'[p] \in Contents /\ DOMAIN snap'[p] = DOMAIN schema[p]
      /\ snap'[p][i] = mem[p][i] /\ \A j \in DOMAIN schema[p] \ {i} : snap'[p][j] = snap[p][j]
  <2>1. [snap[p] EXCEPT ![i] = mem[p][i]] \in [DOMAIN schema[p] -> Cell]
    BY <1>4, <1>6
  <2> QED BY <1>2, <1>4, <1>6, <1>8, <2>1, ContentsMade
<1>10. TypeOK'
  <2>1. snap' \in [Plugins -> Contents]
    BY <1>1, <1>7, <1>8, <1>9
  <2> QED BY <1>1, <1>5, <2>1 DEF RetentionInv, TypeOK
<1>11. PluginInv(p)'
  <2>1. /\ (Whole(p)' <=> Whole(p)) /\ (\A j : Saved(p, j)' = Saved(p, j)) /\ \A d : Fits(p, d)' <=> Fits(p, d)
    BY <1>1, DerivedSame
  <2>2. StampsInv(p)'
    BY <1>1, <1>2, <2>1 DEF PluginInv, StampsInv, Slots
  <2>3. /\ \A j \in DOMAIN schema[p] : /\ served[p][j].n <= mem[p][j].n
                                       /\ ~lost[p] => due[p][j] <= mem[p][j].n
                                       /\ CellFits(schema[p][j], mem[p][j])
        /\ ~lost[p] => \A j \in Slots(p) \ DOMAIN schema[p] : due[p][j] = 0
    BY <1>1, <1>2, <1>3 DEF PluginInv, ItemsInv
  <2>4. ItemsInv(p)'
    BY <1>1, <1>4, <1>5, <2>3 DEF ItemsInv, Slots
  <2>5. DumpInv(p)'
    <3>1. Fits(p, snap'[p])
      BY <1>1, <1>2, <1>4, <1>9, <2>3 DEF PluginInv, DumpInv, Fits
    <3>2. p \notin tailed => snap'[p] = mem[p]
      <4>1. p \notin tailed => snap[p] = mem[p]
        BY <1>1, <1>2 DEF PluginInv, DumpInv
      <4> QED BY <1>6, <1>8, <4>1
    <3>3. \A j \in Slots(p) : /\ Stamp(served[p], j) <= Stamp(snap'[p], j)
                              /\ ~lost[p] => due[p][j] <= Stamp(snap'[p], j)
      <4>1. \A j \in Slots(p) : /\ Stamp(served[p], j) <= Stamp(snap[p], j)
                                /\ ~lost[p] => due[p][j] <= Stamp(snap[p], j)
        BY <1>1, <1>2 DEF PluginInv, DumpInv
      <4>2. \A j \in Slots(p) \ {i} : Stamp(snap'[p], j) = Stamp(snap[p], j)
        BY <1>6, <1>9 DEF Stamp
      <4>3. Stamp(snap'[p], i) = mem[p][i].n /\ Stamp(served[p], i) = served[p][i].n
        BY <1>4, <1>9 DEF Stamp
      <4> QED BY <1>4, <2>3, <4>1, <4>2, <4>3
    <3>4. \A j \in DOMAIN schema[p] : snap'[p][j].n <= count[p]
      <4>1. \A j \in DOMAIN schema[p] : snap[p][j].n <= count[p] /\ mem[p][j].n <= count[p]
        BY <1>1, <1>2, <1>4, <1>6 DEF PluginInv, DumpInv, StampsInv
      <4> QED BY <1>9, <4>1
    <3> QED BY <1>1, <1>4, <1>9, <2>1, <3>1, <3>2, <3>3, <3>4 DEF DumpInv, Slots, Stamp
  <2>6. FileInv(p)'
    BY <1>1, <1>2, <1>5, <2>1 DEF PluginInv, FileInv, Slots
  <2> QED BY <1>1, <1>4, <1>5, <2>2, <2>4, <2>5, <2>6 DEF PluginInv, LoadedInv
<1> QED BY <1>1, <1>4, <1>8, <1>10, <1>11, OneStep

LEMMA DumpOpenKeeps ==
  ASSUME RetentionInv, NEW p \in Plugins, DumpOpen(p)
  PROVE  RetentionInv'
<1>1. /\ stage[p] = "read" /\ file' = [file EXCEPT ![p] = Cut]
      /\ stage' = [stage EXCEPT ![p] = "dumping"]
      /\ UNCHANGED <<up, died, schema, tailed, lost, changed, pos, mem, snap, served, count, due, tooLong>>
  BY DEF DumpOpen, proc, conf
<1>2. PluginInv(p) /\ up # "down"
  BY <1>1, PluginTypes DEF PluginInv, LoadedInv
<1>3. /\ file'[p] = Cut /\ stage'[p] = "dumping" /\ \A q \in Plugins \ {p} : Same(q)
  BY <1>1 DEF RetentionInv, TypeOK, Same
<1>4. TypeOK'
  <2>1. stage' \in [Plugins -> Stages] /\ file' \in [Plugins -> Contents \cup {Absent, Cut}]
    BY <1>1 DEF RetentionInv, TypeOK, Stages
  <2> QED BY <1>1, <2>1 DEF RetentionInv, TypeOK
<1>5. PluginInv(p)'
  <2>1. ~Whole(p)'
    BY <1>3 DEF Whole
  <2>2. \A d : Fits(p, d)' <=> Fits(p, d)
    BY <1>1 DEF Fits
  <2>3. StampsInv(p)'
    BY <1>1, <1>2, <2>1 DEF PluginInv, StampsInv, Slots
  <2>4. ItemsInv(p)'
    BY <1>1, <1>2, <1>3 DEF PluginInv, ItemsInv, Slots
  <2>5. DumpInv(p)'
    BY <1>1, <1>2, <1>3, <2>2 DEF PluginInv, DumpInv, Slots, Stamp, Even
  <2>6. FileInv(p)'
    BY <1>3, <2>1 DEF FileInv
  <2> QED BY <1>1, <1>2, <1>3, <2>3, <2>4, <2>5, <2>6 DEF PluginInv, LoadedInv
<1> QED BY <1>1, <1>2, <1>3, <1>4, <1>5, OneStep

LEMMA DumpWriteKeeps ==
  ASSUME RetentionInv, NEW p \in Plugins, DumpWrite(p)
  PROVE  RetentionInv'
<1> DEFINE Before(i) == IF lost[p] THEN 0 ELSE due[p][i]
           Due(i) == IF i \in Slots(p) THEN Newest(Before(i), Stamp(served[p], i)) ELSE 0
<1>1. /\ stage[p] = "dumping" /\ file' = [file EXCEPT ![p] = snap[p]]
      /\ due' = [due EXCEPT ![p] = [i \in DOMAIN due[p] |-> Due(i)]]
      /\ lost' = [lost EXCEPT ![p] = FALSE] /\ changed' = [changed EXCEPT ![p] = FALSE]
      /\ stage' = [stage EXCEPT ![p] = "dumped"] /\ snap' = [snap EXCEPT ![p] = <<>>]
      /\ UNCHANGED <<up, died, schema, tailed, pos, mem, served, count, tooLong>>
  BY DEF DumpWrite, proc, conf
<1>2. /\ PluginInv(p) /\ up # "down" /\ snap[p] \in Contents /\ served[p] \in Contents
      /\ count[p] \in Nat /\ \A i \in Slots(p) : due[p][i] \in Nat /\ i \in AllItems \cup {1}
  BY <1>1, PluginTypes DEF PluginInv, LoadedInv
<1>3. /\ due \in [Plugins -> [AllItems \cup {1} -> 0..MaxCount]] /\ stage \in [Plugins -> Stages]
      /\ file \in [Plugins -> Contents \cup {Absent, Cut}] /\ snap \in [Plugins -> Contents]
      /\ lost \in [Plugins -> BOOLEAN] /\ changed \in [Plugins -> BOOLEAN]
  BY DEF RetentionInv, TypeOK
<1>4. /\ file'[p] = snap[p] /\ stage'[p] = "dumped" /\ ~lost'[p] /\ ~changed'[p] /\ snap'[p] = <<>>
      /\ due'[p] = [i \in AllItems \cup {1} |-> Due(i)]
      /\ \A q \in Plugins \ {p} : Same(q)
  BY <1>1, <1>3 DEF Same
<1>5. ASSUME NEW i \in AllItems \cup {1} PROVE Due(i) \in 0..MaxCount
  <2>1. MaxCount \in Nat /\ due[p][i] \in 0..MaxCount /\ Stamp(served[p], i) \in 0..MaxCount
    BY <1>2, <1>3, BoundIsNat, ContentsIs
  <2>2. Before(i) \in 0..MaxCount
    BY <2>1
  <2>3. Newest(Before(i), Stamp(served[p], i)) \in 0..MaxCount
    BY <2>1, <2>2 DEF Newest
  <2> QED BY <2>1, <2>3
<1>6. /\ Fits(p, snap[p]) /\ (p \notin tailed => snap[p] = mem[p]) /\ (p \in TableMods => Even(snap[p]))
      /\ \A i \in Slots(p) : /\ Stamp(served[p], i) <= Stamp(snap[p], i)
                             /\ ~lost[p] => due[p][i] <= Stamp(snap[p], i)
  BY <1>1, <1>2 DEF PluginInv, DumpInv
<1>7. \A i \in Slots(p) : due'[p][i] <= Stamp(snap[p], i) /\ due'[p][i] <= count[p]
  <2> SUFFICES ASSUME NEW i \in Slots(p) PROVE due'[p][i] <= Stamp(snap[p], i) /\ due'[p][i] <= count[p]
    OBVIOUS
  <2>1. due'[p][i] = Newest(Before(i), Stamp(served[p], i))
    BY <1>2, <1>4
  <2>2. /\ Before(i) \in Nat /\ Stamp(served[p], i) \in Nat /\ Stamp(snap[p], i) \in Nat
        /\ Before(i) <= Stamp(snap[p], i) /\ Before(i) <= count[p]
    BY <1>2, <1>6, ContentsIs DEF PluginInv, StampsInv
  <2>3. Stamp(served[p], i) <= count[p]
    BY <1>2 DEF PluginInv, StampsInv, Stamp
  <2>4. Newest(Before(i), Stamp(served[p], i)) \in {Before(i), Stamp(served[p], i)}
    BY <2>2, NewestIs
  <2> QED BY <1>6, <2>1, <2>2, <2>3, <2>4
<1>8. TypeOK'
  <2>1. due' \in [Plugins -> [AllItems \cup {1} -> 0..MaxCount]]
    <3>1. [i \in AllItems \cup {1} |-> Due(i)] \in [AllItems \cup {1} -> 0..MaxCount]
      BY <1>5
    <3>2. due' = [due EXCEPT ![p] = [i \in AllItems \cup {1} |-> Due(i)]]
      BY <1>1, <1>3, <1>4
    <3> HIDE DEF Due
    <3> QED BY <1>3, <3>1, <3>2
  <2>2. /\ stage' \in [Plugins -> Stages] /\ file' \in [Plugins -> Contents \cup {Absent, Cut}]
        /\ snap' \in [Plugins -> Contents]
        /\ lost' \in [Plugins -> BOOLEAN] /\ changed' \in [Plugins -> BOOLEAN]
    BY <1>1, <1>2, <1>3, EmptyIs DEF Stages
  <2> QED BY <1>1, <2>1, <2>2 DEF RetentionInv, TypeOK
<1>9. PluginInv(p)'
  <2>1. Whole(p)' /\ file'[p] # Cut
    BY <1>2, <1>4, ContentsIs DEF Whole
  <2>2. \A d : Fits(p, d)' <=> Fits(p, d)
    BY <1>1 DEF Fits
  <2>3. \A i \in Slots(p) : Saved(p, i)' = Stamp(snap[p], i) /\ Stamp(snap[p], i) \in Nat
    BY <1>2, <1>4, <2>1, ContentsIs DEF Saved, Stamp
  <2>4. \A i \in DOMAIN snap[p] : snap[p][i].n <= count[p]
    <3>1. CASE p \in tailed
      BY <1>1, <1>2, <3>1 DEF PluginInv, DumpInv
    <3>2. CASE p \notin tailed
      BY <1>2, <1>6, <3>2 DEF PluginInv, StampsInv
    <3> QED BY <3>1, <3>2
  <2>5. StampsInv(p)'
    BY <1>1, <1>2, <1>4, <1>7, <2>4 DEF PluginInv, StampsInv, Slots
  <2>6. ItemsInv(p)'
    <3> SUFFICES ASSUME p \in ValueMods PROVE ItemsInv(p)'
      BY DEF ItemsInv
    <3>1. /\ DOMAIN mem[p] = DOMAIN schema[p] /\ DOMAIN served[p] = DOMAIN schema[p]
          /\ pos[p] \in DOMAIN schema[p]
          /\ \A i \in DOMAIN schema[p] :
               /\ served[p][i].n <= mem[p][i].n
               /\ ~lost[p] => due[p][i] <= mem[p][i].n
               /\ CellFits(schema[p][i], mem[p][i])
          /\ ~lost[p] => \A i \in Slots(p) \ DOMAIN schema[p] : due[p][i] = 0
      BY <1>1, <1>2 DEF PluginInv, ItemsInv
    <3>2. DOMAIN schema[p] \subseteq Slots(p) /\ \A i \in DOMAIN schema[p] : mem[p][i].n \in Nat
      BY <1>1, ItemsAre
    <3>3. \A i \in DOMAIN schema[p] : due'[p][i] <= mem[p][i].n
      <4> SUFFICES ASSUME NEW i \in DOMAIN schema[p] PROVE due'[p][i] <= mem[p][i].n
        OBVIOUS
      <4>1. due'[p][i] = Newest(Before(i), Stamp(served[p], i)) /\ Stamp(served[p], i) = served[p][i].n
        BY <1>2, <1>4, <3>1, <3>2 DEF Stamp
      <4>2. /\ Before(i) \in Nat /\ Stamp(served[p], i) \in Nat
            /\ Before(i) <= mem[p][i].n /\ served[p][i].n <= mem[p][i].n
        BY <1>2, <3>1, <3>2, ContentsIs
      <4>3. Newest(Before(i), Stamp(served[p], i)) \in {Before(i), Stamp(served[p], i)}
        BY <4>2, NewestIs
      <4> QED BY <4>1, <4>2, <4>3
    <3>4. \A i \in Slots(p) \ DOMAIN schema[p] : due'[p][i] = 0
      <4> SUFFICES ASSUME NEW i \in Slots(p) \ DOMAIN schema[p] PROVE due'[p][i] = 0
        OBVIOUS
      <4>1. due'[p][i] = Newest(Before(i), Stamp(served[p], i)) /\ Stamp(served[p], i) = 0
        BY <1>2, <1>4, <3>1 DEF Stamp
      <4>2. Before(i) = 0
        BY <3>1
      <4> QED BY <4>1, <4>2 DEF Newest
    <3> QED BY <1>1, <1>4, <3>1, <3>3, <3>4 DEF ItemsInv, Slots
  <2>7. FileInv(p)'
    <3>1. \A i \in Slots(p) : Saved(p, i)' >= due'[p][i]
      <4>1. \A i \in Slots(p) : due'[p][i] \in Nat
        BY <1>2, <1>4, <1>5, BoundIsNat
      <4> QED BY <1>7, <2>3, <4>1
    <3> QED BY <1>1, <1>4, <1>6, <2>1, <2>2, <3>1 DEF FileInv, Slots, Even
  <2> QED BY <1>1, <1>2, <1>4, <2>5, <2>6, <2>7 DEF PluginInv, LoadedInv, DumpInv
<1> QED BY <1>1, <1>2, <1>4, <1>8, <1>9, OneStep

LEMMA DumpFailsKeeps ==
  ASSUME RetentionInv, NEW p \in Plugins, DumpFails(p)
  PROVE  RetentionInv'
<1>1. /\ stage[p] \in {"read", "dumping"} /\ lost' = [lost EXCEPT ![p] = TRUE]
      /\ stage' = [stage EXCEPT ![p] = "dumped"] /\ snap' = [snap EXCEPT ![p] = <<>>]
      /\ UNCHANGED <<up, died, schema, tailed, file, changed, pos, mem, served, count, due, tooLong>>
  BY DEF DumpFails, proc, conf
<1>2. PluginInv(p) /\ up # "down"
  BY <1>1, PluginTypes DEF PluginInv, LoadedInv
<1>3. stage'[p] = "dumped" /\ lost'[p] /\ \A q \in Plugins \ {p} : Same(q)
  BY <1>1 DEF RetentionInv, TypeOK, Same
<1>4. TypeOK'
  <2>1. /\ stage' \in [Plugins -> Stages] /\ lost' \in [Plugins -> BOOLEAN] /\ snap' \in [Plugins -> Contents]
    BY <1>1, EmptyIs DEF RetentionInv, TypeOK, Stages
  <2> QED BY <1>1, <2>1 DEF RetentionInv, TypeOK
<1>5. PluginInv(p)'
  <2>1. /\ (Whole(p)' <=> Whole(p)) /\ (\A j : Saved(p, j)' = Saved(p, j)) /\ \A d : Fits(p, d)' <=> Fits(p, d)
    BY <1>1, DerivedSame
  <2>2. StampsInv(p)'
    BY <1>1, <1>2, <2>1 DEF PluginInv, StampsInv, Slots
  <2>3. ItemsInv(p)'
    BY <1>1, <1>2, <1>3 DEF PluginInv, ItemsInv, Slots
  <2>4. FileInv(p)'
    BY <1>1, <1>2, <1>3, <2>1 DEF PluginInv, FileInv, Even
  <2> QED BY <1>1, <1>2, <1>3, <2>2, <2>3, <2>4 DEF PluginInv, LoadedInv, DumpInv
<1> QED BY <1>1, <1>2, <1>3, <1>4, <1>5, OneStep

LEMMA CommitRaisesKeeps ==
  ASSUME RetentionInv, NEW p \in Plugins, CommitRaises(p)
  PROVE  RetentionInv'
<1>1. /\ stage[p] = "dumped" /\ p \in ValueMods
      /\ stage' = [stage EXCEPT ![p] = "idle"] /\ pos' = [pos EXCEPT ![p] = 1]
      /\ UNCHANGED <<up, died, schema, tailed, file, lost, changed, mem, snap, served, count, due, tooLong>>
  BY DEF CommitRaises, proc, conf, disk
<1>2. PluginInv(p) /\ up # "down" /\ 1 \in DOMAIN schema[p]
  BY <1>1, PluginTypes, SchemaIs DEF PluginInv, LoadedInv
<1>3. stage'[p] = "idle" /\ pos'[p] = 1 /\ \A q \in Plugins \ {p} : Same(q)
  BY <1>1 DEF RetentionInv, TypeOK, Same
<1>4. TypeOK'
  <2>1. /\ stage' \in [Plugins -> Stages] /\ pos' \in [Plugins -> AllItems \cup {1}]
    BY <1>1 DEF RetentionInv, TypeOK, Stages
  <2> QED BY <1>1, <2>1 DEF RetentionInv, TypeOK
<1>5. PluginInv(p)'
  <2>1. /\ (Whole(p)' <=> Whole(p)) /\ (\A j : Saved(p, j)' = Saved(p, j)) /\ \A d : Fits(p, d)' <=> Fits(p, d)
    BY <1>1, DerivedSame
  <2>2. StampsInv(p)'
    BY <1>1, <1>2, <2>1 DEF PluginInv, StampsInv, Slots
  <2>3. ItemsInv(p)'
    BY <1>1, <1>2, <1>3 DEF PluginInv, ItemsInv, Slots
  <2>4. FileInv(p)'
    BY <1>1, <1>2, <1>3, <2>1 DEF PluginInv, FileInv, Even, Slots
  <2> QED BY <1>1, <1>2, <1>3, <2>2, <2>3, <2>4 DEF PluginInv, LoadedInv, DumpInv
<1> QED BY <1>1, <1>2, <1>3, <1>4, <1>5, OneStep

-----------------------------------------------------------------------------
(* What is fatal.                                                              *)

LEMMA LoadFatalExcused ==
  ASSUME RetentionInv, NEW p \in Plugins, LoadFatal(p)
  PROVE  Excused
<1>1. stage[p] = "off" /\ LoadRaises(p) /\ PluginInv(p)
  BY PluginTypes DEF LoadFatal
<1>2. CASE file[p] = Cut
  <2>1. lost[p]
    BY <1>1, <1>2 DEF PluginInv, FileInv
  <2> QED BY <2>1 DEF Excused
<1>3. CASE Whole(p) /\ ~(DOMAIN file[p] \subseteq DOMAIN schema[p])
  <2>1. changed[p]
    BY <1>1, <1>3 DEF PluginInv, FileInv, Fits
  <2> QED BY <2>1 DEF Excused
<1> QED BY <1>1, <1>2, <1>3 DEF LoadRaises

\* An item that is refused as it is registered, or committed before the first update,
\* was saved under another configuration, or is too long: as it was saved, or as the
\* tail thread has found it since.
LEMMA RefusedExcused ==
  ASSUME RetentionInv, NEW p \in Plugins, p \in ValueMods, stage[p] \in {"loaded", "boot"}, Refused(p)
  PROVE  Excused
<1> DEFINE i == pos[p]
<1>1. /\ PluginInv(p) /\ i \in DOMAIN schema[p]
  BY ItemsAre, PluginTypes
<1>2. /\ SinceLoad(p, i, mem[p][i]) /\ ~LoadRaises(p)
      /\ \/ mem[p][i] = Loaded(p)[i]
         \/ CellFits(schema[p][i], mem[p][i]) /\ (mem[p][i].is = "long" => tooLong[p])
  BY <1>1 DEF PluginInv, LoadedInv
<1>3. mem[p][i].is # "none" /\ mem[p][i].is # schema[p][i]
  BY DEF Refused
<1>4. CASE mem[p][i] = Loaded(p)[i]
  <2>1. Loaded(p)[i] = IF Whole(p) /\ i \in DOMAIN file[p] THEN file[p][i] ELSE None
    BY <1>1 DEF Loaded
  <2>2. Whole(p) /\ i \in DOMAIN file[p] /\ mem[p][i] = file[p][i]
    BY <1>3, <1>4, <2>1, NoneIs
  <2>3. CASE changed[p]
    BY <2>3 DEF Excused
  <2>4. CASE ~changed[p]
    <3>1. CellFits(schema[p][i], file[p][i])
      BY <1>1, <2>2, <2>4 DEF PluginInv, FileInv, Fits
    <3>2. file[p][i].is = "long"
      BY <1>3, <2>2, <3>1 DEF CellFits
    <3> QED BY <2>2, <3>2 DEF Excused
  <2> QED BY <2>3, <2>4
<1>5. CASE mem[p][i] # Loaded(p)[i]
  <2>1. p \in tailed
    BY <1>2, <1>5 DEF SinceLoad
  <2>2. mem[p][i].is = "long"
    BY <1>2, <1>3, <1>5 DEF CellFits
  <2>3. tooLong[p]
    BY <1>2, <1>5, <2>2
  <2> QED BY <2>1, <2>3 DEF Excused
<1> QED BY <1>4, <1>5

LEMMA BootFatalExcused ==
  ASSUME RetentionInv, NEW p \in Plugins, BootFatal(p)
  PROVE  Excused
<1>1. CASE p \in TableMods
  <2>1. stage[p] = "boot" /\ AppendRaises(p)
    BY <1>1 DEF BootFatal
  <2>2. changed[p]
    BY <1>1, <2>1, RowsFit
  <2> QED BY <2>2 DEF Excused
<1>2. CASE p \notin TableMods
  BY <1>2, RefusedExcused DEF BootFatal, Plugins
<1> QED BY <1>1, <1>2

-----------------------------------------------------------------------------
\* The three loops that serve what an item is now.
LEMMA ServingKeeps ==
  ASSUME RetentionInv, NEW p \in Plugins, SetupItem(p) \/ BootItem(p) \/ CommitItem(p)
  PROVE  RetentionInv'
<1>1. CASE SetupItem(p)
  BY <1>1, ServeItemKeeps DEF SetupItem, proc, conf, disk
<1>2. CASE BootItem(p)
  BY <1>2, ServeItemKeeps DEF BootItem, proc, conf, disk
<1>3. CASE CommitItem(p)
  BY <1>3, ServeItemKeeps DEF CommitItem, proc, conf, disk
<1> QED BY <1>1, <1>2, <1>3

LEMMA RetentionStep == RetentionInv /\ [Next]_vars => RetentionInv'
<1> SUFFICES ASSUME RetentionInv, [Next]_vars PROVE RetentionInv'
  OBVIOUS
<1>1. ASSUME NEW p \in Plugins, PluginStep(p) PROVE RetentionInv'
  <2>1. CASE Reconfigure(p)
    BY <2>1, ReconfigureKeeps
  <2>2. CASE TailSets(p)
    BY <2>2, TailSetsKeeps
  <2>3. CASE Load(p)
    BY <2>3, LoadKeeps
  <2>4. CASE LoadFatal(p)
    BY <2>4, LoadFatalExcused, ExitKeeps DEF LoadFatal
  <2>5. CASE SetupTable(p)
    BY <2>5, SetupTableKeeps
  <2>6. CASE SetupItem(p) \/ BootItem(p) \/ CommitItem(p)
    BY <2>6, ServingKeeps
  <2>7. CASE SetupFatal(p)
    BY <2>7, RefusedExcused, ExitKeeps DEF SetupFatal
  <2>8. CASE BootTable(p)
    BY <2>8, BootTableKeeps
  <2>9. CASE BootFatal(p)
    BY <2>9, BootFatalExcused, ExitKeeps DEF BootFatal
  <2>10. CASE CollectTable(p)
    BY <2>10, CollectTableKeeps
  <2>11. CASE CollectItems(p)
    BY <2>11, CollectItemsKeeps
  <2>12. CASE CollectNothing(p)
    BY <2>12, CollectNothingKeeps
  <2>13. CASE CollectFails(p)
    BY <2>13, CollectFailsKeeps
  <2>14. CASE ReadItem(p)
    BY <2>14, ReadItemKeeps
  <2>15. CASE DumpOpen(p)
    BY <2>15, DumpOpenKeeps
  <2>16. CASE DumpWrite(p)
    BY <2>16, DumpWriteKeeps
  <2>17. CASE DumpFails(p)
    BY <2>17, DumpFailsKeeps
  <2>18. CASE CommitTable(p)
    BY <2>18, CommitTableKeeps
  <2>19. CASE CommitRaises(p)
    BY <2>19, CommitRaisesKeeps
  <2> QED BY <1>1, <2>1, <2>2, <2>3, <2>4, <2>5, <2>6, <2>7, <2>8, <2>9, <2>10, <2>11,
             <2>12, <2>13, <2>14, <2>15, <2>16, <2>17, <2>18, <2>19 DEF PluginStep
<1>2. CASE Stop
  BY <1>2, ExitKeeps DEF Stop
<1>3. CASE Start
  <2>1. /\ up = "down" /\ up' = "load" /\ died' = "" /\ tooLong' = [p \in Plugins |-> FALSE]
        /\ UNCHANGED <<schema, tailed, file, lost, changed, stage, pos, mem, snap, served, count, due>>
    BY <1>3 DEF Start, conf, disk
  <2>2. ASSUME NEW p \in Plugins PROVE PluginInv(p)'
    <3>1. PluginInv(p) /\ stage[p] = "off"
      BY <2>1, PluginTypes DEF PluginInv, LoadedInv
    <3>2. (Whole(p)' <=> Whole(p)) /\ (\A i : Saved(p, i)' = Saved(p, i)) /\ \A c : Fits(p, c)' <=> Fits(p, c)
      BY <2>1, DerivedSame
    <3>3. StampsInv(p)' /\ FileInv(p)'
      BY <2>1, <3>1, <3>2 DEF PluginInv, StampsInv, FileInv, Slots, Even
    <3> QED BY <2>1, <3>1, <3>3 DEF PluginInv, LoadedInv, ItemsInv, DumpInv
  <2>3. TypeOK'
    BY <2>1 DEF RetentionInv, TypeOK
  <2> QED BY <2>1, <2>2, <2>3 DEF RetentionInv
<1>4. CASE EndLoad \/ UNCHANGED vars
  <2>1. /\ UNCHANGED <<died, schema, tailed, file, lost, changed, stage, pos, mem, snap, served, count, due, tooLong>>
        /\ up' = up \/ (up = "load" /\ up' = "setup")
    BY <1>4 DEF EndLoad, vars, proc, conf, disk
  <2>2. \A p \in Plugins : PluginInv(p)'
    <3>1. \A p \in Plugins : Same(p) /\ (up # "down" => up' # "down")
      BY <2>1 DEF Same
    <3> QED BY <2>1, <3>1, SameKeeps DEF RetentionInv
  <2>3. TypeOK'
    BY <2>1 DEF RetentionInv, TypeOK
  <2>4. Excused => Excused'
    <3>1. \A p \in Plugins : Whole(p)' <=> Whole(p)
      BY <2>1 DEF Whole
    <3> QED BY <2>1, <3>1 DEF Excused
  <2> QED BY <2>1, <2>2, <2>3, <2>4 DEF RetentionInv
<1> QED BY <1>1, <1>2, <1>3, <1>4 DEF Next

\* The inductive invariant, with a tail thread that sets any item at any time.
THEOREM RetentionInvariant == Spec => []RetentionInv
<1> QED BY RetentionInit, RetentionStep, PTL DEF Spec

\* No restart goes back in time, outside of a dump and unless one was lost: of a
\* log_processor, not further than to what was served when the last dump was written.
THEOREM SavedIsDurable == Spec => []Durable
<1>1. RetentionInv => Durable
  <2> SUFFICES ASSUME RetentionInv, NEW p \in Plugins, ~lost[p], stage[p] # "dumping"
               PROVE  /\ file[p] # Cut
                      /\ \A i \in Slots(p) : (IF Whole(p) THEN Stamp(file[p], i) ELSE 0) >= due[p][i]
    BY DEF Durable
  <2>1. FileInv(p)
    BY PluginTypes DEF PluginInv
  <2> QED BY <2>1 DEF FileInv, Saved
<1> QED BY <1>1, RetentionInvariant, PTL

\* Only a lost dump, a new configuration or a string that is too long, saved or found by
\* a tail thread before the commit at start, keeps the agent from starting.
THEOREM FatalIsExcused == Spec => []OnlyBadDataIsFatal
<1>1. RetentionInv => OnlyBadDataIsFatal
  BY DEF RetentionInv, OnlyBadDataIsFatal, Excused
<1> QED BY <1>1, RetentionInvariant, PTL

\* Only the commit before the first update takes a plugin from "boot" to "idle".
LEMMA OnlyBoot ==
  ASSUME RetentionInv, NEW p \in Plugins, [Next]_vars, stage[p] = "boot", stage'[p] = "idle"
  PROVE  BootTable(p) \/ BootItem(p)
<1>0. stage \in [Plugins -> Stages]
  BY DEF RetentionInv, TypeOK
<1>1. ASSUME NEW q \in Plugins, PluginStep(q) PROVE BootTable(p) \/ BootItem(p)
  <2>1. CASE Reconfigure(q) \/ TailSets(q) \/ CollectFails(q)
    BY <2>1 DEF Reconfigure, TailSets, CollectFails
  <2>2. CASE LoadFatal(q) \/ SetupFatal(q) \/ BootFatal(q)
    BY <2>2 DEF LoadFatal, SetupFatal, BootFatal, Exit
  <2>3. CASE Load(q) \/ SetupTable(q) \/ CollectTable(q) \/ CollectItems(q) \/ CollectNothing(q)
    BY <1>0, <2>3 DEF Load, SetupTable, CollectTable, CollectItems, CollectNothing
  <2>4. CASE DumpOpen(q) \/ DumpWrite(q) \/ DumpFails(q)
    BY <1>0, <2>4 DEF DumpOpen, DumpWrite, DumpFails
  <2>5. CASE SetupItem(q) \/ CommitItem(q) \/ ReadItem(q)
    BY <1>0, <2>5 DEF SetupItem, CommitItem, ReadItem, Advance
  <2>6. CASE CommitTable(q) \/ CommitRaises(q)
    BY <1>0, <2>6 DEF CommitTable, CommitRaises
  <2>7. CASE BootTable(q) \/ BootItem(q)
    <3>1. q = p
      BY <1>0, <2>7 DEF BootTable, BootItem, Advance
    <3> QED BY <2>7, <3>1
  <2> QED BY <1>1, <2>1, <2>2, <2>3, <2>4, <2>5, <2>6, <2>7 DEF PluginStep
<1>2. ~(Start \/ EndLoad \/ Stop \/ UNCHANGED vars)
  BY DEF Start, EndLoad, Stop, Exit, vars
<1> QED BY <1>1, <1>2 DEF Next

\* A restart under the same configuration serves what was saved, but for what the
\* constructor cuts of a row and what a tail thread has found since.
THEOREM RestoredUnaltered == Spec => RestoredAsSaved
<1> DEFINE Restored(p) ==
      IF p \in TableMods THEN served'[p] = IF Whole(p) THEN Row(file[p]) ELSE <<>>
      ELSE \A i \in DOMAIN schema[p] :
             LET saved == IF Whole(p) /\ i \in DOMAIN file[p] THEN file[p][i] ELSE None
             IN  \/ served'[p][i] = saved
                 \/ p \in tailed /\ served'[p][i].n > saved.n
<1>1. ASSUME RetentionInv, RetentionInv', [Next]_vars, NEW p \in Plugins,
             stage[p] = "boot", stage'[p] = "idle", ~changed[p]
      PROVE  Restored(p)
  <2>1. CASE BootTable(p)
    <3>1. /\ p \in TableMods /\ p \notin ValueMods /\ ServeTable(p, RowOf(p))
      BY <2>1, RetentionAssumption DEF BootTable
    <3>2. ~Shifted(p) /\ mem[p] = Loaded(p)
      BY <1>1, <3>1, RowsFit
    <3>3. RowOf(p) = mem[p] /\ mem[p] = IF Whole(p) THEN file[p] ELSE <<>>
      BY <3>1, <3>2 DEF RowOf, Loaded
    <3>4. served'[p] = Row(mem[p])
      BY <1>1, <3>1, <3>3 DEF ServeTable, RetentionInv, TypeOK
    <3>5. Row(<<>>) = <<>>
      BY EmptyIs DEF Row
    <3> QED BY <3>1, <3>3, <3>4, <3>5
  <2>2. CASE BootItem(p)
    <3>1. /\ p \in ValueMods /\ p \notin TableMods /\ ~Refused(p) /\ ServeItem(p) /\ Advance(p, "idle")
      BY <2>2, RetentionAssumption DEF BootItem
    <3>2. \A i \in DOMAIN schema[p] : SinceLoad(p, i, served'[p][i])
      BY <1>1, <2>2, <3>1, BootServes
    <3>3. \A i \in DOMAIN schema[p] :
            Loaded(p)[i] = IF Whole(p) /\ i \in DOMAIN file[p] THEN file[p][i] ELSE None
      BY <3>1 DEF Loaded
    <3> QED BY <3>1, <3>2, <3>3 DEF SinceLoad
  <2> QED BY <1>1, <2>1, <2>2, OnlyBoot
<1>2. RetentionInv /\ RetentionInv' /\ [Next]_vars =>
        [\A p \in Plugins : stage[p] = "boot" /\ stage'[p] = "idle" /\ ~changed[p] => Restored(p)]_vars
  BY <1>1
<1> QED BY <1>2, RetentionInvariant, PTL DEF Spec, RestoredAsSaved
=============================================================================
