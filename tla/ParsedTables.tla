---------------------------- MODULE ParsedTables ----------------------------
(***************************************************************************)
(* The tables that are made of the text of a command or of a file:         *)
(* raid_info.py, disk_utilization.py, and exec_table.py and file_table.py  *)
(* with parse_table of lib/snmpy/parser.py, which is a "regex_table" here. *)
(*                                                                         *)
(* A text says a sequence of parts, which become rows in turn.  When one   *)
(* does not fit, update() raises with the rows before it appended.         *)
(***************************************************************************)
EXTENDS Updates

CONSTANTS MaxParts,    \* bound: matches, volumes or disks in a text
          MaxMembers,  \* bound: the members of a volume
          Parsers      \* what conf['parser'] may be

ASSUME TextAssumption ==
  /\ MaxParts \in Nat /\ MaxMembers \in Nat
  /\ Parsers \subseteq {"regex", "untyped", "unknown", "pathless"}

VARIABLES
  parser,    \* the parser of an exec_table or file_table
  text,      \* what the command or the file said
  at         \* the part the loop is at

textVars == <<parser, text, at>>

TextKinds == {"regex_table", "raid_info", "disk_utilization"}

\* A match whose groups have the types of the columns, or not, a number say; a
\* volume and its members, that has all attributes or, as a container does, lacks
\* one; a disk that sar has reported about or not.
Parts == [fits : BOOLEAN, members : 0..MaxMembers]
Texts == UNION {[1..n -> Parts] : n \in 0..MaxParts}

Row(part, member) == [part |-> part, member |-> member]
Partial == Row(0, 0)   \* the row that a failed conversion leaves
Default == Row(0, 1)   \* a row made of None

\* The rows of a part that fits.  A disk without report has figures of 0.
RowsOf(i) == CASE kind = "raid_info" -> [m \in 1..text[i].members |-> Row(i, m)]
               [] kind = "disk_utilization" -> <<Row(i, IF text[i].fits THEN 1 ELSE 0)>>
               [] OTHER -> <<Row(i, 1)>>

ParsedTypeOK == /\ parser \in Parsers
                /\ text \in Texts
                /\ at \in 1..Len(text) + 1
                /\ kind \in TextKinds =>
                     Range(rows) \cup Range(served) \subseteq
                       [part : 0..MaxParts, member : 0..(MaxMembers + 1)]

TextInit == /\ parser \in Parsers /\ (kind # "regex_table" => parser = "regex")
            /\ text = <<>> /\ at = 1

\* What says nothing has no members that matter.
Said == IF kind = "raid_info" THEN Texts
        ELSE {t \in Texts : \A i \in DOMAIN t : t[i].members = 0}

-----------------------------------------------------------------------------
ReadText == /\ stage = "update"
            /\ text' \in Said
            /\ at' = 1
            /\ GoOn("loop")
            /\ UNCHANGED <<rows, parser>>

\* A command that cannot be run, a file that is not there, a report of sar that is
\* none.  mdadm's exit status alone is caught: its table is empty then.
ReadFails == /\ stage = "update"
             /\ text' = <<>> /\ at' = 1
             /\ \/ GoOn("raise")
                \/ kind = "raid_info" /\ GoOn("loop")
             /\ UNCHANGED <<rows, parser>>

\* parse_table yields None for a parser without type or path.  It fails then, but
\* for a type it does not know, for which that is all.
BadParser == /\ stage = "loop" /\ parser # "regex"
             /\ Add(Default)
             /\ GoOn(IF parser = "unknown" THEN "return" ELSE "raise")
             /\ UNCHANGED textVars

\* append of what fits.
TakePart ==
  /\ stage = "loop" /\ parser = "regex" /\ at <= Len(text)
  /\ text[at].fits \/ kind = "disk_utilization" \/ RowsOf(at) = <<>>
  /\ rows' = rows \o RowsOf(at)
  /\ at' = at + 1
  /\ UNCHANGED <<kind, stage, served, parser, text>>

\* int() of a group fails after append has begun the row; an attribute of a volume is
\* missed before.
Misfit ==
  /\ stage = "loop" /\ parser = "regex" /\ at <= Len(text)
  /\ ~text[at].fits /\ kind # "disk_utilization" /\ RowsOf(at) # <<>>
  /\ IF kind = "regex_table" THEN Add(Partial) ELSE UNCHANGED rows
  /\ GoOn("raise")
  /\ UNCHANGED textVars

PartsDone == /\ stage = "loop" /\ parser = "regex" /\ at > Len(text)
             /\ GoOn("return")
             /\ UNCHANGED <<rows, textVars>>

TextNext == ReadText \/ ReadFails \/ BadParser \/ TakePart \/ Misfit \/ PartsDone

-----------------------------------------------------------------------------
\* A row whose conversion failed half way is never served, although it is there in
\* the plugin's rows until the next update.
NoPartialRow == kind \in TextKinds => Partial \notin Range(served)

\* An update that returns has exactly the rows of the text it was made of, all of
\* which fitted: none of an update before, that failed perhaps, and no part of a
\* text.  A parser of an unknown type makes one row of defaults instead.
WholeText ==
  kind \in TextKinds /\ stage = "return" =>
    IF parser # "regex" THEN rows = <<Default>>
    ELSE /\ rows = FlattenSeq([i \in DOMAIN text |-> RowsOf(i)])
         /\ \A i \in DOMAIN text :
              text[i].fits \/ kind = "disk_utilization" \/ RowsOf(i) = <<>>
=============================================================================
