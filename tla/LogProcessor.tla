---------------------------- MODULE LogProcessor ----------------------------
(***************************************************************************)
(* The tail thread of lib/snmpy/module/log_processor.py, beside a program  *)
(* that appends to the log file and whatever rotates it.                   *)
(*                                                                         *)
(* A file is a sequence of units, and a log line is two units: its text,   *)
(* and its end, the newline.  So a poll can find half a line.  Lines are   *)
(* numbered in the order they are written.                                 *)
(***************************************************************************)
EXTENDS Integers, Sequences, SequencesExt

CONSTANTS Inodes,      \* bound: the files that bear the name, one after another
          NoInode,     \* the name is not there
          MaxLine,     \* bound: lines written
          Policies     \* the ways of rotating a log there may be, each a set of
                       \* "rename", "remove" and "truncate"

ASSUME LogAssumption == /\ NoInode \notin Inodes
                        /\ MaxLine \in Nat
                        /\ \A p \in Policies : p \subseteq {"rename", "remove", "truncate"}

VARIABLES
  rotations, \* how this log is rotated
  entry,     \* the inode the name refers to
  past,      \* the inodes that bore the name before
  gone,      \* those of them without any link: st_nlink is 0
  content,   \* content[i]: the units of a file
  writer,    \* the inode the writing program has open
  line,      \* the number of the last line begun
  tail,      \* where the tail thread is
  cur,       \* data: the inode it has open
  spot,      \* data.tell(), at the place the file object is left
  size,      \* stat.st_size of the last fstat
  text,      \* what has been read and not been handled yet
  handled,   \* history, the lines given to parse_value
  from,      \* history, the offset that cur was read from
  before     \* history, how many lines had been handled then

fileVars == <<rotations, entry, past, gone, content, writer, line>>
tailVars == <<tail, cur, spot, size, text, handled, from, before>>
vars == <<fileVars, tailVars>>

Places == {"open", "poll", "stat", "reopen", "read", "split", "dead", "failed"}
Ends == {"dead", "failed"}
Unit == [line : 1..MaxLine, end : BOOLEAN]
Handled == [line : 1..MaxLine, whole : BOOLEAN]

\* The type invariant: the read pointer never leaves the file but when the file
\* was truncated under it.
TypeOK == /\ rotations \in Policies
          /\ {entry, cur, writer} \subseteq Inodes \cup {NoInode}
          /\ gone \subseteq past /\ past \subseteq Inodes \ {entry}
          /\ content \in [Inodes -> Seq(Unit)]
          /\ line \in 0..MaxLine
          /\ tail \in Places
          /\ tail \notin {"open"} \cup Ends => cur \in Inodes
          /\ {spot, size, from} \subseteq 0..(2 * MaxLine)
          /\ "truncate" \notin rotations /\ cur # NoInode => spot <= Len(content[cur])
          /\ text \in Seq(Unit)
          /\ handled \in Seq(Handled)
          /\ before \in 0..Len(handled)

\* The writer has the first file open, perhaps in the middle of its first line.
Init == /\ rotations \in Policies
        /\ \E i \in Inodes : /\ entry = i /\ writer = i
                             /\ \/ /\ line = 0
                                   /\ content = [j \in Inodes |-> <<>>]
                                \/ /\ line = 1 /\ MaxLine > 0
                                   /\ content = [j \in Inodes |-> IF j = i
                                        THEN <<[line |-> 1, end |-> FALSE]>> ELSE <<>>]
        /\ past = {} /\ gone = {}
        /\ tail = "open"
        /\ cur = NoInode /\ spot = 0 /\ size = 0 /\ text = <<>>
        /\ handled = <<>> /\ from = 0 /\ before = 0

-----------------------------------------------------------------------------
(* The program that logs, and rotation.  External.                          *)

\* In the middle of a line?
Midline == content[writer] # <<>> /\ ~Last(content[writer]).end

BeginLine == /\ ~Midline /\ line < MaxLine
             /\ line' = line + 1
             /\ content' = [content EXCEPT ![writer] = Append(@, [line |-> line + 1, end |-> FALSE])]
             /\ UNCHANGED <<rotations, entry, past, gone, writer, tailVars>>

EndLine == /\ Midline
           /\ content' = [content EXCEPT ![writer] = Append(@, [line |-> line, end |-> TRUE])]
           /\ UNCHANGED <<rotations, entry, past, gone, writer, line, tailVars>>

\* The name leaves the file, which keeps another name or none.  There is a file
\* left to take the name.
Unname == /\ entry # NoInode /\ past \cup {entry} # Inodes
          /\ entry' = NoInode /\ past' = past \cup {entry}
          /\ \/ "rename" \in rotations /\ UNCHANGED gone
             \/ "remove" \in rotations /\ gone' = gone \cup {entry}
          /\ UNCHANGED <<rotations, content, writer, line, tailVars>>

\* The writer finishes its line and makes the new file.
Recreate == /\ entry = NoInode /\ ~Midline
            /\ \E i \in Inodes \ past : entry' = i /\ writer' = i
            /\ UNCHANGED <<rotations, past, gone, content, line, tailVars>>

\* copytruncate, between two lines.
Truncate == /\ "truncate" \in rotations /\ entry # NoInode /\ ~Midline
            /\ content' = [content EXCEPT ![entry] = <<>>]
            /\ UNCHANGED <<rotations, entry, past, gone, writer, line, tailVars>>

-----------------------------------------------------------------------------
(* The tail thread.                                                         *)

\* open(name) and seek to the end.  A missing file is tried again.
Open ==
  /\ tail = "open" /\ entry # NoInode
  /\ cur' = entry
  /\ spot' = Len(content[entry]) /\ from' = Len(content[entry])
  /\ tail' = "poll"
  /\ UNCHANGED <<fileVars, size, text, handled, before>>

\* tell and fstat.
Poll ==
  /\ tail = "poll"
  /\ size' = Len(content[cur])
  /\ tail' = "stat"
  /\ UNCHANGED <<fileVars, cur, spot, text, handled, from, before>>

\* Mutant: only a file without links counts as rotated.
RemovedOnly == cur \in gone \/ spot > size

\* Mutant: a file that has become shorter does not count as rotated.
ShrinkIgnored == entry # cur \/ cur \in gone

\* A file without links does not bear the name, so it makes no difference that
\* st_nlink was read by the fstat before.
Moved == entry # cur \/ cur \in gone \/ spot > size

\* os.stat(name).  No handler is around it when the name is missing: work_func
\* ends the whole agent.
Stat ==
  /\ tail = "stat"
  /\ tail' = IF entry = NoInode THEN "dead"
             ELSE IF Moved THEN "reopen"
             ELSE IF spot # size THEN "read" ELSE "poll"
  /\ UNCHANGED <<fileVars, cur, spot, size, text, handled, from, before>>

\* Mutant: the new file is read from its end, as the first one is.
ReopenAtEnd ==
  /\ tail = "reopen"
  /\ IF entry = NoInode THEN UNCHANGED <<cur, spot, from, before>>
     ELSE /\ cur' = entry /\ spot' = Len(content[entry]) /\ from' = 0
          /\ before' = Len(handled)
  /\ tail' = "poll"
  /\ UNCHANGED <<fileVars, size, text, handled>>

\* open(name), from the start.  Here a missing file is caught.
Reopen ==
  /\ tail = "reopen"
  /\ IF entry = NoInode THEN UNCHANGED <<cur, spot, from, before>>
     ELSE /\ cur' = entry /\ spot' = 0 /\ from' = 0
          /\ before' = Len(handled)
  /\ tail' = "poll"
  /\ UNCHANGED <<fileVars, size, text, handled>>

\* Mutant: the read pointer is left beyond the size of the last fstat.
ReadToSize ==
  /\ tail = "read"
  /\ text' = SubSeq(content[cur], spot + 1, Min({size, Len(content[cur])}))
  /\ spot' = size + 1
  /\ tail' = "split"
  /\ UNCHANGED <<fileVars, cur, size, handled, from, before>>

\* data.read of what the fstat saw, or of as much of it as is still there.
Read ==
  /\ tail = "read"
  /\ text' = SubSeq(content[cur], spot + 1, Min({size, Len(content[cur])}))
  /\ spot' = spot + Len(text')
  /\ tail' = "split"
  /\ UNCHANGED <<fileVars, cur, size, handled, from, before>>

\* text.find('\n') is i - 1.
FirstEnd(i) == /\ i \in DOMAIN text /\ text[i].end
               /\ \A j \in 1..(i - 1) : ~text[j].end

\* A line is handed to parse_value.  It is whole when its text is before its end.
HandleLine ==
  /\ tail = "split"
  /\ \E i \in DOMAIN text :
       /\ FirstEnd(i)
       /\ handled' = Append(handled, [line |-> text[i].line,
                                     whole |-> i > 1 /\ text[i - 1].line = text[i].line])
       /\ text' = SubSeq(text, i + 1, Len(text))
  /\ UNCHANGED <<fileVars, tail, cur, spot, size, from, before>>

\* parse_value raises: what an item matches is no number, say.  work_func ends the
\* agent.
RejectLine ==
  /\ tail = "split"
  /\ \E i \in DOMAIN text : FirstEnd(i)
  /\ tail' = "failed"
  /\ UNCHANGED <<fileVars, cur, spot, size, text, handled, from, before>>

\* Mutant: what is left is not read again.
SeekForgotten ==
  /\ tail = "split" /\ \A i \in DOMAIN text : ~text[i].end
  /\ text' = <<>>
  /\ tail' = "poll"
  /\ UNCHANGED <<fileVars, cur, spot, size, handled, from, before>>

\* Mutant: the newline is sought back over too.
SeekNewline ==
  /\ tail = "split" /\ \A i \in DOMAIN text : ~text[i].end
  /\ spot' = Max({spot - Len(text) - 1, 0}) /\ text' = <<>>
  /\ tail' = "poll"
  /\ UNCHANGED <<fileVars, cur, size, handled, from, before>>

\* data.seek: what is left without newline is sought back over.
SeekBack ==
  /\ tail = "split" /\ \A i \in DOMAIN text : ~text[i].end
  /\ spot' = spot - Len(text) /\ text' = <<>>
  /\ tail' = "poll"
  /\ UNCHANGED <<fileVars, cur, size, handled, from, before>>

TailStep == \/ Open \/ Poll \/ Stat \/ Reopen
            \/ Read \/ HandleLine \/ RejectLine \/ SeekBack

-----------------------------------------------------------------------------
\* The agent has ended, or the thread sleeps until there is a file to open.
Idle == (tail \in Ends \/ (tail = "open" /\ entry = NoInode)) /\ UNCHANGED vars

Next == \/ BeginLine \/ EndLine
        \/ Unname \/ Recreate \/ Truncate
        \/ TailStep \/ Idle

Spec == Init /\ [][Next]_vars

\* The thread runs; a file that is renamed away is made again, and the writer
\* ends the line it has begun.  The rotations are as many as Inodes allows: a log
\* rotated twice between any two looks at it would never be followed.
FairSpec == Spec /\ WF_vars(TailStep) /\ WF_vars(Recreate) /\ WF_vars(EndLine)

-----------------------------------------------------------------------------
(* Properties.                                                              *)

\* No line is handled twice or out of order, whatever the rotation: a reopen
\* never goes back over what was read.
OnceInOrder ==
  \A i, j \in DOMAIN handled : i < j => handled[i].line < handled[j].line

NeverTruncated == "truncate" \notin rotations

\* A half written line is never handled, although polls find them: except for
\* the first, when the file was opened, at its end, in the middle of that line.
OnlyWhole == NeverTruncated => \A i \in DOMAIN handled : ~handled[i].whole => i = 1

\* How far the open file has been handled.
Done == spot - Len(text)

\* Nothing that was read is lost: of the file that is open, the lines handled since
\* it was opened are those that end between the place it was read from and the one
\* it has been handled to.
AllHandled ==
  NeverTruncated /\ cur # NoInode /\ tail # "open" =>
    /\ {handled[k].line : k \in (before + 1)..Len(handled)}
         = {content[cur][i].line : i \in {j \in (from + 1)..Done : content[cur][j].end}}
    /\ Done > from => content[cur][Done].end

\* A line that is written to the open file after the thread opened it is handled
\* whole in the end, unless that file is rotated or a line is refused.
CatchesUp ==
  \A n \in 1..MaxLine :
    (NeverTruncated /\ cur # NoInode /\ \E i \in from + 2..Len(content[cur]) :
                        content[cur][i] = [line |-> n, end |-> TRUE])
      ~> ([line |-> n, whole |-> TRUE] \in Range(handled) \/ entry # cur
            \/ tail = "failed")

\* The new file is followed in the end, if the agent lives to see it.
FollowsRotation ==
  (tail # "open" /\ entry # cur) ~> (tail \in Ends \/ entry = cur)

BeyondEnd == cur # NoInode /\ spot > Len(content[cur])

\* A log that was truncated under the thread is read from its start in the end,
\* unless it has grown past the read pointer before a poll.  What was written
\* then, up to the pointer, is lost.
FollowsTruncation == BeyondEnd ~> (~BeyondEnd \/ tail = "failed")

\* README, log_processor: "it is able to immediately react to new data as well
\* as rotation events".  The agent survives a rotation.
SurvivesRotation == tail # "dead"
=============================================================================
