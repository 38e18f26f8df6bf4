------------------------------ MODULE FileHash ------------------------------
(***************************************************************************)
(* A file_value with use_hash: lib/snmpy/module/file_value.py takes the    *)
(* size of the file, opens it and hashes it in blocks, while others append *)
(* to it, truncate it, replace it or remove it.                            *)
(*                                                                         *)
(* A file is a sequence of units, numbered in the order they are written.  *)
(* A block and every count of bytes are counted in units.                  *)
(***************************************************************************)
EXTENDS Updates

CONSTANTS Inodes,
          NoInode,    \* the name is not there
          MaxUnits,   \* bound: units written
          Block,      \* what a read asks for
          Settings,   \* use_hash: where to begin, and how many units at most
          MaxSize     \* sys.maxsize

ASSUME FileAssumption == /\ NoInode \notin Inodes
                         /\ Block \in Nat \ {0}
                         /\ MaxUnits \in Nat /\ MaxSize \in Nat \ 0..MaxUnits
                         /\ Settings \subseteq [beg : 0..MaxSize, count : 1..MaxSize]

VARIABLES
  node,      \* the inode the name refers to
  content,   \* content[i]: the units of a file
  written,   \* units written so far
  setting,   \* conf['use_hash']
  size,      \* st_size of the lstat
  open,      \* the inode that is being hashed
  offset,    \* f.tell()
  fed,       \* what md5 was updated with; num is its length
  only       \* history, since the lstat no file was truncated and the name not changed

fileVars == <<node, content, written, setting, size, open, offset, fed, only>>
hashVars == <<setting, size, open, offset, fed>>

\* Whatever happens to the file, no more is hashed than was asked for.
FileTypeOK == /\ {node, open} \subseteq Inodes \cup {NoInode}
              /\ written \in 0..MaxUnits
              /\ content \in [Inodes -> Seq(1..written)]
              /\ setting \in Settings
              /\ {size, offset} \subseteq 0..MaxSize
              /\ fed \in Seq(1..written) /\ Len(fed) <= setting.count
              /\ kind = "file_value" /\ stage \in {"loop", "return"} => open \in Inodes

FileInit == /\ setting \in Settings
            /\ node \in Inodes
            /\ content = [i \in Inodes |-> <<>>] /\ written = 0
            /\ size = 0 /\ open = NoInode /\ offset = 0 /\ fed = <<>> /\ only = TRUE

-----------------------------------------------------------------------------
(* Others.  External.                                                       *)

AppendUnit == /\ written < MaxUnits
              /\ \E i \in Inodes : content' = [content EXCEPT ![i] = Append(@, written + 1)]
              /\ written' = written + 1
              /\ UNCHANGED <<frameVars, node, hashVars, only>>

Truncate == /\ \E i \in Inodes : content' = [content EXCEPT ![i] = <<>>]
            /\ only' = (stage \in {"wait", "update"})
            /\ UNCHANGED <<frameVars, node, written, hashVars>>

\* Another file takes the name, or none has it.
Rename == /\ node' \in (Inodes \cup {NoInode}) \ {node}
          /\ only' = (stage \in {"wait", "update"})
          /\ UNCHANGED <<frameVars, content, written, hashVars>>

-----------------------------------------------------------------------------
\* size or sys.maxsize: files of /proc have none.
Limit == IF size = 0 THEN MaxSize ELSE size

\* Mutant: the size is no limit.
EndByCount == setting.count

Beg == Min({setting.beg, Limit})
End == Min({setting.count, Limit})

\* Mutant: the seek is forgotten.
OpenAtStart == /\ stage = "open"
               /\ IF node = NoInode THEN GoOn("raise") /\ UNCHANGED <<open, offset>>
                  ELSE GoOn("loop") /\ open' = node /\ offset' = 0
               /\ fed' = <<>>
               /\ UNCHANGED <<rows, node, content, written, setting, size, only>>

\* os.lstat and the start of md5sum.  A missing name raises.
Stat == /\ stage = "update"
        /\ IF node = NoInode THEN GoOn("raise") /\ UNCHANGED size
           ELSE GoOn("open") /\ size' = Len(content[node])
        /\ only' = TRUE
        /\ UNCHANGED <<rows, node, content, written, setting, open, offset, fed>>

OpenFile == /\ stage = "open"
            /\ IF node = NoInode THEN GoOn("raise") /\ UNCHANGED <<open, offset>>
               ELSE GoOn("loop") /\ open' = node /\ offset' = Beg
            /\ fed' = <<>>
            /\ UNCHANGED <<rows, node, content, written, setting, size, only>>

\* What f.read() returns: nothing at the end, or beyond it.
Part == SubSeq(content[open], offset + 1, Min({offset + Block, Len(content[open])}))

\* part[:end - num]
Blob == SubSeq(Part, 1, Min({End - Len(fed), Len(Part)}))

ReadBlock == /\ stage = "loop"
             /\ fed' = fed \o Blob
             /\ offset' = offset + Len(Part)
             /\ GoOn(IF Part = <<>> \/ Len(fed') >= End THEN "return" ELSE "loop")
             /\ UNCHANGED <<rows, node, content, written, setting, size, open, only>>

\* The items are set and committed: the digest, and the span Beg:Len(fed).
SetItems == /\ stage = "return" /\ kind = "file_value"
            /\ stage' = "wait"
            /\ size' = 0 /\ open' = NoInode /\ offset' = 0 /\ fed' = <<>>
            /\ UNCHANGED <<kind, rows, served, node, content, written, setting, only>>

FileNext == \/ AppendUnit \/ Truncate \/ Rename
            \/ Stat \/ OpenFile \/ ReadBlock \/ SetItems

-----------------------------------------------------------------------------
Hashed == kind = "file_value" /\ stage = "return"

\* As long as the file is only appended to, the digest is of exactly the span that
\* is reported with it, however the appends fall between the reads.
SpanIsHashed ==
  Hashed /\ only /\ fed # <<>> =>
    /\ Beg + Len(fed) <= Len(content[open])
    /\ fed = SubSeq(content[open], Beg + 1, Beg + Len(fed))

\* A digest of the start of a file that is only appended to does not depend on what
\* is appended while it is made: it covers what the lstat saw, or the count.
AppendsDoNotMatter ==
  Hashed /\ only /\ setting.beg = 0 /\ size > 0 => Len(fed) = End
=============================================================================
