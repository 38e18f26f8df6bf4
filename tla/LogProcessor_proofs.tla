------------------------ MODULE LogProcessor_proofs ------------------------
(* Proofs about the tail thread: for any number of lines and files, and any    *)
(* mixture of the ways of rotating a log.                                      *)
EXTENDS LogProcessor, TLAPS

-----------------------------------------------------------------------------
(* The inductive invariant.  Files first.                                      *)

\* The last line that has been ended.
Complete == IF Midline THEN line - 1 ELSE line

\* In a file, the end of a line comes right after its text, and the next line after
\* that.
Paired(s) ==
  \A k \in DOMAIN s :
    IF s[k].end THEN k > 1 /\ ~s[k - 1].end /\ s[k - 1].line = s[k].line
    ELSE k > 1 => s[k - 1].end

Rising(s) == \A j, k \in DOMAIN s : j < k /\ s[j].end => s[j].line < s[k].line

\* Lines go to the file that bears the name, or to the last one that did.
WriterInv ==
  /\ writer \in past \cup {entry} /\ writer # NoInode
  /\ entry # NoInode => writer = entry
  /\ \A p \in Inodes \ (past \cup {entry}) : content[p] = <<>>

ContentInv ==
  /\ \A p \in Inodes : Paired(content[p]) /\ Rising(content[p])
  /\ \A p \in Inodes : \A k \in DOMAIN content[p] :
       content[p][k].line <= line /\ (content[p][k].end => content[p][k].line <= Complete)
  /\ Midline => Last(content[writer]).line = line
  /\ \A p \in Inodes : Len(content[p]) <= 2 * line
  /\ Midline => Len(content[writer]) <= 2 * line - 1
  /\ entry # NoInode => \A p \in past :
       \A i \in DOMAIN content[p], j \in DOMAIN content[entry] :
         content[p][i].line < content[entry][j].line

\* What has been read is still there, or all of it is older than what is.
ReadInv ==
  \/ \A i \in DOMAIN text : Done + i \in DOMAIN content[cur] /\ text[i] = content[cur][Done + i]
  \/ \A i \in DOMAIN text, j \in DOMAIN content[cur] : text[i].line < content[cur][j].line

\* All that was handled is older than what a file contains.
Older(p) == \A k \in DOMAIN handled, j \in DOMAIN content[p] : handled[k].line < content[p][j].line

\* The file shrank under the read pointer.
Shrunk == spot > Len(content[cur]) \/ (tail \in {"stat", "reopen"} /\ spot > size)

\* What was handled, what was read and what is to be read are in order.
OrderInv ==
  /\ OnceInOrder
  /\ \A k \in DOMAIN handled : handled[k].line <= Complete
  /\ Rising(text)
  /\ \A i \in DOMAIN text : text[i].line <= line /\ (text[i].end => text[i].line <= Complete)
  /\ \A k \in DOMAIN handled, i \in DOMAIN text : handled[k].line < text[i].line

TailInv ==
  /\ tail = "open" <=> cur = NoInode
  /\ tail = "open" => handled = <<>>
  /\ text # <<>> => tail \in {"split", "failed"}
  /\ Len(text) <= spot
  /\ cur # NoInode =>
       /\ cur \in past \cup {entry}
       /\ \A k \in DOMAIN handled, j \in DOMAIN content[cur] :
            j > Done => handled[k].line < content[cur][j].line
       /\ ReadInv
       /\ Shrunk => Older(cur)
       /\ tail = "reopen" => cur \in past \/ spot > size
       /\ entry # NoInode /\ cur \in past =>
            /\ Older(entry)
            /\ \A i \in DOMAIN text, j \in DOMAIN content[entry] :
                 text[i].line < content[entry][j].line

\* Where nothing is truncated: what has been read is there, and the first line only
\* may be without its start.
WholeInv ==
  NeverTruncated /\ cur # NoInode =>
    /\ \A i \in DOMAIN text : Done + i \in DOMAIN content[cur] /\ text[i] = content[cur][Done + i]
    /\ from <= Done
    /\ from > 0 => before = 0
    /\ from > 0 /\ Done = from => handled = <<>>

LogInv == TypeOK /\ WriterInv /\ ContentInv /\ OrderInv /\ TailInv /\ WholeInv /\ OnlyWhole /\ AllHandled
-----------------------------------------------------------------------------
(* Sequences of units.                                                         *)

LEMMA Appended ==
  ASSUME NEW S, NEW s \in Seq(S), NEW u \in S
  PROVE  /\ Append(s, u) \in Seq(S) /\ Len(Append(s, u)) = Len(s) + 1
         /\ DOMAIN Append(s, u) = 1..(Len(s) + 1)
         /\ DOMAIN s = 1..Len(s) /\ Len(s) \in Nat
         /\ \A k \in 1..Len(s) : Append(s, u)[k] = s[k]
         /\ Append(s, u)[Len(s) + 1] = u
OBVIOUS

LEMMA LastUnit ==
  ASSUME NEW S, NEW s \in Seq(S), s # <<>>
  PROVE  Len(s) \in DOMAIN s /\ Last(s) = s[Len(s)] /\ Len(s) >= 1
BY DEF Last

LEMMA AppendedLast ==
  ASSUME NEW S, NEW s \in Seq(S), NEW u \in S
  PROVE  Append(s, u) # <<>> /\ Last(Append(s, u)) = u
<1>1. Len(Append(s, u)) = Len(s) + 1 /\ Append(s, u)[Len(s) + 1] = u /\ Len(s) \in Nat
  OBVIOUS
<1> QED BY <1>1 DEF Last

LEMMA MinOfTwo == \A a, b \in Nat : Min({a, b}) = IF a <= b THEN a ELSE b
<1> TAKE a, b \in Nat
<1>1. \E m \in {a, b} : \A y \in {a, b} : m <= y
  OBVIOUS
<1> QED BY <1>1 DEF Min

LEMMA Sub ==
  ASSUME NEW S, NEW s \in Seq(S), NEW a \in Nat, NEW b \in Nat, b <= Len(s)
  PROVE  /\ SubSeq(s, a + 1, b) \in Seq(S)
         /\ Len(SubSeq(s, a + 1, b)) = IF a < b THEN b - a ELSE 0
         /\ \A k \in DOMAIN SubSeq(s, a + 1, b) : a + k \in DOMAIN s /\ SubSeq(s, a + 1, b)[k] = s[a + k]
         /\ DOMAIN SubSeq(s, a + 1, b) = 1..Len(SubSeq(s, a + 1, b))
OBVIOUS

\* A unit that goes on with a line, or begins a later one.
Follows(s, u) ==
  /\ u.end => s # <<>> /\ ~Last(s).end /\ Last(s).line = u.line
  /\ ~u.end => s = <<>> \/ (Last(s).end /\ \A k \in DOMAIN s : s[k].line < u.line)

LEMMA KeepsShape ==
  ASSUME NEW s \in Seq(Unit), NEW u \in Unit, Paired(s), Rising(s), Follows(s, u)
  PROVE  Paired(Append(s, u)) /\ Rising(Append(s, u))
<1> DEFINE t == Append(s, u)
<1>0. /\ DOMAIN t = 1..(Len(s) + 1) /\ DOMAIN s = 1..Len(s) /\ Len(s) \in Nat
      /\ \A k \in 1..Len(s) : t[k] = s[k]
      /\ t[Len(s) + 1] = u
  BY Appended
<1> HIDE DEF t
<1>1. s # <<>> => Len(s) \in DOMAIN s /\ Last(s) = s[Len(s)]
  BY LastUnit
<1>2. s = <<>> => Len(s) = 0
  OBVIOUS
<1>3. Paired(t)
  <2> SUFFICES ASSUME NEW k \in DOMAIN t
               PROVE  IF t[k].end THEN k > 1 /\ ~t[k - 1].end /\ t[k - 1].line = t[k].line
                      ELSE k > 1 => t[k - 1].end
    BY DEF Paired
  <2>1. CASE k \in DOMAIN s
    BY <1>0, <2>1 DEF Paired
  <2>2. CASE k = Len(s) + 1 /\ u.end
    BY <1>0, <1>1, <1>2, <2>2 DEF Follows
  <2>3. CASE k = Len(s) + 1 /\ ~u.end
    BY <1>0, <1>1, <1>2, <2>3 DEF Follows
  <2> QED BY <1>0, <2>1, <2>2, <2>3
<1>4. Rising(t)
  <2> SUFFICES ASSUME NEW j \in DOMAIN t, NEW k \in DOMAIN t, j < k, t[j].end
               PROVE  t[j].line < t[k].line
    BY DEF Rising
  <2>1. CASE k \in DOMAIN s
    BY <1>0, <2>1 DEF Rising
  <2>2. CASE k = Len(s) + 1 /\ ~u.end
    BY <1>0, <1>1, <1>2, <2>2 DEF Follows
  <2>3. CASE k = Len(s) + 1 /\ u.end
    <3>1. j # Len(s) /\ j \in DOMAIN s /\ j < Len(s)
      BY <1>0, <1>1, <2>3 DEF Follows
    <3> QED BY <1>0, <1>1, <2>3, <3>1 DEF Follows, Rising
  <2> QED BY <1>0, <2>1, <2>2, <2>3
<1> QED BY <1>3, <1>4 DEF t

-----------------------------------------------------------------------------
(* The program that logs.                                                      *)

\* What is written next is newer than every line that was ended, and than every
\* line begun but the one it ends.
Newest(u) ==
  /\ Follows(content[writer], u)
  /\ u.line > Complete
  /\ u.line > line \/ (u.line = line /\ content[writer] # <<>> /\ Last(content[writer]).line = line)

Written(u) ==
  /\ content' = [content EXCEPT ![writer] = Append(@, u)]
  /\ Newest(u)
  /\ u.line <= line' /\ (u.end => u.line <= Complete')
  /\ Midline' => u.line = line'
  /\ Len(content[writer]) + 1 <= 2 * line'
  /\ Midline' => Len(content[writer]) + 1 <= 2 * line' - 1

LEMMA NewUnit ==
  ASSUME LogInv, BeginLine \/ EndLine
  PROVE  /\ UNCHANGED <<rotations, entry, past, gone, writer, tailVars>>
         /\ line' \in line..MaxLine /\ Complete' >= Complete
         /\ \E u \in Unit : Written(u)
<1> DEFINE s == content[writer]
<1>0. /\ writer \in Inodes /\ line \in 0..MaxLine /\ MaxLine \in Nat
      /\ s \in Seq(Unit) /\ Len(s) \in Nat
      /\ content \in [Inodes -> Seq(Unit)]
      /\ Len(s) <= 2 * line /\ (Midline => Len(s) <= 2 * line - 1 /\ Last(s).line = line)
  <2>1. writer \in Inodes
    BY DEF LogInv, WriterInv, TypeOK
  <2>2. s \in Seq(Unit) /\ Len(s) \in Nat
    BY <2>1 DEF LogInv, TypeOK
  <2> QED BY <2>1, <2>2, LogAssumption DEF LogInv, ContentInv, TypeOK
<1>1. UNCHANGED <<rotations, entry, past, gone, writer, tailVars>>
  BY DEF BeginLine, EndLine
<1>2. CASE BeginLine
  <2> DEFINE u == [line |-> line + 1, end |-> FALSE]
  <2>1. /\ content' = [content EXCEPT ![writer] = Append(@, u)] /\ line' = line + 1
        /\ ~Midline /\ line < MaxLine
    BY <1>2 DEF BeginLine
  <2>2. u \in Unit
    BY <1>0, <2>1 DEF Unit
  <2>3. content'[writer'] = Append(s, u) /\ Last(Append(s, u)) = u /\ Append(s, u) # <<>>
    <3>1. content'[writer'] = Append(s, u)
      BY <1>0, <1>1, <2>1
    <3>2. Append(s, u) # <<>> /\ Last(Append(s, u)) = u
      <4> HIDE DEF s, u
      <4> QED BY <1>0, <2>2, AppendedLast
    <3> QED BY <3>1, <3>2
  <2>4. Midline' /\ Complete = line /\ Complete' = line
    <3> HIDE DEF u
    <3>1. Midline' <=> ~u.end
      BY <2>3 DEF Midline
    <3> QED BY <1>0, <2>1, <3>1 DEF u, Complete
  <2>5. \A k \in DOMAIN s : s[k].line <= line
    BY <1>0 DEF LogInv, ContentInv
  <2>6. s # <<>> => Last(s).end
    BY <2>1 DEF Midline
  <2>7. Newest(u)
    <3>1. \A k \in DOMAIN s : s[k].line \in Nat
      <4> TAKE k \in DOMAIN s
      <4>1. s[k] \in Unit
        BY <1>0
      <4> QED BY <4>1 DEF Unit
    <3> QED BY <1>0, <2>4, <2>5, <2>6, <3>1 DEF Newest, Follows
  <2>8. Written(u)
    BY <1>0, <2>1, <2>4, <2>7 DEF Written
  <2> QED BY <1>0, <1>1, <2>1, <2>2, <2>4, <2>8
<1>3. CASE EndLine
  <2> DEFINE u == [line |-> line, end |-> TRUE]
  <2>1. /\ content' = [content EXCEPT ![writer] = Append(@, u)] /\ line' = line
        /\ Midline
    BY <1>3 DEF EndLine
  <2>2. u \in Unit /\ s # <<>> /\ ~Last(s).end
    <3>1. s # <<>> /\ ~Last(s).end
      BY <2>1 DEF Midline
    <3>2. Len(s) >= 1
      BY <1>0, <3>1, LastUnit
    <3> QED BY <1>0, <2>1, <3>1, <3>2 DEF Unit
  <2>3. content'[writer'] = Append(s, u) /\ Last(Append(s, u)) = u /\ Append(s, u) # <<>>
    <3>1. content'[writer'] = Append(s, u)
      BY <1>0, <1>1, <2>1
    <3>2. Append(s, u) # <<>> /\ Last(Append(s, u)) = u
      <4> HIDE DEF s, u
      <4> QED BY <1>0, <2>2, AppendedLast
    <3> QED BY <3>1, <3>2
  <2>4. ~Midline' /\ Complete = line - 1 /\ Complete' = line
    <3> HIDE DEF u
    <3>1. Midline' <=> ~u.end
      BY <2>3 DEF Midline
    <3> QED BY <1>0, <2>1, <3>1 DEF u, Complete
  <2>5. Newest(u)
    BY <1>0, <2>1, <2>2, <2>4 DEF Newest, Follows
  <2>6. Written(u)
    BY <1>0, <2>1, <2>4, <2>5 DEF Written
  <2> QED BY <1>0, <1>1, <2>1, <2>2, <2>4, <2>6
<1> QED BY <1>2, <1>3

\* Where the new unit is.
LEMMA WrittenWhere ==
  ASSUME LogInv, NEW u \in Unit, Written(u)
  PROVE  /\ content' \in [Inodes -> Seq(Unit)]
         /\ \A p \in Inodes : /\ content'[p] = IF p = writer THEN Append(content[p], u) ELSE content[p]
                              /\ DOMAIN content[p] = 1..Len(content[p]) /\ Len(content[p]) \in Nat
                              /\ DOMAIN content'[p] = 1..Len(content'[p]) /\ Len(content'[p]) \in Nat
                              /\ Len(content[p]) <= Len(content'[p])
                              /\ \A k \in DOMAIN content[p] : content'[p][k] = content[p][k]
         /\ writer \in Inodes
         /\ Len(content'[writer]) = Len(content[writer]) + 1
         /\ content'[writer][Len(content[writer]) + 1] = u
<1>0. content \in [Inodes -> Seq(Unit)] /\ writer \in Inodes
  BY DEF LogInv, TypeOK, WriterInv
<1>1. content' = [content EXCEPT ![writer] = Append(@, u)]
  BY DEF Written
<1>2. \A p \in Inodes : content'[p] = IF p = writer THEN Append(content[p], u) ELSE content[p]
  BY <1>0, <1>1
<1>3. \A p \in Inodes : /\ Append(content[p], u) \in Seq(Unit)
                        /\ DOMAIN Append(content[p], u) = 1..(Len(content[p]) + 1)
                        /\ Len(Append(content[p], u)) = Len(content[p]) + 1
                        /\ \A k \in 1..Len(content[p]) : Append(content[p], u)[k] = content[p][k]
                        /\ Append(content[p], u)[Len(content[p]) + 1] = u
                        /\ DOMAIN content[p] = 1..Len(content[p]) /\ Len(content[p]) \in Nat
  <2> TAKE p \in Inodes
  <2>1. content[p] \in Seq(Unit)
    BY <1>0
  <2> HIDE <1>1, <1>2
  <2> QED BY <2>1, Appended
<1>4. content' \in [Inodes -> Seq(Unit)]
  BY <1>0, <1>1, <1>3
<1>5. ASSUME NEW p \in Inodes
      PROVE  /\ DOMAIN content[p] = 1..Len(content[p]) /\ Len(content[p]) \in Nat
             /\ DOMAIN content'[p] = 1..Len(content'[p]) /\ Len(content'[p]) \in Nat
             /\ Len(content[p]) <= Len(content'[p])
             /\ \A k \in DOMAIN content[p] : content'[p][k] = content[p][k]
  <2>1. /\ DOMAIN content[p] = 1..Len(content[p]) /\ Len(content[p]) \in Nat
        /\ DOMAIN Append(content[p], u) = 1..(Len(content[p]) + 1)
        /\ Len(Append(content[p], u)) = Len(content[p]) + 1
        /\ \A k \in DOMAIN content[p] : Append(content[p], u)[k] = content[p][k]
    BY <1>3
  <2>2. CASE content'[p] = Append(content[p], u)
    BY <2>1, <2>2
  <2>3. CASE content'[p] = content[p]
    BY <2>1, <2>3
  <2> QED BY <1>2, <2>2, <2>3
<1>6. Len(content'[writer]) = Len(content[writer]) + 1 /\ content'[writer][Len(content[writer]) + 1] = u
  BY <1>0, <1>2, <1>3
<1> QED BY <1>0, <1>2, <1>4, <1>5, <1>6

\* The unit that is written is newer than what was handled, and a unit of a file that
\* is not older than it is there too.
LEMMA WrittenTypes ==
  ASSUME LogInv, NEW u \in Unit, Written(u), line' \in line..MaxLine,
         UNCHANGED <<rotations, entry, past, gone, writer, tailVars>>
  PROVE  TypeOK' /\ WriterInv'
<1>1. /\ content' \in [Inodes -> Seq(Unit)]
      /\ \A p \in Inodes : Len(content[p]) <= Len(content'[p]) /\ Len(content[p]) \in Nat
                           /\ Len(content'[p]) \in Nat
      /\ \A p \in Inodes : content'[p] = IF p = writer THEN Append(content[p], u) ELSE content[p]
  BY WrittenWhere
<1>2. line' \in 0..MaxLine
  BY LogAssumption DEF LogInv, TypeOK
<1>3. TypeOK'
  <2>1. "truncate" \notin rotations /\ cur # NoInode => spot <= Len(content'[cur])
    BY <1>1, LogAssumption DEF LogInv, TypeOK
  <2> QED BY <1>1, <1>2, <2>1 DEF LogInv, TypeOK, tailVars
<1>4. WriterInv'
  BY <1>1 DEF LogInv, WriterInv
<1> QED BY <1>3, <1>4

LEMMA WrittenContent ==
  ASSUME LogInv, NEW u \in Unit, Written(u), line' \in line..MaxLine, Complete' >= Complete,
         UNCHANGED <<rotations, entry, past, gone, writer, tailVars>>
  PROVE  ContentInv'
<1> DEFINE n == Len(content[writer])
<1>0. /\ \A p \in Inodes : /\ content'[p] = IF p = writer THEN Append(content[p], u) ELSE content[p]
                           /\ DOMAIN content[p] = 1..Len(content[p]) /\ Len(content[p]) \in Nat
                           /\ DOMAIN content'[p] = 1..Len(content'[p]) /\ Len(content'[p]) \in Nat
                           /\ content[p] \in Seq(Unit)
                           /\ \A k \in DOMAIN content[p] : content'[p][k] = content[p][k]
      /\ writer \in Inodes
      /\ Len(content'[writer]) = n + 1
      /\ content'[writer][n + 1] = u
      /\ line \in Nat /\ line' \in Nat
  BY WrittenWhere, LogAssumption DEF LogInv, TypeOK
<1>1. /\ u.line \in Nat /\ Complete \in Int /\ Complete' \in Int
      /\ \A p \in Inodes : \A k \in DOMAIN content[p] : content[p][k].line \in Nat
  <2>1. \A v \in Unit : v.line \in Nat
    BY DEF Unit
  <2>2. \A p \in Inodes : \A k \in DOMAIN content[p] : content[p][k] \in Unit
    BY <1>0
  <2> QED BY <1>0, <2>1, <2>2 DEF Complete
<1>2. /\ Newest(u) /\ u.line <= line' /\ (u.end => u.line <= Complete')
      /\ Midline' => u.line = line'
      /\ n + 1 <= 2 * line'
      /\ Midline' => n + 1 <= 2 * line' - 1
  BY DEF Written
<1>3. ASSUME NEW p \in Inodes
      PROVE  Paired(content'[p]) /\ Rising(content'[p])
  <2>1. Paired(content[p]) /\ Rising(content[p])
    BY DEF LogInv, ContentInv
  <2>2. CASE p = writer
    BY <1>0, <1>2, <2>1, <2>2, KeepsShape DEF Newest
  <2> QED BY <1>0, <2>1, <2>2
<1>4. ASSUME NEW p \in Inodes, NEW k \in DOMAIN content'[p]
      PROVE  content'[p][k].line <= line' /\ (content'[p][k].end => content'[p][k].line <= Complete')
  <2>1. CASE k \in DOMAIN content[p]
    <3>1. content[p][k].line <= line /\ (content[p][k].end => content[p][k].line <= Complete)
      BY <2>1 DEF LogInv, ContentInv
    <3> QED BY <1>0, <1>1, <2>1, <3>1
  <2>2. CASE p = writer /\ k = n + 1
    BY <1>0, <1>2, <2>2
  <2> QED BY <1>0, <2>1, <2>2
<1>5. Midline' => Last(content'[writer']).line = line'
  <2>1. content'[writer'] = Append(content[writer], u)
    BY <1>0
  <2> QED BY <1>0, <1>2, <2>1, AppendedLast
<1>6. \A p \in Inodes : Len(content'[p]) <= 2 * line'
  BY <1>0, <1>2 DEF LogInv, ContentInv
<1>7. Midline' => Len(content'[writer']) <= 2 * line' - 1
  BY <1>0, <1>2
<1>8. ASSUME entry' # NoInode, NEW p \in past', NEW i \in DOMAIN content'[p], NEW j \in DOMAIN content'[entry']
      PROVE  content'[p][i].line < content'[entry'][j].line
  <2>1. entry' = writer /\ p \in Inodes /\ p # writer /\ past' = past /\ entry' = entry
    BY <1>8 DEF LogInv, TypeOK, WriterInv
  <2>2. content'[p] = content[p] /\ i \in DOMAIN content[p]
    BY <1>0, <2>1
  <2>3. ASSUME NEW h \in DOMAIN content[entry] PROVE content[p][i].line < content[entry][h].line
    BY <1>8, <2>1, <2>2, <2>3 DEF LogInv, ContentInv
  <2>4. CASE j \in DOMAIN content[entry]
    BY <1>0, <2>1, <2>2, <2>3, <2>4
  <2>5. CASE j = n + 1 /\ u.line > line
    <3>1. content[p][i].line <= line
      BY <2>1, <2>2 DEF LogInv, ContentInv
    <3>2. content'[p][i] = content[p][i] /\ content[p][i].line \in Nat /\ content'[entry'][j] = u
      BY <1>0, <1>1, <2>1, <2>2, <2>5
    <3> QED BY <1>0, <1>1, <2>5, <3>1, <3>2
  <2>6. CASE j = n + 1 /\ u.line = line /\ content[writer] # <<>> /\ Last(content[writer]).line = line
    <3>1. n \in DOMAIN content[entry] /\ content[entry][n].line = line
      BY <1>0, <2>1, <2>6, LastUnit
    <3> QED BY <1>0, <2>1, <2>2, <2>3, <2>6, <3>1
  <2> QED BY <1>0, <1>2, <2>1, <2>4, <2>5, <2>6 DEF Newest
<1> QED BY <1>0, <1>3, <1>4, <1>5, <1>6, <1>7, <1>8 DEF ContentInv

\* The numbers of what has been written, read and handled.
LEMMA Numbers ==
  ASSUME TypeOK
  PROVE  /\ \A p \in Inodes : /\ content[p] \in Seq(Unit) /\ Len(content[p]) \in Nat
                              /\ DOMAIN content[p] = 1..Len(content[p])
                              /\ \A k \in DOMAIN content[p] : content[p][k].line \in Nat
         /\ Len(text) \in Nat /\ DOMAIN text = 1..Len(text)
         /\ \A i \in DOMAIN text : text[i].line \in Nat
         /\ Len(handled) \in Nat /\ DOMAIN handled = 1..Len(handled)
         /\ \A k \in DOMAIN handled : handled[k].line \in Nat
         /\ line \in Nat /\ Complete \in Int /\ {spot, size, from} \subseteq Nat
<1>1. \A v \in Unit : v.line \in Nat
  BY DEF Unit
<1>2. \A v \in Handled : v.line \in Nat
  BY DEF Handled
<1>3. \A p \in Inodes : content[p] \in Seq(Unit)
  BY DEF TypeOK
<1>4. text \in Seq(Unit) /\ handled \in Seq(Handled)
  BY DEF TypeOK
<1>5. \A p \in Inodes : /\ Len(content[p]) \in Nat /\ DOMAIN content[p] = 1..Len(content[p])
                        /\ \A k \in DOMAIN content[p] : content[p][k] \in Unit
  BY <1>3
<1>6. /\ Len(text) \in Nat /\ DOMAIN text = 1..Len(text) /\ \A i \in DOMAIN text : text[i] \in Unit
      /\ Len(handled) \in Nat /\ DOMAIN handled = 1..Len(handled)
      /\ \A k \in DOMAIN handled : handled[k] \in Handled
  BY <1>4
<1>7. line \in Nat /\ Complete \in Int /\ {spot, size, from} \subseteq Nat
  BY LogAssumption DEF TypeOK, Complete
<1> QED BY <1>1, <1>2, <1>3, <1>5, <1>6, <1>7

\* A file that what was handled, or read, is older than stays so when it grows.
LEMMA WrittenOlder ==
  ASSUME LogInv, NEW u \in Unit, Written(u), NEW p \in Inodes
  PROVE  /\ Older(p) => \A k \in DOMAIN handled, j \in DOMAIN content'[p] :
                          handled[k].line < content'[p][j].line
         /\ (\A i \in DOMAIN text, j \in DOMAIN content[p] : text[i].line < content[p][j].line)
              => \A i \in DOMAIN text, j \in DOMAIN content'[p] : text[i].line < content'[p][j].line
         /\ \A k \in DOMAIN handled : handled[k].line < u.line
<1> DEFINE n == Len(content[writer])
<1>0. /\ content'[p] = IF p = writer THEN Append(content[p], u) ELSE content[p]
      /\ DOMAIN content[p] = 1..Len(content[p]) /\ Len(content[p]) \in Nat
      /\ DOMAIN content'[p] = 1..Len(content'[p])
      /\ \A k \in DOMAIN content[p] : content'[p][k] = content[p][k]
      /\ writer \in Inodes
      /\ Len(content'[writer]) = n + 1 /\ content'[writer][n + 1] = u
  BY WrittenWhere
<1>1. /\ \A j \in DOMAIN content[p] : content[p][j].line \in Nat
      /\ \A i \in DOMAIN text : text[i].line \in Nat
      /\ \A k \in DOMAIN handled : handled[k].line \in Nat
      /\ line \in Nat /\ Complete \in Int /\ content[writer] \in Seq(Unit)
  BY <1>0, Numbers DEF LogInv
<1>2. u.line \in Nat
  BY DEF Unit
<1>3. u.line > Complete /\ (u.line > line \/ (u.line = line /\ content[writer] # <<>> /\ Last(content[writer]).line = line))
  BY DEF Written, Newest
<1>4. \A j \in DOMAIN content'[p] : j \in DOMAIN content[p] \/ (p = writer /\ j = n + 1)
  BY <1>0
<1>5. \A k \in DOMAIN handled : handled[k].line < u.line
  BY <1>1, <1>2, <1>3 DEF LogInv, OrderInv
<1>6. ASSUME \A i \in DOMAIN text, j \in DOMAIN content[p] : text[i].line < content[p][j].line, p = writer,
             NEW i \in DOMAIN text
      PROVE  text[i].line < u.line
  <2>1. text[i].line <= line
    BY DEF LogInv, OrderInv
  <2>2. CASE u.line = line /\ content[writer] # <<>> /\ Last(content[writer]).line = line
    <3>1. n \in DOMAIN content[p] /\ content[p][n].line = line
      BY <1>1, <1>6, <2>2, LastUnit
    <3> QED BY <1>6, <2>2, <3>1
  <2> QED BY <1>1, <1>2, <1>3, <2>1, <2>2
<1>7. Older(p) => \A k \in DOMAIN handled, j \in DOMAIN content'[p] : handled[k].line < content'[p][j].line
  BY <1>0, <1>4, <1>5 DEF Older
<1>8. ASSUME \A i \in DOMAIN text, j \in DOMAIN content[p] : text[i].line < content[p][j].line
      PROVE  \A i \in DOMAIN text, j \in DOMAIN content'[p] : text[i].line < content'[p][j].line
  BY <1>0, <1>4, <1>6, <1>8
<1> QED BY <1>5, <1>7, <1>8

LEMMA WrittenOrder ==
  ASSUME LogInv, line' \in line..MaxLine, Complete' >= Complete, UNCHANGED tailVars
  PROVE  OrderInv'
<1>1. /\ \A i \in DOMAIN text : text[i].line \in Nat
      /\ \A k \in DOMAIN handled : handled[k].line \in Nat
      /\ line \in Nat /\ line' \in Nat /\ Complete \in Int /\ Complete' \in Int
  BY Numbers, LogAssumption DEF LogInv, Complete
<1>2. UNCHANGED <<text, handled>>
  BY DEF tailVars
<1>3. \A k \in DOMAIN handled : handled[k].line <= Complete'
  BY <1>1 DEF LogInv, OrderInv
<1>4. \A i \in DOMAIN text : text[i].line <= line' /\ (text[i].end => text[i].line <= Complete')
  BY <1>1 DEF LogInv, OrderInv
<1> QED BY <1>2, <1>3, <1>4 DEF LogInv, OrderInv, OnceInOrder, Rising

LEMMA WrittenTail ==
  ASSUME LogInv, NEW u \in Unit, Written(u),
         UNCHANGED <<rotations, entry, past, gone, writer, tailVars>>
  PROVE  TailInv'
<1>1. UNCHANGED <<entry, past, tail, cur, spot, size, text, handled>>
  BY DEF tailVars
<1>2. CASE cur = NoInode
  BY <1>1, <1>2 DEF LogInv, TailInv
<1>3. CASE cur # NoInode
  <2>0. cur \in Inodes /\ (entry # NoInode => entry \in Inodes)
    BY <1>3 DEF LogInv, TypeOK
  <2>1. /\ DOMAIN content[cur] = 1..Len(content[cur]) /\ Len(content[cur]) \in Nat
        /\ DOMAIN content'[cur] = 1..Len(content'[cur]) /\ Len(content'[cur]) \in Nat
        /\ Len(content[cur]) <= Len(content'[cur])
        /\ \A k \in DOMAIN content[cur] : content'[cur][k] = content[cur][k]
        /\ content'[cur] # content[cur] => cur = writer
        /\ Len(content'[writer]) = Len(content[writer]) + 1
        /\ content'[writer][Len(content[writer]) + 1] = u
    BY <2>0, WrittenWhere
  <2>2. spot \in Nat /\ size \in Nat /\ Len(text) \in Nat
    BY Numbers DEF LogInv
  <2>3. Done' = Done
    BY <1>1 DEF Done
  <2>4. cur' \in past' \cup {entry'}
    BY <1>1, <1>3 DEF LogInv, TailInv
  <2>5. ASSUME NEW k \in DOMAIN handled, NEW j \in DOMAIN content'[cur], j > Done
        PROVE  handled[k].line < content'[cur][j].line
    <3>1. CASE j \in DOMAIN content[cur]
      BY <1>3, <2>1, <2>5, <3>1 DEF LogInv, TailInv
    <3>2. CASE j \notin DOMAIN content[cur]
      <4>1. content'[cur] # content[cur]
        BY <3>2
      <4>2. j = Len(content[writer]) + 1 /\ cur = writer
        BY <2>1, <3>2, <4>1
      <4> QED BY <2>0, <2>1, <4>2, WrittenOlder
    <3> QED BY <3>1, <3>2
  <2>6. ReadInv'
    <3>1. CASE \A i \in DOMAIN text : Done + i \in DOMAIN content[cur] /\ text[i] = content[cur][Done + i]
      <4>1. \A i \in DOMAIN text : Done + i \in DOMAIN content'[cur] /\ text[i] = content'[cur][Done + i]
        BY <2>1, <3>1
      <4> QED BY <1>1, <2>3, <4>1 DEF ReadInv
    <3>2. CASE \A i \in DOMAIN text, j \in DOMAIN content[cur] : text[i].line < content[cur][j].line
      <4>1. \A i \in DOMAIN text, j \in DOMAIN content'[cur] : text[i].line < content'[cur][j].line
        BY <2>0, <3>2, WrittenOlder
      <4> QED BY <1>1, <4>1 DEF ReadInv
    <3> QED BY <1>3, <3>1, <3>2 DEF LogInv, TailInv, ReadInv
  <2>7. Shrunk' => Older(cur)'
    <3> SUFFICES ASSUME Shrunk' PROVE Older(cur)'
      OBVIOUS
    <3>1. Shrunk
      BY <1>1, <2>1, <2>2 DEF Shrunk
    <3>2. Older(cur)
      BY <1>3, <3>1 DEF LogInv, TailInv
    <3>3. \A k \in DOMAIN handled, j \in DOMAIN content'[cur] : handled[k].line < content'[cur][j].line
      BY <2>0, <3>2, WrittenOlder
    <3> QED BY <1>1, <3>3 DEF Older
  <2>8. tail' = "reopen" => cur' \in past' \/ spot' > size'
    BY <1>1, <1>3 DEF LogInv, TailInv
  <2>9. ASSUME entry' # NoInode, cur' \in past'
        PROVE  /\ Older(entry)'
               /\ \A i \in DOMAIN text', j \in DOMAIN content'[entry'] :
                    text'[i].line < content'[entry'][j].line
    <3>1. /\ Older(entry)
          /\ \A i \in DOMAIN text, j \in DOMAIN content[entry] : text[i].line < content[entry][j].line
      BY <1>1, <1>3, <2>9 DEF LogInv, TailInv
    <3>2. /\ \A k \in DOMAIN handled, j \in DOMAIN content'[entry] : handled[k].line < content'[entry][j].line
          /\ \A i \in DOMAIN text, j \in DOMAIN content'[entry] : text[i].line < content'[entry][j].line
      BY <1>1, <2>0, <2>9, <3>1, WrittenOlder
    <3> QED BY <1>1, <3>2 DEF Older
  <2>10. \A k \in DOMAIN handled', j \in DOMAIN content'[cur'] :
           j > Done' => handled'[k].line < content'[cur'][j].line
    BY <1>1, <2>3, <2>5
  <2>11. /\ tail' = "open" <=> cur' = NoInode
         /\ tail' = "open" => handled' = <<>>
         /\ text' # <<>> => tail' \in {"split", "failed"}
         /\ Len(text') <= spot'
    BY <1>1 DEF LogInv, TailInv
  <2> QED BY <2>4, <2>6, <2>7, <2>8, <2>9, <2>10, <2>11 DEF TailInv
<1> QED BY <1>2, <1>3

LEMMA WrittenWhole ==
  ASSUME LogInv, NEW u \in Unit, Written(u),
         UNCHANGED <<rotations, entry, past, gone, writer, tailVars>>
  PROVE  WholeInv' /\ OnlyWhole' /\ AllHandled'
<1>1. UNCHANGED <<rotations, tail, cur, spot, size, text, handled, from, before>>
  BY DEF tailVars
<1>2. NeverTruncated' = NeverTruncated /\ Done' = Done
  BY <1>1 DEF NeverTruncated, Done
<1>3. OnlyWhole'
  BY <1>1, <1>2 DEF LogInv, OnlyWhole
<1>4. CASE ~NeverTruncated \/ cur = NoInode
  BY <1>1, <1>2, <1>3, <1>4 DEF WholeInv, AllHandled
<1>5. CASE NeverTruncated /\ cur # NoInode
  <2>0. cur \in Inodes
    BY <1>5 DEF LogInv, TypeOK
  <2>1. /\ DOMAIN content[cur] = 1..Len(content[cur]) /\ Len(content[cur]) \in Nat
        /\ DOMAIN content'[cur] = 1..Len(content'[cur]) /\ Len(content'[cur]) \in Nat
        /\ Len(content[cur]) <= Len(content'[cur])
        /\ \A k \in DOMAIN content[cur] : content'[cur][k] = content[cur][k]
    BY <2>0, WrittenWhere
  <2>2. /\ spot <= Len(content[cur]) /\ Len(text) <= spot /\ Done \in Nat /\ from \in Nat
        /\ Done <= Len(content[cur])
    BY <1>5, Numbers DEF LogInv, TypeOK, NeverTruncated, TailInv, Done
  <2>3. WholeInv'
    <3>1. \A i \in DOMAIN text : Done + i \in DOMAIN content'[cur] /\ text[i] = content'[cur][Done + i]
      BY <1>5, <2>1 DEF LogInv, WholeInv
    <3> QED BY <1>1, <1>2, <1>5, <3>1 DEF LogInv, WholeInv
  <2>4. \A j \in (from + 1)..Done : content'[cur][j] = content[cur][j]
    BY <2>1, <2>2
  <2>5. {j \in (from + 1)..Done : content'[cur][j].end} = {j \in (from + 1)..Done : content[cur][j].end}
    BY <2>4
  <2>6. {content'[cur][i].line : i \in {j \in (from + 1)..Done : content'[cur][j].end}}
          = {content[cur][i].line : i \in {j \in (from + 1)..Done : content[cur][j].end}}
    BY <2>4, <2>5
  <2>7. Done > from => content'[cur][Done] = content[cur][Done]
    BY <2>2, <2>4
  <2>8. AllHandled'
    <3> DEFINE H == {handled[k].line : k \in (before + 1)..Len(handled)}
               E(s) == {s[cur][i].line : i \in {j \in (from + 1)..Done : s[cur][j].end}}
    <3>1. tail # "open"
      BY <1>5 DEF LogInv, TailInv
    <3>2. H = E(content) /\ (Done > from => content[cur][Done].end)
      BY <1>5, <3>1 DEF LogInv, AllHandled
    <3>3. H' = H /\ E(content)' = E(content')
      BY <1>1, <1>2
    <3>4. E(content') = E(content)
      BY <2>6
    <3>5. (Done > from => content[cur][Done].end)'
      BY <1>1, <1>2, <2>7, <3>2
    <3>6. (H = E(content))'
      BY <3>2, <3>3, <3>4
    <3> QED BY <3>5, <3>6 DEF AllHandled
  <2> QED BY <1>3, <2>3, <2>8
<1> QED BY <1>4, <1>5

\* The program that logs keeps the invariant.
LEMMA WriterStep == LogInv /\ (BeginLine \/ EndLine) => LogInv'
<1> SUFFICES ASSUME LogInv, BeginLine \/ EndLine PROVE LogInv'
  OBVIOUS
<1>1. PICK u \in Unit : Written(u)
  BY NewUnit
<1>2. /\ UNCHANGED <<rotations, entry, past, gone, writer, tailVars>>
      /\ line' \in line..MaxLine /\ Complete' >= Complete
  BY NewUnit
<1>3. TypeOK' /\ WriterInv'
  BY <1>1, <1>2, WrittenTypes
<1>4. ContentInv'
  BY <1>1, <1>2, WrittenContent
<1>5. OrderInv'
  BY <1>2, WrittenOrder
<1>6. TailInv'
  BY <1>1, <1>2, WrittenTail
<1>7. WholeInv' /\ OnlyWhole' /\ AllHandled'
  BY <1>1, <1>2, WrittenWhole
<1> QED BY <1>3, <1>4, <1>5, <1>6, <1>7 DEF LogInv

-----------------------------------------------------------------------------
(* Rotation.                                                                   *)

\* A step that handles nothing and leaves the files alone.
LEMMA WholeKept ==
  ASSUME WholeInv, OnlyWhole, AllHandled,
         UNCHANGED <<rotations, content, cur, handled, from, before>>,
         Done' = Done, tail = "open" => tail' = "open",
         NeverTruncated /\ cur # NoInode =>
           \A i \in DOMAIN text' : Done + i \in DOMAIN content[cur] /\ text'[i] = content[cur][Done + i]
  PROVE  WholeInv' /\ OnlyWhole' /\ AllHandled'
<1>0. NeverTruncated' = NeverTruncated
  BY DEF NeverTruncated
<1>1. WholeInv'
  BY <1>0 DEF WholeInv
<1>2. OnlyWhole'
  BY <1>0 DEF OnlyWhole
<1>3. AllHandled'
  <2> DEFINE H == {handled[k].line : k \in (before + 1)..Len(handled)}
             E == {content[cur][i].line : i \in {j \in (from + 1)..Done : content[cur][j].end}}
             C == NeverTruncated /\ cur # NoInode /\ tail # "open"
             D == Done > from => content[cur][Done].end
  <2>1. H' = H /\ E' = E /\ (C' => C) /\ D' = D
    BY <1>0
  <2>2. C => H = E /\ D
    BY DEF AllHandled
  <2>3. (C => H = E /\ D)'
    BY <2>1, <2>2
  <2> QED BY <2>3 DEF AllHandled
<1> QED BY <1>1, <1>2, <1>3

LEMMA UnnameStep == LogInv /\ Unname => LogInv'
<1> SUFFICES ASSUME LogInv, Unname PROVE LogInv'
  OBVIOUS
<1>1. /\ UNCHANGED <<rotations, content, writer, line, tail, cur, spot, size, text, handled, from, before>>
      /\ entry # NoInode /\ entry' = NoInode /\ past' = past \cup {entry}
      /\ gone' \subseteq gone \cup {entry}
  BY DEF Unname, tailVars
<1>2. Midline' = Midline /\ Complete' = Complete /\ Done' = Done /\ NeverTruncated' = NeverTruncated
  BY <1>1 DEF Midline, Complete, Done, NeverTruncated
<1>3. TypeOK'
  BY <1>1, LogAssumption DEF LogInv, TypeOK
<1>4. WriterInv'
  BY <1>1 DEF LogInv, WriterInv
<1>5. ContentInv'
  BY <1>1, <1>2 DEF LogInv, ContentInv
<1>6. OrderInv'
  BY <1>1, <1>2 DEF LogInv, OrderInv, OnceInOrder, Rising
<1>7. TailInv'
  BY <1>1, <1>2 DEF LogInv, TailInv, ReadInv, Older, Shrunk
<1>8. WholeInv' /\ OnlyWhole' /\ AllHandled'
  BY <1>1, <1>2, WholeKept DEF LogInv, WholeInv
<1> QED BY <1>3, <1>4, <1>5, <1>6, <1>7, <1>8 DEF LogInv

LEMMA RecreateStep == LogInv /\ Recreate => LogInv'
<1> SUFFICES ASSUME LogInv, Recreate PROVE LogInv'
  OBVIOUS
<1>1. /\ UNCHANGED <<rotations, content, line, past, gone, tail, cur, spot, size, text, handled, from, before>>
      /\ entry = NoInode /\ ~Midline
      /\ entry' \in Inodes \ past /\ writer' = entry'
  BY DEF Recreate, tailVars
<1>2. content[entry'] = <<>> /\ entry' # NoInode
  BY <1>1, LogAssumption DEF LogInv, WriterInv
<1>3. ~Midline' /\ Complete' = Complete /\ Done' = Done /\ NeverTruncated' = NeverTruncated
  BY <1>1, <1>2 DEF Midline, Complete, Done, NeverTruncated
<1>4. TypeOK'
  BY <1>1, LogAssumption DEF LogInv, TypeOK
<1>5. WriterInv'
  BY <1>1, <1>2, LogAssumption DEF LogInv, WriterInv
<1>6. ContentInv'
  BY <1>1, <1>2, <1>3 DEF LogInv, ContentInv
<1>7. OrderInv'
  BY <1>1, <1>3 DEF LogInv, OrderInv, OnceInOrder, Rising
<1>8. TailInv'
  <2>1. Older(entry)' /\ DOMAIN content'[entry'] = {}
    BY <1>1, <1>2 DEF Older
  <2> QED BY <1>1, <1>3, <2>1 DEF LogInv, TailInv, ReadInv, Older, Shrunk
<1>9. WholeInv' /\ OnlyWhole' /\ AllHandled'
  BY <1>1, <1>3, WholeKept DEF LogInv, WholeInv
<1> QED BY <1>4, <1>5, <1>6, <1>7, <1>8, <1>9 DEF LogInv

LEMMA TruncateStep == LogInv /\ Truncate => LogInv'
<1> SUFFICES ASSUME LogInv, Truncate PROVE LogInv'
  OBVIOUS
<1>1. /\ UNCHANGED <<rotations, entry, past, gone, writer, line, tail, cur, spot, size, text, handled, from, before>>
      /\ entry # NoInode /\ ~Midline /\ ~NeverTruncated /\ ~NeverTruncated'
      /\ content' = [content EXCEPT ![entry] = <<>>]
  BY DEF Truncate, tailVars, NeverTruncated
<1>2. /\ entry \in Inodes /\ writer = entry
      /\ content' \in [Inodes -> Seq(Unit)]
      /\ \A p \in Inodes : content'[p] = IF p = entry THEN <<>> ELSE content[p]
  BY <1>1 DEF LogInv, TypeOK, WriterInv
<1>3. ~Midline' /\ Complete' = Complete /\ Done' = Done
  BY <1>1, <1>2 DEF Midline, Complete, Done
<1>4. TypeOK'
  BY <1>1, <1>2 DEF LogInv, TypeOK, NeverTruncated
<1>5. WriterInv'
  BY <1>1, <1>2 DEF LogInv, WriterInv
<1>6. Paired(<<>>) /\ Rising(<<>>) /\ Len(<<>>) = 0 /\ DOMAIN <<>> = {}
  BY DEF Paired, Rising
<1>7. ContentInv'
  <2>1. \A p \in Inodes : Paired(content'[p]) /\ Rising(content'[p])
    BY <1>2, <1>6 DEF LogInv, ContentInv
  <2>2. \A p \in Inodes : \A k \in DOMAIN content'[p] :
          content'[p][k].line <= line /\ (content'[p][k].end => content'[p][k].line <= Complete)
    BY <1>2, <1>6 DEF LogInv, ContentInv
  <2>3. \A p \in Inodes : Len(content'[p]) <= 2 * line
    BY <1>2, <1>6, LogAssumption DEF LogInv, ContentInv, TypeOK
  <2> QED BY <1>1, <1>2, <1>3, <1>6, <2>1, <2>2, <2>3 DEF ContentInv
<1>8. OrderInv'
  BY <1>1, <1>3 DEF LogInv, OrderInv, OnceInOrder, Rising
<1>9. TailInv'
  <2>1. Older(entry)' /\ DOMAIN content'[entry] = {}
    BY <1>1, <1>2, <1>6 DEF Older
  <2>2. CASE cur = entry
    BY <1>1, <1>3, <2>1, <2>2 DEF LogInv, TailInv, ReadInv, Older, WriterInv
  <2>3. CASE cur # entry /\ cur # NoInode
    <3>1. cur \in Inodes /\ content'[cur] = content[cur]
      BY <1>2, <2>3 DEF LogInv, TypeOK
    <3> QED BY <1>1, <1>3, <2>1, <2>3, <3>1 DEF LogInv, TailInv, ReadInv, Older, Shrunk
  <2>4. CASE cur = NoInode
    BY <1>1, <2>4 DEF LogInv, TailInv
  <2> QED BY <2>2, <2>3, <2>4
<1>10. WholeInv' /\ OnlyWhole' /\ AllHandled'
  BY <1>1 DEF WholeInv, OnlyWhole, AllHandled
<1> QED BY <1>4, <1>5, <1>7, <1>8, <1>9, <1>10 DEF LogInv

-----------------------------------------------------------------------------
(* The tail thread.                                                            *)

LEMMA FilesKept ==
  ASSUME LogInv, UNCHANGED fileVars
  PROVE  /\ WriterInv' /\ ContentInv' /\ Complete' = Complete /\ NeverTruncated' = NeverTruncated
         /\ UNCHANGED <<rotations, entry, past, gone, content, writer, line>>
<1>1. UNCHANGED <<rotations, entry, past, gone, content, writer, line>>
  BY DEF fileVars
<1>2. Midline' = Midline
  BY <1>1 DEF Midline
<1>3. Complete' = Complete /\ NeverTruncated' = NeverTruncated
  BY <1>1, <1>2 DEF Complete, NeverTruncated
<1>4. WriterInv'
  BY <1>1 DEF LogInv, WriterInv
<1>5. ContentInv'
  BY <1>1, <1>2, <1>3 DEF LogInv, ContentInv
<1> QED BY <1>1, <1>3, <1>4, <1>5

\* What a step that does not handle anything leaves of what is in order.
LEMMA OrderKept ==
  ASSUME LogInv, UNCHANGED <<fileVars, text, handled>>
  PROVE  OrderInv'
BY FilesKept DEF LogInv, OrderInv, OnceInOrder, Rising

\* No file is longer than all that was written.
LEMMA Lengths ==
  ASSUME LogInv, NEW p \in Inodes
  PROVE  Len(content[p]) \in 0..(2 * MaxLine)
BY Numbers, LogAssumption DEF LogInv, ContentInv, TypeOK

LEMMA OpenStep == LogInv /\ Open => LogInv'
<1> SUFFICES ASSUME LogInv, Open PROVE LogInv'
  OBVIOUS
<1>1. /\ UNCHANGED <<fileVars, size, text, handled, before>>
      /\ tail = "open" /\ tail' = "poll" /\ entry # NoInode /\ cur' = entry
      /\ spot' = Len(content[entry]) /\ from' = Len(content[entry])
  BY DEF Open
<1>2. /\ UNCHANGED <<rotations, entry, past, gone, content, writer, line>>
      /\ WriterInv' /\ ContentInv' /\ NeverTruncated' = NeverTruncated
  BY <1>1, FilesKept
<1>3. /\ handled = <<>> /\ text = <<>> /\ before = 0 /\ entry \in Inodes /\ entry \notin past
      /\ spot' \in 0..(2 * MaxLine) /\ from' = spot' /\ Done' = spot'
      /\ Len(handled) = 0 /\ DOMAIN handled = {} /\ Len(text) = 0 /\ DOMAIN text = {}
  <2>1. handled = <<>> /\ text = <<>>
    BY <1>1 DEF LogInv, TailInv
  <2>2. Len(handled) = 0 /\ DOMAIN handled = {} /\ Len(text) = 0 /\ DOMAIN text = {}
    BY <2>1
  <2>3. before = 0 /\ entry \in Inodes /\ entry \notin past
    BY <1>1, <2>2 DEF LogInv, TypeOK
  <2>4. spot' \in 0..(2 * MaxLine)
    BY <1>1, <2>3, Lengths
  <2> QED BY <1>1, <2>1, <2>2, <2>3, <2>4 DEF Done
<1>4. TypeOK'
  BY <1>1, <1>2, <1>3, LogAssumption DEF LogInv, TypeOK, Ends, Places
<1>5. OrderInv'
  BY <1>1, OrderKept
<1>6. TailInv'
  BY <1>1, <1>2, <1>3 DEF TailInv, ReadInv, Older, Shrunk
<1>7. WholeInv'
  BY <1>1, <1>3 DEF WholeInv
<1>8. OnlyWhole'
  BY <1>1, <1>3 DEF OnlyWhole
<1>9. AllHandled'
  <2>1. (before + 1)..Len(handled) = {} /\ (from' + 1)..Done' = {} /\ ~(Done' > from')
    <3>1. \A n \in Nat : (n + 1)..n = {} /\ ~(n > n)
      OBVIOUS
    <3>2. spot' \in Nat
      BY <1>3, LogAssumption
    <3> QED BY <1>3, <3>1, <3>2
  <2>2. {j \in (from' + 1)..Done' : content'[cur'][j].end} = {}
    BY <2>1
  <2>3. {handled'[k].line : k \in (before' + 1)..Len(handled')} = {}
    BY <1>1, <2>1
  <2> QED BY <2>1, <2>2, <2>3 DEF AllHandled
<1> QED BY <1>2, <1>4, <1>5, <1>6, <1>7, <1>8, <1>9 DEF LogInv

LEMMA PollStep == LogInv /\ Poll => LogInv'
<1> SUFFICES ASSUME LogInv, Poll PROVE LogInv'
  OBVIOUS
<1>1. /\ UNCHANGED <<fileVars, cur, spot, text, handled, from, before>>
      /\ tail = "poll" /\ tail' = "stat" /\ size' = Len(content[cur])
  BY DEF Poll
<1>2. /\ UNCHANGED <<rotations, entry, past, gone, content, writer, line>>
      /\ WriterInv' /\ ContentInv' /\ NeverTruncated' = NeverTruncated
  BY <1>1, FilesKept
<1>3. cur \in Inodes /\ size' \in 0..(2 * MaxLine) /\ Done' = Done
  BY <1>1, Lengths DEF LogInv, TypeOK, Ends, Done
<1>4. TypeOK'
  BY <1>1, <1>2, <1>3 DEF LogInv, TypeOK, Ends, Places
<1>5. OrderInv'
  BY <1>1, OrderKept
<1>6. TailInv'
  BY <1>1, <1>2, <1>3 DEF LogInv, TailInv, ReadInv, Older, Shrunk
<1>7. WholeInv' /\ OnlyWhole' /\ AllHandled'
  BY <1>1, <1>2, <1>3, WholeKept DEF LogInv, WholeInv
<1> QED BY <1>2, <1>4, <1>5, <1>6, <1>7 DEF LogInv

LEMMA StatStep == LogInv /\ Stat => LogInv'
<1> SUFFICES ASSUME LogInv, Stat PROVE LogInv'
  OBVIOUS
<1>1. /\ UNCHANGED <<fileVars, cur, spot, size, text, handled, from, before>>
      /\ tail = "stat" /\ tail' \in {"dead", "reopen", "read", "poll"}
      /\ tail' = "reopen" => Moved
  BY DEF Stat
<1>2. /\ UNCHANGED <<rotations, entry, past, gone, content, writer, line>>
      /\ WriterInv' /\ ContentInv' /\ NeverTruncated' = NeverTruncated
  BY <1>1, FilesKept
<1>3. Done' = Done /\ cur \in Inodes /\ text = <<>> /\ cur # NoInode
  BY <1>1, LogAssumption DEF LogInv, TypeOK, TailInv, Ends, Done
<1>4. TypeOK'
  BY <1>1, <1>2, <1>3 DEF LogInv, TypeOK, Ends, Places
<1>5. OrderInv'
  BY <1>1, OrderKept
<1>6. TailInv'
  <2>1. tail' = "reopen" => cur \in past \/ spot > size
    BY <1>1, <1>3 DEF Moved, LogInv, TailInv, TypeOK
  <2> QED BY <1>1, <1>2, <1>3, <2>1 DEF LogInv, TailInv, ReadInv, Older, Shrunk
<1>7. WholeInv' /\ OnlyWhole' /\ AllHandled'
  BY <1>1, <1>2, <1>3, WholeKept DEF LogInv, WholeInv
<1> QED BY <1>2, <1>4, <1>5, <1>6, <1>7 DEF LogInv

LEMMA ReopenStep == LogInv /\ Reopen => LogInv'
<1> SUFFICES ASSUME LogInv, Reopen PROVE LogInv'
  OBVIOUS
<1>1. /\ UNCHANGED <<fileVars, size, text, handled>>
      /\ tail = "reopen" /\ tail' = "poll"
  BY DEF Reopen
<1>2. /\ UNCHANGED <<rotations, entry, past, gone, content, writer, line>>
      /\ WriterInv' /\ ContentInv' /\ NeverTruncated' = NeverTruncated
  BY <1>1, FilesKept
<1>3. cur \in Inodes /\ text = <<>> /\ cur # NoInode /\ OrderInv' /\ Len(text) = 0 /\ DOMAIN text = {}
  BY <1>1, OrderKept, LogAssumption DEF LogInv, TypeOK, TailInv, Ends
<1>4. CASE entry = NoInode
  <2>1. UNCHANGED <<cur, spot, from, before>>
    BY <1>4 DEF Reopen
  <2>2. Done' = Done
    BY <1>1, <2>1 DEF Done
  <2>3. TypeOK'
    BY <1>1, <1>2, <1>3, <2>1 DEF LogInv, TypeOK, Ends, Places
  <2>4. TailInv'
    BY <1>1, <1>2, <1>3, <2>1, <2>2 DEF LogInv, TailInv, ReadInv, Older, Shrunk
  <2>5. WholeInv' /\ OnlyWhole' /\ AllHandled'
    BY <1>1, <1>2, <2>1, <2>2, WholeKept DEF LogInv, WholeInv
  <2> QED BY <1>2, <1>3, <2>3, <2>4, <2>5 DEF LogInv
<1>5. CASE entry # NoInode
  <2>1. cur' = entry /\ spot' = 0 /\ from' = 0 /\ before' = Len(handled)
    BY <1>5 DEF Reopen
  <2>2. Done' = 0 /\ entry \in Inodes /\ entry \notin past /\ Len(handled) \in Nat
        /\ Len(content[entry]) \in Nat
    <3>1. entry \in Inodes /\ entry \notin past
      BY <1>5 DEF LogInv, TypeOK
    <3>2. Done' = 0
      <4>1. Len(text') = 0 /\ spot' = 0
        BY <1>1, <1>3, <2>1
      <4> QED BY <4>1 DEF Done
    <3>3. Len(handled) \in Nat /\ Len(content[entry]) \in Nat
      BY <3>1, Numbers DEF LogInv
    <3> QED BY <3>1, <3>2, <3>3
  <2>3. Older(entry)
    <3>1. CASE cur \in past
      BY <1>3, <1>5, <3>1 DEF LogInv, TailInv
    <3>2. CASE cur \notin past
      <4>1. cur = entry /\ Shrunk
        BY <1>1, <1>3, <3>2 DEF LogInv, TailInv, Shrunk
      <4> QED BY <1>3, <4>1 DEF LogInv, TailInv
    <3> QED BY <3>1, <3>2
  <2>4. TypeOK'
    BY <1>1, <1>2, <2>1, <2>2, LogAssumption DEF LogInv, TypeOK, Ends, Places
  <2>5. TailInv'
    <3>1. ~Shrunk'
      BY <1>1, <1>2, <2>1, <2>2 DEF Shrunk
    <3> QED BY <1>1, <1>2, <1>3, <1>5, <2>1, <2>2, <2>3, <3>1 DEF TailInv, ReadInv, Older
  <2>6. WholeInv'
    BY <1>1, <1>3, <2>1, <2>2 DEF WholeInv
  <2>7. OnlyWhole'
    BY <1>1, <1>2 DEF LogInv, OnlyWhole
  <2>8. AllHandled'
    <3>1. (before' + 1)..Len(handled) = {} /\ (from' + 1)..Done' = {} /\ ~(Done' > from')
      BY <2>1, <2>2
    <3>2. {j \in (from' + 1)..Done' : content'[cur'][j].end} = {}
      BY <3>1
    <3>3. {handled'[k].line : k \in (before' + 1)..Len(handled')} = {}
      BY <1>1, <3>1
    <3> QED BY <3>1, <3>2, <3>3 DEF AllHandled
  <2> QED BY <1>2, <1>3, <2>4, <2>5, <2>6, <2>7, <2>8 DEF LogInv
<1> QED BY <1>4, <1>5

LEMMA ReadStep == LogInv /\ Read => LogInv'
<1> SUFFICES ASSUME LogInv, Read PROVE LogInv'
  OBVIOUS
<1> DEFINE s == content[cur]
           m == Min({size, Len(s)})
<1>1. /\ UNCHANGED <<fileVars, cur, size, handled, from, before>>
      /\ tail = "read" /\ tail' = "split"
      /\ text' = SubSeq(s, spot + 1, m) /\ spot' = spot + Len(text')
  BY DEF Read
<1>2. /\ UNCHANGED <<rotations, entry, past, gone, content, writer, line>>
      /\ WriterInv' /\ ContentInv' /\ NeverTruncated' = NeverTruncated /\ Complete' = Complete
  BY <1>1, FilesKept
<1>3. /\ cur \in Inodes /\ cur # NoInode /\ text = <<>> /\ s \in Seq(Unit) /\ Len(s) \in 0..(2 * MaxLine)
      /\ spot \in Nat /\ size \in Nat /\ 2 * MaxLine \in Nat
  <2>1. cur \in Inodes /\ text = <<>> /\ cur # NoInode
    BY <1>1, LogAssumption DEF LogInv, TypeOK, TailInv, Ends
  <2>2. s \in Seq(Unit) /\ Len(s) \in 0..(2 * MaxLine)
    BY <2>1, Lengths, Numbers DEF LogInv
  <2> QED BY <2>1, <2>2, Numbers, LogAssumption DEF LogInv
<1>4. m \in Nat /\ m <= Len(s)
  <2> HIDE DEF s
  <2> QED BY <1>3, MinOfTwo
<1>5. /\ text' \in Seq(Unit)
      /\ Len(text') = IF spot < m THEN m - spot ELSE 0
      /\ \A k \in DOMAIN text' : spot + k \in DOMAIN s /\ text'[k] = s[spot + k]
      /\ DOMAIN text' = 1..Len(text')
  <2> HIDE DEF s, m
  <2> QED BY <1>1, <1>3, <1>4, Sub
<1> HIDE DEF m
<1>6. Done = spot /\ Done' = spot
  <2>1. Len(text) = 0
    BY <1>3
  <2>2. Len(text') \in Nat
    BY <1>3, <1>4, <1>5
  <2> QED BY <1>1, <1>3, <2>1, <2>2 DEF Done
<1>7. spot' \in 0..(2 * MaxLine) /\ (spot' <= Len(s) \/ spot' = spot) /\ Len(text') <= spot' /\ Len(text') \in Nat
  <2>1. spot <= 2 * MaxLine
    BY DEF LogInv, TypeOK
  <2> QED BY <1>1, <1>3, <1>4, <1>5, <2>1
<1>8. TypeOK'
  <2>1. "truncate" \notin rotations /\ cur # NoInode => spot' <= Len(s)
    BY <1>7 DEF LogInv, TypeOK
  <2> QED BY <1>1, <1>2, <1>3, <1>5, <1>7, <2>1 DEF LogInv, TypeOK, Ends, Places
<1>9. DOMAIN s = 1..Len(s) /\ \A k \in DOMAIN s : s[k].line \in Nat
  BY <1>3, Numbers DEF LogInv
<1>10. OrderInv'
  <2>1. Rising(text')
    <3>1. Rising(s)
      BY <1>3 DEF LogInv, ContentInv
    <3>2. \A j, k \in DOMAIN text' : j < k => spot + j < spot + k
      BY <1>3, <1>5, <1>7
    <3> HIDE DEF s
    <3> QED BY <1>5, <3>1, <3>2 DEF Rising
  <2>2. \A i \in DOMAIN text' : text'[i].line <= line /\ (text'[i].end => text'[i].line <= Complete)
    BY <1>3, <1>5 DEF LogInv, ContentInv
  <2>3. \A k \in DOMAIN handled, i \in DOMAIN text' : handled[k].line < text'[i].line
    <3>1. \A i \in DOMAIN text' : spot + i > Done
      BY <1>3, <1>5, <1>6, <1>7
    <3> QED BY <1>3, <1>5, <3>1 DEF LogInv, TailInv
  <2> QED BY <1>1, <1>2, <2>1, <2>2, <2>3 DEF LogInv, OrderInv, OnceInOrder
<1>11. TailInv'
  <2>1. ReadInv'
    BY <1>1, <1>2, <1>5, <1>6 DEF ReadInv
  <2>2. Shrunk' => Older(cur)'
    <3>1. Shrunk' => Shrunk
      <4> SUFFICES ASSUME Shrunk' PROVE Shrunk
        OBVIOUS
      <4>1. spot' > Len(s)
        BY <1>1, <1>2 DEF Shrunk
      <4>2. spot' = spot
        <5> HIDE DEF s
        <5> QED BY <1>3, <1>7, <4>1
      <4> QED BY <4>1, <4>2 DEF Shrunk
    <3> QED BY <1>1, <1>2, <1>3, <3>1 DEF LogInv, TailInv, Older
  <2>3. ASSUME entry' # NoInode, cur' \in past'
        PROVE  /\ Older(entry)'
               /\ \A i \in DOMAIN text', j \in DOMAIN content'[entry'] : text'[i].line < content'[entry'][j].line
    <3>1. Older(entry)'
      BY <1>1, <1>2, <1>3, <2>3 DEF LogInv, TailInv, Older
    <3>2. \A i \in DOMAIN s, j \in DOMAIN content[entry] : s[i].line < content[entry][j].line
      BY <1>1, <1>2, <2>3 DEF LogInv, ContentInv
    <3> QED BY <1>1, <1>2, <1>5, <3>1, <3>2
  <2>4. \A k \in DOMAIN handled, j \in DOMAIN s : j > Done' => handled[k].line < s[j].line
    BY <1>3, <1>6 DEF LogInv, TailInv
  <2>5. cur' \in past' \cup {entry'}
    BY <1>1, <1>2, <1>3 DEF LogInv, TailInv
  <2> QED BY <1>1, <1>2, <1>3, <1>7, <2>1, <2>2, <2>3, <2>4, <2>5 DEF TailInv
<1>12. WholeInv' /\ OnlyWhole' /\ AllHandled'
  BY <1>1, <1>2, <1>5, <1>6, WholeKept DEF LogInv
<1> QED BY <1>2, <1>8, <1>10, <1>11, <1>12 DEF LogInv

LEMMA RejectStep == LogInv /\ RejectLine => LogInv'
<1> SUFFICES ASSUME LogInv, RejectLine PROVE LogInv'
  OBVIOUS
<1>1. /\ UNCHANGED <<fileVars, cur, spot, size, text, handled, from, before>>
      /\ tail = "split" /\ tail' = "failed"
  BY DEF RejectLine
<1>2. /\ UNCHANGED <<rotations, entry, past, gone, content, writer, line>>
      /\ WriterInv' /\ ContentInv' /\ NeverTruncated' = NeverTruncated
  BY <1>1, FilesKept
<1>3. Done' = Done /\ cur \in Inodes /\ cur # NoInode
  BY <1>1, LogAssumption DEF LogInv, TypeOK, TailInv, Ends, Done
<1>4. TypeOK'
  BY <1>1, <1>2, <1>3 DEF LogInv, TypeOK, Ends, Places
<1>5. OrderInv'
  BY <1>1, OrderKept
<1>6. TailInv'
  BY <1>1, <1>2, <1>3 DEF LogInv, TailInv, ReadInv, Older, Shrunk
<1>7. WholeInv' /\ OnlyWhole' /\ AllHandled'
  BY <1>1, <1>2, <1>3, WholeKept DEF LogInv, WholeInv
<1> QED BY <1>2, <1>4, <1>5, <1>6, <1>7 DEF LogInv

LEMMA SeekStep == LogInv /\ SeekBack => LogInv'
<1> SUFFICES ASSUME LogInv, SeekBack PROVE LogInv'
  OBVIOUS
<1>1. /\ UNCHANGED <<fileVars, cur, size, handled, from, before>>
      /\ tail = "split" /\ tail' = "poll" /\ spot' = spot - Len(text) /\ text' = <<>>
  BY DEF SeekBack
<1>2. /\ UNCHANGED <<rotations, entry, past, gone, content, writer, line>>
      /\ WriterInv' /\ ContentInv' /\ NeverTruncated' = NeverTruncated /\ Complete' = Complete
  BY <1>1, FilesKept
<1>3. cur \in Inodes /\ cur # NoInode /\ DOMAIN text' = {} /\ Len(text') = 0
  BY <1>1, LogAssumption DEF LogInv, TypeOK, TailInv, Ends
<1>4. /\ spot' \in Nat /\ spot' <= spot /\ spot \in Nat /\ Len(text) \in Nat
      /\ size \in Nat /\ Len(content[cur]) \in Nat
  <2>1. spot \in Nat /\ size \in Nat /\ Len(text) \in Nat /\ Len(text) <= spot /\ Len(content[cur]) \in Nat
    BY <1>3, Numbers DEF LogInv, TailInv
  <2> QED BY <1>1, <2>1
<1>5. Done' = Done
  BY <1>1, <1>3, <1>4 DEF Done
<1>6. TypeOK'
  <2>1. spot' \in 0..(2 * MaxLine)
    BY <1>4, LogAssumption DEF LogInv, TypeOK
  <2>2. "truncate" \notin rotations /\ cur # NoInode => spot' <= Len(content[cur])
    BY <1>4 DEF LogInv, TypeOK
  <2> QED BY <1>1, <1>2, <1>3, <2>1, <2>2 DEF LogInv, TypeOK, Ends, Places
<1>7. OrderInv'
  BY <1>1, <1>2, <1>3 DEF LogInv, OrderInv, OnceInOrder, Rising
<1>8. TailInv'
  <2>1. Shrunk' => Shrunk
    BY <1>1, <1>2, <1>4 DEF Shrunk
  <2> QED BY <1>1, <1>2, <1>3, <1>4, <1>5, <2>1 DEF LogInv, TailInv, ReadInv, Older
<1>9. WholeInv' /\ OnlyWhole' /\ AllHandled'
  BY <1>1, <1>2, <1>3, <1>5, WholeKept DEF LogInv
<1> QED BY <1>2, <1>6, <1>7, <1>8, <1>9 DEF LogInv

\* A line that is handled, in terms of where it was in the text.
LEMMA HandledNow ==
  ASSUME LogInv, HandleLine
  PROVE  /\ UNCHANGED <<fileVars, tail, cur, spot, size, from, before>>
         /\ tail = "split" /\ cur \in Inodes /\ cur # NoInode
         /\ \E i \in DOMAIN text :
              /\ text[i].end /\ \A j \in 1..(i - 1) : ~text[j].end
              /\ i \in Nat /\ i >= 1 /\ i <= Len(text) /\ text[i] \in Unit
              /\ handled' = Append(handled, [line |-> text[i].line,
                                            whole |-> i > 1 /\ text[i - 1].line = text[i].line])
              /\ handled' \in Seq(Handled) /\ Len(handled') = Len(handled) + 1
              /\ DOMAIN handled' = 1..(Len(handled) + 1)
              /\ \A k \in DOMAIN handled : handled'[k] = handled[k]
              /\ handled'[Len(handled) + 1] = [line |-> text[i].line,
                                              whole |-> i > 1 /\ text[i - 1].line = text[i].line]
              /\ handled'[Len(handled) + 1].line = text[i].line
              /\ text' \in Seq(Unit) /\ Len(text') = Len(text) - i /\ DOMAIN text' = 1..Len(text')
              /\ \A k \in DOMAIN text' : i + k \in DOMAIN text /\ text'[k] = text[i + k]
              /\ Done' = Done + i
<1>1. /\ UNCHANGED <<fileVars, tail, cur, spot, size, from, before>> /\ tail = "split"
      /\ cur \in Inodes /\ cur # NoInode
  BY LogAssumption DEF HandleLine, LogInv, TypeOK, Ends
<1>2. PICK i \in DOMAIN text :
        /\ FirstEnd(i)
        /\ handled' = Append(handled, [line |-> text[i].line,
                                      whole |-> i > 1 /\ text[i - 1].line = text[i].line])
        /\ text' = SubSeq(text, i + 1, Len(text))
  BY DEF HandleLine
<1> DEFINE h == [line |-> text[i].line, whole |-> i > 1 /\ text[i - 1].line = text[i].line]
<1>3. /\ text \in Seq(Unit) /\ Len(text) \in Nat /\ DOMAIN text = 1..Len(text)
      /\ handled \in Seq(Handled) /\ Len(handled) \in Nat /\ DOMAIN handled = 1..Len(handled)
      /\ spot \in Nat
  BY Numbers DEF LogInv, TypeOK
<1>4. i \in Nat /\ i >= 1 /\ i <= Len(text) /\ text[i] \in Unit
  BY <1>3
<1>5. h \in Handled
  BY <1>4 DEF Unit, Handled
<1>6. /\ handled' \in Seq(Handled) /\ Len(handled') = Len(handled) + 1
      /\ DOMAIN handled' = 1..(Len(handled) + 1)
      /\ \A k \in DOMAIN handled : handled'[k] = handled[k]
      /\ handled'[Len(handled) + 1] = h /\ h.line = text[i].line
  <2>1. handled' = Append(handled, h)
    BY <1>2
  <2>2. h.line = text[i].line
    OBVIOUS
  <2> HIDE DEF h
  <2> QED BY <1>3, <1>5, <2>1, <2>2, Appended
<1>7. /\ text' \in Seq(Unit)
      /\ Len(text') = IF i < Len(text) THEN Len(text) - i ELSE 0
      /\ \A k \in DOMAIN text' : i + k \in DOMAIN text /\ text'[k] = text[i + k]
      /\ DOMAIN text' = 1..Len(text')
  <2> DEFINE n == Len(text)
  <2>0. text \in Seq(Unit) /\ i \in Nat
    BY <1>3, <1>4
  <2>1. text' = SubSeq(text, i + 1, n) /\ n \in Nat /\ n <= Len(text)
    BY <1>2, <1>3
  <2> HIDE DEF n, h
  <2>2. /\ SubSeq(text, i + 1, n) \in Seq(Unit)
        /\ Len(SubSeq(text, i + 1, n)) = IF i < n THEN n - i ELSE 0
        /\ \A k \in DOMAIN SubSeq(text, i + 1, n) : i + k \in DOMAIN text /\ SubSeq(text, i + 1, n)[k] = text[i + k]
        /\ DOMAIN SubSeq(text, i + 1, n) = 1..Len(SubSeq(text, i + 1, n))
    BY <2>0, <2>1, Sub
  <2> QED BY <2>1, <2>2 DEF n
<1>8. Len(text') = Len(text) - i
  BY <1>3, <1>4, <1>7
<1>9. Done' = Done + i
  <2>1. spot' = spot
    BY <1>1
  <2> QED BY <1>3, <1>4, <1>8, <2>1 DEF Done
<1>10. text[i].end /\ \A j \in 1..(i - 1) : ~text[j].end
  BY <1>2 DEF FirstEnd
<1> QED BY <1>1, <1>2, <1>4, <1>6, <1>7, <1>8, <1>9, <1>10

LEMMA HandleOrder == LogInv /\ HandleLine => TypeOK' /\ OrderInv' /\ TailInv'
<1> SUFFICES ASSUME LogInv, HandleLine PROVE TypeOK' /\ OrderInv' /\ TailInv'
  OBVIOUS
<1>1. /\ UNCHANGED <<fileVars, tail, cur, spot, size, from, before>>
      /\ tail = "split" /\ cur \in Inodes /\ cur # NoInode
  BY HandledNow
<1>2. PICK i \in DOMAIN text :
        /\ text[i].end
        /\ i \in Nat /\ i >= 1 /\ i <= Len(text)
        /\ handled' \in Seq(Handled) /\ Len(handled') = Len(handled) + 1
        /\ DOMAIN handled' = 1..(Len(handled) + 1)
        /\ \A k \in DOMAIN handled : handled'[k] = handled[k]
        /\ handled'[Len(handled) + 1].line = text[i].line
        /\ text' \in Seq(Unit) /\ Len(text') = Len(text) - i /\ DOMAIN text' = 1..Len(text')
        /\ \A k \in DOMAIN text' : i + k \in DOMAIN text /\ text'[k] = text[i + k]
        /\ Done' = Done + i
  BY HandledNow
<1>3. /\ UNCHANGED <<rotations, entry, past, gone, content, writer, line>>
      /\ NeverTruncated' = NeverTruncated /\ Complete' = Complete
  BY <1>1, FilesKept
<1>4. /\ Len(text) \in Nat /\ DOMAIN text = 1..Len(text)
      /\ \A k \in DOMAIN text : text[k].line \in Nat
      /\ Len(handled) \in Nat /\ DOMAIN handled = 1..Len(handled)
      /\ \A k \in DOMAIN handled : handled[k].line \in Nat
      /\ spot \in Nat /\ Len(text) <= spot
      /\ Len(content[cur]) \in Nat /\ DOMAIN content[cur] = 1..Len(content[cur])
      /\ \A k \in DOMAIN content[cur] : content[cur][k].line \in Nat
      /\ Done \in Nat
  <2>1. Len(text) \in Nat /\ spot \in Nat /\ Len(text) <= spot
    BY Numbers DEF LogInv, TailInv
  <2>2. Done \in Nat
    BY <2>1 DEF Done
  <2> QED BY <1>1, <2>1, <2>2, Numbers DEF LogInv
<1>5. TypeOK'
  <2>1. before' \in 0..Len(handled')
    <3>1. before \in 0..Len(handled)
      BY DEF LogInv, TypeOK
    <3> QED BY <1>1, <1>2, <1>4, <3>1
  <2>2. TypeOK
    BY DEF LogInv
  <2> QED BY <1>1, <1>2, <1>3, <2>1, <2>2 DEF TypeOK
<1>6. ASSUME NEW k \in DOMAIN handled'
      PROVE  \/ k \in DOMAIN handled /\ handled'[k] = handled[k]
             \/ k = Len(handled) + 1 /\ handled'[k].line = text[i].line
  BY <1>2, <1>4, <1>6
<1>7. \A k \in DOMAIN text' : i + k > i /\ i + k \in DOMAIN text /\ text'[k] = text[i + k]
                              /\ text[i].line < text[i + k].line
  <2>1. \A k \in DOMAIN text' : k \in Nat /\ k >= 1
    BY <1>2
  <2> QED BY <1>2, <1>4, <2>1 DEF LogInv, OrderInv, Rising
<1>8. OrderInv'
  <2>1. OnceInOrder'
    <3> SUFFICES ASSUME NEW k \in DOMAIN handled', NEW j \in DOMAIN handled', k < j
                 PROVE  handled'[k].line < handled'[j].line
      BY DEF OnceInOrder
    <3>1. k \in DOMAIN handled /\ handled'[k] = handled[k]
      BY <1>2, <1>4
    <3>2. CASE j \in DOMAIN handled
      BY <1>2, <3>1, <3>2 DEF LogInv, OrderInv, OnceInOrder
    <3>3. CASE handled'[j].line = text[i].line
      BY <1>2, <3>1, <3>3 DEF LogInv, OrderInv
    <3> QED BY <1>6, <3>2, <3>3
  <2>2. \A k \in DOMAIN handled' : handled'[k].line <= Complete'
    BY <1>2, <1>3, <1>6 DEF LogInv, OrderInv
  <2>3. Rising(text')
    <3> SUFFICES ASSUME NEW j \in DOMAIN text', NEW k \in DOMAIN text', j < k, text'[j].end
                 PROVE  text'[j].line < text'[k].line
      BY DEF Rising
    <3>1. i + j < i + k
      BY <1>2
    <3> QED BY <1>7, <3>1 DEF LogInv, OrderInv, Rising
  <2>4. \A k \in DOMAIN text' : text'[k].line <= line' /\ (text'[k].end => text'[k].line <= Complete')
    BY <1>3, <1>7 DEF LogInv, OrderInv
  <2>5. \A k \in DOMAIN handled', j \in DOMAIN text' : handled'[k].line < text'[j].line
    BY <1>6, <1>7 DEF LogInv, OrderInv
  <2> QED BY <2>1, <2>2, <2>3, <2>4, <2>5 DEF OrderInv
<1>9. TailInv'
  <2>1. ReadInv
    BY <1>1 DEF LogInv, TailInv
  <2>2. ReadInv'
    <3>1. CASE \A k \in DOMAIN text : Done + k \in DOMAIN content[cur] /\ text[k] = content[cur][Done + k]
      <4>1. \A k \in DOMAIN text' : Done' + k \in DOMAIN content[cur] /\ text'[k] = content[cur][Done' + k]
        <5> TAKE k \in DOMAIN text'
        <5>1. Done' + k = Done + (i + k)
          BY <1>2, <1>4
        <5> QED BY <1>7, <3>1, <5>1
      <4> QED BY <1>1, <1>3, <4>1 DEF ReadInv
    <3>2. CASE \A k \in DOMAIN text, j \in DOMAIN content[cur] : text[k].line < content[cur][j].line
      BY <1>1, <1>3, <1>7, <3>2 DEF ReadInv
    <3> QED BY <2>1, <3>1, <3>2 DEF ReadInv
  <2>3. ASSUME NEW j \in DOMAIN content[cur], j > Done' PROVE text[i].line < content[cur][j].line
    <3>1. CASE Done + i \in DOMAIN content[cur] /\ text[i] = content[cur][Done + i]
      <4>1. Rising(content[cur])
        BY <1>1 DEF LogInv, ContentInv
      <4> QED BY <1>2, <2>3, <3>1, <4>1 DEF Rising
    <3> QED BY <2>1, <3>1 DEF ReadInv
  <2>4. \A k \in DOMAIN handled', j \in DOMAIN content[cur] : j > Done' => handled'[k].line < content[cur][j].line
    <3>1. \A j \in DOMAIN content[cur] : j > Done' => j > Done
      BY <1>2, <1>4
    <3>2. \A k \in DOMAIN handled, j \in DOMAIN content[cur] : j > Done => handled[k].line < content[cur][j].line
      BY <1>1 DEF LogInv, TailInv
    <3> QED BY <1>6, <2>3, <3>1, <3>2
  <2>5. Shrunk' => Older(cur)'
    <3> SUFFICES ASSUME Shrunk' PROVE Older(cur)'
      OBVIOUS
    <3>1. spot > Len(content[cur]) /\ Shrunk
      BY <1>1, <1>3 DEF Shrunk
    <3>2. \A j \in DOMAIN content[cur] : text[i].line < content[cur][j].line
      <4>1. ~ \A k \in DOMAIN text : Done + k \in DOMAIN content[cur] /\ text[k] = content[cur][Done + k]
        <5>1. Len(text) \in DOMAIN text /\ Done + Len(text) = spot
          BY <1>2, <1>4 DEF Done
        <5>2. spot \notin DOMAIN content[cur]
          BY <1>4, <3>1
        <5> QED BY <5>1, <5>2
      <4> QED BY <2>1, <4>1 DEF ReadInv
    <3>3. Older(cur)
      BY <1>1, <3>1 DEF LogInv, TailInv
    <3>4. \A k \in DOMAIN handled', j \in DOMAIN content[cur] : handled'[k].line < content[cur][j].line
      BY <1>6, <3>2, <3>3 DEF Older
    <3> QED BY <1>1, <1>3, <3>4 DEF Older
  <2>6. ASSUME entry' # NoInode, cur' \in past'
        PROVE  /\ Older(entry)'
               /\ \A k \in DOMAIN text', j \in DOMAIN content'[entry'] : text'[k].line < content'[entry'][j].line
    <3>1. /\ Older(entry)
          /\ \A k \in DOMAIN text, j \in DOMAIN content[entry] : text[k].line < content[entry][j].line
      BY <1>1, <1>3, <2>6 DEF LogInv, TailInv
    <3>2. \A k \in DOMAIN handled', j \in DOMAIN content[entry] : handled'[k].line < content[entry][j].line
      BY <1>6, <3>1 DEF Older
    <3>3. Older(entry)'
      BY <1>3, <3>2 DEF Older
    <3> QED BY <1>3, <1>7, <3>1, <3>3
  <2>7. Len(text') <= spot'
    BY <1>1, <1>2, <1>4
  <2>8. cur' \in past' \cup {entry'} /\ cur' # NoInode /\ tail' = "split"
    BY <1>1, <1>3 DEF LogInv, TailInv
  <2>9. \A k \in DOMAIN handled', j \in DOMAIN content'[cur'] : j > Done' => handled'[k].line < content'[cur'][j].line
    BY <1>1, <1>3, <2>4
  <2> QED BY <2>2, <2>5, <2>6, <2>7, <2>8, <2>9 DEF TailInv
<1> QED BY <1>5, <1>8, <1>9

LEMMA HandleWhole == LogInv /\ HandleLine => WholeInv' /\ OnlyWhole' /\ AllHandled'
<1> SUFFICES ASSUME LogInv, HandleLine PROVE WholeInv' /\ OnlyWhole' /\ AllHandled'
  OBVIOUS
<1>1. /\ UNCHANGED <<fileVars, tail, cur, spot, size, from, before>>
      /\ tail = "split" /\ cur \in Inodes /\ cur # NoInode
  BY HandledNow
<1>2. /\ UNCHANGED <<rotations, entry, past, gone, content, writer, line>>
      /\ NeverTruncated' = NeverTruncated
  BY <1>1, FilesKept
<1>3. CASE ~NeverTruncated
  BY <1>2, <1>3 DEF WholeInv, OnlyWhole, AllHandled
<1>4. CASE NeverTruncated
  <2>1. PICK i \in DOMAIN text :
          /\ text[i].end /\ \A j \in 1..(i - 1) : ~text[j].end
          /\ i \in Nat /\ i >= 1 /\ i <= Len(text)
          /\ Len(handled') = Len(handled) + 1 /\ DOMAIN handled' = 1..(Len(handled) + 1)
          /\ \A k \in DOMAIN handled : handled'[k] = handled[k]
          /\ handled'[Len(handled) + 1] = [line |-> text[i].line,
                                          whole |-> i > 1 /\ text[i - 1].line = text[i].line]
          /\ handled'[Len(handled) + 1].line = text[i].line
          /\ Len(text') = Len(text) - i /\ DOMAIN text' = 1..Len(text')
          /\ \A k \in DOMAIN text' : i + k \in DOMAIN text /\ text'[k] = text[i + k]
          /\ Done' = Done + i
    BY HandledNow
  <2>2. /\ Len(text) \in Nat /\ DOMAIN text = 1..Len(text)
        /\ Len(handled) \in Nat /\ DOMAIN handled = 1..Len(handled)
        /\ spot \in Nat /\ from \in Nat /\ Done \in Nat /\ before \in 0..Len(handled)
        /\ Len(content[cur]) \in Nat /\ DOMAIN content[cur] = 1..Len(content[cur])
    <3>1. Len(text) \in Nat /\ spot \in Nat /\ Len(text) <= spot /\ before \in 0..Len(handled)
      BY Numbers DEF LogInv, TailInv, TypeOK
    <3>2. Done \in Nat
      BY <3>1 DEF Done
    <3> QED BY <1>1, <3>1, <3>2, Numbers DEF LogInv
  <2>3. /\ \A k \in DOMAIN text : Done + k \in DOMAIN content[cur] /\ text[k] = content[cur][Done + k]
        /\ from <= Done
        /\ from > 0 => before = 0
        /\ from > 0 /\ Done = from => handled = <<>>
    BY <1>1, <1>4 DEF LogInv, WholeInv
  <2> DEFINE H == {handled[k].line : k \in (before + 1)..Len(handled)}
             E == {content[cur][j].line : j \in {m \in (from + 1)..Done : content[cur][m].end}}
  <2>4. H = E /\ (Done > from => content[cur][Done].end)
    BY <1>1, <1>4 DEF LogInv, AllHandled
  <2>5. WholeInv'
    <3>1. ASSUME NEW k \in DOMAIN text'
          PROVE  Done' + k \in DOMAIN content[cur] /\ text'[k] = content[cur][Done' + k]
      <4>1. Done' + k = Done + (i + k)
        BY <2>1, <2>2
      <4> QED BY <2>1, <2>3, <4>1
    <3>2. from <= Done' /\ Done' # from
      BY <2>1, <2>2, <2>3
    <3> QED BY <1>1, <1>2, <2>3, <3>1, <3>2 DEF WholeInv
  <2>6. ASSUME i = 1 \/ text[i - 1].line # text[i].line PROVE handled = <<>>
    <3> DEFINE s == content[cur]
    <3>1. Paired(s)
      BY <1>1 DEF LogInv, ContentInv
    <3>2. Done + i \in DOMAIN s /\ s[Done + i] = text[i]
      BY <2>3
    <3>3. Done + i > 1 /\ ~s[Done + i - 1].end /\ s[Done + i - 1].line = text[i].line
      <4>1. s[Done + i].end
        BY <2>1, <3>2
      <4>2. \A k \in DOMAIN s : s[k].end => k > 1 /\ ~s[k - 1].end /\ s[k - 1].line = s[k].line
        BY <3>1 DEF Paired
      <4> DEFINE k == Done + i
      <4>3. k \in DOMAIN s /\ s[k].end /\ s[k].line = text[i].line
        BY <3>2, <4>1
      <4> HIDE DEF k
      <4>4. k > 1 /\ ~s[k - 1].end /\ s[k - 1].line = text[i].line
        BY <4>2, <4>3
      <4>5. k - 1 = Done + i - 1 /\ k = Done + i
        BY <2>1, <2>2 DEF k
      <4> HIDE DEF s
      <4> QED BY <4>4, <4>5
    <3>4. i = 1
      <4> SUFFICES ASSUME i # 1 PROVE FALSE
        OBVIOUS
      <4>1. i - 1 \in DOMAIN text /\ Done + (i - 1) = Done + i - 1
        BY <2>1, <2>2
      <4>2. text[i - 1] = s[Done + i - 1]
        BY <2>3, <4>1
      <4> QED BY <2>6, <3>3, <4>2
    <3>5. Done + i - 1 = Done
      BY <2>2, <3>4
    <3>6. ~s[Done].end /\ Done > 0
      BY <2>2, <3>3, <3>4, <3>5
    <3>7. Done = from
      BY <2>2, <2>3, <2>4, <3>6
    <3> QED BY <2>3, <3>6, <3>7
  <2>7. OnlyWhole'
    <3> SUFFICES ASSUME NEW k \in DOMAIN handled', ~handled'[k].whole PROVE k = 1
      BY DEF OnlyWhole
    <3>1. CASE k \in DOMAIN handled
      BY <1>4, <2>1, <3>1 DEF LogInv, OnlyWhole
    <3>2. CASE k = Len(handled) + 1
      <4>1. i = 1 \/ text[i - 1].line # text[i].line
        <5> DEFINE h == [line |-> text[i].line, whole |-> i > 1 /\ text[i - 1].line = text[i].line]
        <5>1. ~h.whole
          BY <2>1, <3>2
        <5>2. ~(i > 1 /\ text[i - 1].line = text[i].line)
          BY <5>1
        <5> QED BY <2>1, <5>2
      <4>2. Len(handled) = 0
        BY <2>6, <4>1
      <4> QED BY <3>2, <4>2
    <3> QED BY <2>1, <2>2, <3>1, <3>2
  <2>8. H' = H \cup {text[i].line}
    <3>1. /\ \A k \in (before + 1)..Len(handled) : k \in DOMAIN handled
          /\ (before + 1)..(Len(handled) + 1) = ((before + 1)..Len(handled)) \cup {Len(handled) + 1}
      BY <2>2
    <3>2. H' = {handled'[k].line : k \in (before + 1)..(Len(handled) + 1)}
      BY <1>1, <2>1
    <3>3. \A k \in (before + 1)..Len(handled) : handled'[k].line = handled[k].line
      BY <2>1, <3>1
    <3>4. H' = {handled'[k].line : k \in (before + 1)..Len(handled)} \cup {handled'[Len(handled) + 1].line}
      BY <3>1, <3>2
    <3>5. {handled'[k].line : k \in (before + 1)..Len(handled)} = H
      BY <3>3
    <3> QED BY <2>1, <3>4, <3>5
  <2>9. E' = E \cup {text[i].line}
    <3> DEFINE M == {m \in (from + 1)..Done : content[cur][m].end}
               N == {m \in (from + 1)..(Done + i) : content[cur][m].end}
    <3>1. N = M \cup {Done + i}
      <4>1. ASSUME NEW m \in (Done + 1)..(Done + i) PROVE content[cur][m].end <=> m = Done + i
        <5>1. m - Done \in DOMAIN text /\ Done + (m - Done) = m /\ m - Done \in 1..i
          BY <2>1, <2>2
        <5>2. content[cur][m] = text[m - Done]
          BY <2>3, <5>1
        <5>3. m # Done + i => m - Done \in 1..(i - 1)
          BY <2>1, <2>2, <5>1
        <5>4. m = Done + i => m - Done = i
          BY <2>1, <2>2
        <5> QED BY <2>1, <5>2, <5>3, <5>4
      <4>2. (from + 1)..(Done + i) = ((from + 1)..Done) \cup ((Done + 1)..(Done + i))
        BY <2>1, <2>2, <2>3
      <4>3. Done + i \in (Done + 1)..(Done + i)
        BY <2>1, <2>2
      <4> QED BY <4>1, <4>2, <4>3
    <3>2. content[cur][Done + i].line = text[i].line
      BY <2>3
    <3>3. E' = {content[cur][j].line : j \in N}
      BY <1>1, <1>2, <2>1
    <3> QED BY <3>1, <3>2, <3>3
  <2>10. content'[cur'][Done'].end
    BY <1>1, <1>2, <2>1, <2>3
  <2>11. AllHandled'
    <3>1. H' = E'
      BY <2>4, <2>8, <2>9
    <3> QED BY <2>10, <3>1 DEF AllHandled
  <2> QED BY <2>5, <2>7, <2>11
<1> QED BY <1>3, <1>4

-----------------------------------------------------------------------------
(* The specification.                                                          *)

LEMMA LogInit == Init => LogInv
<1> SUFFICES ASSUME Init PROVE LogInv
  OBVIOUS
<1> USE LogAssumption
<1>1. /\ rotations \in Policies /\ entry \in Inodes /\ writer = entry
      /\ past = {} /\ gone = {} /\ tail = "open"
      /\ cur = NoInode /\ spot = 0 /\ size = 0 /\ text = <<>>
      /\ handled = <<>> /\ from = 0 /\ before = 0 /\ entry # NoInode
  BY DEF Init
<1>2. Len(<<>>) = 0 /\ DOMAIN <<>> = {}
  OBVIOUS
<1> DEFINE one == <<[line |-> 1, end |-> FALSE]>>
<1>3. one # <<>> /\ Len(one) = 1 /\ DOMAIN one = {1} /\ one[1].line = 1 /\ ~one[1].end /\ Last(one) = one[1]
  BY DEF Last
<1>4. /\ content \in [Inodes -> Seq(Unit)] /\ line \in 0..MaxLine
      /\ \/ line = 0 /\ content[writer] = <<>>
         \/ line = 1 /\ content[writer] = one
      /\ \A p \in Inodes \ {writer} : content[p] = <<>>
  <2>1. PICK i \in Inodes :
          /\ entry = i /\ writer = i
          /\ \/ line = 0 /\ content = [j \in Inodes |-> <<>>]
             \/ /\ line = 1 /\ MaxLine > 0
                /\ content = [j \in Inodes |-> IF j = i THEN one ELSE <<>>]
    BY DEF Init
  <2>2. CASE line = 0 /\ content = [j \in Inodes |-> <<>>]
    BY <1>1, <2>2
  <2>3. CASE line = 1 /\ MaxLine > 0 /\ content = [j \in Inodes |-> IF j = i THEN one ELSE <<>>]
    <3>1. [line |-> 1, end |-> FALSE] \in Unit
      BY <2>3 DEF Unit
    <3>2. one \in Seq(Unit)
      BY <3>1
    <3> HIDE DEF one
    <3>3. content \in [Inodes -> Seq(Unit)]
      BY <2>3, <3>2
    <3>4. content[writer] = one /\ \A p \in Inodes \ {writer} : content[p] = <<>>
      BY <2>1, <2>3
    <3> QED BY <2>3, <3>3, <3>4
  <2> QED BY <2>1, <2>2, <2>3
<1> HIDE DEF one
<1>5. Midline <=> line = 1
  BY <1>3, <1>4 DEF Midline
<1>6. Complete = 0
  BY <1>4, <1>5 DEF Complete
<1>7. TypeOK
  BY <1>1, <1>2, <1>4 DEF TypeOK, Places, Ends
<1>8. WriterInv
  BY <1>1, <1>4 DEF WriterInv
<1>9. ContentInv
  <2>1. \A p \in Inodes : content[p] = <<>> \/ (line = 1 /\ p = writer /\ content[p] = one)
    BY <1>4
  <2>2. Paired(<<>>) /\ Rising(<<>>)
    BY <1>2 DEF Paired, Rising
  <2>3. Paired(one) /\ Rising(one)
    BY <1>3 DEF Paired, Rising
  <2>4. \A p \in Inodes : Paired(content[p]) /\ Rising(content[p])
    BY <2>1, <2>2, <2>3
  <2>5. \A p \in Inodes : \A k \in DOMAIN content[p] :
          content[p][k].line <= line /\ (content[p][k].end => content[p][k].line <= Complete)
    BY <1>2, <1>3, <2>1
  <2>6. Midline => Last(content[writer]).line = line
    BY <1>3, <1>4, <1>5
  <2>7. \A p \in Inodes : Len(content[p]) <= 2 * line
    <3> TAKE p \in Inodes
    <3>1. CASE content[p] = <<>>
      <4>1. Len(content[p]) = 0
        BY <1>2, <3>1
      <4> QED BY <1>4, <4>1
    <3>2. CASE line = 1 /\ content[p] = one
      <4>1. Len(content[p]) = 1
        BY <1>3, <3>2
      <4> QED BY <3>2, <4>1
    <3> QED BY <2>1, <3>1, <3>2
  <2>8. Midline => Len(content[writer]) <= 2 * line - 1
    <3> SUFFICES ASSUME Midline PROVE Len(content[writer]) <= 2 * line - 1
      OBVIOUS
    <3>1. line = 1 /\ content[writer] = one
      BY <1>4, <1>5
    <3>2. Len(content[writer]) = 1 /\ 2 * line - 1 = 1
      BY <1>3, <3>1
    <3> QED BY <3>2
  <2> QED BY <1>1, <2>4, <2>5, <2>6, <2>7, <2>8 DEF ContentInv
<1>10. OrderInv
  BY <1>1, <1>2 DEF OrderInv, OnceInOrder, Rising
<1>11. TailInv
  BY <1>1, <1>2 DEF TailInv
<1>12. WholeInv /\ OnlyWhole /\ AllHandled
  BY <1>1, <1>2 DEF WholeInv, OnlyWhole, AllHandled
<1> QED BY <1>7, <1>8, <1>9, <1>10, <1>11, <1>12 DEF LogInv

LEMMA LogStutter == LogInv /\ UNCHANGED vars => LogInv'
<1> SUFFICES ASSUME LogInv, UNCHANGED vars PROVE LogInv'
  OBVIOUS
<1>1. UNCHANGED <<fileVars, tail, cur, spot, size, text, handled, from, before>>
  BY DEF vars, tailVars
<1>2. /\ UNCHANGED <<rotations, entry, past, gone, content, writer, line>>
      /\ WriterInv' /\ ContentInv' /\ NeverTruncated' = NeverTruncated
  BY <1>1, FilesKept
<1>3. Done' = Done
  BY <1>1 DEF Done
<1>4. TypeOK'
  BY <1>1, <1>2 DEF LogInv, TypeOK
<1>5. OrderInv'
  BY <1>1, OrderKept
<1>6. TailInv'
  BY <1>1, <1>2, <1>3 DEF LogInv, TailInv, ReadInv, Older, Shrunk
<1>7. WholeInv' /\ OnlyWhole' /\ AllHandled'
  BY <1>1, <1>2, <1>3, WholeKept DEF LogInv, WholeInv
<1> QED BY <1>2, <1>4, <1>5, <1>6, <1>7 DEF LogInv

LEMMA LogStep == LogInv /\ [Next]_vars => LogInv'
<1> SUFFICES ASSUME LogInv, [Next]_vars PROVE LogInv'
  OBVIOUS
<1>1. CASE BeginLine \/ EndLine
  BY <1>1, WriterStep
<1>2. CASE Unname
  BY <1>2, UnnameStep
<1>3. CASE Recreate
  BY <1>3, RecreateStep
<1>4. CASE Truncate
  BY <1>4, TruncateStep
<1>5. CASE Open
  BY <1>5, OpenStep
<1>6. CASE Poll
  BY <1>6, PollStep
<1>7. CASE Stat
  BY <1>7, StatStep
<1>8. CASE Reopen
  BY <1>8, ReopenStep
<1>9. CASE Read
  BY <1>9, ReadStep
<1>10. CASE HandleLine
  <2>1. WriterInv' /\ ContentInv'
    BY <1>10, FilesKept DEF HandleLine
  <2> QED BY <1>10, <2>1, HandleOrder, HandleWhole DEF LogInv
<1>11. CASE RejectLine
  BY <1>11, RejectStep
<1>12. CASE SeekBack
  BY <1>12, SeekStep
<1>13. CASE Idle \/ UNCHANGED vars
  BY <1>13, LogStutter DEF Idle
<1> QED BY <1>1, <1>2, <1>3, <1>4, <1>5, <1>6, <1>7, <1>8, <1>9, <1>10, <1>11, <1>12, <1>13
         DEF Next, TailStep

\* The invariant of the log and of the thread that follows it, in every behaviour of
\* log_processor.py beside a writer and rotation.
THEOREM LogInvariant == Spec => []LogInv
<1>1. Init => LogInv
  BY LogInit
<1>2. LogInv /\ [Next]_vars => LogInv'
  BY LogStep
<1> QED BY <1>1, <1>2, PTL DEF Spec

\* The read pointer stays in the open file when nothing truncates it.
THEOREM PointerInFile == Spec => []TypeOK
<1>1. LogInv => TypeOK
  BY DEF LogInv
<1> QED BY <1>1, LogInvariant, PTL

\* No line is handled twice or out of order, however the log is rotated: a reopen
\* starts a file that is newer than all that was handled, and a seek goes back no
\* further than what was not handled.
THEOREM LinesOnceInOrder == Spec => []OnceInOrder
<1>1. LogInv => OnceInOrder
  BY DEF LogInv, OrderInv
<1> QED BY <1>1, LogInvariant, PTL

\* Only the first line handled may be without its start: all the others are handed to
\* parse_value whole, in a log that is not truncated.
THEOREM LinesWhole == Spec => []OnlyWhole
<1>1. LogInv => OnlyWhole
  BY DEF LogInv
<1> QED BY <1>1, LogInvariant, PTL

\* The lines handled since the file was opened are those that end in the part of it
\* that has been read and not sought back over, in a log that is not truncated.
THEOREM LinesAllHandled == Spec => []AllHandled
<1>1. LogInv => AllHandled
  BY DEF LogInv
<1> QED BY <1>1, LogInvariant, PTL
=============================================================================
