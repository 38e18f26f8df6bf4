-------------------------- MODULE FileHash_proofs --------------------------
(* Proofs about the digests of file_value: for any files, spans, blocks and    *)
(* any number of units written.                                                *)
EXTENDS Collection_proofs

(* Numbers and sequences.                                                      *)

\* What Min says of two numbers.
LEMMA MinOfTwo ==
  ASSUME NEW a \in Int, NEW b \in Int
  PROVE  Min({a, b}) = IF a <= b THEN a ELSE b
<1>1. CASE a <= b
  <2>1. \A x \in {a, b} : (\A y \in {a, b} : x <= y) => x = a
    BY <1>1
  <2>2. a \in {a, b} /\ \A y \in {a, b} : a <= y
    BY <1>1
  <2> QED BY <1>1, <2>1, <2>2 DEF Min
<1>2. CASE ~(a <= b)
  <2>1. \A x \in {a, b} : (\A y \in {a, b} : x <= y) => x = b
    BY <1>2
  <2>2. b \in {a, b} /\ \A y \in {a, b} : b <= y
    BY <1>2
  <2> QED BY <1>2, <2>1, <2>2 DEF Min
<1> QED BY <1>1, <1>2

\* A sequence over a set is one over a larger set.
LEMMA MoreElements ==
  ASSUME NEW S, NEW T, S \subseteq T, NEW s \in Seq(S), NEW x \in T
  PROVE  s \in Seq(T) /\ Append(s, x) \in Seq(T)
OBVIOUS

\* A span of a file stays what it is when a unit is appended.
LEMMA SpanOfAppend ==
  ASSUME NEW S, NEW s \in Seq(S), NEW x \in S,
         NEW a \in Nat, NEW b \in Nat, b <= Len(s)
  PROVE  SubSeq(Append(s, x), a + 1, b) = SubSeq(s, a + 1, b)
<1>1. /\ Append(s, x) \in Seq(S) /\ Len(Append(s, x)) = Len(s) + 1
      /\ \A i \in 1..Len(s) : Append(s, x)[i] = s[i]
  OBVIOUS
<1>2. \A i \in (a + 1)..b : s[i] \in S /\ Append(s, x)[i] = s[i]
  BY <1>1
<1>3. /\ SubSeq(s, a + 1, b) \in Seq(S)
      /\ Len(SubSeq(s, a + 1, b)) = IF a + 1 <= b THEN b - (a + 1) + 1 ELSE 0
      /\ \A i \in 1..(b - (a + 1) + 1) : SubSeq(s, a + 1, b)[i] = s[(a + 1) + i - 1]
  BY <1>2, SubSeqProperties
<1>4. /\ SubSeq(Append(s, x), a + 1, b) \in Seq(S)
      /\ Len(SubSeq(Append(s, x), a + 1, b)) = IF a + 1 <= b THEN b - (a + 1) + 1 ELSE 0
      /\ \A i \in 1..(b - (a + 1) + 1) :
           SubSeq(Append(s, x), a + 1, b)[i] = Append(s, x)[(a + 1) + i - 1]
  BY <1>2, SubSeqProperties
<1>5. \A i \in 1..(b - (a + 1) + 1) : (a + 1) + i - 1 \in (a + 1)..b
  OBVIOUS
<1> QED BY <1>2, <1>3, <1>4, <1>5

\* A span that begins where another ends goes on with it.
LEMMA SpanGoesOn ==
  ASSUME NEW S, NEW s \in Seq(S), NEW a \in Nat, NEW b \in Nat, NEW c \in Nat,
         a <= b, b <= c, c <= Len(s)
  PROVE  SubSeq(s, a + 1, b) \o SubSeq(s, b + 1, c) = SubSeq(s, a + 1, c)
<1>1. a + 1 \in 1..(Len(s) + 1) /\ b \in (a + 1 - 1)..Len(s) /\ c \in b..Len(s)
  OBVIOUS
<1> QED BY <1>1, ConcatAdjacentSubSeq

\* The start of a span is a span.
LEMMA SpanBegins ==
  ASSUME NEW S, NEW s \in Seq(S), NEW a \in Nat, NEW b \in Nat, NEW n \in Nat,
         a <= b, b <= Len(s), n <= b - a
  PROVE  SubSeq(SubSeq(s, a + 1, b), 1, n) = SubSeq(s, a + 1, a + n)
<1> DEFINE t == SubSeq(s, a + 1, b)
<1>0. \A i \in 1..Len(s) : s[i] \in S
  OBVIOUS
<1>1. t \in Seq(S) /\ Len(t) = b - a /\ \A i \in 1..(b - a) : t[i] = s[a + i]
  <2>1. \A i \in (a + 1)..b : s[i] \in S
    BY <1>0
  <2>2. /\ t \in Seq(S)
        /\ Len(t) = IF a + 1 <= b THEN b - (a + 1) + 1 ELSE 0
        /\ \A i \in 1..(b - (a + 1) + 1) : t[i] = s[(a + 1) + i - 1]
    BY <2>1, SubSeqProperties
  <2> HIDE DEF t
  <2> QED BY <2>2
<1> HIDE DEF t
<1>2. \A i \in 1..n : t[i] \in S
  BY <1>1, <1>0
<1>3. /\ SubSeq(t, 1, n) \in Seq(S)
      /\ Len(SubSeq(t, 1, n)) = IF 1 <= n THEN n - 1 + 1 ELSE 0
      /\ \A i \in 1..(n - 1 + 1) : SubSeq(t, 1, n)[i] = t[1 + i - 1]
  BY <1>2, SubSeqProperties
<1>4. \A i \in (a + 1)..(a + n) : s[i] \in S
  BY <1>0
<1>5. /\ SubSeq(s, a + 1, a + n) \in Seq(S)
      /\ Len(SubSeq(s, a + 1, a + n)) = IF a + 1 <= a + n THEN (a + n) - (a + 1) + 1 ELSE 0
      /\ \A i \in 1..((a + n) - (a + 1) + 1) :
           SubSeq(s, a + 1, a + n)[i] = s[(a + 1) + i - 1]
  BY <1>4, SubSeqProperties
<1>6. SubSeq(t, 1, n) = SubSeq(s, a + 1, a + n)
  BY <1>1, <1>3, <1>5
<1> QED BY <1>6 DEF t

-----------------------------------------------------------------------------
(* The loop.                                                                   *)

FileTyped ==
  /\ node \in Inodes \cup {NoInode}
  /\ written \in Nat
  /\ content \in [Inodes -> Seq(Nat)]
  /\ setting \in Settings
  /\ size \in Nat /\ offset \in Nat /\ fed \in Seq(Nat)
  /\ kind = "file_value" /\ stage \in {"loop", "return"} => open \in Inodes

\* What was read is a span from Beg on, up to where the file is read.
Spanned ==
  /\ size <= Len(content[open])
  /\ fed # <<>> => /\ Beg + Len(fed) <= Len(content[open])
                   /\ fed = SubSeq(content[open], Beg + 1, Beg + Len(fed))

FileInv ==
  /\ FileTyped
  /\ kind = "file_value" /\ only =>
       /\ stage = "open" => node \in Inodes /\ size <= Len(content[node])
       /\ stage \in {"loop", "return"} => Spanned
       /\ stage = "loop" => offset = Beg + Len(fed) /\ Len(fed) < End
       /\ stage = "return" /\ setting.beg = 0 /\ size > 0 => Len(fed) = End

\* Where a span begins and ends.
LEMMA Bounds ==
  ASSUME setting \in Settings, size \in Nat
  PROVE  /\ Beg \in Nat /\ End \in Nat \ {0}
         /\ size > 0 => Beg <= size /\ End <= size
         /\ setting.beg = 0 => Beg = 0
<1>1. setting.beg \in Nat /\ setting.count \in Nat \ {0} /\ MaxSize \in Nat \ {0}
  BY FileAssumption
<1>2. Limit \in Nat \ {0} /\ (size > 0 => Limit = size)
  BY <1>1 DEF Limit
<1>3. Beg = IF setting.beg <= Limit THEN setting.beg ELSE Limit
  BY <1>1, <1>2, MinOfTwo DEF Beg
<1>4. End = IF setting.count <= Limit THEN setting.count ELSE Limit
  BY <1>1, <1>2, MinOfTwo DEF End
<1> QED BY <1>1, <1>2, <1>3, <1>4

\* What one read returns, and what of it is hashed.
LEMMA BlockRead ==
  ASSUME FileTyped, open \in Inodes
  PROVE  /\ Part \in Seq(Nat) /\ Blob \in Seq(Nat)
         /\ Part = <<>> <=> offset >= Len(content[open])
         /\ offset = Beg + Len(fed) /\ Len(fed) < End /\ Part # <<>> =>
              /\ Blob = SubSeq(content[open], offset + 1, offset + Len(Blob))
              /\ Len(Blob) \in 1..Len(Part)
              /\ offset + Len(Part) <= Len(content[open])
              /\ Len(fed) + Len(Blob) <= End
              /\ Len(fed) + Len(Blob) < End => Len(Blob) = Len(Part)
         /\ Part = <<>> => Blob = <<>>
<1> DEFINE c == content[open]
           top == Min({offset + Block, Len(c)})
           m == Min({End - Len(fed), Len(Part)})
<1>1. /\ c \in Seq(Nat) /\ Len(c) \in Nat /\ offset \in Nat /\ Len(fed) \in Nat
      /\ Block \in Nat /\ Block > 0
      /\ \A i \in 1..Len(c) : c[i] \in Nat
  BY FileAssumption DEF FileTyped
<1>2. top = IF offset + Block <= Len(c) THEN offset + Block ELSE Len(c)
  <2> HIDE DEF c
  <2> QED BY <1>1, MinOfTwo
<1>3. End \in Nat /\ End > 0
  BY Bounds DEF FileTyped
<1>4. Part = SubSeq(c, offset + 1, top)
  BY DEF Part
<1> HIDE DEF c, top
<1>5. top \in Nat /\ top <= Len(c) /\ (offset < Len(c) <=> offset < top)
  BY <1>1, <1>2
<1>6. /\ Part \in Seq(Nat)
      /\ Len(Part) = IF offset + 1 <= top THEN top - (offset + 1) + 1 ELSE 0
  <2>1. \A i \in (offset + 1)..top : c[i] \in Nat
    BY <1>1, <1>5
  <2> QED BY <1>1, <1>4, <1>5, <2>1, SubSeqProperties
<1>7. Len(Part) = IF offset < top THEN top - offset ELSE 0
  BY <1>1, <1>5, <1>6
<1>8. Part = <<>> <=> offset >= Len(c)
  BY <1>1, <1>5, <1>6, <1>7
<1>9. m \in Int /\ m = IF End - Len(fed) <= Len(Part) THEN End - Len(fed) ELSE Len(Part)
  <2>1. End - Len(fed) \in Int /\ Len(Part) \in Int
    BY <1>1, <1>3, <1>5, <1>7
  <2>2. m = IF End - Len(fed) <= Len(Part) THEN End - Len(fed) ELSE Len(Part)
    BY <2>1, MinOfTwo
  <2> HIDE DEF m
  <2> QED BY <2>1, <2>2
<1>10. Blob = SubSeq(Part, 1, m)
  BY DEF Blob
<1> HIDE DEF m
<1>11. m <= Len(Part)
  BY <1>1, <1>3, <1>6, <1>9
<1>12. Blob \in Seq(Nat) /\ Len(Blob) = IF 1 <= m THEN m - 1 + 1 ELSE 0
  <2>1. \A i \in 1..m : Part[i] \in Nat
    BY <1>6, <1>9, <1>11
  <2> QED BY <1>9, <1>10, <2>1, SubSeqProperties
<1>13. ASSUME offset = Beg + Len(fed), Len(fed) < End, Part # <<>>
       PROVE  /\ Blob = SubSeq(c, offset + 1, offset + Len(Blob))
              /\ Len(Blob) \in 1..Len(Part)
              /\ offset + Len(Part) <= Len(c)
              /\ Len(fed) + Len(Blob) <= End
              /\ Len(fed) + Len(Blob) < End => Len(Blob) = Len(Part)
  <2>1. offset < top /\ Len(Part) = top - offset /\ Len(Part) > 0
    BY <1>1, <1>5, <1>7, <1>8, <1>13
  <2>2. m > 0 /\ Len(Blob) = m
    BY <1>1, <1>3, <1>9, <1>12, <1>13, <2>1
  <2>3. SubSeq(SubSeq(c, offset + 1, top), 1, m) = SubSeq(c, offset + 1, offset + m)
    <3>1. m \in Nat /\ m <= top - offset /\ offset <= top
      BY <1>1, <1>5, <1>9, <1>11, <2>1, <2>2
    <3>2. c \in Seq(Nat) /\ offset \in Nat /\ top \in Nat /\ top <= Len(c)
      BY <1>1, <1>5
    <3> QED BY <3>1, <3>2, SpanBegins
  <2> QED BY <1>1, <1>3, <1>4, <1>5, <1>9, <1>10, <1>11, <2>1, <2>2, <2>3
<1>14. Part = <<>> => Blob = <<>>
  <2> SUFFICES ASSUME Part = <<>> PROVE Blob = <<>>
    OBVIOUS
  <2>1. m <= 0
    BY <1>11, <1>6, <1>9
  <2> QED BY <1>9, <1>12, <2>1
<1> QED BY <1>6, <1>8, <1>12, <1>13, <1>14 DEF c

\* A block leaves the loop where it was: at the end of the span that was hashed.
LEMMA ReadKeepsSpan ==
  ASSUME FileInv, kind = "file_value", ReadBlock
  PROVE  FileInv'
<1>1. /\ FileTyped /\ stage = "loop" /\ open \in Inodes
      /\ UNCHANGED <<kind, node, content, written, setting, size, open, only>>
  BY DEF FileInv, FileTyped, ReadBlock, GoOn
<1>2. /\ fed' = fed \o Blob /\ offset' = offset + Len(Part)
      /\ stage' = IF Part = <<>> \/ Len(fed') >= End THEN "return" ELSE "loop"
  BY DEF ReadBlock, GoOn
<1>3. Beg' = Beg /\ End' = End
  BY <1>1 DEF Beg, End, Limit
<1>4. Part \in Seq(Nat) /\ Blob \in Seq(Nat)
  BY <1>1, BlockRead
<1>5. FileTyped'
  <2>1. fed' \in Seq(Nat) /\ offset' \in Nat
    BY <1>1, <1>2, <1>4 DEF FileTyped
  <2> QED BY <1>1, <2>1 DEF FileTyped
<1>6. ASSUME only
      PROVE  /\ Spanned'
             /\ stage' = "loop" => offset' = Beg + Len(fed') /\ Len(fed') < End
             /\ stage' = "return" /\ setting.beg = 0 /\ size > 0 => Len(fed') = End
  <2> DEFINE c == content[open]
  <2>1. /\ Spanned /\ offset = Beg + Len(fed) /\ Len(fed) < End
        /\ c \in Seq(Nat) /\ fed \in Seq(Nat) /\ size \in Nat
    BY <1>1, <1>6 DEF FileInv, FileTyped
  <2>2. /\ Beg \in Nat /\ End \in Nat /\ Len(fed) \in Nat /\ Len(c) \in Nat
        /\ size > 0 => Beg <= size /\ End <= size
        /\ setting.beg = 0 => Beg = 0
    BY <1>1, <2>1, Bounds DEF FileTyped
  <2>3. CASE Part = <<>>
    <3>1. Blob = <<>> /\ offset >= Len(c)
      BY <1>1, <2>3, BlockRead
    <3>2. fed' = fed /\ stage' = "return"
      BY <1>2, <2>1, <2>3, <3>1
    <3>3. Spanned'
      BY <1>1, <1>3, <2>1, <3>2 DEF Spanned
    <3>4. ~(setting.beg = 0 /\ size > 0)
      BY <2>1, <2>2, <3>1 DEF Spanned
    <3> QED BY <3>2, <3>3, <3>4
  <2>4. CASE Part # <<>>
    <3>1. /\ Blob = SubSeq(c, offset + 1, offset + Len(Blob))
          /\ Len(Blob) \in 1..Len(Part)
          /\ offset + Len(Part) <= Len(c)
          /\ Len(fed) + Len(Blob) <= End
          /\ Len(fed) + Len(Blob) < End => Len(Blob) = Len(Part)
      BY <1>1, <2>1, <2>4, BlockRead
    <3>2. Len(Part) \in Nat /\ Len(Blob) \in Nat /\ Len(fed') = Len(fed) + Len(Blob)
      BY <1>2, <1>4, <2>1
    <3>3. fed = SubSeq(c, Beg + 1, offset)
      <4>1. CASE fed = <<>>
        <5>1. offset = Beg
          BY <2>1, <2>2, <4>1
        <5>2. SubSeq(c, Beg + 1, offset) = <<>>
          BY <2>2, <5>1, SubSeqEmpty
        <5> QED BY <4>1, <5>2
      <4>2. CASE fed # <<>>
        BY <2>1, <4>2 DEF Spanned
      <4> QED BY <4>1, <4>2
    <3> HIDE DEF c
    <3>4. fed' = SubSeq(c, Beg + 1, Beg + Len(fed'))
      <4> DEFINE b == offset + Len(Blob)
      <4>1. offset \in Nat /\ b \in Nat /\ Beg <= offset /\ offset <= b /\ b <= Len(c)
        BY <2>1, <2>2, <3>1, <3>2
      <4>2. b = Beg + Len(fed')
        BY <2>1, <2>2, <3>2
      <4> HIDE DEF b
      <4>3. Blob = SubSeq(c, offset + 1, b)
        BY <3>1 DEF b
      <4>4. SubSeq(c, Beg + 1, offset) \o SubSeq(c, offset + 1, b) = SubSeq(c, Beg + 1, b)
        <5>1. c \in Seq(Nat) /\ Beg \in Nat
          BY <2>1, <2>2
        <5> HIDE DEF c
        <5> QED BY <4>1, <5>1, SpanGoesOn
      <4> QED BY <1>2, <3>3, <4>2, <4>3, <4>4
    <3>5. Beg + Len(fed') <= Len(c)
      BY <2>1, <2>2, <3>1, <3>2
    <3>6. Spanned'
      BY <1>1, <1>3, <2>1, <3>4, <3>5 DEF Spanned, c
    <3>7. stage' = IF Len(fed') >= End THEN "return" ELSE "loop"
      BY <1>2, <2>4
    <3>8. ASSUME stage' = "loop" PROVE offset' = Beg + Len(fed') /\ Len(fed') < End
      <4>1. Len(fed') < End
        BY <2>2, <3>2, <3>7, <3>8
      <4>2. Len(Blob) = Len(Part)
        BY <3>1, <3>2, <4>1
      <4> QED BY <1>2, <2>1, <2>2, <3>2, <4>1, <4>2
    <3>9. ASSUME stage' = "return" PROVE Len(fed') = End
      BY <2>2, <3>1, <3>2, <3>7, <3>9
    <3> QED BY <3>6, <3>8, <3>9
  <2> QED BY <2>3, <2>4
<1>7. stage' # "open"
  BY <1>2
<1> QED BY <1>1, <1>3, <1>5, <1>6, <1>7 DEF FileInv

\* What others do to the files.
LEMMA OthersKeepSpan ==
  ASSUME FileInv, AppendUnit \/ Truncate \/ Rename
  PROVE  FileInv'
<1>1. /\ FileTyped /\ UNCHANGED <<kind, stage, setting, size, open, offset, fed>>
  BY DEF FileInv, AppendUnit, Truncate, Rename, hashVars, frameVars
<1>2. Beg' = Beg /\ End' = End
  BY <1>1 DEF Beg, End, Limit
<1>3. CASE AppendUnit
  <2>1. PICK i \in Inodes : content' = [content EXCEPT ![i] = Append(@, written + 1)]
    BY <1>3 DEF AppendUnit
  <2>2. UNCHANGED <<node, only>> /\ written' = written + 1
    BY <1>3 DEF AppendUnit
  <2>3. \A j \in Inodes : /\ content[j] \in Seq(Nat) /\ Len(content[j]) \in Nat
                          /\ content'[j] \in Seq(Nat)
                          /\ Len(content'[j]) >= Len(content[j])
                          /\ content'[j] = content[j] \/ content'[j] = Append(content[j], written + 1)
    BY <1>1, <2>1 DEF FileTyped
  <2>4. FileTyped'
    <3>1. content' \in [Inodes -> Seq(Nat)]
      BY <1>1, <2>1, <2>3 DEF FileTyped
    <3> QED BY <1>1, <2>2, <3>1 DEF FileTyped
  <2>5. ASSUME kind = "file_value", only, stage \in {"loop", "return"}
        PROVE  Spanned'
    <3>1. /\ open \in Inodes /\ Spanned /\ size \in Nat /\ fed \in Seq(Nat) /\ Len(fed) \in Nat
          /\ Beg \in Nat /\ written + 1 \in Nat
      BY <1>1, <2>5, Bounds DEF FileInv, FileTyped
    <3>2. size <= Len(content'[open])
      BY <2>3, <3>1 DEF Spanned
    <3>3. ASSUME fed # <<>>
          PROVE  /\ Beg + Len(fed) <= Len(content'[open])
                 /\ fed = SubSeq(content'[open], Beg + 1, Beg + Len(fed))
      <4>1. /\ Beg + Len(fed) <= Len(content[open])
            /\ fed = SubSeq(content[open], Beg + 1, Beg + Len(fed))
        BY <3>1, <3>3 DEF Spanned
      <4>2. SubSeq(Append(content[open], written + 1), Beg + 1, Beg + Len(fed))
              = SubSeq(content[open], Beg + 1, Beg + Len(fed))
        <5>1. Beg + Len(fed) \in Nat
          BY <3>1
        <5> QED BY <2>3, <3>1, <4>1, <5>1, SpanOfAppend
      <4>3. Beg + Len(fed) <= Len(content'[open])
        BY <2>3, <3>1, <4>1
      <4> QED BY <2>3, <3>1, <4>1, <4>2, <4>3
    <3> QED BY <1>1, <1>2, <3>2, <3>3 DEF Spanned
  <2>6. ASSUME kind = "file_value", only, stage = "open"
        PROVE  node \in Inodes /\ size <= Len(content'[node])
    <3>1. node \in Inodes /\ size <= Len(content[node]) /\ size \in Nat
      BY <2>6 DEF FileInv, FileTyped
    <3> QED BY <2>3, <3>1
  <2>7. /\ kind = "file_value" /\ only /\ stage = "loop" => offset = Beg + Len(fed) /\ Len(fed) < End
        /\ kind = "file_value" /\ only /\ stage = "return" /\ setting.beg = 0 /\ size > 0
             => Len(fed) = End
    BY DEF FileInv
  <2> QED BY <1>1, <1>2, <2>2, <2>4, <2>5, <2>6, <2>7 DEF FileInv
<1>4. CASE Truncate
  <2>1. /\ UNCHANGED <<node, written>> /\ content' \in [Inodes -> Seq(Nat)]
        /\ only' = (stage \in {"wait", "update"})
    BY <1>1, <1>4 DEF Truncate, FileTyped
  <2>2. FileTyped'
    BY <1>1, <2>1 DEF FileTyped
  <2> QED BY <1>1, <2>1, <2>2 DEF FileInv
<1>5. CASE Rename
  <2>1. /\ UNCHANGED <<written, content>> /\ node' \in Inodes \cup {NoInode}
        /\ only' = (stage \in {"wait", "update"})
    BY <1>5 DEF Rename
  <2>2. FileTyped'
    BY <1>1, <2>1 DEF FileTyped
  <2> QED BY <1>1, <2>1, <2>2 DEF FileInv
<1> QED BY <1>3, <1>4, <1>5

LEMMA FileStepInv == FileInv /\ [Next]_vars => FileInv'
<1> SUFFICES ASSUME FileInv, [Next]_vars PROVE FileInv'
  OBVIOUS
<1>0. kind' = kind
  BY KindFixed
<1>1. CASE kind = "file_value" /\ FileNext
  <2>1. CASE AppendUnit \/ Truncate \/ Rename
    BY <2>1, OthersKeepSpan
  <2>2. CASE Stat
    <3>1. /\ UNCHANGED <<node, content, written, setting, open, offset, fed>>
          /\ only' = TRUE /\ stage' \in {"raise", "open"}
          /\ stage' = "open" => node \in Inodes /\ size' = Len(content[node])
          /\ stage' = "raise" => size' = size
      BY <2>2 DEF Stat, GoOn, FileInv, FileTyped
    <3>2. \A i \in Inodes : Len(content[i]) \in Nat
      BY DEF FileInv, FileTyped
    <3>3. size' \in Nat /\ (stage' = "open" => size' <= Len(content[node]))
      BY <3>1, <3>2 DEF FileInv, FileTyped
    <3> QED BY <3>1, <3>3 DEF FileInv, FileTyped
  <2>3. CASE OpenFile
    <3>1. /\ UNCHANGED <<node, content, written, setting, size, only>>
          /\ fed' = <<>> /\ stage' \in {"raise", "loop"}
          /\ stage' = "loop" => node \in Inodes /\ open' = node /\ offset' = Beg
          /\ stage' = "raise" => offset' = offset
      BY <2>3 DEF OpenFile, GoOn, FileInv, FileTyped
    <3>2. Beg' = Beg /\ End' = End /\ Beg \in Nat /\ End \in Nat /\ End > 0
      BY <3>1, Bounds DEF Beg, End, Limit, FileInv, FileTyped
    <3>3. FileTyped'
      <4>1. offset' \in Nat /\ fed' \in Seq(Nat)
        BY <3>1, <3>2 DEF FileInv, FileTyped
      <4> QED BY <3>1, <4>1 DEF FileInv, FileTyped
    <3>4. stage = "open"
      BY <2>3 DEF OpenFile
    <3>5. ASSUME only, stage' = "loop"
          PROVE  Spanned' /\ offset' = Beg + Len(fed') /\ Len(fed') < End
      <4>1. size <= Len(content[node]) /\ open' = node
        BY <1>1, <3>1, <3>4, <3>5 DEF FileInv
      <4>2. Spanned'
        BY <3>1, <4>1 DEF Spanned
      <4>3. Len(fed') = 0
        BY <3>1
      <4> QED BY <3>1, <3>2, <3>5, <4>2, <4>3
    <3> QED BY <3>1, <3>2, <3>3, <3>5 DEF FileInv
  <2>4. CASE ReadBlock
    BY <1>1, <2>4, ReadKeepsSpan
  <2>5. CASE SetItems
    <3>1. FileTyped'
      BY <2>5 DEF SetItems, FileInv, FileTyped
    <3> QED BY <2>5, <3>1 DEF SetItems, FileInv
  <2> QED BY <1>1, <2>1, <2>2, <2>3, <2>4, <2>5 DEF FileNext
<1>2. CASE FrameStep /\ UNCHANGED fileVars
  <2>1. CASE Begin \/ Raise
    BY <1>2, <2>1 DEF Begin, Raise, fileVars, FileInv, FileTyped
  <2>2. CASE Commit
    <3>1. kind # "file_value"
      BY <2>2 DEF Commit, TableKinds
    <3> QED BY <1>0, <1>2, <3>1 DEF fileVars, FileInv, FileTyped
  <2> QED BY <1>2, <2>1, <2>2 DEF FrameStep
<1>3. CASE kind # "file_value" /\ UNCHANGED fileVars
  BY <1>0, <1>3 DEF fileVars, FileInv, FileTyped
<1>4. CASE UNCHANGED vars
  <2>1. UNCHANGED <<kind, stage, node, content, written, setting, size, open, offset, fed, only>>
    BY <1>4 DEF vars, frameVars, fileVars
  <2> QED BY <2>1 DEF FileInv, FileTyped, Spanned, Beg, End, Limit
<1> QED BY <1>1, <1>2, <1>3, <1>4 DEF Next, Body, Frame, TextKinds

LEMMA FileInitInv == Init => FileInv
<1> SUFFICES ASSUME Init PROVE FileInv
  OBVIOUS
<1>1. fed \in Seq(Nat) /\ content \in [Inodes -> Seq(Nat)]
  BY DEF Init, FileInit
<1>2. FileTyped
  BY <1>1 DEF Init, FileInit, FrameInit, FileTyped
<1> QED BY <1>2 DEF Init, FrameInit, FileInv

\* The inductive invariant of the digests.
LEMMA FilesInvariant == Spec => []FileInv
BY FileInitInv, FileStepInv, PTL DEF Spec

\* A digest is of exactly the span that is reported with it, as long as the file is
\* only appended to, however the appends fall between the reads.
THEOREM DigestsFit == Spec => []SpanIsHashed
<1>1. FileInv => SpanIsHashed
  BY DEF FileInv, SpanIsHashed, Hashed, Spanned
<1> QED BY <1>1, FilesInvariant, PTL

\* A digest from the start of such a file covers what the lstat saw, or the count:
\* it does not depend on what is appended while it is made.
THEOREM AppendsAreNotSeen == Spec => []AppendsDoNotMatter
<1>1. FileInv => AppendsDoNotMatter
  BY DEF FileInv, AppendsDoNotMatter, Hashed
<1> QED BY <1>1, FilesInvariant, PTL

-----------------------------------------------------------------------------
(* The types.                                                                  *)

\* A file holds no more units than were written, and no more is hashed than was
\* asked for.
FileBounds ==
  /\ FileTypeOK
  /\ \A i \in Inodes : Len(content[i]) <= written
  /\ kind = "file_value" /\ stage = "loop" => Len(fed) < End

LEMMA EndIsBounded ==
  ASSUME setting \in Settings, size \in 0..MaxSize
  PROVE  /\ Beg \in 0..MaxSize /\ End \in 1..setting.count
         /\ setting.count \in 1..MaxSize
<1>1. setting.beg \in 0..MaxSize /\ setting.count \in 1..MaxSize /\ MaxSize \in Nat
  BY FileAssumption
<1>2. Limit \in 1..MaxSize
  BY <1>1 DEF Limit
<1>3. Beg = IF setting.beg <= Limit THEN setting.beg ELSE Limit
  BY <1>1, <1>2, MinOfTwo DEF Beg
<1>4. End = IF setting.count <= Limit THEN setting.count ELSE Limit
  BY <1>1, <1>2, MinOfTwo DEF End
<1> QED BY <1>1, <1>2, <1>3, <1>4

\* What a read returns, and what of it is hashed, wherever the offset is.
LEMMA BlockBounds ==
  ASSUME FileTyped, FileBounds, kind = "file_value", stage = "loop"
  PROVE  /\ Part \in Seq(1..written) /\ Blob \in Seq(1..written)
         /\ offset + Len(Part) \in 0..MaxSize
         /\ Len(fed) + Len(Blob) <= End
<1> DEFINE c == content[open]
           top == Min({offset + Block, Len(c)})
           m == Min({End - Len(fed), Len(Part)})
<1>1. /\ open \in Inodes /\ c \in Seq(1..written) /\ Len(c) \in Nat /\ Len(c) <= written
      /\ written \in 0..MaxUnits /\ MaxUnits < MaxSize /\ MaxSize \in Nat /\ MaxUnits \in Nat
      /\ offset \in 0..MaxSize /\ offset \in Nat /\ Block \in Nat /\ Block > 0
      /\ fed \in Seq(1..written) /\ Len(fed) \in Nat /\ Len(fed) < End
      /\ \A i \in 1..Len(c) : c[i] \in 1..written
  BY FileAssumption DEF FileBounds, FileTypeOK
<1>2. End \in Nat
  BY EndIsBounded DEF FileBounds, FileTypeOK
<1>3. Part = SubSeq(c, offset + 1, top)
  BY DEF Part
<1>4. top = IF offset + Block <= Len(c) THEN offset + Block ELSE Len(c)
  <2>1. offset + Block \in Int /\ Len(c) \in Int
    BY <1>1
  <2> HIDE DEF c
  <2> QED BY <2>1, MinOfTwo
<1> HIDE DEF c, top
<1>5. top \in Nat /\ top <= Len(c)
  BY <1>1, <1>4
<1>6. Part \in Seq(1..written) /\ Len(Part) = IF offset + 1 <= top THEN top - (offset + 1) + 1 ELSE 0
  <2>1. \A i \in (offset + 1)..top : c[i] \in 1..written
    BY <1>1, <1>5
  <2> QED BY <1>1, <1>3, <1>5, <2>1, SubSeqProperties
<1>7. Len(Part) \in Nat /\ offset + Len(Part) \in 0..MaxSize
  BY <1>1, <1>5, <1>6
<1>8. m \in Int /\ m = IF End - Len(fed) <= Len(Part) THEN End - Len(fed) ELSE Len(Part)
  <2>1. End - Len(fed) \in Int /\ Len(Part) \in Int
    BY <1>1, <1>2, <1>7
  <2>2. m = IF End - Len(fed) <= Len(Part) THEN End - Len(fed) ELSE Len(Part)
    BY <2>1, MinOfTwo
  <2> HIDE DEF m
  <2> QED BY <2>1, <2>2
<1>9. Blob = SubSeq(Part, 1, m)
  BY DEF Blob
<1> HIDE DEF m
<1>10. m \in Nat /\ m <= Len(Part) /\ Len(fed) + m <= End
  BY <1>1, <1>2, <1>7, <1>8
<1>11. Blob \in Seq(1..written) /\ Len(Blob) = m
  <2>1. \A i \in 1..m : Part[i] \in 1..written
    <3> DEFINE W == 1..written
    <3>1. Part \in Seq(W) /\ m \in Nat /\ m <= Len(Part)
      BY <1>6, <1>10
    <3> HIDE DEF W
    <3>2. \A i \in 1..m : Part[i] \in W
      BY <3>1
    <3> QED BY <3>2 DEF W
  <2> QED BY <1>9, <1>10, <2>1, SubSeqProperties
<1> QED BY <1>6, <1>7, <1>10, <1>11

LEMMA FileBoundsStep == FileInv /\ FileBounds /\ [Next]_vars => FileBounds'
<1> SUFFICES ASSUME FileInv, FileBounds, [Next]_vars PROVE FileBounds'
  OBVIOUS
<1>0. kind' = kind
  BY KindFixed
<1>1. /\ {node, open} \subseteq Inodes \cup {NoInode}
      /\ written \in 0..MaxUnits /\ MaxUnits \in Nat /\ MaxSize \in Nat \ 0..MaxUnits
      /\ content \in [Inodes -> Seq(1..written)] /\ setting \in Settings
      /\ size \in 0..MaxSize /\ offset \in 0..MaxSize
      /\ fed \in Seq(1..written) /\ Len(fed) \in Nat /\ Len(fed) <= setting.count
      /\ setting.count \in 1..MaxSize
      /\ \A i \in Inodes : Len(content[i]) \in Nat /\ Len(content[i]) <= written
  BY FileAssumption DEF FileBounds, FileTypeOK
<1>2. CASE kind = "file_value" /\ FileNext
  <2>1. CASE AppendUnit
    <3>1. PICK i \in Inodes : content' = [content EXCEPT ![i] = Append(@, written + 1)]
      BY <2>1 DEF AppendUnit
    <3>2. /\ written < MaxUnits /\ written' = written + 1
          /\ UNCHANGED <<kind, stage, node, setting, size, open, offset, fed>>
      BY <2>1 DEF AppendUnit, frameVars, hashVars
    <3>3. \A s \in Seq(1..written) : s \in Seq(1..written') /\ Append(s, written + 1) \in Seq(1..written')
      <4>1. 1..written \subseteq 1..written' /\ written + 1 \in 1..written'
        BY <1>1, <3>2
      <4> QED BY <4>1, MoreElements
    <3>4. content' \in [Inodes -> Seq(1..written')] /\ fed' \in Seq(1..written')
      BY <1>1, <3>1, <3>2, <3>3
    <3>5. \A j \in Inodes : Len(content'[j]) <= written'
      <4> TAKE j \in Inodes
      <4>1. content'[j] = content[j] \/ content'[j] = Append(content[j], written + 1)
        BY <1>1, <3>1
      <4>2. Len(Append(content[j], written + 1)) = Len(content[j]) + 1
        BY <1>1
      <4> QED BY <1>1, <3>2, <4>1, <4>2
    <3>6. End' = End
      BY <3>2 DEF End, Limit
    <3>7. written' \in 0..MaxUnits
      BY <1>1, <3>2
    <3>8. FileTypeOK'
      BY <1>1, <3>2, <3>4, <3>7 DEF FileTypeOK, FileBounds
    <3> QED BY <3>2, <3>5, <3>6, <3>8 DEF FileBounds
  <2>2. CASE Truncate
    <3>1. PICK i \in Inodes : content' = [content EXCEPT ![i] = <<>>]
      BY <2>2 DEF Truncate
    <3>2. UNCHANGED <<kind, stage, node, written, setting, size, open, offset, fed>>
      BY <2>2 DEF Truncate, frameVars, hashVars
    <3>3. <<>> \in Seq(1..written) /\ Len(<<>>) = 0
      OBVIOUS
    <3>4. content' \in [Inodes -> Seq(1..written)] /\ \A j \in Inodes : Len(content'[j]) <= written
      BY <1>1, <3>1, <3>3
    <3>5. End' = End
      BY <3>2 DEF End, Limit
    <3>6. FileTypeOK'
      BY <1>1, <3>2, <3>4 DEF FileTypeOK, FileBounds
    <3> QED BY <3>2, <3>4, <3>5, <3>6 DEF FileBounds
  <2>3. CASE Rename
    <3>1. /\ UNCHANGED <<kind, stage, content, written, setting, size, open, offset, fed>>
          /\ node' \in Inodes \cup {NoInode}
      BY <2>3 DEF Rename, frameVars, hashVars
    <3>2. End' = End
      BY <3>1 DEF End, Limit
    <3>3. FileTypeOK'
      BY <1>1, <3>1 DEF FileTypeOK, FileBounds
    <3> QED BY <1>1, <3>1, <3>2, <3>3 DEF FileBounds
  <2>4. CASE Stat
    <3>1. /\ UNCHANGED <<kind, node, content, written, setting, open, offset, fed>>
          /\ stage' \in {"raise", "open"}
          /\ size' = size \/ (node \in Inodes /\ size' = Len(content[node]))
      BY <1>1, <2>4 DEF Stat, GoOn
    <3>2. size' \in 0..MaxSize
      BY <1>1, <3>1
    <3>3. FileTypeOK'
      BY <1>1, <3>1, <3>2 DEF FileTypeOK
    <3> QED BY <1>1, <3>1, <3>3 DEF FileBounds
  <2>5. CASE OpenFile
    <3>1. /\ UNCHANGED <<kind, node, content, written, setting, size>>
          /\ fed' = <<>> /\ stage' \in {"raise", "loop"}
          /\ stage' = "loop" => node \in Inodes /\ open' = node /\ offset' = Beg
          /\ stage' = "raise" => open' = open /\ offset' = offset
      BY <1>1, <2>5 DEF OpenFile, GoOn
    <3>2. Beg \in 0..MaxSize /\ End \in 1..setting.count /\ End' = End
      BY <1>1, <3>1, EndIsBounded DEF End, Limit
    <3>3. fed' \in Seq(1..written) /\ Len(fed') = 0
      BY <3>1
    <3>4. FileTypeOK'
      BY <1>1, <3>1, <3>2, <3>3 DEF FileTypeOK
    <3> QED BY <1>1, <3>1, <3>2, <3>3, <3>4 DEF FileBounds
  <2>6. CASE ReadBlock
    <3>1. /\ UNCHANGED <<kind, node, content, written, setting, size, open>>
          /\ stage = "loop" /\ stage' = IF Part = <<>> \/ Len(fed') >= End THEN "return" ELSE "loop"
          /\ fed' = fed \o Blob /\ offset' = offset + Len(Part)
      BY <2>6 DEF ReadBlock, GoOn
    <3>2. /\ Part \in Seq(1..written) /\ Blob \in Seq(1..written)
          /\ offset + Len(Part) \in 0..MaxSize
          /\ Len(fed) + Len(Blob) <= End
      BY <1>2, <3>1, BlockBounds DEF FileInv
    <3>3. End \in 1..setting.count /\ End' = End
      BY <1>1, <3>1, EndIsBounded DEF End, Limit
    <3>4. /\ fed' \in Seq(1..written) /\ Len(fed') = Len(fed) + Len(Blob)
          /\ Len(fed') \in Nat
      BY <1>1, <3>1, <3>2
    <3>5. Len(fed') <= setting.count
      BY <1>1, <3>2, <3>3, <3>4
    <3>6. open \in Inodes
      BY <1>2, <3>1 DEF FileBounds, FileTypeOK
    <3>7. FileTypeOK'
      BY <1>1, <3>1, <3>2, <3>4, <3>5, <3>6 DEF FileTypeOK
    <3>8. stage' = "loop" => Len(fed') < End
      BY <3>1, <3>3, <3>4
    <3> QED BY <1>1, <3>1, <3>3, <3>7, <3>8 DEF FileBounds
  <2>7. CASE SetItems
    <3>1. /\ UNCHANGED <<kind, node, content, written, setting>> /\ stage' = "wait"
          /\ size' = 0 /\ open' = NoInode /\ offset' = 0 /\ fed' = <<>>
      BY <2>7 DEF SetItems
    <3>2. fed' \in Seq(1..written) /\ Len(fed') = 0
      BY <3>1
    <3>3. 0 \in 0..MaxSize /\ 0 <= setting.count
      BY <1>1
    <3>4. FileTypeOK'
      BY <1>1, <3>1, <3>2, <3>3 DEF FileTypeOK
    <3> QED BY <1>1, <3>1, <3>4 DEF FileBounds
  <2> QED BY <1>2, <2>1, <2>2, <2>3, <2>4, <2>5, <2>6, <2>7 DEF FileNext
<1>3. CASE FrameStep /\ UNCHANGED fileVars
  <2>1. /\ UNCHANGED <<node, content, written, setting, size, open, offset, fed>>
        /\ stage' \notin {"loop", "return"}
    BY <1>3 DEF fileVars, FrameStep, Begin, Raise, Commit
  <2>2. FileTypeOK'
    BY <1>1, <2>1 DEF FileTypeOK
  <2> QED BY <1>1, <2>1, <2>2 DEF FileBounds
<1>4. CASE kind # "file_value" /\ UNCHANGED fileVars
  <2>1. UNCHANGED <<node, content, written, setting, size, open, offset, fed>>
    BY <1>4 DEF fileVars
  <2>2. FileTypeOK'
    BY <1>0, <1>1, <1>4, <2>1 DEF FileTypeOK
  <2> QED BY <1>0, <1>1, <1>4, <2>1, <2>2 DEF FileBounds
<1>5. CASE UNCHANGED vars
  <2>1. UNCHANGED <<kind, stage, node, content, written, setting, size, open, offset, fed>>
    BY <1>5 DEF vars, frameVars, fileVars
  <2>2. End' = End
    BY <2>1 DEF End, Limit
  <2>3. FileTypeOK'
    BY <2>1 DEF FileTypeOK, FileBounds
  <2> QED BY <2>1, <2>2, <2>3 DEF FileBounds
<1> QED BY <1>2, <1>3, <1>4, <1>5 DEF Next, Body, Frame, TextKinds

\* Every plugin keeps to its types, whatever the constants are: pids that can be
\* read, mounts within the bound, lines of the text it was given, values within
\* their C types, and offsets, sizes and digests within the file and the count.
THEOREM TypeCorrect == Spec => []TypeOK
<1> DEFINE Types == /\ FrameTyped /\ ProcessTyped /\ MountTyped /\ TextTyped
                    /\ ItemInv /\ FileInv /\ FileBounds
<1>1. Init => Types
  <2> SUFFICES ASSUME Init PROVE Types
    OBVIOUS
  <2>1. FrameTyped /\ ProcessTyped /\ TextTyped /\ MountTyped
    BY TypedInit, MountInitInv
  <2>2. ItemInv /\ FileInv
    BY ItemInitInv, FileInitInv DEF Init
  <2>3. FileBounds
    <3>1. /\ node \in Inodes /\ open = NoInode /\ written = 0 /\ setting \in Settings
          /\ content = [i \in Inodes |-> <<>>] /\ size = 0 /\ offset = 0 /\ fed = <<>>
          /\ stage = "wait"
      BY DEF Init, FileInit, FrameInit
    <3>2. setting.count \in 1..MaxSize /\ MaxSize \in Nat /\ MaxUnits \in Nat
      BY <3>1, FileAssumption
    <3>3. <<>> \in Seq(1..written) /\ Len(<<>>) = 0
      OBVIOUS
    <3>4. FileTypeOK
      BY <3>1, <3>2, <3>3 DEF FileTypeOK
    <3> QED BY <3>1, <3>3, <3>4 DEF FileBounds
  <2> QED BY <2>1, <2>2, <2>3
<1>2. Types /\ [Next]_vars => Types'
  BY FrameTypedStep, ProcessTypedStep, MountTypedStep, TextTypedStep, ItemStepInv, FileStepInv,
     FileBoundsStep
<1>3. Types => TypeOK
  BY TablesTyped DEF TypeOK, FrameTyped, ItemInv, FileBounds
<1> QED BY <1>1, <1>2, <1>3, PTL DEF Spec
=============================================================================
