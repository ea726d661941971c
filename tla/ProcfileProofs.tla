--------------------------- MODULE ProcfileProofs ---------------------------
(***************************************************************************)
(* Proofs about the parser, for every file and every size of a chunk.      *)
(*                                                                         *)
(* The argument follows one position of the file, head, where the token    *)
(* the parser is in begins.  It is the end of the token before, and what   *)
(* has been looked at since does not end the token, in whatever chunks it  *)
(* was looked at, and however often.  StartupProofs draws the conclusions. *)
(***************************************************************************)
EXTENDS Procfile, FiniteSetTheorems, SequenceTheorems, WellFoundedInduction, TLAPS

(* Where the current token begins, less one, and how far the file is known.*)
head == IF pc = "scan" THEN total_read + parse_head ELSE total_read
scanned == CASE pc = "scan" -> total_read + i
             [] pc = "fread" -> total_read
             [] OTHER -> Len(file)

(* The chunk is a piece of the file, and the indicator tells whether it is *)
(* the last.                                                               *)
ChunkOfFile ==
  /\ pc = "scan" =>
       /\ total_read + Len(line) <= Len(file)
       /\ line = SubSeq(file, total_read + 1, total_read + Len(line))
       /\ feof => total_read + Len(line) = Len(file)
  /\ pc \in {"fread", "scan"} =>
       total_read = 0 \/ Len(file) >= LineSize
  /\ pc = "fread" => ~feof
  /\ pc = "scan" /\ ~feof => Len(file) >= LineSize

(* The token before ended at head, and this one has not ended yet.         *)
TokenIsOpen ==
  pc # "aborted" =>
    /\ expecting = ":" => head = 0 \/ head \in ExecEnds
    /\ expecting = "\n" => head \in NameEnds
    /\ \A q \in (head + 1)..scanned : file[q] # expecting

(* The list is that of the tokens up to head.                              *)
ListIsBuilt ==
  pc # "aborted" =>
    /\ found = Cardinality({q \in ExecEnds : q <= head})
    /\ Len(instructions) = IF expecting = ":" THEN found ELSE found + 1
    /\ \A p \in ExecEnds : p <= head => instructions[Number(p)] = Expected(p)
    /\ expecting = "\n" =>
         instructions[found + 1].name =
           Token(SubSeq(file, ExecEndBefore(head) + 1, head - 1))

ParserIInv ==
  ParserTypeOK /\ ChunkOfFile /\ TokenIsOpen /\ ListIsBuilt /\ ShortFilesParse
-----------------------------------------------------------------------------
(* Sets of numbers: the smallest one there is, and the largest if one has  *)
(* it.                                                                     *)
LEMMA Smallest ==
  ASSUME NEW S \in SUBSET Nat, S # {}
  PROVE  Min(S) \in S /\ \A n \in S : Min(S) <= n
<1> DEFINE R == OpToRel(<, Nat)
<1>1. IsWellFoundedOn(R, Nat)
  BY NatLessThanWellFounded
<1>2. PICK m \in S : \A n \in S : ~(<<n, m>> \in R)
  <2> HIDE DEF R
  <2>1. QED
    BY <1>1, WFMin, Zenon
<1>3. \A n \in S : ~(n < m)
  BY <1>2 DEF OpToRel
<1>4. m \in S /\ \A n \in S : m <= n
  BY <1>3
<1>5. QED
  BY <1>4 DEF Min

LEMMA Largest ==
  ASSUME NEW S \in SUBSET Nat, NEW m \in S, \A n \in S : n <= m
  PROVE  Max(S) = m
<1>1. \A n \in S : m >= n
  OBVIOUS
<1>2. Max(S) \in S /\ \A n \in S : Max(S) >= n
  BY <1>1 DEF Max
<1>3. Max(S) \in Nat /\ m \in Nat /\ Max(S) >= m /\ m >= Max(S)
  BY <1>1, <1>2
<1>4. QED
  BY <1>3

LEMMA LesserOfTwo ==
  ASSUME NEW m \in Nat, NEW n \in Nat
  PROVE  Min({m, n}) = IF m <= n THEN m ELSE n
BY DEF Min

(* Pieces of the file, and pieces of these.                                *)
LEMMA Piece ==
  ASSUME NEW s \in Seq(Characters), NEW m \in Nat, NEW n \in Nat,
         m <= n, n <= Len(s)
  PROVE  /\ SubSeq(s, m + 1, n) \in Seq(Characters)
         /\ Len(SubSeq(s, m + 1, n)) = n - m
         /\ \A k \in 1..(n - m) : SubSeq(s, m + 1, n)[k] = s[m + k]
<1>1. \A k \in (m + 1)..n : s[k] \in Characters
  BY LenProperties, ElementOfSeq
<1>2. QED
  BY <1>1, SubSeqProperties

LEMMA PieceOfPiece ==
  ASSUME NEW s \in Seq(Characters), NEW a \in Nat, NEW n \in Nat,
         a + n <= Len(s),
         NEW j \in Nat, NEW k \in Nat, j <= k, k <= n
  PROVE  SubSeq(SubSeq(s, a + 1, a + n), j + 1, k) = SubSeq(s, a + j + 1, a + k)
<1> DEFINE p == SubSeq(s, a + 1, a + n)
           l == SubSeq(p, j + 1, k)
           r == SubSeq(s, (a + j) + 1, a + k)
<1>1. /\ p \in Seq(Characters) /\ Len(p) = n
      /\ \A x \in 1..n : p[x] = s[a + x]
  BY Piece
<1> HIDE DEF p
<1>2. /\ l \in Seq(Characters) /\ Len(l) = k - j
      /\ \A x \in 1..(k - j) : l[x] = p[j + x]
  BY <1>1, Piece
<1>3. /\ r \in Seq(Characters) /\ Len(r) = k - j
      /\ \A x \in 1..(k - j) : r[x] = s[(a + j) + x]
  <2>1. a + j \in Nat /\ a + k \in Nat /\ a + j <= a + k /\ a + k <= Len(s)
        /\ (a + k) - (a + j) = k - j
    BY LenProperties
  <2>2. QED
    BY <2>1, Piece
<1> HIDE DEF l, r
<1>4. ASSUME NEW x \in 1..Len(l)
      PROVE  l[x] = r[x]
  <2>1. x \in 1..(k - j) /\ j + x \in 1..n /\ a + (j + x) = (a + j) + x
    BY <1>2, <1>4
  <2>2. l[x] = p[j + x] /\ p[j + x] = s[a + (j + x)] /\ r[x] = s[(a + j) + x]
    BY <1>1, <1>2, <1>3, <2>1
  <2>3. QED
    BY <2>1, <2>2
<1>5. l = r
  BY <1>2, <1>3, <1>4, SeqEqual
<1>6. QED
  BY <1>5 DEF l, r, p

LEMMA FrontOfPiece ==
  ASSUME NEW s \in Seq(Characters), NEW a \in Nat, NEW n \in Nat,
         a + n <= Len(s), NEW k \in Nat, k <= n
  PROVE  SubSeq(SubSeq(s, a + 1, a + n), 1, k) = SubSeq(s, a + 1, a + k)
<1>1. PICK j \in Nat : j = 0
  OBVIOUS
<1>2. j + 1 = 1 /\ a + j + 1 = a + 1 /\ j <= k
  BY <1>1
<1>3. SubSeq(SubSeq(s, a + 1, a + n), j + 1, k) = SubSeq(s, a + j + 1, a + k)
  BY <1>2, PieceOfPiece
<1>4. QED
  BY <1>2, <1>3

LEMMA TokenType ==
  ASSUME NEW cs \in Seq(Characters)
  PROVE  Token(cs) \in Seq(Characters)
<1> DEFINE text == {k \in 1..Len(cs) : cs[k] \notin Blank}
<1>1. CASE text = {}
  BY <1>1 DEF Token
<1>2. CASE text # {}
  <2>1. Len(cs) \in Nat
    BY LenProperties
  <2>2. Min(text) \in 1..Len(cs)
    <3>1. text \in SUBSET Nat /\ text \subseteq 1..Len(cs)
      BY <2>1
    <3> HIDE DEF text
    <3>2. Min(text) \in text
      BY <1>2, <3>1, Smallest
    <3>3. QED
      BY <3>1, <3>2
  <2>3. \A k \in Min(text)..Len(cs) : cs[k] \in Characters
    BY <2>1, <2>2, ElementOfSeq
  <2>4. SubSeq(cs, Min(text), Len(cs)) \in Seq(Characters)
    BY <2>1, <2>2, <2>3, SubSeqProperties
  <2>5. QED
    BY <1>2, <2>4 DEF Token
<1>3. QED
  BY <1>1, <1>2
-----------------------------------------------------------------------------
(* Where tokens end in a file.                                             *)
LEMMA FileFacts ==
  ASSUME file \in Files
  PROVE  /\ file \in Seq(Characters) /\ Len(file) \in Nat
         /\ DOMAIN file = 1..Len(file)
         /\ \A p \in NameEnds : p \in 1..Len(file) /\ file[p] = ":"
         /\ \A p \in ExecEnds : p \in 1..Len(file) /\ file[p] = "\n"
BY ProcfileAssumption, LenProperties DEF ProcfileAssumption, NameEnds, ExecEnds

(* After the end of a line that has an instruction, with no ":" since:     *)
(* nothing has ended since, and the next ":" ends a name.                  *)
LEMMA NameIsOpen ==
  ASSUME file \in Files, NEW h \in Nat, NEW s \in Nat, h <= s, s <= Len(file),
         h = 0 \/ h \in ExecEnds,
         \A q \in (h + 1)..s : file[q] # ":"
  PROVE  /\ \A p \in NameEnds : p <= s => p < h
         /\ \A p \in ExecEnds : p <= s => p <= h
         /\ s + 1 \in 1..Len(file) /\ file[s + 1] = ":" => s + 1 \in NameEnds
<1>1. \A p \in NameEnds : p <= s => p < h
  BY FileFacts
<1>2. ASSUME NEW p \in ExecEnds, p <= s, h < p PROVE FALSE
  <2>1. PICK q \in NameEnds : q < p /\ SameLine(q, p)
    BY DEF ExecEnds
  <2>2. q < h /\ h \in ExecEnds /\ q \in Nat /\ p \in Nat
    BY <1>1, <1>2, <2>1, FileFacts
  <2>3. h \in q..(p - 1) /\ file[h] = "\n"
    BY <1>2, <2>2, FileFacts
  <2>4. QED
    BY <2>1, <2>3 DEF SameLine
<1>3. ASSUME s + 1 \in 1..Len(file), file[s + 1] = ":",
             NEW q \in 1..((s + 1) - 1), SameLine(q, s + 1), file[q] = ":"
      PROVE  FALSE
  <2>1. q <= h /\ h \in ExecEnds
    BY <1>3
  <2>2. h \in q..((s + 1) - 1) /\ file[h] = "\n"
    BY <2>1, FileFacts
  <2>3. QED
    BY <1>3, <2>2 DEF SameLine
<1>4. \A p \in ExecEnds : p <= s => p <= h
  BY <1>2, FileFacts
<1>5. QED
  BY <1>1, <1>3, <1>4, FileFacts DEF NameEnds

(* After the end of a name, with no newline since: nothing has ended       *)
(* since, and the next newline ends the instruction.                       *)
LEMMA ExecIsOpen ==
  ASSUME file \in Files, NEW h \in NameEnds, NEW s \in Nat, h <= s, s <= Len(file),
         \A q \in (h + 1)..s : file[q] # "\n"
  PROVE  /\ \A p \in NameEnds : p <= s => p <= h
         /\ \A p \in ExecEnds : p <= s => p < h
         /\ s + 1 \in 1..Len(file) /\ file[s + 1] = "\n" => s + 1 \in ExecEnds
<1>1. h \in 1..Len(file) /\ file[h] = ":"
  BY FileFacts
<1>2. \A p \in (h + 1)..(s + 1) : SameLine(h, p)
  BY <1>1 DEF SameLine
<1>3. ASSUME NEW p \in NameEnds, p <= s, h < p PROVE FALSE
  <2>1. p \in (h + 1)..(s + 1) /\ h \in 1..(p - 1)
    BY <1>1, <1>3, FileFacts
  <2>2. QED
    BY <1>1, <1>2, <2>1 DEF NameEnds
<1>4. \A p \in ExecEnds : p <= s => p < h
  BY <1>1, FileFacts
<1>5. s + 1 \in 1..Len(file) /\ file[s + 1] = "\n" => s + 1 \in ExecEnds
  BY <1>1, <1>2, FileFacts DEF ExecEnds
<1>6. \A p \in NameEnds : p <= s => p <= h
  BY <1>1, <1>3, FileFacts
<1>7. QED
  BY <1>4, <1>5, <1>6

(* Ends are counted as they come.                                          *)
UpTo(h) == {q \in ExecEnds : q <= h}

LEMMA Counting ==
  ASSUME file \in Files
  PROVE  /\ IsFiniteSet(ExecEnds)
         /\ \A h : IsFiniteSet(UpTo(h)) /\ Cardinality(UpTo(h)) \in Nat
         /\ \A p \in ExecEnds : Number(p) = Cardinality(UpTo(p)) /\ Number(p) >= 1
         /\ \A h \in Nat : \A p \in UpTo(h) : Number(p) <= Cardinality(UpTo(h))
<1>1. IsFiniteSet(1..Len(file))
  BY FileFacts, FS_Interval
<1>2. ExecEnds \subseteq 1..Len(file)
  BY FileFacts
<1>3. IsFiniteSet(ExecEnds)
  BY <1>1, <1>2, FS_Subset
<1>4. \A h : UpTo(h) \subseteq ExecEnds
  BY DEF UpTo
<1>5. \A h : IsFiniteSet(UpTo(h)) /\ Cardinality(UpTo(h)) \in Nat
  BY <1>3, <1>4, FS_Subset, FS_CardinalityType
<1>6. ASSUME NEW p \in ExecEnds
      PROVE  Number(p) = Cardinality(UpTo(p)) /\ Number(p) >= 1
  <2>1. p \in UpTo(p)
    BY FileFacts DEF UpTo
  <2>2. Cardinality(UpTo(p)) # 0
    BY <1>5, <2>1, FS_EmptySet
  <2>3. QED
    BY <1>5, <2>2 DEF Number, UpTo
<1>7. ASSUME NEW h \in Nat, NEW p \in UpTo(h)
      PROVE  Number(p) <= Cardinality(UpTo(h))
  <2>1. UpTo(p) \subseteq UpTo(h) /\ p \in ExecEnds
    BY <1>7, FileFacts DEF UpTo
  <2>2. Cardinality(UpTo(p)) <= Cardinality(UpTo(h))
    BY <1>5, <2>1, FS_Subset
  <2>3. QED
    BY <1>6, <2>1, <2>2
<1>8. QED
  BY <1>3, <1>5, <1>6, <1>7

(* The reference is about the file only, which no step changes.            *)
LEMMA FileStays ==
  ASSUME file' = file
  PROVE  /\ NameEnds' = NameEnds /\ ExecEnds' = ExecEnds
         /\ \A p : Number(p)' = Number(p) /\ Expected(p)' = Expected(p)
                   /\ ExecEndBefore(p)' = ExecEndBefore(p)
<1>1. NameEnds' = NameEnds
  BY DEF NameEnds, SameLine
<1>2. ExecEnds' = ExecEnds
  BY <1>1 DEF ExecEnds, SameLine
<1>3. ASSUME NEW p
      PROVE  /\ Number(p)' = Number(p)
             /\ ExecEndBefore(p)' = ExecEndBefore(p)
             /\ NameEndBefore(p)' = NameEndBefore(p)
  BY <1>1, <1>2 DEF Number, ExecEndBefore, NameEndBefore
<1>4. ASSUME NEW p PROVE Expected(p)' = Expected(p)
  BY <1>3 DEF Expected
<1>5. QED
  BY <1>1, <1>2, <1>3, <1>4
-----------------------------------------------------------------------------
LEMMA ParserInitIInv == ParserInit => ParserIInv
<1> SUFFICES ASSUME ParserInit PROVE ParserIInv
  OBVIOUS
<1>1. /\ file \in Files /\ Len(file) \in Nat /\ LineSize \in Nat
      /\ head = 0 /\ scanned = 0
  BY FileFacts, ProcfileAssumption DEF ParserInit, head, scanned,
     ProcfileAssumption
<1>2. /\ <<>> \in Seq(Characters) /\ Len(<<>>) = 0
      /\ <<>> \in Seq([name : Seq(Characters), exec : Tokens])
  BY EmptySeq
<1>3. ParserTypeOK
  <2>1. i \in 0..Len(line) /\ parse_head \in 0..i
    BY <1>2 DEF ParserInit
  <2>2. found \in 0..Len(instructions) /\ total_read \in 0..Len(file)
    BY <1>1, <1>2 DEF ParserInit
  <2>3. Len(line) <= LineSize
    BY <1>1, <1>2 DEF ParserInit
  <2>4. /\ line \in Seq(Characters)
        /\ instructions \in Seq([name : Seq(Characters), exec : Tokens])
    BY <1>2 DEF ParserInit
  <2>5. QED
    BY <2>1, <2>2, <2>3, <2>4 DEF ParserInit, ParserTypeOK
<1>4. ChunkOfFile /\ ShortFilesParse
  BY DEF ParserInit, ChunkOfFile, ShortFilesParse
<1>5. TokenIsOpen
  BY <1>1 DEF ParserInit, TokenIsOpen
<1>6. ListIsBuilt
  <2>1. UpTo(0) = {} /\ Cardinality(UpTo(0)) = 0
    BY <1>1, FileFacts, FS_EmptySet DEF UpTo
  <2>2. QED
    BY <1>1, <1>2, <2>1, FileFacts DEF ParserInit, ListIsBuilt, UpTo
<1>7. QED
  BY <1>3, <1>4, <1>5, <1>6 DEF ParserIInv

(* A chunk: from where the parser stands, up to line_size bytes or the end *)
(* of the file.                                                            *)
LEMMA ChunkFacts ==
  ASSUME ParserTypeOK, Fread
  PROVE  /\ line' \in Seq(Characters) /\ Len(line') <= LineSize
         /\ total_read + Len(line') <= Len(file)
         /\ line' = SubSeq(file, total_read + 1, total_read + Len(line'))
         /\ feof' \in BOOLEAN
         /\ feof' => total_read + Len(line') = Len(file)
         /\ ~feof' => Len(file) >= LineSize
<1> DEFINE rest == SubSeq(file, total_read + 1, Len(file))
           n == Min({LineSize, Len(rest)})
<1>1. /\ file \in Seq(Characters) /\ Len(file) \in Nat /\ LineSize \in Nat
      /\ total_read \in Nat /\ total_read <= Len(file)
  BY FileFacts, ProcfileAssumption DEF ParserTypeOK, ProcfileAssumption
<1>2. rest \in Seq(Characters) /\ Len(rest) = Len(file) - total_read
  BY <1>1, Piece
<1>3. line' = SubSeq(rest, 1, n) /\ feof' = (Len(rest) < LineSize)
  BY DEF Fread
<1>4. n = IF LineSize <= Len(rest) THEN LineSize ELSE Len(rest)
  BY <1>1, <1>2, LesserOfTwo
<1> HIDE DEF n
<1>5. n \in Nat /\ n <= Len(rest) /\ n <= LineSize /\ total_read + n <= Len(file)
  BY <1>1, <1>2, <1>4
<1>6. line' = SubSeq(file, total_read + 1, total_read + n)
  <2> DEFINE l == Len(file) - total_read
  <2>1. l \in Nat /\ total_read + l = Len(file) /\ n <= l
    BY <1>1, <1>2, <1>5
  <2>2. rest = SubSeq(file, total_read + 1, total_read + l)
    BY <2>1
  <2> HIDE DEF rest, l
  <2>3. SubSeq(rest, 1, n) = SubSeq(file, total_read + 1, total_read + n)
    BY <1>1, <1>5, <2>1, <2>2, FrontOfPiece
  <2>4. QED
    BY <1>3, <2>3
<1>7. line' \in Seq(Characters) /\ Len(line') = n
  <2> DEFINE m == total_read + n
  <2>1. m \in Nat /\ total_read <= m /\ m <= Len(file) /\ m - total_read = n
    BY <1>1, <1>5
  <2>2. line' = SubSeq(file, total_read + 1, m)
    BY <1>6
  <2> HIDE DEF m
  <2>3. QED
    BY <1>1, <2>1, <2>2, Piece
<1> HIDE DEF rest
<1>8. /\ feof' \in BOOLEAN
      /\ feof' => total_read + n = Len(file)
      /\ ~feof' => Len(file) >= LineSize
  <2> DEFINE isLast == Len(rest) < LineSize
  <2>1. isLast \in BOOLEAN
    OBVIOUS
  <2>2. isLast => total_read + n = Len(file)
    BY <1>1, <1>2, <1>4
  <2>3. ~isLast => Len(file) >= LineSize
    BY <1>1, <1>2
  <2>4. feof' = isLast
    BY <1>3
  <2> HIDE DEF isLast
  <2>5. QED
    BY <2>1, <2>2, <2>3, <2>4, Zenon
<1>9. QED
  BY <1>5, <1>6, <1>7, <1>8

LEMMA FreadIInv == ASSUME ParserIInv, Fread PROVE ParserIInv'
<1>1. /\ pc = "fread" /\ pc' = "scan" /\ i' = 0 /\ parse_head' = 0
      /\ UNCHANGED <<file, total_read, expecting, instructions, found>>
  BY DEF Fread
<1>2. /\ line' \in Seq(Characters) /\ Len(line') <= LineSize
      /\ total_read + Len(line') <= Len(file)
      /\ line' = SubSeq(file, total_read + 1, total_read + Len(line'))
      /\ feof' \in BOOLEAN
      /\ feof' => total_read + Len(line') = Len(file)
      /\ ~feof' => Len(file) >= LineSize
  BY ChunkFacts DEF ParserIInv
<1>3. total_read \in Nat /\ Len(line') \in Nat
  BY <1>2, LenProperties DEF ParserIInv, ParserTypeOK
<1>4. head' = head /\ scanned' = scanned
  BY <1>1, <1>3 DEF head, scanned
<1>5. ParserTypeOK'
  BY <1>1, <1>2, <1>3 DEF ParserIInv, ParserTypeOK
<1>6. ChunkOfFile' /\ ShortFilesParse'
  BY <1>1, <1>2 DEF ParserIInv, ChunkOfFile, ShortFilesParse
<1>7. TokenIsOpen'
  BY <1>1, <1>4, FileStays DEF ParserIInv, TokenIsOpen
<1>8. ListIsBuilt'
  BY <1>1, <1>4, FileStays DEF ParserIInv, ListIsBuilt
<1>9. QED
  BY <1>5, <1>6, <1>7, <1>8 DEF ParserIInv
-----------------------------------------------------------------------------
(* What the invariant says of the positions of a chunk.                    *)
LEMMA Positions ==
  ASSUME ParserIInv, pc = "scan"
  PROVE  /\ file \in Files /\ file \in Seq(Characters) /\ Len(file) \in Nat
         /\ total_read \in Nat /\ i \in Nat /\ parse_head \in Nat
         /\ Len(line) \in Nat /\ i <= Len(line) /\ parse_head <= i
         /\ head = total_read + parse_head /\ scanned = total_read + i
         /\ head \in Nat /\ scanned \in Nat /\ head <= scanned
         /\ scanned <= Len(file)
         /\ i < Len(line) => /\ scanned + 1 \in 1..Len(file)
                             /\ line[i + 1] = file[scanned + 1]
         /\ SubSeq(line, parse_head + 1, i) = SubSeq(file, head + 1, scanned)
<1>1. /\ file \in Files /\ file \in Seq(Characters) /\ Len(file) \in Nat
      /\ total_read \in Nat /\ i \in Nat /\ parse_head \in Nat
      /\ Len(line) \in Nat /\ i <= Len(line) /\ parse_head <= i
  BY FileFacts, LenProperties DEF ParserIInv, ParserTypeOK
<1>2. head = total_read + parse_head /\ scanned = total_read + i
  BY DEF head, scanned
<1>3. /\ total_read + Len(line) <= Len(file)
      /\ line = SubSeq(file, total_read + 1, total_read + Len(line))
  BY DEF ParserIInv, ChunkOfFile
<1>4. /\ head \in Nat /\ scanned \in Nat /\ head <= scanned
      /\ scanned <= Len(file)
  BY <1>1, <1>2, <1>3
<1>5. ASSUME i < Len(line)
      PROVE  /\ scanned + 1 \in 1..Len(file)
             /\ line[i + 1] = file[scanned + 1]
  <2> DEFINE m == total_read
             n == total_read + Len(line)
  <2>1. m \in Nat /\ n \in Nat /\ m <= n /\ n <= Len(file) /\ i + 1 \in 1..(n - m)
    BY <1>1, <1>3, <1>5
  <2>2. line = SubSeq(file, m + 1, n)
    BY <1>3
  <2> HIDE DEF n
  <2>3. line[i + 1] = file[m + (i + 1)]
    BY <1>1, <2>1, <2>2, Piece
  <2>4. QED
    BY <1>1, <1>2, <1>3, <1>5, <2>3
<1>6. SubSeq(line, parse_head + 1, i) = SubSeq(file, head + 1, scanned)
  <2> DEFINE n == Len(line)
  <2>1. n \in Nat /\ total_read + n <= Len(file) /\ i <= n
    BY <1>1, <1>3
  <2>2. line = SubSeq(file, total_read + 1, total_read + n)
    BY <1>3
  <2> HIDE DEF n
  <2>3. SubSeq(line, parse_head + 1, i)
          = SubSeq(file, total_read + parse_head + 1, total_read + i)
    BY <1>1, <2>1, <2>2, PieceOfPiece
  <2>4. QED
    BY <1>2, <2>3
<1>7. QED
  BY <1>1, <1>2, <1>4, <1>5, <1>6

(* What Scan changes, its alternatives apart.                              *)
LEMMA ScanFacts ==
  ASSUME ParserIInv, Scan
  PROVE  /\ pc = "scan" /\ pc' = "scan" /\ i < Len(line) /\ i' = i + 1
         /\ UNCHANGED <<file, feof, total_read, line>>
         /\ scanned' = scanned + 1
         /\ i' \in 0..Len(line)
         /\ ChunkOfFile' /\ ShortFilesParse'
<1>1. /\ pc = "scan" /\ pc' = "scan" /\ i < Len(line) /\ i' = i + 1
      /\ UNCHANGED <<file, feof, total_read, line>>
  BY DEF Scan
<1>2. scanned' = scanned + 1 /\ i' \in 0..Len(line)
  <2>1. scanned' = total_read + (i + 1)
    BY <1>1 DEF scanned
  <2>2. /\ total_read \in Nat /\ i \in Nat /\ Len(line) \in Nat
        /\ scanned = total_read + i
    BY <1>1, Positions
  <2>3. QED
    BY <1>1, <2>1, <2>2
<1>3. ChunkOfFile' /\ ShortFilesParse'
  BY <1>1 DEF ParserIInv, ChunkOfFile, ShortFilesParse
<1>4. QED
  BY <1>1, <1>2, <1>3

(* A character that does not end the token.                                *)
LEMMA ScanOtherIInv ==
  ASSUME ParserIInv, Scan, line[i + 1] # expecting,
         UNCHANGED <<parse_head, expecting, instructions, found>>
  PROVE  ParserIInv'
<1>1. /\ pc = "scan" /\ pc' = "scan" /\ i < Len(line) /\ i' = i + 1
      /\ UNCHANGED <<file, feof, total_read, line>>
      /\ scanned' = scanned + 1 /\ i' \in 0..Len(line)
      /\ ChunkOfFile' /\ ShortFilesParse'
  BY ScanFacts
<1>2. head' = head
  BY <1>1 DEF head
<1>3. ParserTypeOK'
  <2>1. parse_head \in 0..i'
    BY <1>1, Positions
  <2>2. QED
    BY <1>1, <2>1 DEF ParserIInv, ParserTypeOK
<1>4. \A q \in (head + 1)..(scanned + 1) : file[q] # expecting
  <2>1. file[scanned + 1] # expecting
    BY <1>1, Positions
  <2>2. \A q \in (head + 1)..scanned : file[q] # expecting
    BY <1>1 DEF ParserIInv, TokenIsOpen
  <2>3. head \in Nat /\ scanned \in Nat
    BY <1>1, Positions
  <2> HIDE DEF head, scanned
  <2>4. QED
    BY <2>1, <2>2, <2>3
<1>5. TokenIsOpen'
  BY <1>1, <1>2, <1>4, FileStays DEF ParserIInv, TokenIsOpen
<1>6. ListIsBuilt'
  BY <1>1, <1>2, FileStays DEF ParserIInv, ListIsBuilt
<1>7. QED
  BY <1>1, <1>3, <1>5, <1>6 DEF ParserIInv

(* The ":" that ends a name.                                               *)
LEMMA ScanNameIInv ==
  ASSUME ParserIInv, Scan, line[i + 1] = expecting, expecting = ":",
         instructions' =
           Append(instructions,
             [name |-> Token(SubSeq(line, parse_head + 1, i)), exec |-> NoExec]),
         expecting' = "\n", parse_head' = i + 1, found' = found
  PROVE  ParserIInv'
<1> DEFINE h == head
           e == scanned + 1
           token == Token(SubSeq(file, h + 1, scanned))
<1>1. /\ pc = "scan" /\ pc' = "scan" /\ i < Len(line) /\ i' = i + 1
      /\ UNCHANGED <<file, feof, total_read, line>>
      /\ scanned' = e /\ i' \in 0..Len(line)
      /\ ChunkOfFile' /\ ShortFilesParse'
  BY ScanFacts
<1>2. /\ file \in Files /\ file \in Seq(Characters) /\ Len(file) \in Nat
      /\ h \in Nat /\ scanned \in Nat /\ h <= scanned /\ scanned <= Len(file)
      /\ e \in 1..Len(file) /\ line[i + 1] = file[e]
      /\ SubSeq(line, parse_head + 1, i) = SubSeq(file, h + 1, scanned)
  BY <1>1, Positions
<1>3. head' = e
  BY <1>1, Positions DEF head
<1>4. /\ h = 0 \/ h \in ExecEnds
      /\ \A q \in (h + 1)..scanned : file[q] # ":"
      /\ found = Cardinality(UpTo(h)) /\ Len(instructions) = found
      /\ \A p \in UpTo(h) : instructions[Number(p)] = Expected(p)
  BY <1>1 DEF ParserIInv, TokenIsOpen, ListIsBuilt, UpTo
<1>5. token \in Seq(Characters)
  BY <1>2, Piece, TokenType
<1>6. /\ instructions \in Seq([name : Seq(Characters), exec : Tokens])
      /\ instructions' = Append(instructions, [name |-> token, exec |-> NoExec])
      /\ [name |-> token, exec |-> NoExec] \in [name : Seq(Characters), exec : Tokens]
  BY <1>2, <1>5 DEF ParserIInv, ParserTypeOK, Tokens
<1> HIDE DEF h, e, token
<1>7. /\ instructions' \in Seq([name : Seq(Characters), exec : Tokens])
      /\ Len(instructions') = found + 1
      /\ \A k \in 1..found : instructions'[k] = instructions[k]
      /\ instructions'[found + 1].name = token
  <2>1. instructions'[found + 1] = [name |-> token, exec |-> NoExec]
    BY <1>4, <1>6, AppendProperties
  <2>2. QED
    BY <1>4, <1>6, <2>1, AppendProperties
<1>8. /\ \A p \in ExecEnds : p <= scanned => p <= h
      /\ e \in NameEnds
  BY <1>2, <1>4, NameIsOpen DEF e
<1>9. UpTo(e) = UpTo(h)
  <2>1. \A p \in ExecEnds : p <= e => p <= h
    <3>1. e \notin ExecEnds
      BY <1>2, FileFacts
    <3>2. \A p \in ExecEnds : p \in Nat
      BY <1>2, FileFacts
    <3>3. QED
      BY <1>2, <1>8, <3>1, <3>2 DEF e
  <2>2. h <= e
    BY <1>2 DEF e
  <2>3. QED
    BY <1>2, <2>1, <2>2, FileFacts DEF UpTo, e
<1>10. ParserTypeOK'
  <2>1. parse_head' \in 0..i'
    BY <1>1, Positions
  <2>2. found \in 0..Len(instructions')
    BY <1>4, <1>7 DEF ParserIInv, ParserTypeOK
  <2>3. QED
    BY <1>1, <1>7, <2>1, <2>2 DEF ParserIInv, ParserTypeOK
<1>11. TokenIsOpen'
  <2>1. \A q \in (e + 1)..e : FALSE
    BY <1>2 DEF e
  <2>2. QED
    BY <1>1, <1>3, <1>8, <2>1, FileStays DEF TokenIsOpen
<1>12. ExecEndBefore(e) = h
  <2> DEFINE S == {0} \cup {q \in ExecEnds : q < e}
  <2>1. h \in Nat /\ h < e /\ (h = 0 \/ h \in ExecEnds)
    BY <1>2, <1>4 DEF e
  <2>2. \A q \in ExecEnds : q \in Nat
    BY <1>2, FileFacts
  <2>3. \A q \in ExecEnds : q < e => q <= h
    BY <1>2, <1>8, <2>2 DEF e
  <2>4. h \in S
    BY <2>1
  <2>5. S \in SUBSET Nat
    BY <2>2
  <2>6. \A q \in S : q <= h
    BY <2>1, <2>3
  <2> HIDE DEF S
  <2>7. Max(S) = h
    BY <2>4, <2>5, <2>6, Largest
  <2>8. QED
    BY <2>7 DEF S, ExecEndBefore
<1>13. ListIsBuilt'
  <2>1. \A p \in UpTo(e) : instructions'[Number(p)] = Expected(p)
    <3>1. SUFFICES ASSUME NEW p \in UpTo(h)
                   PROVE  instructions'[Number(p)] = Expected(p)
      BY <1>9
    <3>2. p \in ExecEnds
      BY DEF UpTo
    <3>3. Number(p) \in 1..found
      BY <1>2, <1>4, <3>2, Counting
    <3>4. QED
      BY <1>4, <1>7, <3>3
  <2>2. found' = Cardinality(UpTo(e))
    BY <1>4, <1>9
  <2>3. instructions'[found + 1].name = Token(SubSeq(file, ExecEndBefore(e) + 1, e - 1))
    <3>1. e - 1 = scanned
      BY <1>2 DEF e
    <3>2. QED
      BY <1>7, <1>12, <3>1 DEF token
  <2>4. QED
    BY <1>1, <1>3, <1>7, <2>1, <2>2, <2>3, FileStays DEF ListIsBuilt, UpTo
<1>14. QED
  BY <1>1, <1>10, <1>11, <1>13 DEF ParserIInv

(* The newline that ends an instruction.                                   *)
LEMMA ScanExecIInv ==
  ASSUME ParserIInv, Scan, line[i + 1] = expecting, expecting = "\n",
         instructions' =
           [instructions EXCEPT ![Len(instructions)].exec =
              Token(SubSeq(line, parse_head + 1, i))],
         found' = found + 1, expecting' = ":", parse_head' = i + 1
  PROVE  ParserIInv'
<1> DEFINE h == head
           e == scanned + 1
           token == Token(SubSeq(file, h + 1, scanned))
           entry == [name |-> instructions[found + 1].name, exec |-> token]
<1>1. /\ pc = "scan" /\ pc' = "scan" /\ i < Len(line) /\ i' = i + 1
      /\ UNCHANGED <<file, feof, total_read, line>>
      /\ scanned' = e /\ i' \in 0..Len(line)
      /\ ChunkOfFile' /\ ShortFilesParse'
  BY ScanFacts
<1>2. /\ file \in Files /\ file \in Seq(Characters) /\ Len(file) \in Nat
      /\ h \in Nat /\ scanned \in Nat /\ h <= scanned /\ scanned <= Len(file)
      /\ e \in 1..Len(file) /\ line[i + 1] = file[e]
      /\ SubSeq(line, parse_head + 1, i) = SubSeq(file, h + 1, scanned)
  BY <1>1, Positions
<1>3. head' = e
  BY <1>1, Positions DEF head
<1>4. /\ h \in NameEnds
      /\ \A q \in (h + 1)..scanned : file[q] # "\n"
      /\ found = Cardinality(UpTo(h)) /\ Len(instructions) = found + 1
      /\ \A p \in UpTo(h) : instructions[Number(p)] = Expected(p)
      /\ instructions[found + 1].name =
           Token(SubSeq(file, ExecEndBefore(h) + 1, h - 1))
  BY <1>1 DEF ParserIInv, TokenIsOpen, ListIsBuilt, UpTo
<1>5. token \in Seq(Characters)
  BY <1>2, Piece, TokenType
<1>6. found \in Nat
  BY <1>2, <1>4, Counting
<1>7. /\ instructions \in Seq([name : Seq(Characters), exec : Tokens])
      /\ instructions' = [instructions EXCEPT ![found + 1].exec = token]
  BY <1>2, <1>4 DEF ParserIInv, ParserTypeOK
<1> HIDE DEF h, e, token
<1>8. /\ instructions[found + 1] \in [name : Seq(Characters), exec : Tokens]
      /\ found + 1 \in DOMAIN instructions
  <2>1. found + 1 \in 1..Len(instructions)
    BY <1>4, <1>6
  <2>2. DOMAIN instructions = 1..Len(instructions)
    BY <1>7, LenProperties
  <2>3. QED
    BY <1>7, <2>1, <2>2, ElementOfSeq
<1>9. instructions' = [instructions EXCEPT ![found + 1] = entry]
  BY <1>7, <1>8
<1>10. entry \in [name : Seq(Characters), exec : Tokens]
  BY <1>5, <1>8 DEF Tokens
<1> HIDE DEF entry
<1>11. /\ instructions' \in Seq([name : Seq(Characters), exec : Tokens])
       /\ Len(instructions') = found + 1
       /\ \A k \in 1..found : instructions'[k] = instructions[k]
       /\ instructions'[found + 1] = entry
  BY <1>4, <1>6, <1>7, <1>8, <1>9, <1>10, ExceptSeq, LenProperties
<1>12. /\ \A p \in NameEnds : p <= scanned => p <= h
       /\ \A p \in ExecEnds : p <= scanned => p < h
       /\ e \in ExecEnds
  BY <1>2, <1>4, ExecIsOpen DEF e
<1>13. UpTo(e) = UpTo(h) \cup {e} /\ e \notin UpTo(h)
  <2>1. \A p \in ExecEnds : p \in Nat
    BY <1>2, FileFacts
  <2>2. h \in Nat /\ h < e /\ e \in Nat
    BY <1>2 DEF e
  <2>3. \A p \in ExecEnds : p <= e <=> (p <= scanned \/ p = e)
    BY <1>2, <2>1 DEF e
  <2>4. \A p \in ExecEnds : p <= e <=> (p <= h \/ p = e)
    BY <1>12, <2>1, <2>2, <2>3
  <2>5. UpTo(e) = UpTo(h) \cup {e}
    BY <1>12, <2>4 DEF UpTo
  <2>6. e \notin UpTo(h)
    BY <2>2 DEF UpTo
  <2>7. QED
    BY <2>5, <2>6
<1>14. Cardinality(UpTo(e)) = found + 1
  <2>1. IsFiniteSet(UpTo(h))
    BY <1>2, Counting
  <2>2. Cardinality(UpTo(h) \cup {e}) = Cardinality(UpTo(h)) + 1
    BY <1>13, <2>1, FS_AddElement
  <2>3. QED
    BY <1>4, <1>13, <2>2
<1>15. ParserTypeOK'
  <2>1. parse_head' \in 0..i'
    BY <1>1, Positions
  <2>2. found' \in 0..Len(instructions')
    BY <1>6, <1>11
  <2>3. QED
    BY <1>1, <1>11, <2>1, <2>2 DEF ParserIInv, ParserTypeOK
<1>16. TokenIsOpen'
  <2>1. \A q \in (e + 1)..e : FALSE
    BY <1>2 DEF e
  <2>2. QED
    BY <1>1, <1>3, <1>12, <2>1, FileStays DEF TokenIsOpen
<1>17. Expected(e) = entry
  <2>1. NameEndBefore(e) = h
    <3> DEFINE S == {q \in NameEnds : q < e}
    <3>1. S \in SUBSET Nat /\ h \in S /\ \A q \in S : q <= h
      BY <1>2, <1>4, <1>12, FileFacts DEF e
    <3> HIDE DEF S
    <3>2. Max(S) = h
      BY <3>1, Largest
    <3>3. QED
      BY <3>2 DEF S, NameEndBefore
  <2>2. ExecEndBefore(e) = ExecEndBefore(h)
    <3>1. {q \in ExecEnds : q < e} = {q \in ExecEnds : q < h}
      BY <1>2, <1>12, FileFacts DEF e
    <3>2. QED
      BY <3>1 DEF ExecEndBefore
  <2>3. e - 1 = scanned
    BY <1>2 DEF e
  <2>4. QED
    BY <1>4, <2>1, <2>2, <2>3 DEF Expected, entry, token
<1>18. ListIsBuilt'
  <2>1. ASSUME NEW p \in UpTo(e)
        PROVE  instructions'[Number(p)] = Expected(p)
    <3>1. CASE p = e
      <4>1. Number(e) = found + 1
        BY <1>2, <1>12, <1>14, Counting
      <4>2. QED
        BY <1>11, <1>17, <3>1, <4>1
    <3>2. CASE p # e
      <4>1. p \in UpTo(h) /\ p \in ExecEnds
        BY <1>13, <2>1, <3>2 DEF UpTo
      <4>2. Number(p) \in 1..found
        BY <1>2, <1>4, <4>1, Counting
      <4>3. QED
        BY <1>4, <1>11, <4>1, <4>2
    <3>3. QED
      BY <3>1, <3>2
  <2>2. QED
    BY <1>1, <1>3, <1>6, <1>11, <1>14, <2>1, FileStays DEF ListIsBuilt, UpTo
<1>19. QED
  BY <1>1, <1>15, <1>16, <1>18 DEF ParserIInv

LEMMA ScanIInv == ASSUME ParserIInv, Scan PROVE ParserIInv'
BY ScanOtherIInv, ScanNameIInv, ScanExecIInv DEF Scan

(* The end of a chunk.                                                     *)
LEMMA AdvanceIInv == ASSUME ParserIInv, Advance PROVE ParserIInv'
<1>1. /\ pc = "scan" /\ i = Len(line)
      /\ UNCHANGED <<file, feof, line, i, parse_head, expecting, instructions, found>>
  BY DEF Advance
<1>2. /\ file \in Files /\ file \in Seq(Characters) /\ Len(file) \in Nat
      /\ total_read \in Nat /\ i \in Nat /\ parse_head \in Nat /\ parse_head <= i
      /\ head = total_read + parse_head /\ scanned = total_read + i
      /\ head \in Nat /\ scanned \in Nat /\ head <= scanned /\ scanned <= Len(file)
  BY <1>1, Positions
<1>3. CASE parse_head = 0 /\ pc' = "aborted" /\ total_read' = total_read
  <2>1. ParserTypeOK'
    BY <1>1, <1>3 DEF ParserIInv, ParserTypeOK
  <2>2. ChunkOfFile' /\ TokenIsOpen' /\ ListIsBuilt'
    BY <1>3 DEF ChunkOfFile, TokenIsOpen, ListIsBuilt
  <2>3. SUFFICES ASSUME feof, total_read = 0
                 PROVE  ExecEnds = {}
    <3>1. ~feof \/ total_read # 0 => Len(file) >= LineSize
      BY <1>1 DEF ParserIInv, ChunkOfFile
    <3>2. ShortFilesParse'
      BY <1>1, <2>3, <3>1, FileStays DEF ShortFilesParse
    <3>3. QED
      BY <2>1, <2>2, <3>2 DEF ParserIInv
  <2>4. head = 0 /\ scanned = Len(file)
    BY <1>1, <1>2, <1>3, <2>3 DEF ParserIInv, ChunkOfFile
  <2>5. expecting = ":"
    <3>1. head \notin NameEnds
      BY <1>2, <2>4, FileFacts
    <3>2. QED
      BY <1>1, <3>1 DEF ParserIInv, TokenIsOpen, ParserTypeOK
  <2>6. \A q \in (head + 1)..scanned : file[q] # ":"
    BY <1>1, <2>5 DEF ParserIInv, TokenIsOpen
  <2>7. \A p \in ExecEnds : p <= scanned => p <= head
    BY <1>2, <2>4, <2>6, NameIsOpen
  <2>8. QED
    BY <1>2, <2>4, <2>7, FileFacts
<1>4. CASE /\ parse_head > 0
           /\ total_read' = total_read + parse_head
           /\ pc' = IF feof THEN "parsed" ELSE "fread"
  <2>1. pc' \in {"parsed", "fread"} /\ (pc' = "fread" <=> ~feof)
    BY <1>4 DEF ParserIInv, ParserTypeOK
  <2>2. head' = head
    BY <1>2, <1>4, <2>1 DEF head
  <2>3. scanned' = IF feof THEN scanned ELSE head
    <3>1. CASE feof
      <4>1. total_read + i = Len(file)
        BY <1>1, <3>1 DEF ParserIInv, ChunkOfFile
      <4>2. QED
        BY <1>1, <1>2, <2>1, <3>1, <4>1 DEF scanned
    <3>2. CASE ~feof
      BY <1>2, <1>4, <2>1, <3>2 DEF scanned
    <3>3. QED
      BY <3>1, <3>2
  <2>4. ParserTypeOK'
    <3>1. total_read' \in 0..Len(file)
      BY <1>2, <1>4
    <3>2. QED
      BY <1>1, <2>1, <3>1 DEF ParserIInv, ParserTypeOK
  <2>5. ChunkOfFile' /\ ShortFilesParse'
    BY <1>1, <2>1 DEF ParserIInv, ChunkOfFile, ShortFilesParse
  <2>6. \A q \in (head + 1)..scanned' : q \in (head + 1)..scanned
    BY <1>2, <2>3
  <2>7. TokenIsOpen'
    BY <1>1, <2>2, <2>6, FileStays DEF ParserIInv, TokenIsOpen
  <2>8. ListIsBuilt'
    BY <1>1, <2>2, FileStays DEF ParserIInv, ListIsBuilt
  <2>9. QED
    BY <2>4, <2>5, <2>7, <2>8 DEF ParserIInv
<1>5. QED
  BY <1>3, <1>4 DEF Advance

(* When the file has been read, every end of an instruction is up to head, *)
(* and a name without one is what the list has more.                       *)
LEMMA FileIsRead ==
  ASSUME ParserIInv, pc \in {"parsed", "done"}
  PROVE  /\ UpTo(head) = ExecEnds /\ found = Cardinality(ExecEnds) /\ found \in Nat
         /\ \A p \in ExecEnds : /\ Number(p) \in 1..found
                                /\ instructions[Number(p)] = Expected(p)
         /\ LET pending == \E q \in NameEnds : \A p \in ExecEnds : p < q
            IN  Len(instructions) = IF pending THEN found + 1 ELSE found
<1> DEFINE h == head
           pending == \E q \in NameEnds : \A p \in ExecEnds : p < q
<1>1. /\ file \in Files /\ Len(file) \in Nat /\ scanned = Len(file)
      /\ h \in Nat /\ h <= scanned
  BY FileFacts DEF ParserIInv, ParserTypeOK, head, scanned
<1>2. /\ expecting \in {":", "\n"}
      /\ expecting = ":" => h = 0 \/ h \in ExecEnds
      /\ expecting = "\n" => h \in NameEnds
      /\ \A q \in (h + 1)..scanned : file[q] # expecting
      /\ found = Cardinality(UpTo(h))
      /\ Len(instructions) = IF expecting = ":" THEN found ELSE found + 1
      /\ \A p \in UpTo(h) : instructions[Number(p)] = Expected(p)
  BY DEF ParserIInv, ParserTypeOK, TokenIsOpen, ListIsBuilt, UpTo
<1> HIDE DEF h
<1>3. \A p \in NameEnds \cup ExecEnds : p \in Nat /\ p <= scanned /\ p # 0
  BY <1>1, FileFacts
<1>4. (\A p \in ExecEnds : p <= h) /\ (pending <=> expecting = "\n")
  <2>1. CASE expecting = ":"
    <3>1. /\ \A p \in NameEnds : p <= scanned => p < h
          /\ \A p \in ExecEnds : p <= scanned => p <= h
      BY <1>1, <1>2, <2>1, NameIsOpen
    <3>2. ~pending
      BY <1>1, <1>2, <1>3, <2>1, <3>1
    <3>3. QED
      BY <1>3, <2>1, <3>1, <3>2
  <2>2. CASE expecting = "\n"
    <3>1. \A p \in ExecEnds : p <= scanned => p < h
      BY <1>1, <1>2, <2>2, ExecIsOpen
    <3>2. \A p \in ExecEnds : p < h
      BY <1>3, <3>1
    <3>3. pending
      BY <1>2, <2>2, <3>2
    <3>4. QED
      BY <1>1, <1>3, <2>2, <3>2, <3>3
  <2>3. QED
    BY <1>2, <2>1, <2>2
<1>5. UpTo(h) = ExecEnds
  BY <1>4 DEF UpTo
<1>6. \A p \in ExecEnds : Number(p) \in 1..found
  <2>1. SUFFICES ASSUME NEW p \in ExecEnds PROVE Number(p) \in 1..found
    OBVIOUS
  <2>2. /\ Number(p) >= 1 /\ Number(p) <= Cardinality(UpTo(h))
        /\ Number(p) = Cardinality(UpTo(p)) /\ Cardinality(UpTo(p)) \in Nat
        /\ Cardinality(UpTo(h)) \in Nat
    BY <1>1, <1>5, Counting
  <2>3. QED
    BY <1>2, <2>2
<1>7. found \in Nat
  BY <1>1, <1>2, Counting
<1> HIDE DEF pending
<1>8. Len(instructions) = IF pending THEN found + 1 ELSE found
  BY <1>2, <1>4
<1>9. QED
  BY <1>2, <1>5, <1>6, <1>7, <1>8 DEF h, pending

LEMMA ReturnIInv == ASSUME ParserIInv, Return PROVE ParserIInv'
<1>1. /\ pc = "parsed" /\ pc' \in {"done", "aborted"}
      /\ pc' = IF (found > 0) = (instructions # <<>>) THEN "done" ELSE "aborted"
      /\ UNCHANGED <<file, feof, total_read, line, i, parse_head, expecting,
                     instructions, found>>
  BY DEF Return
<1>2. ParserTypeOK' /\ ChunkOfFile'
  BY <1>1 DEF ParserIInv, ParserTypeOK, ChunkOfFile
<1>3. head' = head /\ scanned' = scanned
  BY <1>1 DEF head, scanned
<1>4. TokenIsOpen' /\ ListIsBuilt'
  BY <1>1, <1>3, FileStays DEF ParserIInv, TokenIsOpen, ListIsBuilt
<1>5. pc' = "aborted" => ExecEnds = {}
  <2>1. /\ found \in Nat /\ found = Cardinality(ExecEnds) /\ IsFiniteSet(ExecEnds)
        /\ Len(instructions) \in {found, found + 1}
    BY <1>1, FileIsRead, Counting DEF ParserIInv, ParserTypeOK
  <2>2. found > 0 => instructions # <<>>
    BY <2>1, EmptySeq
  <2>3. ~(found > 0) => ExecEnds = {}
    BY <2>1, FS_EmptySet
  <2>4. QED
    BY <1>1, <2>2, <2>3
<1>6. ShortFilesParse'
  BY <1>1, <1>5, FileStays DEF ShortFilesParse
<1>7. QED
  BY <1>2, <1>4, <1>6 DEF ParserIInv
-----------------------------------------------------------------------------
(* The parser as a whole: what StartupProofs builds upon.                  *)
LEMMA ParserStaysIInv == ASSUME ParserIInv, UNCHANGED parserVars PROVE ParserIInv'
<1>1. UNCHANGED <<file, feof, total_read, line, i, parse_head, expecting,
                  instructions, found, pc>>
  BY DEF parserVars
<1>2. head' = head /\ scanned' = scanned
  BY <1>1 DEF head, scanned
<1>3. ParserTypeOK' /\ ChunkOfFile'
  BY <1>1 DEF ParserIInv, ParserTypeOK, ChunkOfFile
<1>4. TokenIsOpen' /\ ListIsBuilt' /\ ShortFilesParse'
  BY <1>1, <1>2, FileStays
     DEF ParserIInv, TokenIsOpen, ListIsBuilt, ShortFilesParse
<1>5. QED
  BY <1>3, <1>4 DEF ParserIInv

LEMMA ParserStepIInv == ASSUME ParserIInv, [ParserNext]_parserVars PROVE ParserIInv'
BY FreadIInv, ScanIInv, AdvanceIInv, ReturnIInv, ParserStaysIInv DEF ParserNext

LEMMA ParserPromises == ParserIInv => ChunksDontShow /\ ShortFilesParse
BY FileIsRead DEF ParserIInv, ChunksDontShow
=============================================================================
