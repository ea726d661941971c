--------------------------- MODULE PagerForkProofs ---------------------------
(***************************************************************************)
(* Proofs, for every set of files and every number of requests, of what    *)
(* Paging.cfg checks on an instance, liveness apart.                       *)
(*                                                                         *)
(* The name of the requested file is spread over three places: what the    *)
(* fork has read, what is in the pipe and what is still to be written.     *)
(* The argument is that these three, one after the other, are the name,    *)
(* however it is cut, and that nothing of another request is among them.   *)
(***************************************************************************)
EXTENDS PagerFork, SequenceTheorems, TLAPS

(* What is in the pipe, for a fork that waits for a size: the size and the *)
(* beginning of the name, or nothing at all.                               *)
SizeIsNext ==
  fork = "size" =>
    \/ file_pipe = <<>> /\ unwritten = <<>>
    \/ /\ file_pipe # <<>> /\ Head(file_pipe) = Size(request)
       /\ Tail(file_pipe) \o unwritten = Name(request)

(* What the fork has read, the pipe and the rest make up the name.         *)
NameIsInParts ==
  fork = "name" =>
    /\ num_bytes = request
    /\ buffer_pointer = Len(buffer) /\ buffer_pointer < num_bytes
    /\ (buffer \o file_pipe) \o unwritten = Name(request)

(* A request that is served is over for the pipe, and a pager that runs is *)
(* the one of the request.                                                 *)
PagingIsAlone ==
  /\ fork = "paging" => file_pipe = <<>> /\ unwritten = <<>>
  /\ pager # <<>> => fork \in {"paging", "dead"}

(* The byte that comes back is for the request: there is nothing left of   *)
(* it, and nobody has asked for another.                                   *)
ConfirmedIsServed ==
  confirm_pipe > 0 =>
    /\ parent \in {"waiting", "gone"}
    /\ pager = <<>> /\ file_pipe = <<>>
    /\ fork \in {"size", "dead"}

WrittenInFull ==
  /\ parent \in {"idle", "waiting"} => unwritten = <<>>
  /\ parent = "writing" => unwritten # <<>>

IInv ==
  /\ TypeOK /\ PagedIsRequested /\ ScreenAlone
  /\ SizeIsNext /\ NameIsInParts /\ PagingIsAlone /\ ConfirmedIsServed
  /\ WrittenInFull
-----------------------------------------------------------------------------
LEMMA NameFacts ==
  ASSUME NEW f \in Files
  PROVE  /\ f \in Nat \ {0} /\ f # 0
         /\ Name(f) \in Seq(Bytes) /\ Name(f) # <<>> /\ Len(Name(f)) = f
         /\ Size(f) \in Bytes /\ Size(f)[1] = f
<1>1. f \in Nat \ {0}
  BY PagerAssumption DEF PagerAssumption
<1>2. \A i \in 0..f : <<f, i>> \in Bytes
  BY DEF Bytes
<1>3. Name(f) \in [1..f -> Bytes]
  BY <1>1, <1>2 DEF Name
<1>4. Name(f) \in Seq(Bytes) /\ Len(Name(f)) = f
  BY <1>1, <1>3, SeqDef, LenProperties
<1>5. Name(f) # <<>>
  BY <1>1, <1>4, EmptySeq
<1>6. Size(f) \in Bytes /\ Size(f)[1] = f
  BY <1>1, <1>2 DEF Size
<1>7. QED
  BY <1>1, <1>4, <1>5, <1>6

(* A size names a file.                                                    *)
LEMMA SizeNames ==
  ASSUME NEW f \in Nat, Size(f) \in Bytes
  PROVE  f \in Files
BY DEF Size, Bytes

LEMMA Associative ==
  ASSUME NEW r \in Seq(Bytes), NEW s \in Seq(Bytes), NEW t \in Seq(Bytes)
  PROVE  (r \o s) \o t = r \o (s \o t)
BY ConcatAssociative

(* A sequence that is cut in two is the two parts.                         *)
LEMMA Halves ==
  ASSUME NEW s \in Seq(Bytes), NEW n \in 0..Len(s)
  PROVE  /\ SubSeq(s, 1, n) \in Seq(Bytes)
         /\ SubSeq(s, n + 1, Len(s)) \in Seq(Bytes)
         /\ SubSeq(s, 1, n) \o SubSeq(s, n + 1, Len(s)) = s
         /\ Len(SubSeq(s, 1, n)) = n
         /\ Len(SubSeq(s, n + 1, Len(s))) = Len(s) - n
<1>1. Len(s) \in Nat /\ n \in Nat /\ \A i \in 1..Len(s) : s[i] \in Bytes
  BY LenProperties, ElementOfSeq
<1>2. /\ SubSeq(s, 1, n) \in Seq(Bytes)
      /\ Len(SubSeq(s, 1, n)) = n
  BY <1>1, SubSeqProperties
<1>3. /\ SubSeq(s, n + 1, Len(s)) \in Seq(Bytes)
      /\ Len(SubSeq(s, n + 1, Len(s))) = Len(s) - n
  BY <1>1, SubSeqProperties
<1>4. SubSeq(s, 1, n) \o SubSeq(s, n + 1, Len(s)) = SubSeq(s, 1, Len(s))
  <2>1. 1 \in 1..(Len(s) + 1) /\ n \in (1 - 1)..Len(s) /\ Len(s) \in n..Len(s)
    BY <1>1
  <2>2. QED
    BY <2>1, ConcatAdjacentSubSeq, Zenon
<1>5. QED
  BY <1>2, <1>3, <1>4, SubSeqFull

(* A read that finds no more than it asks for appends what there is to a   *)
(* buffer that ends where it reads to.                                     *)
LEMMA Overwrites ==
  ASSUME NEW buf \in Seq(Bytes), NEW bs \in Seq(Bytes)
  PROVE  Overwritten(buf, Len(buf), bs) = buf \o bs
<1>1. Len(buf) \in Nat /\ Len(bs) \in Nat
  BY LenProperties
<1>2. SubSeq(buf, 1, Len(buf)) = buf
  BY SubSeqFull
<1>3. SubSeq(buf, Len(buf) + Len(bs) + 1, Len(buf)) = <<>>
  BY <1>1, SubSeqEmpty
<1>4. buf \o bs \in Seq(Bytes) /\ (buf \o bs) \o <<>> = buf \o bs
  BY ConcatProperties, ConcatEmptySeq
<1>5. QED
  BY <1>2, <1>3, <1>4 DEF Overwritten

LEMMA LesserOfTwo ==
  ASSUME NEW m \in Nat, NEW n \in Nat, n <= m
  PROVE  Min({m, n}) = n
BY DEF Min

LEMMA InitIInv == Init => IInv
<1> SUFFICES ASSUME Init PROVE IInv
  OBVIOUS
<1>1. <<>> \in Seq(Bytes)
  BY EmptySeq
<1>2. TypeOK
  BY <1>1, PagerAssumption DEF Init, TypeOK, PagerAssumption
<1>3. PagedIsRequested /\ ScreenAlone /\ SizeIsNext /\ NameIsInParts
  BY DEF Init, PagedIsRequested, ScreenAlone, SizeIsNext, NameIsInParts
<1>4. PagingIsAlone /\ ConfirmedIsServed /\ WrittenInFull
  BY DEF Init, PagingIsAlone, ConfirmedIsServed, WrittenInFull
<1>5. QED
  BY <1>2, <1>3, <1>4 DEF IInv
-----------------------------------------------------------------------------
(* The parent.                                                             *)
LEMMA PageFileIInv ==
  ASSUME IInv, NEW f \in Files, PageFile(f)
  PROVE  IInv'
<1> USE DEF IInv
<1>1. /\ parent = "idle" /\ pager = <<>> /\ file_pipe = <<>> /\ unwritten = <<>>
      /\ confirm_pipe = 0 /\ fork \in {"size", "dead"}
      /\ request' = f /\ requests' = requests + 1 /\ requests < MaxRequests
      /\ UNCHANGED <<forkVars, confirm_pipe, pager, happened>>
  BY DEF PageFile, ScreenAlone, WrittenInFull
<1>2. requests' \in 0..MaxRequests
  BY <1>1, PagerAssumption DEF TypeOK, PagerAssumption
<1>3. CASE fork # "dead" /\ file_pipe' = Append(file_pipe, Size(f))
           /\ unwritten' = Name(f) /\ parent' = "writing"
  <2>1. file_pipe' = <<Size(f)>>
    BY <1>1, <1>3
  <2>2. /\ file_pipe' \in Seq(Bytes) /\ file_pipe' # <<>>
        /\ Head(file_pipe') = Size(f) /\ Tail(file_pipe') = <<>>
    BY <2>1, NameFacts
  <2>3. <<>> \o Name(f) = Name(f)
    BY NameFacts, ConcatEmptySeq
  <2>4. TypeOK'
    BY <1>1, <1>2, <1>3, <2>2, NameFacts DEF TypeOK, forkVars
  <2>5. SizeIsNext'
    BY <1>1, <1>3, <2>2, <2>3 DEF SizeIsNext
  <2>6. PagedIsRequested' /\ ScreenAlone' /\ NameIsInParts'
    BY <1>1, <1>3 DEF PagedIsRequested, ScreenAlone, NameIsInParts, forkVars
  <2>7. PagingIsAlone' /\ ConfirmedIsServed' /\ WrittenInFull'
    BY <1>1, <1>3, NameFacts DEF PagingIsAlone, ConfirmedIsServed, WrittenInFull,
                                 forkVars
  <2>8. QED
    BY <2>4, <2>5, <2>6, <2>7
<1>4. CASE fork = "dead" /\ parent' = "gone" /\ UNCHANGED <<file_pipe, unwritten>>
  <2>1. TypeOK'
    BY <1>1, <1>2, <1>4 DEF TypeOK, forkVars
  <2>2. PagedIsRequested' /\ ScreenAlone' /\ SizeIsNext' /\ NameIsInParts'
    BY <1>1, <1>4 DEF PagedIsRequested, ScreenAlone, SizeIsNext, NameIsInParts,
                      forkVars
  <2>3. PagingIsAlone' /\ ConfirmedIsServed' /\ WrittenInFull'
    BY <1>1, <1>4 DEF PagingIsAlone, ConfirmedIsServed, WrittenInFull, forkVars
  <2>4. QED
    BY <2>1, <2>2, <2>3
<1>5. QED
  BY <1>3, <1>4 DEF PageFile

(* What is behind a sequence stays behind it when its head is taken.       *)
LEMMA TailOfConcat ==
  ASSUME NEW S, NEW s \in Seq(S), NEW t \in Seq(S), s # <<>>
  PROVE  Tail(s \o t) = Tail(s) \o t
<1> DEFINE whole == s \o t
           u == Tail(s)
           left == Tail(whole)
           right == u \o t
           m == Len(s)
           n == Len(t)
<1>1. /\ whole \in Seq(S) /\ Len(whole) = m + n
      /\ \A k \in 1..m + n : whole[k] = IF k <= m THEN s[k] ELSE t[k - m]
  BY ConcatProperties, Zenon
<1>2. m \in Nat \ {0} /\ n \in Nat
  BY LenProperties, EmptySeq
<1>3. u \in Seq(S) /\ Len(u) = m - 1 /\ \A k \in 1..Len(u) : u[k] = s[k + 1]
  BY HeadTailProperties, Zenon
<1>4. /\ right \in Seq(S) /\ Len(right) = Len(u) + n
      /\ \A k \in 1..Len(u) + n :
           right[k] = IF k <= Len(u) THEN u[k] ELSE t[k - Len(u)]
  BY <1>3, ConcatProperties, Zenon
<1> HIDE DEF whole, u, right, m, n
<1>5. whole # <<>>
  BY <1>1, <1>2, EmptySeq
<1>6. /\ left \in Seq(S) /\ Len(left) = Len(whole) - 1
      /\ \A k \in 1..Len(left) : left[k] = whole[k + 1]
  BY <1>1, <1>5, HeadTailProperties, Zenon
<1> HIDE DEF left
<1>7. Len(left) = Len(right)
  BY <1>1, <1>2, <1>3, <1>4, <1>6
<1>8. ASSUME NEW k \in 1..Len(left) PROVE left[k] = right[k]
  <2>1. k \in Nat /\ k >= 1 /\ k < m + n /\ k <= Len(u) + n
    BY <1>1, <1>2, <1>3, <1>6
  <2>2. left[k] = whole[k + 1] /\ whole[k + 1] = IF k + 1 <= m THEN s[k + 1] ELSE t[(k + 1) - m]
    BY <1>1, <1>2, <1>6, <2>1
  <2>3. CASE k + 1 <= m
    BY <1>2, <1>3, <1>4, <2>1, <2>2, <2>3
  <2>4. CASE ~(k + 1 <= m)
    BY <1>2, <1>3, <1>4, <2>1, <2>2, <2>4
  <2>5. QED
    BY <2>3, <2>4
<1>9. left = right
  BY <1>4, <1>6, <1>7, <1>8, SeqEqual
<1>10. QED
  BY <1>9 DEF left, right, whole, u

(* A piece of the name moves from one part to the next.                    *)
LEMMA PieceMoves ==
  ASSUME TypeOK, NEW n \in 1..Len(unwritten),
         file_pipe' = file_pipe \o SubSeq(unwritten, 1, n),
         unwritten' = SubSeq(unwritten, n + 1, Len(unwritten))
  PROVE  /\ file_pipe' \in Seq(Bytes) /\ unwritten' \in Seq(Bytes)
         /\ file_pipe' \o unwritten' = file_pipe \o unwritten
         /\ file_pipe' # <<>>
         /\ (file_pipe # <<>> =>
               /\ Head(file_pipe') = Head(file_pipe)
               /\ Tail(file_pipe') \o unwritten' = Tail(file_pipe) \o unwritten)
<1> DEFINE piece == SubSeq(unwritten, 1, n)
           rest == SubSeq(unwritten, n + 1, Len(unwritten))
<1>1. file_pipe \in Seq(Bytes) /\ unwritten \in Seq(Bytes)
  BY DEF TypeOK
<1>2. n \in 0..Len(unwritten) /\ n \in Nat \ {0}
  BY <1>1, LenProperties
<1>3. /\ piece \in Seq(Bytes) /\ rest \in Seq(Bytes) /\ piece \o rest = unwritten
      /\ Len(piece) = n
  BY <1>1, <1>2, Halves
<1>4. file_pipe' = file_pipe \o piece /\ unwritten' = rest
  OBVIOUS
<1> HIDE DEF piece, rest
<1>5. piece # <<>>
  BY <1>2, <1>3, EmptySeq
<1>6. file_pipe \o piece \in Seq(Bytes) /\ file_pipe \o piece # <<>>
  BY <1>1, <1>3, <1>5, ConcatProperties, ConcatSimplifications
<1>7. (file_pipe \o piece) \o rest = file_pipe \o unwritten
  BY <1>1, <1>3, Associative
<1>8. ASSUME file_pipe # <<>>
      PROVE  /\ Head(file_pipe \o piece) = Head(file_pipe)
             /\ Tail(file_pipe \o piece) = Tail(file_pipe) \o piece
             /\ Tail(file_pipe) \in Seq(Bytes)
  <2>1. Tail(file_pipe) \in Seq(Bytes)
    BY <1>1, <1>8
  <2>2. Head(file_pipe \o piece) = Head(file_pipe)
    BY <1>1, <1>3, <1>8
  <2>3. Tail(file_pipe \o piece) = Tail(file_pipe) \o piece
    BY <1>1, <1>3, <1>8, TailOfConcat, Zenon
  <2>4. QED
    BY <2>1, <2>2, <2>3
<1>9. ASSUME file_pipe # <<>>
      PROVE  (Tail(file_pipe) \o piece) \o rest = Tail(file_pipe) \o unwritten
  <2>1. Tail(file_pipe) \in Seq(Bytes)
    BY <1>8, <1>9
  <2>2. (Tail(file_pipe) \o piece) \o rest = Tail(file_pipe) \o (piece \o rest)
    BY <1>3, <2>1, Associative, Zenon
  <2>3. QED
    BY <1>3, <2>2
<1>10. QED
  BY <1>3, <1>4, <1>6, <1>7, <1>8, <1>9

LEMMA WriteNameIInv == ASSUME IInv, WriteName PROVE IInv'
<1> USE DEF IInv
<1>1. /\ parent = "writing" /\ confirm_pipe = 0 /\ unwritten # <<>>
      /\ fork # "paging"
      /\ UNCHANGED <<request, requests, forkVars, confirm_pipe, pager, happened>>
  BY DEF WriteName, ConfirmedIsServed, WrittenInFull, PagingIsAlone, TypeOK
<1>2. ASSUME fork # "dead", NEW n \in 1..Len(unwritten),
             file_pipe' = file_pipe \o SubSeq(unwritten, 1, n),
             unwritten' = SubSeq(unwritten, n + 1, Len(unwritten)),
             parent' = IF unwritten' = <<>> THEN "waiting" ELSE "writing"
      PROVE  IInv'
  <2>1. /\ file_pipe' \in Seq(Bytes) /\ unwritten' \in Seq(Bytes)
        /\ file_pipe' \o unwritten' = file_pipe \o unwritten
        /\ file_pipe' # <<>>
        /\ (file_pipe # <<>> =>
              /\ Head(file_pipe') = Head(file_pipe)
              /\ Tail(file_pipe') \o unwritten' = Tail(file_pipe) \o unwritten)
    BY <1>2, PieceMoves
  <2>2. TypeOK'
    BY <1>1, <1>2, <2>1 DEF TypeOK, forkVars
  <2>3. SizeIsNext'
    BY <1>1, <2>1 DEF SizeIsNext, forkVars
  <2>4. NameIsInParts'
    <3>1. SUFFICES ASSUME fork = "name"
                   PROVE (buffer \o file_pipe') \o unwritten' = Name(request)
      BY <1>1, <2>1 DEF NameIsInParts, forkVars
    <3>2. /\ buffer \in Seq(Bytes) /\ file_pipe \in Seq(Bytes)
          /\ unwritten \in Seq(Bytes)
      BY DEF TypeOK
    <3>3. (buffer \o file_pipe') \o unwritten' = buffer \o (file_pipe' \o unwritten')
      BY <2>1, <3>2, Associative
    <3>4. (buffer \o file_pipe) \o unwritten = buffer \o (file_pipe \o unwritten)
      BY <3>2, ConcatAssociative
    <3>5. QED
      BY <2>1, <3>1, <3>3, <3>4 DEF NameIsInParts
  <2>5. PagedIsRequested' /\ ScreenAlone' /\ PagingIsAlone'
    BY <1>1, <1>2 DEF PagedIsRequested, ScreenAlone, PagingIsAlone, forkVars
  <2>6. ConfirmedIsServed' /\ WrittenInFull'
    BY <1>1, <1>2 DEF ConfirmedIsServed, WrittenInFull, TypeOK
  <2>7. QED
    BY <2>2, <2>3, <2>4, <2>5, <2>6
<1>3. CASE fork = "dead" /\ parent' = "gone" /\ UNCHANGED <<file_pipe, unwritten>>
  <2>1. TypeOK'
    BY <1>1, <1>3 DEF TypeOK, forkVars
  <2>2. PagedIsRequested' /\ ScreenAlone' /\ SizeIsNext' /\ NameIsInParts'
    BY <1>1, <1>3 DEF PagedIsRequested, ScreenAlone, SizeIsNext, NameIsInParts,
                      forkVars
  <2>3. PagingIsAlone' /\ ConfirmedIsServed' /\ WrittenInFull'
    BY <1>1, <1>3 DEF PagingIsAlone, ConfirmedIsServed, WrittenInFull, forkVars
  <2>4. QED
    BY <2>1, <2>2, <2>3
<1>4. QED
  BY <1>2, <1>3 DEF WriteName

LEMMA ParentIInv ==
  ASSUME IInv, WaitForConfirm \/ Destroy \/ ParentDies
  PROVE  IInv'
<1> USE DEF IInv
<1>1. CASE WaitForConfirm
  <2>1. TypeOK'
    BY <1>1 DEF WaitForConfirm, forkVars, TypeOK
  <2>2. PagedIsRequested' /\ ScreenAlone' /\ SizeIsNext' /\ NameIsInParts'
    BY <1>1 DEF WaitForConfirm, forkVars, PagedIsRequested, ScreenAlone,
                SizeIsNext, NameIsInParts, ConfirmedIsServed
  <2>3. PagingIsAlone' /\ ConfirmedIsServed' /\ WrittenInFull'
    BY <1>1 DEF WaitForConfirm, forkVars, PagingIsAlone, ConfirmedIsServed,
                WrittenInFull
  <2>4. QED
    BY <2>1, <2>2, <2>3
<1>2. CASE Destroy
  <2>1. TypeOK'
    BY <1>2 DEF Destroy, TypeOK
  <2>2. PagedIsRequested' /\ ScreenAlone' /\ SizeIsNext' /\ NameIsInParts'
    BY <1>2 DEF Destroy, PagedIsRequested, ScreenAlone, SizeIsNext, NameIsInParts
  <2>3. PagingIsAlone' /\ ConfirmedIsServed' /\ WrittenInFull'
    BY <1>2 DEF Destroy, PagingIsAlone, ConfirmedIsServed, WrittenInFull,
                ScreenAlone
  <2>4. QED
    BY <2>1, <2>2, <2>3
<1>3. CASE ParentDies
  <2>1. TypeOK'
    BY <1>3 DEF ParentDies, forkVars, TypeOK
  <2>2. PagedIsRequested' /\ ScreenAlone' /\ SizeIsNext' /\ NameIsInParts'
    BY <1>3 DEF ParentDies, forkVars, PagedIsRequested, ScreenAlone, SizeIsNext,
                NameIsInParts
  <2>3. PagingIsAlone' /\ ConfirmedIsServed' /\ WrittenInFull'
    BY <1>3 DEF ParentDies, forkVars, PagingIsAlone, ConfirmedIsServed,
                WrittenInFull
  <2>4. QED
    BY <2>1, <2>2, <2>3
<1>4. QED
  BY <1>1, <1>2, <1>3
-----------------------------------------------------------------------------
(* The fork.                                                               *)
LEMMA ReadSizeIInv == ASSUME IInv, ReadSize PROVE IInv'
<1> USE DEF IInv
<1>1. /\ fork = "size" /\ file_pipe # <<>> /\ file_pipe \in Seq(Bytes)
      /\ Head(file_pipe) = Size(request)
      /\ Tail(file_pipe) \o unwritten = Name(request)
      /\ parent # "idle" /\ confirm_pipe = 0 /\ pager = <<>>
      /\ UNCHANGED <<parentVars, confirm_pipe, pager, happened>>
  BY DEF ReadSize, SizeIsNext, TypeOK, ScreenAlone, ConfirmedIsServed,
         PagingIsAlone
<1>2. Head(file_pipe) \in Bytes /\ Tail(file_pipe) \in Seq(Bytes)
  BY <1>1, HeadTailProperties
<1>3. request \in Files
  BY <1>1, <1>2, SizeNames, PagerAssumption DEF TypeOK, PagerAssumption
<1>4. /\ num_bytes' = request /\ request \in Nat /\ request > 0
      /\ buffer' = <<>> /\ buffer' \in Seq(Bytes) /\ Len(buffer') = 0
      /\ buffer_pointer' = 0 /\ fork' = "name" /\ file_pipe' = Tail(file_pipe)
  BY <1>1, <1>3, NameFacts, EmptySeq DEF ReadSize
<1>5. TypeOK'
  BY <1>1, <1>2, <1>4 DEF TypeOK, parentVars
<1>6. NameIsInParts'
  <2>1. buffer' \o file_pipe' = file_pipe'
    BY <1>2, <1>4, ConcatEmptySeq
  <2>2. QED
    BY <1>1, <1>4, <2>1 DEF NameIsInParts, parentVars
<1>7. PagedIsRequested' /\ ScreenAlone' /\ SizeIsNext'
  BY <1>1, <1>4 DEF PagedIsRequested, ScreenAlone, SizeIsNext, parentVars
<1>8. PagingIsAlone' /\ ConfirmedIsServed' /\ WrittenInFull'
  BY <1>1, <1>4 DEF PagingIsAlone, ConfirmedIsServed, WrittenInFull, parentVars
<1>9. QED
  BY <1>5, <1>6, <1>7, <1>8

(* All there is in the pipe is read; if that completes the name, nothing   *)
(* of it is left anywhere else.                                            *)
LEMMA ReadFacts ==
  ASSUME IInv, fork = "name", file_pipe # <<>>
  PROVE  /\ Min({num_bytes, Len(file_pipe)}) = Len(file_pipe)
         /\ SubSeq(file_pipe, 1, Len(file_pipe)) = file_pipe
         /\ SubSeq(file_pipe, Len(file_pipe) + 1, Len(file_pipe)) = <<>>
         /\ Overwritten(buffer, buffer_pointer, file_pipe) = buffer \o file_pipe
         /\ buffer \o file_pipe \in Seq(Bytes)
         /\ Len(buffer \o file_pipe) = buffer_pointer + Len(file_pipe)
         /\ buffer_pointer + Len(file_pipe) <= num_bytes
         /\ buffer_pointer + Len(file_pipe) = num_bytes =>
              unwritten = <<>> /\ buffer \o file_pipe = Name(request)
         /\ request \in Files
<1>1. /\ buffer \in Seq(Bytes) /\ file_pipe \in Seq(Bytes)
      /\ unwritten \in Seq(Bytes) /\ num_bytes \in Nat
      /\ num_bytes = request /\ buffer_pointer = Len(buffer)
      /\ buffer_pointer < num_bytes /\ request \in Files \cup {0}
      /\ (buffer \o file_pipe) \o unwritten = Name(request)
  BY DEF IInv, TypeOK, NameIsInParts
<1>2. Len(buffer) \in Nat /\ Len(file_pipe) \in Nat /\ Len(unwritten) \in Nat
  BY <1>1, LenProperties
<1>3. request \in Files
  BY <1>1, <1>2
<1>4. Len(Name(request)) = num_bytes
  BY <1>1, <1>3, NameFacts
<1>5. /\ buffer \o file_pipe \in Seq(Bytes)
      /\ Len(buffer \o file_pipe) = Len(buffer) + Len(file_pipe)
  BY <1>1, ConcatProperties
<1>6. Len((buffer \o file_pipe) \o unwritten)
        = (Len(buffer) + Len(file_pipe)) + Len(unwritten)
  BY <1>1, <1>5, ConcatProperties
<1>7. (Len(buffer) + Len(file_pipe)) + Len(unwritten) = num_bytes
  BY <1>1, <1>4, <1>6
<1>8. /\ Min({num_bytes, Len(file_pipe)}) = Len(file_pipe)
      /\ Len(buffer) + Len(file_pipe) <= num_bytes
  <2>1. Len(buffer) + Len(file_pipe) <= num_bytes /\ Len(file_pipe) <= num_bytes
    BY <1>1, <1>2, <1>7
  <2>2. QED
    BY <1>1, <1>2, <2>1, LesserOfTwo
<1>9. /\ SubSeq(file_pipe, 1, Len(file_pipe)) = file_pipe
      /\ SubSeq(file_pipe, Len(file_pipe) + 1, Len(file_pipe)) = <<>>
  BY <1>1, <1>2, SubSeqFull, SubSeqEmpty
<1>10. Overwritten(buffer, buffer_pointer, file_pipe) = buffer \o file_pipe
  BY <1>1, Overwrites
<1>11. ASSUME Len(buffer) + Len(file_pipe) = num_bytes
       PROVE  unwritten = <<>> /\ buffer \o file_pipe = Name(request)
  <2>1. Len(unwritten) = 0
    BY <1>2, <1>7, <1>11
  <2>2. unwritten = <<>>
    BY <1>1, <2>1, EmptySeq
  <2>3. (buffer \o file_pipe) \o <<>> = buffer \o file_pipe
    BY <1>5, ConcatEmptySeq
  <2>4. QED
    BY <1>1, <2>2, <2>3
<1>12. QED
  BY <1>1, <1>3, <1>5, <1>8, <1>9, <1>10, <1>11

LEMMA ReadNameIInv == ASSUME IInv, ReadName PROVE IInv'
<1> DEFINE read == buffer \o file_pipe
           length == buffer_pointer + Len(file_pipe)
<1>1. /\ fork = "name" /\ file_pipe # <<>>
      /\ UNCHANGED <<parentVars, num_bytes, confirm_pipe>>
  BY DEF ReadName
<1>2. /\ read \in Seq(Bytes) /\ Len(read) = length /\ length <= num_bytes
      /\ length = num_bytes => unwritten = <<>> /\ read = Name(request)
      /\ request \in Files /\ length \in Nat
  BY <1>1, ReadFacts, LenProperties DEF IInv, TypeOK
<1>3. /\ file_pipe' = <<>>
      /\ \/ /\ length # num_bytes
            /\ buffer' = read /\ buffer_pointer' = length
            /\ UNCHANGED <<fork, pager, happened>>
         \/ /\ length = num_bytes
            /\ buffer' = read /\ buffer_pointer' = length
            /\ fork' = "paging" /\ pager' = read
            /\ UNCHANGED happened
         \/ /\ length = num_bytes /\ "no_fork" \in Faults
            /\ happened' = happened \cup {"no_fork"}
            /\ buffer' = <<>> /\ buffer_pointer' = 0
            /\ fork' = "size"
            /\ UNCHANGED pager
  BY <1>1, ReadFacts DEF ReadName
<1>4. <<>> \in Seq(Bytes) /\ Len(<<>>) = 0 /\ Name(request) \in Seq(Bytes)
  BY <1>2, EmptySeq, NameFacts
<1>5. parent # "idle" /\ confirm_pipe = 0 /\ pager = <<>>
  BY <1>1 DEF IInv, ScreenAlone, ConfirmedIsServed, PagingIsAlone, TypeOK
<1> HIDE DEF read, length
<1>6. TypeOK'
  <2>1. buffer' \in Seq(Bytes) /\ pager' \in Seq(Bytes) /\ buffer_pointer' \in Nat
        /\ fork' \in {"size", "name", "paging", "dead"} /\ happened' \subseteq Faults
    BY <1>1, <1>2, <1>3, <1>4 DEF IInv, TypeOK
  <2>2. QED
    BY <1>1, <1>3, <1>4, <2>1 DEF IInv, TypeOK, parentVars
<1>7. PagedIsRequested' /\ ScreenAlone' /\ PagingIsAlone' /\ ConfirmedIsServed'
      /\ WrittenInFull'
  BY <1>1, <1>2, <1>3, <1>5 DEF IInv, PagedIsRequested, ScreenAlone, PagingIsAlone,
     ConfirmedIsServed, WrittenInFull, parentVars
<1>8. SizeIsNext'
  BY <1>1, <1>2, <1>3 DEF SizeIsNext, parentVars
<1>9. NameIsInParts'
  <2>1. CASE length # num_bytes /\ buffer' = read /\ buffer_pointer' = length
    <3>1. read \o <<>> = read
      BY <1>2, ConcatEmptySeq
    <3>2. num_bytes = request /\ read \o unwritten = Name(request)
          /\ num_bytes \in Nat
      BY <1>1 DEF IInv, NameIsInParts, TypeOK, read
    <3>3. QED
      BY <1>1, <1>2, <1>3, <2>1, <3>1, <3>2 DEF NameIsInParts, parentVars
  <2>2. CASE fork' # "name"
    BY <2>2 DEF NameIsInParts
  <2>3. QED
    BY <1>3, <2>1, <2>2
<1>10. QED
  BY <1>6, <1>7, <1>8, <1>9 DEF IInv

LEMMA ForkIInv ==
  ASSUME IInv, Confirm \/ PagerEnds \/ Interrupt
  PROVE  IInv'
<1> USE DEF IInv
<1>1. <<>> \in Seq(Bytes)
  BY EmptySeq
<1>2. CASE Confirm
  <2>1. parent # "idle" /\ parent # "writing" /\ file_pipe = <<>> /\ unwritten = <<>>
    BY <1>2 DEF Confirm, ScreenAlone, PagingIsAlone, WrittenInFull
  <2>2. TypeOK'
    <3> HIDE DEF IInv
    <3>1. TypeOK
      BY DEF IInv
    <3>2. buffer' \in {<<>>, buffer} /\ buffer_pointer' \in {0, buffer_pointer}
          /\ confirm_pipe' \in {confirm_pipe, confirm_pipe + 1}
          /\ fork' \in {"size", "dead"}
      BY <1>2 DEF Confirm
    <3>3. buffer' \in Seq(Bytes)
      BY <1>1, <3>1, <3>2 DEF TypeOK
    <3>4. buffer_pointer' \in Nat /\ confirm_pipe' \in Nat
      BY <3>1, <3>2 DEF TypeOK
    <3>5. QED
      BY <1>2, <3>1, <3>2, <3>3, <3>4 DEF Confirm, parentVars, TypeOK
  <2>3. PagedIsRequested' /\ ScreenAlone' /\ SizeIsNext' /\ NameIsInParts'
    BY <1>2, <2>1 DEF Confirm, parentVars, PagedIsRequested, ScreenAlone,
                      SizeIsNext, NameIsInParts
  <2>4. PagingIsAlone' /\ ConfirmedIsServed' /\ WrittenInFull'
    BY <1>2, <2>1 DEF Confirm, parentVars, PagingIsAlone, ConfirmedIsServed,
                      WrittenInFull, TypeOK
  <2>5. QED
    BY <2>2, <2>3, <2>4
<1>3. CASE PagerEnds
  <2>1. TypeOK'
    BY <1>1, <1>3 DEF PagerEnds, parentVars, forkVars, TypeOK
  <2>2. PagedIsRequested' /\ ScreenAlone' /\ SizeIsNext' /\ NameIsInParts'
    BY <1>3 DEF PagerEnds, parentVars, forkVars, PagedIsRequested, ScreenAlone,
                SizeIsNext, NameIsInParts
  <2>3. PagingIsAlone' /\ ConfirmedIsServed' /\ WrittenInFull'
    BY <1>3 DEF PagerEnds, parentVars, forkVars, PagingIsAlone,
                ConfirmedIsServed, WrittenInFull
  <2>4. QED
    BY <2>1, <2>2, <2>3
<1>4. CASE Interrupt
  <2>1. TypeOK'
    BY <1>1, <1>4 DEF Interrupt, parentVars, TypeOK
  <2>2. PagedIsRequested' /\ ScreenAlone' /\ SizeIsNext' /\ NameIsInParts'
    BY <1>4 DEF Interrupt, parentVars, PagedIsRequested, ScreenAlone,
                SizeIsNext, NameIsInParts
  <2>3. PagingIsAlone' /\ ConfirmedIsServed' /\ WrittenInFull'
    BY <1>4 DEF Interrupt, parentVars, PagingIsAlone, ConfirmedIsServed,
                WrittenInFull
  <2>4. QED
    BY <2>1, <2>2, <2>3
<1>5. QED
  BY <1>2, <1>3, <1>4
-----------------------------------------------------------------------------
LEMMA NextIInv == IInv /\ [Next]_vars => IInv'
<1> SUFFICES ASSUME IInv, [Next]_vars PROVE IInv'
  OBVIOUS
<1>1. CASE UNCHANGED vars
  BY <1>1 DEF vars, parentVars, forkVars, IInv, TypeOK, PagedIsRequested,
              ScreenAlone, SizeIsNext, NameIsInParts, PagingIsAlone,
              ConfirmedIsServed, WrittenInFull
<1>2. CASE Next
  BY <1>1, <1>2, PageFileIInv, WriteNameIInv, ParentIInv, ReadSizeIInv,
     ReadNameIInv, ForkIInv DEF Next, ParentStep, ForkStep, Over
<1>3. QED
  BY <1>1, <1>2

THEOREM InductiveInvariant == Spec => []IInv
BY InitIInv, NextIInv, PTL DEF Spec

(* The pipes carry nothing but bytes of requested names and their sizes.   *)
THEOREM TypeCorrect == Spec => []TypeOK
<1>1. IInv => TypeOK
  BY DEF IInv
<1>2. QED
  BY <1>1, InductiveInvariant, PTL

(* Whatever was paged before, and in whatever pieces the name comes        *)
(* through the pipe, fiveman_pager_fork_page_file gets the file it asks    *)
(* for shown.                                                              *)
THEOREM RequestedIsPaged == Spec => []PagedIsRequested
<1>1. IInv => PagedIsRequested
  BY DEF IInv
<1>2. QED
  BY <1>1, InductiveInvariant, PTL

(* When fiveman_pager_fork_wait_for_confirm has returned there is no pager *)
(* on the terminal and nothing of the request in the pipes.                *)
THEOREM ScreenIsFree == Spec => []ScreenAlone
<1>1. IInv => ScreenAlone
  BY DEF IInv
<1>2. QED
  BY <1>1, InductiveInvariant, PTL
-----------------------------------------------------------------------------
(* The fork dies of nothing but a fault or the end of fiveman.             *)
DeathIsExplained == fork = "dead" => parent = "gone" \/ happened # {}

(* A request that is neither in the pipe nor with the fork was answered.   *)
ServedIsAnswered ==
  parent = "waiting" /\ happened = {} /\ fork = "size" /\ file_pipe = <<>>
    => confirm_pipe = 1

WaitIInv == IInv /\ DeathIsExplained /\ ServedIsAnswered

LEMMA InitWaitIInv == Init => WaitIInv
BY InitIInv DEF Init, WaitIInv, DeathIsExplained, ServedIsAnswered

(* The parent starts to wait with bytes in the pipe.                       *)
LEMMA WriteNameWaits ==
  ASSUME WaitIInv, WriteName
  PROVE  DeathIsExplained' /\ ServedIsAnswered'
<1>1. CASE fork = "dead"
  BY <1>1 DEF WriteName, forkVars, DeathIsExplained, ServedIsAnswered
<1>2. CASE fork # "dead"
  <2>1. PICK n \in 1..Len(unwritten) :
          file_pipe' = file_pipe \o SubSeq(unwritten, 1, n)
    BY <1>2 DEF WriteName
  <2>2. file_pipe \in Seq(Bytes) /\ unwritten \in Seq(Bytes)
    BY DEF WaitIInv, IInv, TypeOK
  <2>3. Len(unwritten) \in Nat /\ n \in Nat /\ n >= 1 /\ n \in 0..Len(unwritten)
    BY <2>1, <2>2, LenProperties
  <2>4. /\ SubSeq(unwritten, 1, n) \in Seq(Bytes)
        /\ Len(SubSeq(unwritten, 1, n)) = n
    BY <2>2, <2>3, Halves
  <2>5. Len(file_pipe') = Len(file_pipe) + n
    BY <2>1, <2>2, <2>4, ConcatProperties, Zenon
  <2>6. file_pipe' # <<>>
    <3>1. Len(file_pipe) \in Nat /\ Len(<<>>) = 0
      BY <2>2, LenProperties
    <3>2. Len(file_pipe') # 0
      BY <2>3, <2>5, <3>1
    <3>3. QED
      BY <3>1, <3>2
  <2>7. QED
    BY <1>2, <2>6 DEF WriteName, forkVars, DeathIsExplained, ServedIsAnswered
<1>3. QED
  BY <1>1, <1>2

LEMMA NextWaits == WaitIInv /\ [Next]_vars => WaitIInv'
<1> SUFFICES ASSUME WaitIInv, [Next]_vars
             PROVE  DeathIsExplained' /\ ServedIsAnswered'
  BY NextIInv DEF WaitIInv
<1>1. ASSUME NEW f \in Files, PageFile(f)
      PROVE  DeathIsExplained' /\ ServedIsAnswered'
  BY <1>1 DEF PageFile, forkVars, DeathIsExplained, ServedIsAnswered
<1>2. CASE WaitForConfirm \/ Destroy \/ ParentDies
  BY <1>2 DEF WaitForConfirm, Destroy, ParentDies, forkVars, WaitIInv,
              DeathIsExplained, ServedIsAnswered
<1>3. CASE ReadSize
  BY <1>3 DEF ReadSize, DeathIsExplained, ServedIsAnswered
<1>4. CASE ReadName
  <2>1. fork = "name" /\ fork' \in {"name", "paging", "size"}
        /\ (fork' = "size" => happened' # {})
    BY <1>4 DEF ReadName
  <2>2. QED
    BY <2>1 DEF DeathIsExplained, ServedIsAnswered
<1>5. CASE Confirm
  <2>1. parent \in {"idle", "waiting"} => confirm_pipe = 0
    BY <1>5 DEF Confirm, WaitIInv, IInv, TypeOK, ScreenAlone, ConfirmedIsServed
  <2>2. CASE parent = "gone"
    BY <1>5, <2>2 DEF Confirm, parentVars, DeathIsExplained, ServedIsAnswered
  <2>3. CASE parent # "gone"
    <3>1. confirm_pipe' = confirm_pipe + 1 /\ fork' = "size" /\ parent' = parent
      BY <1>5, <2>3 DEF Confirm, parentVars
    <3>2. parent = "waiting" => confirm_pipe' = 1
      BY <2>1, <3>1
    <3>3. QED
      BY <3>1, <3>2 DEF DeathIsExplained, ServedIsAnswered
  <2>4. QED
    BY <2>2, <2>3
<1>6. CASE Interrupt
  <2>1. happened' # {} /\ parent' = parent
    BY <1>6 DEF Interrupt, parentVars
  <2>2. QED
    BY <2>1 DEF DeathIsExplained, ServedIsAnswered
<1>7. CASE PagerEnds \/ Over \/ UNCHANGED vars
  BY <1>7 DEF PagerEnds, Over, vars, parentVars, forkVars, WaitIInv,
              DeathIsExplained, ServedIsAnswered
<1>8. QED
  BY <1>1, <1>2, <1>3, <1>4, <1>5, <1>6, <1>7, WriteNameWaits
     DEF Next, ParentStep, ForkStep

(* A fork in the middle of a name still has some of it to read.            *)
LEMMA NameIsThere ==
  ASSUME IInv, parent = "waiting", fork = "name"
  PROVE  file_pipe # <<>>
<1>1. unwritten = <<>>
  BY DEF IInv, WrittenInFull
<1>2. /\ buffer \in Seq(Bytes) /\ file_pipe \in Seq(Bytes)
      /\ request \in Files \cup {0} /\ num_bytes \in Nat
  BY DEF IInv, TypeOK
<1>3. /\ num_bytes = request /\ Len(buffer) < num_bytes
      /\ (buffer \o file_pipe) \o unwritten = Name(request)
  BY DEF IInv, NameIsInParts
<1>4. request \in Files
  BY <1>2, <1>3, LenProperties
<1>5. SUFFICES ASSUME file_pipe = <<>> PROVE FALSE
  OBVIOUS
<1>6. (buffer \o file_pipe) \o unwritten = buffer
  BY <1>1, <1>2, <1>5, ConcatEmptySeq
<1>7. Len(buffer) = request
  BY <1>3, <1>4, <1>6, NameFacts
<1>8. Len(buffer) \in Nat
  BY <1>2, LenProperties
<1>9. QED
  BY <1>2, <1>3, <1>7, <1>8

(* The two sides of fiveman_pager_fork.c never wait for each other: while  *)
(* fiveman waits, and neither Ctrl-C nor a failing fork() came between,    *)
(* somebody has the request or its answer.                                 *)
THEOREM NoMutualWait == Spec => []NobodyStuck
<1>1. WaitIInv => NobodyStuck
  <2> SUFFICES ASSUME WaitIInv, parent = "waiting", happened = {}
               PROVE  \/ fork \in {"size", "name"} /\ file_pipe # <<>> /\ confirm_pipe = 0
                      \/ fork = "paging" /\ file_pipe = <<>> /\ confirm_pipe = 0
                      \/ fork = "size" /\ file_pipe = <<>> /\ confirm_pipe = 1
    BY DEF NobodyStuck
  <2>1. confirm_pipe \in Nat /\ fork \in {"size", "name", "paging", "dead"}
    BY DEF WaitIInv, IInv, TypeOK
  <2>2. fork # "dead"
    BY DEF WaitIInv, DeathIsExplained
  <2>3. CASE fork = "size" /\ file_pipe = <<>>
    BY <2>3 DEF WaitIInv, ServedIsAnswered
  <2>4. CASE fork = "paging" \/ fork = "name" \/ file_pipe # <<>>
    <3>1. confirm_pipe = 0
      BY <2>1, <2>4, NameIsThere DEF WaitIInv, IInv, ConfirmedIsServed
    <3>2. fork = "paging" => file_pipe = <<>>
      BY DEF WaitIInv, IInv, PagingIsAlone
    <3>3. fork = "name" => file_pipe # <<>>
      BY NameIsThere DEF WaitIInv
    <3>4. QED
      BY <2>1, <2>2, <2>4, <3>1, <3>2, <3>3
  <2>5. QED
    BY <2>1, <2>2, <2>3, <2>4
<1>2. Spec => []WaitIInv
  BY InitWaitIInv, NextWaits, PTL DEF Spec
<1>3. QED
  BY <1>1, <1>2, PTL
-----------------------------------------------------------------------------
(* A step of the contract, or none.                                        *)
ContractStep == [Contract!Next]_Contract!vars

(* The client of the contract, and its service.                            *)
client == CASE parent = "idle" -> "free"
            [] parent = "gone" -> "gone"
            [] parent = "waiting" /\ confirm_pipe > 0 -> "answered"
            [] OTHER -> "asking"
service == IF fork = "dead" THEN "down" ELSE "up"

LEMMA StepOf ==
  ASSUME \/ client = "free" /\ client' = (IF service = "up" THEN "asking" ELSE "gone")
              /\ service' = service
         \/ client = "asking" /\ service = "up" /\ client' = "answered"
              /\ service' = service
         \/ client = "answered" /\ client' = "free" /\ service' = service
         \/ client' = client /\ service' = "down"
         \/ client # "gone" /\ client' = "gone" /\ service' \in {service, "down"}
         \/ client' = client /\ service' = service
  PROVE  ContractStep
BY DEF ContractStep, client, service, Contract!vars, Contract!Next, Contract!Ask,
       Contract!Answer, Contract!Return, Contract!BreakDown, Contract!Leave

LEMMA NextRefines ==
  ASSUME IInv, [Next]_vars
  PROVE  ContractStep
<1>1. /\ parent \in {"idle", "writing", "waiting", "gone"}
      /\ confirm_pipe \in Nat
  BY DEF IInv, TypeOK
<1>2. ASSUME NEW f \in Files, PageFile(f) PROVE ContractStep
  BY <1>2, StepOf DEF PageFile, forkVars, client, service
<1>3. CASE WriteName
  <2>1. confirm_pipe = 0
    BY <1>1, <1>3 DEF WriteName, IInv, ConfirmedIsServed
  <2>2. QED
    BY <1>3, <2>1, StepOf DEF WriteName, forkVars, client, service
<1>4. CASE WaitForConfirm
  BY <1>4, StepOf DEF WaitForConfirm, forkVars, client, service
<1>5. CASE Destroy \/ ParentDies
  BY <1>1, <1>5, StepOf DEF Destroy, ParentDies, forkVars, client, service
<1>6. CASE ReadSize \/ ReadName \/ PagerEnds
  <2>1. /\ parent' = parent /\ confirm_pipe' = confirm_pipe
        /\ fork # "dead" => fork' # "dead"
        /\ fork = "dead" => fork' = "dead"
    BY <1>6 DEF ReadSize, ReadName, PagerEnds, parentVars, forkVars
  <2>2. client' = client /\ service' = service
    BY <2>1 DEF client, service
  <2>3. QED
    BY <2>2, StepOf
<1>7. CASE Confirm
  <2>1. /\ parent \in {"waiting", "gone"} /\ confirm_pipe = 0
    BY <1>1, <1>7 DEF Confirm, IInv, ScreenAlone, PagingIsAlone, WrittenInFull,
                      ConfirmedIsServed
  <2>2. QED
    BY <1>7, <2>1, StepOf DEF Confirm, parentVars, client, service
<1>8. CASE Interrupt
  <2>1. client' = client /\ service' = "down"
    BY <1>8 DEF Interrupt, parentVars, client, service
  <2>2. QED
    BY <2>1, StepOf
<1>9. CASE Over \/ UNCHANGED vars
  <2>1. client' = client /\ service' = service
    BY <1>9 DEF Over, vars, parentVars, forkVars, client, service
  <2>2. QED
    BY <2>1, StepOf
<1>10. QED
  BY <1>2, <1>3, <1>4, <1>5, <1>6, <1>7, <1>8, <1>9 DEF Next, ParentStep, ForkStep

(* Both sides of fiveman_pager_fork.c together keep the contract that      *)
(* FivemanProofs shows the main thread to respect: for one request at a    *)
(* time one answer, and none from a fork that has died.                    *)
THEOREM ContractKept == Spec => KeepsContract
<1>1. Init => Contract!Init
  BY DEF Init, Contract!Init
<1>2. IInv /\ [Next]_vars => [Contract!Next]_Contract!vars
  BY NextRefines DEF ContractStep
<1>3. QED
  BY <1>1, <1>2, InductiveInvariant, PTL DEF Spec, KeepsContract, Contract!Spec
=============================================================================
