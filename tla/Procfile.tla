------------------------------ MODULE Procfile ------------------------------
(***************************************************************************)
(* parse_procfile of src/src/procfile.c.  A Procfile is a sequence of      *)
(* lines "<name>:<exec>".  It is read in chunks of line_size bytes; after  *)
(* each chunk the file position is put back to the end of the last token   *)
(* that was complete, so that the next chunk starts with the rest.         *)
(***************************************************************************)
EXTENDS Naturals, FiniteSets, Sequences, SequencesExt

CONSTANTS
  Files,      \* the contents a Procfile may have
  LineSize    \* line_size: the length of a chunk

(* The characters the parser tells apart; "x" is any other.                *)
Characters == {":", "\n", " ", "x"}

ASSUME ProcfileAssumption ==
  /\ Files \subseteq Seq(Characters)
  /\ LineSize \in Nat \ {0}

VARIABLES
  file,           \* the contents
  feof,           \* the end-of-file indicator
  total_read,     \* the position the next chunk is read from
  line,           \* the chunk
  i,              \* the characters of it that have been looked at
  parse_head,     \* where the current token starts in it, less one
  expecting,      \* the character that ends the current token
  instructions,   \* the list built so far
  found,          \* the number of instructions that are complete
  pc

parserVars == <<file, feof, total_read, line, i, parse_head, expecting,
                instructions, found, pc>>

NoExec == <<"none">>
Tokens == Seq(Characters) \cup {NoExec}

ParserTypeOK ==
  /\ file \in Files
  /\ feof \in BOOLEAN
  /\ total_read \in 0..Len(file)
  /\ line \in Seq(Characters) /\ Len(line) <= LineSize
  /\ i \in 0..Len(line) /\ parse_head \in 0..i
  /\ expecting \in {":", "\n"}
  /\ instructions \in Seq([name : Seq(Characters), exec : Tokens])
  /\ found \in 0..Len(instructions)
  /\ pc \in {"fread", "scan", "parsed", "done", "aborted"}

ParserInit ==
  /\ file \in Files
  /\ feof = FALSE /\ total_read = 0 /\ line = <<>> /\ i = 0 /\ parse_head = 0
  /\ expecting = ":" /\ instructions = <<>> /\ found = 0
  /\ pc = "fread"

(* Variant with a defect: the end of the file is noticed one chunk later.  *)
FreadToTheEnd ==
  /\ pc = "fread"
  /\ LET rest == SubSeq(file, total_read + 1, Len(file))
     IN  /\ line' = SubSeq(rest, 1, Min({LineSize, Len(rest)}))
         /\ feof' = (rest = <<>>)
  /\ i' = 0 /\ parse_head' = 0
  /\ pc' = "scan"
  /\ UNCHANGED <<file, total_read, expecting, instructions, found>>

(* fread sets the indicator when the file has less than it was asked for.  *)
Fread ==
  /\ pc = "fread"
  /\ LET rest == SubSeq(file, total_read + 1, Len(file))
     IN  /\ line' = SubSeq(rest, 1, Min({LineSize, Len(rest)}))
         /\ feof' = (Len(rest) < LineSize)
  /\ i' = 0 /\ parse_head' = 0
  /\ pc' = "scan"
  /\ UNCHANGED <<file, total_read, expecting, instructions, found>>

Blank == {" ", "\t"}

(* The token cs, without its leading blanks unless it is nothing else.     *)
Token(cs) ==
  LET text == {k \in 1..Len(cs) : cs[k] \notin Blank}
  IN  IF text = {} THEN cs ELSE SubSeq(cs, Min(text), Len(cs))

(* One character of the chunk.                                             *)
Scan ==
  /\ pc = "scan" /\ i < Len(line)
  /\ i' = i + 1
  /\ LET token == Token(SubSeq(line, parse_head + 1, i))
         last == Len(instructions)
     IN  \/ /\ line[i + 1] # expecting
            /\ UNCHANGED <<parse_head, expecting, instructions, found>>
         \/ /\ line[i + 1] = expecting /\ expecting = ":"
            /\ instructions' = Append(instructions, [name |-> token, exec |-> NoExec])
            /\ expecting' = "\n" /\ parse_head' = i + 1
            /\ UNCHANGED found
         \/ /\ line[i + 1] = expecting /\ expecting = "\n"
            /\ instructions' = [instructions EXCEPT ![last].exec = token]
            /\ found' = found + 1
            /\ expecting' = ":" /\ parse_head' = i + 1
  /\ UNCHANGED <<file, feof, total_read, line, pc>>

(* Variants of Advance, each with one defect: the position moves past the  *)
(* end of the token, to the end of the chunk, or without the assertion.    *)
AdvanceTooFar ==
  /\ pc = "scan" /\ i = Len(line)
  /\ \/ /\ parse_head = 0
        /\ pc' = "aborted"
        /\ UNCHANGED total_read
     \/ /\ parse_head > 0
        /\ total_read' = total_read + parse_head + 1
        /\ pc' = IF feof THEN "parsed" ELSE "fread"
  /\ UNCHANGED <<file, feof, line, i, parse_head, expecting, instructions, found>>

AdvanceByChunk ==
  /\ pc = "scan" /\ i = Len(line)
  /\ \/ /\ parse_head = 0
        /\ pc' = "aborted"
        /\ UNCHANGED total_read
     \/ /\ parse_head > 0
        /\ total_read' = total_read + Len(line)
        /\ pc' = IF feof THEN "parsed" ELSE "fread"
  /\ UNCHANGED <<file, feof, line, i, parse_head, expecting, instructions, found>>

AdvanceAnyway ==
  /\ pc = "scan" /\ i = Len(line)
  /\ total_read' = total_read + parse_head
  /\ pc' = IF feof THEN "parsed" ELSE "fread"
  /\ UNCHANGED <<file, feof, line, i, parse_head, expecting, instructions, found>>

(* The end of a chunk: no progress in it is an assertion failure;          *)
(* otherwise, unless the file has ended, fseek and once more.              *)
Advance ==
  /\ pc = "scan" /\ i = Len(line)
  /\ \/ /\ parse_head = 0
        /\ pc' = "aborted"
        /\ UNCHANGED total_read
     \/ /\ parse_head > 0
        /\ total_read' = total_read + parse_head
        /\ pc' = IF feof THEN "parsed" ELSE "fread"
  /\ UNCHANGED <<file, feof, line, i, parse_head, expecting, instructions, found>>

(* The last assertions and the return.                                     *)
Return ==
  /\ pc = "parsed"
  /\ pc' = IF (found > 0) = (instructions # <<>>) THEN "done" ELSE "aborted"
  /\ UNCHANGED <<file, feof, total_read, line, i, parse_head, expecting,
                 instructions, found>>

ParserNext == Fread \/ Scan \/ Advance \/ Return
-----------------------------------------------------------------------------
(* The reference knows no chunks, and no order in which the file is read.  *)
(* The positions q and p are on one line.                                  *)
SameLine(q, p) == \A r \in q..(p - 1) : file[r] # "\n"

(* A name ends at the first ":" of a line, and what to run at the end of   *)
(* that line.                                                              *)
NameEnds ==
  {p \in DOMAIN file :
     file[p] = ":" /\ \A q \in 1..(p - 1) : SameLine(q, p) => file[q] # ":"}
ExecEnds ==
  {p \in DOMAIN file : file[p] = "\n" /\ \E q \in NameEnds : q < p /\ SameLine(q, p)}

(* A name begins after the last instruction before, wherever that ends.    *)
ExecEndBefore(p) == Max({0} \cup {q \in ExecEnds : q < p})
NameEndBefore(p) == Max({q \in NameEnds : q < p})

(* The instruction that ends at p, and which one it is.                    *)
Expected(p) ==
  [name |-> Token(SubSeq(file, ExecEndBefore(p) + 1, NameEndBefore(p) - 1)),
   exec |-> Token(SubSeq(file, NameEndBefore(p) + 1, p - 1))]
Number(p) == Cardinality({q \in ExecEnds : q <= p})

(* When the parser returns, the instructions it counts are those of the    *)
(* file, wherever the boundaries of the chunks fell.                       *)
ChunksDontShow ==
  pc = "done" =>
    /\ found = Cardinality(ExecEnds)
    /\ \A p \in ExecEnds : instructions[Number(p)] = Expected(p)

(* A Procfile that is shorter than a chunk and has a complete line is      *)
(* parsed: the assertions are only for longer ones, or for those that have *)
(* nothing to run.                                                         *)
ShortFilesParse == pc = "aborted" => Len(file) >= LineSize \/ ExecEnds = {}

(* procfile.c:80 assert(head == NULL), when nothing was found.             *)
HeadAsserted == pc = "parsed" /\ found = 0 => instructions = <<>>
=============================================================================
