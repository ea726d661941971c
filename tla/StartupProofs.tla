--------------------------- MODULE StartupProofs ----------------------------
(***************************************************************************)
(* Proofs about the start of main, for every set of files, every command   *)
(* line and every environment.  The parser's part is in ProcfileProofs;    *)
(* here it is followed what the options seen so far amount to, and what    *)
(* has been refused.                                                       *)
(***************************************************************************)
EXTENDS Startup, ProcfileProofs

(* Where main has got past the options.                                    *)
PastOptions == {"command", "access", "procfile", "start", "count", "started"}

(* What the first n words of the command line ask for.                     *)
Seen(option, n) == {k \in 1..n : invocation.args[k].option = option}
PathSeen(option, n) ==
  IF Seen(option, n) = {} THEN <<>>
  ELSE <<invocation.args[Max(Seen(option, n))].text>>
PortSeen(n) ==
  IF Seen("p", n) # {} THEN invocation.args[Max(Seen("p", n))].number
  ELSE IF invocation.PORT > 0 THEN invocation.PORT ELSE 5000

(* What main has found so far is what the words looked at ask for.         *)
WordsAreSeen ==
  at \in {"environment", "options"} \cup PastOptions =>
    /\ words = <<>> <=> Seen("word", optind) = {}
    /\ words # <<>> => words[1] = invocation.args[Min(Seen("word", optind))].text
    /\ \A k \in Seen("p", optind) : invocation.args[k].number > 0

OptionsAreSeen ==
  /\ at = "environment" =>
       /\ optind = 0 /\ port = 5000 /\ errno = "0"
       /\ directory = <<>> /\ procfile = <<>>
  /\ at = "options" =>
       /\ directory = PathSeen("d", optind)
       /\ procfile = PathSeen("f", optind)
  /\ at \in {"options"} \cup PastOptions =>
       /\ port = PortSeen(optind)
       /\ errno = IF invocation.sudo = "denied" THEN "EPERM" ELSE "0"
  /\ at \in PastOptions =>
       /\ optind = Len(invocation.args)
       /\ directory = AskedDirectory /\ procfile = AskedProcfile

(* Each assertion has been passed, or is what main was aborted by.         *)
NothingRefused ==
  /\ at \in PastOptions => ~(invocation.sudo = "denied" /\ Given("d") = {})
  /\ at \in PastOptions \ {"command"} => FirstWord \in Selecting
  /\ at \in {"procfile", "start", "count", "started"} =>
       directory \in Readable /\ procfile \in Readable
  /\ at \in {"count", "started"} => Contains(invocation.environ, "PATH")
  /\ at = "aborted" => Refused

(* The table is that of the list the parser returned.                      *)
TableIsBuilt ==
  /\ at \in {"environment", "options", "command", "access", "procfile"} =>
       table = <<>>
  /\ at \in {"start", "count", "started"} =>
       pc = "done" /\ table = [k \in DOMAIN instructions |-> Row(k)]

(* The entry looked at is as far from the first as esize says, and the     *)
(* index i is that of the entry to be looked at next, but for the first    *)
(* turn, which looks at the first entry again.                             *)
EnvironIsCounted ==
  at = "count" => c = esize /\ turn \in {esize, esize + 1}

(* Hence the copy has all entries but the last, and ends where it should.  *)
EnvironIsCopied ==
  at = "started" =>
    /\ esize = Len(invocation.environ)
    /\ DOMAIN new_environ = 0..(esize + 1)
    /\ \A k \in 0..(esize - 2) : new_environ[k] = Inherited(invocation.environ[k + 1])
    /\ new_environ[esize - 1] = New("PATH") /\ new_environ[esize] = New("PORT")
    /\ new_environ[esize + 1] = Null

IInv ==
  /\ ParserIInv
  /\ invocation \in Invocations[file]
  /\ TypeOK /\ WordsAreSeen /\ OptionsAreSeen /\ NothingRefused /\ TableIsBuilt
  /\ EnvironIsCounted /\ EnvironIsCopied
-----------------------------------------------------------------------------
LEMMA InvocationFacts ==
  ASSUME file \in Files, invocation \in Invocations[file]
  PROVE  /\ invocation.args \in Seq([option : Options, text : STRING, number : Int])
         /\ Len(invocation.args) \in Nat
         /\ DOMAIN invocation.args = 1..Len(invocation.args)
         /\ \A k \in 1..Len(invocation.args) :
              invocation.args[k] \in [option : Options, text : STRING, number : Int]
         /\ invocation.environ \in Seq(STRING) /\ Len(invocation.environ) \in Nat
         /\ invocation.PORT \in Int /\ invocation.sudo \in SudoOutcomes
<1>1. /\ invocation.args \in Seq([option : Options, text : STRING, number : Int])
      /\ invocation.environ \in Seq(STRING)
      /\ invocation.PORT \in Int /\ invocation.sudo \in SudoOutcomes
  BY StartupAssumption DEF StartupAssumption
<1>2. QED
  BY <1>1, LenProperties, ElementOfSeq

(* The smallest of a set does not change when a larger one joins it.       *)
LEMMA LargerJoins ==
  ASSUME NEW S \in SUBSET Nat, NEW m \in Nat, \A n \in S : n < m
  PROVE  /\ Max(S \cup {m}) = m
         /\ Min(S \cup {m}) = IF S = {} THEN m ELSE Min(S)
<1> DEFINE T == S \cup {m}
<1>1. T \in SUBSET Nat /\ m \in T /\ \A n \in T : n <= m
  OBVIOUS
<1>2. Min(T) \in T /\ \A n \in T : Min(T) <= n
  BY <1>1, Smallest
<1>3. S # {} => Min(S) \in S /\ \A n \in S : Min(S) <= n
  BY Smallest
<1>4. Max(T) = m
  <2> HIDE DEF T
  <2>1. QED
    BY <1>1, Largest
<1>5. CASE S = {}
  BY <1>2, <1>4, <1>5
<1>6. CASE S # {}
  <2>1. Min(S) \in T /\ Min(S) \in Nat /\ Min(S) < m
    BY <1>3, <1>6
  <2>2. Min(T) \in Nat /\ Min(T) <= Min(S)
    BY <1>1, <1>2, <2>1
  <2>3. Min(T) \in S
    BY <1>2, <2>1, <2>2
  <2>4. Min(S) <= Min(T)
    BY <1>3, <1>6, <2>3
  <2>5. QED
    BY <1>4, <1>6, <2>1, <2>2, <2>4
<1>7. QED
  BY <1>5, <1>6

(* One word more.                                                          *)
LEMMA SeenOneMore ==
  ASSUME NEW option, NEW n \in Nat
  PROVE  /\ invocation.args[n + 1].option = option =>
              /\ Seen(option, n + 1) = Seen(option, n) \cup {n + 1}
              /\ Max(Seen(option, n + 1)) = n + 1
              /\ Min(Seen(option, n + 1)) =
                   IF Seen(option, n) = {} THEN n + 1 ELSE Min(Seen(option, n))
         /\ invocation.args[n + 1].option # option =>
              Seen(option, n + 1) = Seen(option, n)
<1>1. Seen(option, n) \in SUBSET Nat /\ \A k \in Seen(option, n) : k < n + 1
  BY DEF Seen
<1>2. invocation.args[n + 1].option = option =>
        Seen(option, n + 1) = Seen(option, n) \cup {n + 1}
  BY DEF Seen
<1>3. invocation.args[n + 1].option # option =>
        Seen(option, n + 1) = Seen(option, n)
  BY DEF Seen
<1>4. /\ Max(Seen(option, n) \cup {n + 1}) = n + 1
      /\ Min(Seen(option, n) \cup {n + 1}) =
           IF Seen(option, n) = {} THEN n + 1 ELSE Min(Seen(option, n))
  BY <1>1, LargerJoins
<1>5. QED
  BY <1>2, <1>3, <1>4

(* When all words have been looked at, what they ask for is what is asked. *)
LEMMA AllSeen ==
  ASSUME file \in Files, invocation \in Invocations[file]
  PROVE  \A option : Seen(option, Len(invocation.args)) = Given(option)
BY InvocationFacts DEF Seen, Given

(* The invocation is as it was.                                            *)
LEMMA InvocationStays ==
  ASSUME invocation' = invocation
  PROVE  /\ \A option, n : /\ Seen(option, n)' = Seen(option, n)
                           /\ PathSeen(option, n)' = PathSeen(option, n)
         /\ \A n : PortSeen(n)' = PortSeen(n)
         /\ \A option : Given(option)' = Given(option)
         /\ AskedDirectory' = AskedDirectory /\ AskedProcfile' = AskedProcfile
         /\ FirstWord' = FirstWord /\ (Refused' <=> Refused)
<1>1. \A option, n : Seen(option, n)' = Seen(option, n)
  BY DEF Seen
<1>2. \A option : Given(option)' = Given(option)
  BY DEF Given
<1>3. \A option, n : PathSeen(option, n)' = PathSeen(option, n)
  BY <1>1 DEF PathSeen
<1>4. \A n : PortSeen(n)' = PortSeen(n)
  BY <1>1 DEF PortSeen
<1>5. \A option : LastOf(option)' = LastOf(option)
  BY <1>2 DEF LastOf
<1>6. AskedDirectory' = AskedDirectory /\ FirstWord' = FirstWord
  BY <1>2, <1>5 DEF AskedDirectory, FirstWord, CurrentDirectory
<1>7. AskedProcfile' = AskedProcfile
  BY <1>2, <1>5, <1>6 DEF AskedProcfile, InDirectory
<1>8. Refused' <=> Refused
  BY <1>2, <1>6, <1>7 DEF Refused
<1>9. QED
  BY <1>1, <1>2, <1>3, <1>4, <1>6, <1>7, <1>8
-----------------------------------------------------------------------------
LEMMA InitIInv == Init => IInv
<1> SUFFICES ASSUME Init PROVE IInv
  OBVIOUS
<1>1. ParserIInv /\ found = 0 /\ file \in Files /\ invocation \in Invocations[file]
  BY ParserInitIInv DEF Init, ParserInit
<1>2. TypeOK
  <2>1. <<>> \in Seq(STRING) /\ Len(<<>>) = 0
    BY EmptySeq
  <2>2. optind \in 0..Len(invocation.args) /\ Len(table) <= found + 1
    BY <1>1, <2>1, InvocationFacts DEF Init
  <2>3. Len(invocation.environ) \in Nat
    BY <1>1, InvocationFacts
  <2>4. QED
    BY <1>1, <2>1, <2>2, <2>3 DEF Init, TypeOK, Steps, ParserIInv
<1>3. \A option : Seen(option, 0) = {}
  BY DEF Seen
<1>4. WordsAreSeen /\ OptionsAreSeen
  BY <1>3 DEF Init, WordsAreSeen, OptionsAreSeen, PastOptions
<1>5. NothingRefused /\ TableIsBuilt
  BY DEF Init, NothingRefused, TableIsBuilt, PastOptions
<1>6. EnvironIsCounted /\ EnvironIsCopied
  BY DEF Init, EnvironIsCounted, EnvironIsCopied
<1>7. QED
  BY <1>1, <1>2, <1>4, <1>5, <1>6 DEF IInv

(* What every step of main itself leaves to the parser.                    *)
LEMMA MainSteps ==
  ASSUME IInv, UNCHANGED <<parserVars, invocation>>
  PROVE  /\ ParserIInv' /\ ParserTypeOK' /\ file' = file /\ found' = found
         /\ pc' = pc /\ instructions' = instructions /\ found \in Nat
         /\ invocation' \in Invocations[file'] /\ file \in Files
         /\ Len(invocation.args) \in Nat
<1>1. ParserIInv' /\ ParserTypeOK'
  BY ParserStaysIInv DEF IInv, ParserIInv
<1>2. file \in Files /\ found \in Nat
  BY LenProperties DEF IInv, ParserIInv, ParserTypeOK
<1>3. QED
  BY <1>1, <1>2, InvocationFacts DEF IInv, parserVars

LEMMA ReadEnvironmentIInv == ASSUME IInv, ReadEnvironment PROVE IInv'
<1>1. UNCHANGED <<parserVars, invocation>> /\ at = "environment" /\ at' = "options"
  BY DEF ReadEnvironment
<1>2. /\ ParserIInv' /\ ParserTypeOK' /\ found' = found /\ found \in Nat
      /\ file \in Files /\ invocation' \in Invocations[file']
  BY <1>1, MainSteps
<1>3. /\ invocation \in Invocations[file] /\ invocation.PORT \in Int
  BY <1>1, <1>2, InvocationFacts DEF IInv
<1>4. optind = 0 /\ port = 5000 /\ errno = "0" /\ directory = <<>> /\ procfile = <<>>
  BY <1>1 DEF IInv, OptionsAreSeen
<1>5. \A option : Seen(option, 0) = {}
  BY DEF Seen
<1>6. TypeOK'
  BY <1>1, <1>2, <1>3, <1>4 DEF IInv, TypeOK, environVars, ReadEnvironment, Steps
<1>7. WordsAreSeen'
  BY <1>1, InvocationStays DEF IInv, WordsAreSeen, ReadEnvironment
<1>8. OptionsAreSeen'
  <2>1. port' = PortSeen(0) /\ PathSeen("d", 0) = <<>> /\ PathSeen("f", 0) = <<>>
    BY <1>4, <1>5 DEF ReadEnvironment, PortSeen, PathSeen
  <2>2. QED
    BY <1>1, <1>4, <2>1, InvocationStays
       DEF OptionsAreSeen, ReadEnvironment, PastOptions
<1>9. NothingRefused' /\ TableIsBuilt'
  BY <1>1 DEF IInv, NothingRefused, TableIsBuilt, PastOptions, ReadEnvironment
<1>10. QED
  BY <1>1, <1>2, <1>6, <1>7, <1>8, <1>9
     DEF IInv, EnvironIsCounted, EnvironIsCopied

LEMMA ParseOptionIInv == ASSUME IInv, ParseOption PROVE IInv'
<1> DEFINE n == optind
<1>1. /\ UNCHANGED <<parserVars, invocation, errno, table, environVars>>
      /\ at = "options" /\ n < Len(invocation.args) /\ optind' = n + 1
      /\ at' = CASE Arg.option = "h" -> "exited"
                 [] Arg.option = "p" /\ Arg.number <= 0 -> "aborted"
                 [] OTHER -> at
  BY DEF ParseOption
<1>2. /\ ParserIInv' /\ ParserTypeOK' /\ found' = found /\ found \in Nat
      /\ file \in Files /\ invocation' \in Invocations[file']
      /\ Len(invocation.args) \in Nat
  BY <1>1, MainSteps
<1>3. /\ n \in Nat /\ n + 1 \in 1..Len(invocation.args)
      /\ Arg = invocation.args[n + 1]
      /\ Arg \in [option : Options, text : STRING, number : Int]
      /\ DOMAIN invocation.args = 1..Len(invocation.args)
  <2>1. n \in 0..Len(invocation.args)
    BY DEF IInv, TypeOK
  <2>2. n \in Nat /\ n + 1 \in 1..Len(invocation.args)
    BY <1>1, <1>2, <2>1
  <2>3. file \in Files /\ invocation \in Invocations[file]
    BY <1>1, <1>2 DEF IInv
  <2>4. /\ DOMAIN invocation.args = 1..Len(invocation.args)
        /\ \A k \in 1..Len(invocation.args) :
             invocation.args[k] \in [option : Options, text : STRING, number : Int]
    BY <2>3, InvocationFacts
  <2>5. Arg = invocation.args[n + 1]
    BY DEF Arg
  <2>6. QED
    BY <2>2, <2>4, <2>5
<1>4. /\ at' \in {"options", "exited", "aborted"}
      /\ at' = "options" => ~(Arg.option = "p" /\ Arg.number <= 0)
      /\ at' = "aborted" => Arg.option = "p" /\ Arg.number <= 0
  BY <1>1
<1>5. /\ words = <<>> <=> Seen("word", n) = {}
      /\ words # <<>> => words[1] = invocation.args[Min(Seen("word", n))].text
      /\ \A k \in Seen("p", n) : invocation.args[k].number > 0
      /\ directory = PathSeen("d", n) /\ procfile = PathSeen("f", n)
      /\ port = PortSeen(n)
      /\ errno = IF invocation.sudo = "denied" THEN "EPERM" ELSE "0"
  BY <1>1 DEF IInv, WordsAreSeen, OptionsAreSeen
<1>6. TypeOK'
  <2>1. port' \in Nat \ {0}
    BY <1>3 DEF IInv, TypeOK, ParseOption
  <2>2. words' \in Seq(STRING)
    <3>1. words \in Seq(STRING) /\ Arg.text \in STRING
      BY <1>3 DEF IInv, TypeOK
    <3>2. Append(words, Arg.text) \in Seq(STRING)
      BY <3>1, AppendProperties
    <3>3. QED
      BY <3>1, <3>2 DEF ParseOption
  <2>3. at' \in Steps
    BY <1>4 DEF Steps
  <2>4. optind' \in 0..Len(invocation'.args)
    BY <1>1, <1>2, <1>3
  <2>5. errno' \in {"0", "EPERM"} /\ Len(table') <= found' + 1
    BY <1>1, <1>2 DEF IInv, TypeOK
  <2>6. /\ esize' \in 0..Len(invocation'.environ) /\ c' \in 0..Len(invocation'.environ)
        /\ turn' \in 0..(Len(invocation'.environ) + 1)
    BY <1>1 DEF IInv, TypeOK, environVars
  <2>7. QED
    BY <1>2, <2>1, <2>2, <2>3, <2>4, <2>5, <2>6 DEF TypeOK
<1> HIDE DEF n
<1>7. \A option :
        /\ Arg.option = option =>
             /\ Seen(option, n + 1) = Seen(option, n) \cup {n + 1}
             /\ Seen(option, n + 1) # {}
             /\ Max(Seen(option, n + 1)) = n + 1
             /\ Min(Seen(option, n + 1)) =
                  IF Seen(option, n) = {} THEN n + 1 ELSE Min(Seen(option, n))
        /\ Arg.option # option => Seen(option, n + 1) = Seen(option, n)
  <2>1. TAKE option
  <2>2. /\ Arg.option = option =>
             /\ Seen(option, n + 1) = Seen(option, n) \cup {n + 1}
             /\ Max(Seen(option, n + 1)) = n + 1
             /\ Min(Seen(option, n + 1)) =
                  IF Seen(option, n) = {} THEN n + 1 ELSE Min(Seen(option, n))
        /\ Arg.option # option => Seen(option, n + 1) = Seen(option, n)
    BY <1>3, SeenOneMore, Zenon
  <2>3. Arg.option = option => Seen(option, n + 1) # {}
    BY <2>2
  <2>4. QED
    BY <2>2, <2>3
<1>8. /\ directory' = PathSeen("d", n + 1)
      /\ procfile' = PathSeen("f", n + 1)
      /\ at' = "options" => port' = PortSeen(n + 1)
  <2>1. directory' = PathSeen("d", n + 1)
    <3>1. CASE Arg.option = "d"
      BY <1>3, <1>7, <3>1 DEF ParseOption, PathSeen
    <3>2. CASE Arg.option # "d"
      BY <1>5, <1>7, <3>2 DEF ParseOption, PathSeen
    <3>3. QED
      BY <3>1, <3>2
  <2>2. procfile' = PathSeen("f", n + 1)
    <3>1. CASE Arg.option = "f"
      BY <1>3, <1>7, <3>1 DEF ParseOption, PathSeen
    <3>2. CASE Arg.option # "f"
      BY <1>5, <1>7, <3>2 DEF ParseOption, PathSeen
    <3>3. QED
      BY <3>1, <3>2
  <2>3. ASSUME at' = "options" PROVE port' = PortSeen(n + 1)
    <3>1. CASE Arg.option = "p"
      <4>1. Arg.number > 0 /\ port' = Arg.number
        BY <1>3, <1>4, <2>3, <3>1 DEF ParseOption
      <4>2. QED
        BY <1>3, <1>7, <3>1, <4>1 DEF PortSeen
    <3>2. CASE Arg.option # "p"
      BY <1>5, <1>7, <3>2 DEF ParseOption, PortSeen
    <3>3. QED
      BY <3>1, <3>2
  <2>4. QED
    BY <2>1, <2>2, <2>3
<1>9. /\ words' = <<>> <=> Seen("word", n + 1) = {}
      /\ words' # <<>> => words'[1] = invocation.args[Min(Seen("word", n + 1))].text
      /\ at' = "options" => \A k \in Seen("p", n + 1) : invocation.args[k].number > 0
  <2>1. CASE Arg.option = "word"
    <3>1. words' = Append(words, Arg.text) /\ words \in Seq(STRING)
      BY <1>1, <2>1 DEF ParseOption, IInv, TypeOK
    <3>2. words' # <<>> /\ words'[1] = IF words = <<>> THEN Arg.text ELSE words[1]
      BY <1>3, <3>1
    <3>3. QED
      BY <1>3, <1>5, <1>7, <2>1, <3>2
  <2>2. CASE Arg.option # "word"
    <3>1. words' = words
      BY <2>2 DEF ParseOption
    <3>2. QED
      BY <1>3, <1>4, <1>5, <1>7, <2>2, <3>1
  <2>3. QED
    BY <2>1, <2>2
<1>10. WordsAreSeen'
  BY <1>1, <1>4, <1>9, InvocationStays DEF WordsAreSeen, PastOptions
<1>11. OptionsAreSeen'
  BY <1>1, <1>4, <1>5, <1>8, InvocationStays DEF OptionsAreSeen, PastOptions
<1>12. NothingRefused'
  <2>1. at' = "aborted" => Refused
    BY <1>3, <1>4 DEF Refused, Given
  <2>2. QED
    BY <1>1, <1>4, <2>1, InvocationStays DEF NothingRefused, PastOptions
<1>13. TableIsBuilt'
  BY <1>1, <1>4 DEF IInv, TableIsBuilt
<1>14. QED
  BY <1>1, <1>2, <1>6, <1>10, <1>11, <1>12, <1>13
     DEF IInv, EnvironIsCounted, EnvironIsCopied

LEMMA DefaultPathsIInv == ASSUME IInv, DefaultPaths PROVE IInv'
<1>1. /\ UNCHANGED <<parserVars, invocation, optind, words, port, errno, table, environVars>>
      /\ at = "options" /\ optind = Len(invocation.args)
      /\ at' = IF directory = <<>> /\ errno # "0" THEN "aborted" ELSE "command"
  BY DEF DefaultPaths
<1>2. /\ ParserIInv' /\ ParserTypeOK' /\ found' = found /\ found \in Nat
      /\ file \in Files /\ invocation' \in Invocations[file']
  BY <1>1, MainSteps
<1>3. \A option : Seen(option, optind) = Given(option)
  BY <1>1, <1>2, AllSeen DEF IInv
<1>4. /\ directory = PathSeen("d", optind) /\ procfile = PathSeen("f", optind)
      /\ port = PortSeen(optind)
      /\ errno = IF invocation.sudo = "denied" THEN "EPERM" ELSE "0"
  BY <1>1 DEF IInv, OptionsAreSeen
<1>5. directory = <<>> <=> Given("d") = {}
  BY <1>3, <1>4 DEF PathSeen
<1>6. directory' = AskedDirectory /\ procfile' = AskedProcfile
  <2>1. directory' = AskedDirectory
    BY <1>3, <1>4, <1>5 DEF DefaultPaths, PathSeen, AskedDirectory, LastOf
  <2>2. procfile = <<>> <=> Given("f") = {}
    BY <1>3, <1>4 DEF PathSeen
  <2>3. QED
    BY <1>3, <1>4, <2>1, <2>2 DEF DefaultPaths, PathSeen, AskedProcfile, LastOf
<1>7. TypeOK'
  BY <1>1, <1>2 DEF IInv, TypeOK, environVars, Steps
<1>8. WordsAreSeen'
  BY <1>1, InvocationStays DEF IInv, WordsAreSeen, PastOptions
<1>9. OptionsAreSeen'
  BY <1>1, <1>4, <1>6, InvocationStays DEF OptionsAreSeen, PastOptions
<1>10. NothingRefused'
  <2>1. at' = "aborted" => Refused
    BY <1>1, <1>4, <1>5 DEF Refused
  <2>2. at' = "command" => ~(invocation.sudo = "denied" /\ Given("d") = {})
    BY <1>1, <1>4, <1>5
  <2>3. QED
    BY <1>1, <2>1, <2>2, InvocationStays DEF NothingRefused, PastOptions
<1>11. TableIsBuilt'
  BY <1>1 DEF IInv, TableIsBuilt
<1>12. QED
  BY <1>1, <1>2, <1>7, <1>8, <1>9, <1>10, <1>11
     DEF IInv, EnvironIsCounted, EnvironIsCopied

LEMMA SelectCommandIInv == ASSUME IInv, SelectCommand PROVE IInv'
<1>1. /\ UNCHANGED <<parserVars, invocation, optind, words, directory, procfile,
                     port, errno, table, environVars>>
      /\ at = "command"
      /\ at' = IF words = <<>> \/ words[1] \in Selecting THEN "access" ELSE "aborted"
  BY DEF SelectCommand
<1>2. /\ ParserIInv' /\ ParserTypeOK' /\ found' = found /\ found \in Nat
      /\ file \in Files /\ invocation' \in Invocations[file']
  BY <1>1, MainSteps
<1>3. FirstWord \in Selecting <=> words = <<>> \/ words[1] \in Selecting
  <2>1. Seen("word", optind) = Given("word")
    BY <1>1, <1>2, AllSeen DEF IInv, OptionsAreSeen, PastOptions
  <2>2. /\ words = <<>> <=> Given("word") = {}
        /\ words # <<>> => words[1] = invocation.args[Min(Given("word"))].text
    BY <1>1, <2>1 DEF IInv, WordsAreSeen, PastOptions
  <2>3. QED
    BY <2>2 DEF FirstWord, Selecting
<1>4. TypeOK'
  BY <1>1, <1>2 DEF IInv, TypeOK, environVars, Steps
<1>5. WordsAreSeen' /\ OptionsAreSeen'
  BY <1>1, InvocationStays DEF IInv, WordsAreSeen, OptionsAreSeen, PastOptions
<1>6. NothingRefused'
  <2>1. at' = "aborted" => Refused
    BY <1>1, <1>3 DEF Refused
  <2>2. QED
    BY <1>1, <1>3, <2>1, InvocationStays DEF IInv, NothingRefused, PastOptions
<1>7. TableIsBuilt'
  BY <1>1 DEF IInv, TableIsBuilt
<1>8. QED
  BY <1>1, <1>2, <1>4, <1>5, <1>6, <1>7
     DEF IInv, EnvironIsCounted, EnvironIsCopied

LEMMA AccessIInv == ASSUME IInv, Access PROVE IInv'
<1>1. /\ UNCHANGED <<parserVars, invocation, optind, words, directory, procfile,
                     port, errno, table, environVars>>
      /\ at = "access"
      /\ at' = IF directory \in Readable /\ procfile \in Readable
               THEN "procfile" ELSE "aborted"
  BY DEF Access
<1>2. /\ ParserIInv' /\ ParserTypeOK' /\ found' = found /\ found \in Nat
      /\ file \in Files /\ invocation' \in Invocations[file']
  BY <1>1, MainSteps
<1>3. TypeOK'
  BY <1>1, <1>2 DEF IInv, TypeOK, environVars, Steps
<1>4. WordsAreSeen' /\ OptionsAreSeen'
  BY <1>1, InvocationStays DEF IInv, WordsAreSeen, OptionsAreSeen, PastOptions
<1>5. NothingRefused'
  <2>1. at' = "aborted" => Refused
    BY <1>1 DEF IInv, OptionsAreSeen, PastOptions, Refused
  <2>2. QED
    BY <1>1, <2>1, InvocationStays DEF IInv, NothingRefused, PastOptions
<1>6. TableIsBuilt'
  BY <1>1 DEF IInv, TableIsBuilt
<1>7. QED
  BY <1>1, <1>2, <1>3, <1>4, <1>5, <1>6
     DEF IInv, EnvironIsCounted, EnvironIsCopied

LEMMA ParseProcfileIInv == ASSUME IInv, ParseProcfile PROVE IInv'
<1>1. /\ at = "procfile" /\ ParserNext
      /\ UNCHANGED <<invocation, at, optind, words, directory, procfile, port,
                     errno, table, environVars>>
  BY DEF ParseProcfile, mainVars
<1>2. ParserIInv' /\ file' = file
  BY <1>1, ParserStepIInv
     DEF IInv, ParserNext, Fread, Scan, Advance, Return
<1>3. table = <<>>
  BY <1>1 DEF IInv, TableIsBuilt
<1>4. TypeOK'
  <2>1. Len(table') <= found' + 1
    <3>1. Len(table') = 0
      BY <1>1, <1>3
    <3>2. Len(instructions') \in Nat /\ found' \in 0..Len(instructions')
      BY <1>2, LenProperties DEF ParserIInv, ParserTypeOK
    <3>3. found' \in Nat
      BY <3>2
    <3>4. \A x \in Nat : 0 <= x + 1
      OBVIOUS
    <3>5. QED
      BY <3>1, <3>3, <3>4
  <2>2. QED
    BY <1>1, <1>2, <2>1 DEF IInv, TypeOK, environVars, ParserIInv
<1>5. WordsAreSeen' /\ OptionsAreSeen'
  BY <1>1, InvocationStays DEF IInv, WordsAreSeen, OptionsAreSeen
<1>6. NothingRefused'
  BY <1>1, InvocationStays DEF IInv, NothingRefused
<1>7. TableIsBuilt'
  BY <1>1, <1>3 DEF TableIsBuilt
<1>8. QED
  BY <1>1, <1>2, <1>4, <1>5, <1>6, <1>7
     DEF IInv, EnvironIsCounted, EnvironIsCopied

(* The rows are as many as the list has entries, one more than are counted *)
(* at the most.                                                            *)
LEMMA AllocateIInv == ASSUME IInv, Allocate PROVE IInv'
<1>1. /\ UNCHANGED <<parserVars, invocation, optind, words, directory, procfile,
                     port, errno, environVars>>
      /\ at = "procfile" /\ pc = "done" /\ at' = "start"
      /\ table' = [k \in DOMAIN instructions |-> Row(k)]
  BY DEF Allocate
<1>2. /\ ParserIInv' /\ ParserTypeOK' /\ found' = found /\ found \in Nat
      /\ pc' = pc /\ instructions' = instructions
      /\ file \in Files /\ invocation' \in Invocations[file']
  BY <1>1, MainSteps
<1>3. /\ DOMAIN instructions = 1..Len(instructions) /\ Len(instructions) \in Nat
      /\ Len(instructions) <= found + 1
  BY <1>1, <1>2, LenProperties DEF IInv, ParserIInv, ParserTypeOK, ListIsBuilt
<1>4. Len(table') = Len(instructions)
  BY <1>1, <1>3
<1>5. TypeOK'
  BY <1>1, <1>2, <1>3, <1>4 DEF IInv, TypeOK, environVars, Steps
<1>6. WordsAreSeen' /\ OptionsAreSeen'
  BY <1>1, InvocationStays DEF IInv, WordsAreSeen, OptionsAreSeen, PastOptions
<1>7. NothingRefused'
  BY <1>1, InvocationStays DEF IInv, NothingRefused, PastOptions
<1>8. TableIsBuilt'
  BY <1>1, <1>2 DEF TableIsBuilt, Row
<1>9. QED
  BY <1>1, <1>2, <1>5, <1>6, <1>7, <1>8
     DEF IInv, EnvironIsCounted, EnvironIsCopied

LEMMA StartIInv == ASSUME IInv, Start PROVE IInv'
<1>1. /\ UNCHANGED <<parserVars, invocation, optind, words, directory, procfile,
                     port, errno, table>>
      /\ at = "start" /\ at' \in {"count", "aborted"}
      /\ at' = "count" <=> Contains(invocation.environ, "PATH")
      /\ esize' = 0 /\ c' = 0 /\ turn' = 0
  BY DEF Start
<1>2. /\ ParserIInv' /\ ParserTypeOK' /\ found' = found /\ found \in Nat
      /\ pc' = pc /\ instructions' = instructions
      /\ file \in Files /\ invocation' \in Invocations[file']
  BY <1>1, MainSteps
<1>3. Len(invocation.environ) \in Nat
  BY <1>2, InvocationFacts DEF IInv
<1>4. TypeOK'
  BY <1>1, <1>2, <1>3 DEF IInv, TypeOK, Steps
<1>5. WordsAreSeen' /\ OptionsAreSeen'
  BY <1>1, InvocationStays DEF IInv, WordsAreSeen, OptionsAreSeen, PastOptions
<1>6. NothingRefused'
  <2>1. at' = "aborted" => Refused
    BY <1>1 DEF Refused
  <2>2. at' = "count" => Contains(invocation.environ, "PATH")'
    BY <1>1 DEF Contains
  <2>3. QED
    BY <1>1, <2>1, <2>2, InvocationStays DEF IInv, NothingRefused, PastOptions
<1>7. TableIsBuilt'
  BY <1>1, <1>2 DEF IInv, TableIsBuilt, Row
<1>8. EnvironIsCounted' /\ EnvironIsCopied'
  BY <1>1 DEF EnvironIsCounted, EnvironIsCopied
<1>9. QED
  BY <1>1, <1>2, <1>4, <1>5, <1>6, <1>7, <1>8 DEF IInv

(* While environ is counted and copied the rest stays as it is.            *)
LEMMA EnvironSteps ==
  ASSUME IInv, at = "count", at' \in {"count", "started"},
         UNCHANGED <<parserVars, invocation, optind, words, directory, procfile,
                     port, errno, table>>
  PROVE  /\ ParserIInv' /\ ParserTypeOK' /\ invocation' \in Invocations[file']
         /\ WordsAreSeen' /\ OptionsAreSeen' /\ NothingRefused' /\ TableIsBuilt'
         /\ found' = found
         /\ Len(invocation.environ) \in Nat /\ Len(invocation.environ) > 0
<1>1. /\ ParserIInv' /\ ParserTypeOK' /\ found' = found
      /\ pc' = pc /\ instructions' = instructions
      /\ file \in Files /\ invocation' \in Invocations[file']
  BY MainSteps
<1>2. WordsAreSeen' /\ OptionsAreSeen'
  BY InvocationStays DEF IInv, WordsAreSeen, OptionsAreSeen, PastOptions
<1>3. NothingRefused'
  <2>1. Contains(invocation.environ, "PATH")'
    BY DEF IInv, NothingRefused, Contains
  <2>2. QED
    BY <2>1, InvocationStays DEF IInv, NothingRefused, PastOptions
<1>4. TableIsBuilt'
  BY <1>1 DEF IInv, TableIsBuilt, Row
<1>5. Len(invocation.environ) \in Nat /\ Len(invocation.environ) > 0
  <2>1. invocation.environ \in Seq(STRING) /\ Len(invocation.environ) \in Nat
    BY <1>1, InvocationFacts DEF IInv
  <2>2. Len(invocation.environ) # 0
    BY <2>1 DEF IInv, NothingRefused, Contains
  <2>3. QED
    BY <2>1, <2>2
<1>6. QED
  BY <1>1, <1>2, <1>3, <1>4, <1>5

LEMMA CountEnvironIInv == ASSUME IInv, CountEnviron PROVE IInv'
<1> DEFINE n == Len(invocation.environ)
<1>1. /\ UNCHANGED <<parserVars, invocation, optind, words, directory, procfile,
                     port, errno, table>>
      /\ at = "count" /\ at' = "count" /\ c # n
      /\ esize' = turn /\ c' = turn /\ turn' = turn + 1
  BY DEF CountEnviron, AtEnd
<1>2. /\ ParserIInv' /\ ParserTypeOK' /\ invocation' \in Invocations[file']
      /\ WordsAreSeen' /\ OptionsAreSeen' /\ NothingRefused' /\ TableIsBuilt'
      /\ found' = found /\ n \in Nat
  BY <1>1, EnvironSteps
<1>3. c \in 0..n /\ c = esize /\ turn \in {c, c + 1}
  BY <1>1 DEF IInv, TypeOK, EnvironIsCounted
<1>4. turn \in 0..n /\ turn + 1 \in 0..(n + 1)
  <2> HIDE DEF n
  <2>1. QED
    BY <1>1, <1>2, <1>3
<1>5. TypeOK'
  BY <1>1, <1>2, <1>4 DEF IInv, TypeOK, Steps
<1>6. EnvironIsCounted' /\ EnvironIsCopied'
  BY <1>1, <1>4 DEF EnvironIsCounted, EnvironIsCopied
<1>7. QED
  BY <1>2, <1>5, <1>6 DEF IInv

LEMMA CopyEnvironIInv == ASSUME IInv, CopyEnviron PROVE IInv'
<1> DEFINE n == Len(invocation.environ)
<1>1. /\ UNCHANGED <<parserVars, invocation, optind, words, directory, procfile,
                     port, errno, table, esize, c, turn>>
      /\ at = "count" /\ at' = "started" /\ c = n
      /\ new_environ' = [Copied EXCEPT ![esize - 1] = New("PATH"),
                                       ![esize] = New("PORT")]
  BY DEF CopyEnviron, AtEnd
<1>2. /\ ParserIInv' /\ ParserTypeOK' /\ invocation' \in Invocations[file']
      /\ WordsAreSeen' /\ OptionsAreSeen' /\ NothingRefused' /\ TableIsBuilt'
      /\ found' = found /\ n \in Nat /\ n > 0
  BY <1>1, EnvironSteps
<1>3. TypeOK'
  BY <1>1, <1>2 DEF IInv, TypeOK, Steps
<1>4. esize = n
  BY <1>1 DEF IInv, EnvironIsCounted
<1>5. EnvironIsCopied'
  <2> HIDE DEF n
  <2>1. /\ DOMAIN Copied = 0..(n + 1)
        /\ \A k \in 0..(n - 2) : Copied[k] = Inherited(invocation.environ[k + 1])
        /\ Copied[n + 1] = Null
    BY <1>2, <1>4 DEF Copied
  <2>2. /\ n - 1 \in 0..(n + 1) /\ n \in 0..(n + 1) /\ n + 1 \in 0..(n + 1)
        /\ n - 1 # n /\ n + 1 # n - 1 /\ n + 1 # n
        /\ \A k \in 0..(n - 2) : k \in 0..(n + 1) /\ k # n - 1 /\ k # n
    BY <1>2
  <2>3. new_environ' = [Copied EXCEPT ![n - 1] = New("PATH"), ![n] = New("PORT")]
    BY <1>1, <1>4
  <2>4. /\ DOMAIN new_environ' = 0..(n + 1)
        /\ \A k \in 0..(n - 2) : new_environ'[k] = Inherited(invocation.environ[k + 1])
        /\ new_environ'[n - 1] = New("PATH") /\ new_environ'[n] = New("PORT")
        /\ new_environ'[n + 1] = Null
    BY <2>1, <2>2, <2>3
  <2>5. \A x : /\ Inherited(x)' = Inherited(x) /\ New(x)' = New(x)
    BY DEF Inherited, New
  <2>6. QED
    BY <1>1, <1>4, <2>4, <2>5 DEF EnvironIsCopied, Inherited, New, Null, n
<1>6. EnvironIsCounted'
  BY <1>1 DEF EnvironIsCounted
<1>7. QED
  BY <1>2, <1>3, <1>5, <1>6 DEF IInv

LEMMA OverIInv == ASSUME IInv, UNCHANGED vars PROVE IInv'
<1>1. UNCHANGED <<parserVars, invocation, at, optind, words, directory, procfile,
                  port, errno, table, environVars>>
  BY DEF vars, mainVars
<1>2. /\ ParserIInv' /\ ParserTypeOK' /\ found' = found
      /\ pc' = pc /\ instructions' = instructions
      /\ invocation' \in Invocations[file']
  BY <1>1, MainSteps
<1>3. TypeOK'
  BY <1>1, <1>2 DEF IInv, TypeOK, environVars
<1>4. WordsAreSeen' /\ OptionsAreSeen' /\ NothingRefused'
  BY <1>1, InvocationStays
     DEF IInv, WordsAreSeen, OptionsAreSeen, NothingRefused
<1>5. TableIsBuilt'
  BY <1>1, <1>2 DEF IInv, TableIsBuilt, Row
<1>6. EnvironIsCounted' /\ EnvironIsCopied'
  BY <1>1 DEF IInv, EnvironIsCounted, EnvironIsCopied, environVars, Inherited, New, Null
<1>7. QED
  BY <1>1, <1>2, <1>3, <1>4, <1>5, <1>6 DEF IInv

(* Every state of the start satisfies the invariant.                       *)
THEOREM InductiveInvariant == Spec => []IInv
<1>1. ASSUME IInv, [Next]_vars PROVE IInv'
  BY <1>1, ReadEnvironmentIInv, ParseOptionIInv, DefaultPathsIInv,
     SelectCommandIInv, AccessIInv, ParseProcfileIInv, AllocateIInv, StartIInv,
     CountEnvironIInv, CopyEnvironIInv, OverIInv DEF Next, Over
<1>2. QED
  BY InitIInv, <1>1, PTL DEF Spec
-----------------------------------------------------------------------------
(* TypeOK: main stays within its steps, and there is never more than one   *)
(* row that is not counted.                                                *)
THEOREM TypeCorrect == Spec => []TypeOK
BY InductiveInvariant, PTL DEF IInv

(* ChunksDontShow: procfile.c counts and cuts the instructions of a file   *)
(* as if it were read in one go, for every file and every line_size.       *)
THEOREM ChunksInvisible == Spec => []ChunksDontShow
<1>1. IInv => ChunksDontShow
  BY ParserPromises DEF IInv
<1>2. QED
  BY InductiveInvariant, <1>1, PTL

(* ShortFilesParse: the assertions of procfile.c stop no file shorter than *)
(* a chunk that has an instruction.                                        *)
THEOREM ShortFilesAccepted == Spec => []ShortFilesParse
<1>1. IInv => ShortFilesParse
  BY DEF IInv, ParserIInv
<1>2. QED
  BY InductiveInvariant, <1>1, PTL

(* PathsAreAsked: the directory and the Procfile are those the last -d and *)
(* -f of the command line name, whatever came between.                     *)
THEOREM PathsFound == Spec => []PathsAreAsked
<1>1. IInv => PathsAreAsked
  BY DEF IInv, OptionsAreSeen, PastOptions, PathsAreAsked
<1>2. QED
  BY InductiveInvariant, <1>1, PTL

(* RowsOfFile: each instruction of the file has its row, in its order and  *)
(* with its port, and only an unfinished last line has a row besides.      *)
THEOREM TableIsFile == Spec => []RowsOfFile
<1> SUFFICES ASSUME IInv, at = "started" PROVE RowsOfFile
  BY InductiveInvariant, PTL DEF RowsOfFile
<1>1. /\ pc = "done" /\ table = [k \in DOMAIN instructions |-> Row(k)]
      /\ optind = Len(invocation.args) /\ port = PortSeen(optind)
      /\ file \in Files /\ invocation \in Invocations[file]
  BY DEF IInv, TableIsBuilt, OptionsAreSeen, PastOptions, ParserIInv, ParserTypeOK
<1>2. port = AskedPort
  BY <1>1, AllSeen DEF PortSeen, AskedPort, LastOf
<1> DEFINE pending == \E q \in NameEnds : \A p \in ExecEnds : p < q
<1>3. /\ found = Cardinality(ExecEnds) /\ found \in Nat
      /\ \A p \in ExecEnds : /\ Number(p) \in 1..found
                             /\ instructions[Number(p)] = Expected(p)
      /\ Len(instructions) = IF pending THEN found + 1 ELSE found
  BY <1>1, FileIsRead DEF IInv
<1> HIDE DEF pending
<1>4. /\ DOMAIN instructions = 1..Len(instructions)
      /\ Len(instructions) \in Nat
  BY LenProperties DEF IInv, ParserIInv, ParserTypeOK
<1>5. Len(table) = Len(instructions)
  BY <1>1, <1>4
<1>6. ASSUME NEW p \in ExecEnds
      PROVE  table[Number(p)] =
               [instruction |-> Expected(p), port |-> AskedPort + Number(p) - 1]
  <2>1. Number(p) \in DOMAIN instructions
    BY <1>3, <1>4
  <2>2. table[Number(p)] = Row(Number(p))
    BY <1>1, <2>1
  <2>3. QED
    BY <1>2, <1>3, <2>2 DEF Row
<1>7. QED
  BY <1>3, <1>5, <1>6 DEF RowsOfFile, pending

(* ChildEnvironment: the copy of environ that a process is started with    *)
(* ends with the PATH and the PORT of its row and a null pointer, and      *)
(* drops only the last entry, which nothing asserts not to be needed.      *)
THEOREM EnvironmentBuilt == Spec => []ChildEnvironment
<1> SUFFICES ASSUME IInv, at = "started" PROVE ChildEnvironment
  BY InductiveInvariant, PTL DEF ChildEnvironment
<1> DEFINE environ == invocation.environ
           n == Len(environ)
<1>1. n \in Nat /\ n > 0
  <2>1. environ \in Seq(STRING) /\ n \in Nat /\ Contains(environ, "PATH")
    BY InvocationFacts DEF IInv, NothingRefused, ParserIInv, ParserTypeOK
  <2>2. n # 0
    BY <2>1 DEF Contains
  <2>3. QED
    BY <2>1, <2>2
<1>2. /\ DOMAIN new_environ = 0..(n + 1)
      /\ \A k \in 0..(n - 2) : new_environ[k] = Inherited(environ[k + 1])
      /\ new_environ[n - 1] = New("PATH") /\ new_environ[n] = New("PORT")
      /\ new_environ[n + 1] = Null
  BY DEF IInv, EnvironIsCopied
<1> HIDE DEF environ, n
<1>3. /\ n - 1 \in 0..n /\ n \in 0..n /\ n + 1 \in 0..(n + 1)
      /\ \A k \in 1..(n - 1) : k - 1 \in 0..(n - 2) /\ k - 1 \in 0..n
                              /\ (k - 1) + 1 = k
      /\ \A k \in 0..n : k \in 0..(n - 2) \/ k = n - 1 \/ k = n
      /\ \A k \in 0..(n + 1) : k \in 0..n \/ k = n + 1
      /\ \A k \in 0..n : k \in 0..(n + 1) /\ 0..k \subseteq 0..n
      /\ n + 1 \in 0..(n + 1)
  BY <1>1
<1>4. Passed = 0..n
  <2>1. \A x : Inherited(x) # Null /\ New(x) # Null
    BY DEF Inherited, New, Null
  <2>2. \A k \in 0..n : new_environ[k] # Null
    BY <1>2, <1>3, <2>1
  <2>3. \A k \in 0..n : k \in Passed
    BY <1>2, <1>3, <2>2 DEF Passed
  <2>4. n + 1 \notin Passed
    BY <1>2, <1>3 DEF Passed
  <2>5. \A k \in Passed : k \in 0..n
    BY <1>2, <1>3, <2>4 DEF Passed
  <2>6. QED
    BY <2>3, <2>5
<1>5. \E k \in DOMAIN new_environ : new_environ[k] = Null
  BY <1>2, <1>3
<1>6. ASSUME NEW k \in 1..(n - 1)
      PROVE  \E j \in Passed : new_environ[j] = Inherited(environ[k])
  <2>1. k - 1 \in Passed /\ new_environ[k - 1] = Inherited(environ[k])
    BY <1>2, <1>3, <1>4
  <2>2. QED
    BY <2>1
<1>7. ASSUME NEW name \in {"PATH", "PORT"}
      PROVE  LET of == {k \in Passed : new_environ[k].name = name}
             IN  of # {} /\ new_environ[Max(of)] = New(name)
  <2> DEFINE of == {k \in Passed : new_environ[k].name = name}
  <2>1. CASE name = "PATH"
    <3>1. /\ of \in SUBSET Nat /\ n - 1 \in of
          /\ \A k \in of : k <= n - 1
      BY <1>1, <1>2, <1>3, <1>4, <2>1 DEF New
    <3> HIDE DEF of
    <3>2. Max(of) = n - 1
      BY <1>1, <3>1, Largest
    <3>3. QED
      BY <1>2, <2>1, <3>1, <3>2 DEF of
  <2>2. CASE name = "PORT"
    <3>1. /\ of \in SUBSET Nat /\ n \in of
          /\ \A k \in of : k <= n
      BY <1>1, <1>2, <1>3, <1>4, <2>2 DEF New
    <3> HIDE DEF of
    <3>2. Max(of) = n
      BY <1>1, <3>1, Largest
    <3>3. QED
      BY <1>2, <2>2, <3>1, <3>2 DEF of
  <2>3. QED
    BY <2>1, <2>2
<1>8. QED
  BY <1>5, <1>6, <1>7 DEF ChildEnvironment, n, environ

(* RefusedOrStarted: main aborts on the invocations of Refused and on no   *)
(* other, unless the parser's assertions abort it first.                   *)
THEOREM RefusalsExact == Spec => []RefusedOrStarted
<1> SUFFICES ASSUME IInv, at = "started" PROVE ~Refused
  <2>1. IInv /\ at = "aborted" => Refused
    BY DEF IInv, NothingRefused
  <2>2. IInv => RefusedOrStarted
    <3>1. IInv /\ at = "started" => ~Refused
      OBVIOUS
    <3>2. Refused \in BOOLEAN
      BY DEF Refused
    <3>3. CASE at = "aborted"
      BY <2>1, <3>2, <3>3, Zenon DEF RefusedOrStarted
    <3>4. CASE at = "started"
      <4>1. (at = "aborted") = FALSE
        BY <3>4
      <4>2. QED
        BY <3>1, <3>2, <3>4, <4>1, Zenon DEF RefusedOrStarted
    <3>5. QED
      BY <3>3, <3>4 DEF RefusedOrStarted
  <2>3. QED
    BY InductiveInvariant, <2>2, PTL
<1>1. /\ optind = Len(invocation.args)
      /\ directory = AskedDirectory /\ procfile = AskedProcfile
  BY DEF IInv, OptionsAreSeen, PastOptions
<1>2. Seen("p", optind) = Given("p")
  BY <1>1, AllSeen DEF IInv, ParserIInv, ParserTypeOK
<1>3. \A k \in Given("p") : invocation.args[k].number > 0
  BY <1>2 DEF IInv, WordsAreSeen, PastOptions
<1>4. \A k \in Given("p") : ~(invocation.args[k].number <= 0)
  <2>1. \A k \in Given("p") : invocation.args[k].number \in Int
    BY InvocationFacts DEF IInv, ParserIInv, ParserTypeOK, Given
  <2>2. QED
    BY <1>3, <2>1
<1>5. QED
  BY <1>1, <1>4 DEF IInv, NothingRefused, PastOptions, Refused

(* One step of the parser, and one of main.                                *)
LEMMA ParserMovesForward == ASSUME ParserTypeOK, ParserNext PROVE ParserForward
<1>1. total_read \in Nat /\ parse_head \in Nat /\ i \in Nat
  BY LenProperties, FileFacts DEF ParserTypeOK
<1>2. CASE Fread
  BY <1>2 DEF Fread, ParserForward, Phase
<1>3. CASE Scan
  BY <1>1, <1>3 DEF Scan, ParserForward
<1>4. CASE Advance
  <2>1. CASE parse_head = 0 /\ pc = "scan" /\ pc' = "aborted" /\ total_read' = total_read
    BY <2>1 DEF ParserForward, Phase
  <2>2. CASE parse_head > 0 /\ total_read' = total_read + parse_head
    BY <1>1, <2>2 DEF ParserForward
  <2>3. QED
    BY <1>4, <2>1, <2>2 DEF Advance
<1>5. CASE Return
  BY <1>5 DEF Return, ParserForward, Phase
<1>6. QED
  BY <1>2, <1>3, <1>4, <1>5 DEF ParserNext

LEMMA MainMovesForward ==
  ASSUME TypeOK, Next, ~UNCHANGED vars, ~ParseProcfile
  PROVE  MainForward /\ UNCHANGED parserVars
<1>t. TypeOK
  OBVIOUS
<1>1. optind \in Nat /\ optind + 1 > optind
  <2>1. optind \in Nat
    BY DEF TypeOK
  <2>2. QED
    BY <2>1
<1>2. CASE ReadEnvironment
  BY <1>2 DEF ReadEnvironment, MainForward, Place
<1>3. CASE ParseOption
  BY <1>1, <1>3 DEF ParseOption, MainForward, Place
<1>4. CASE DefaultPaths
  BY <1>4 DEF DefaultPaths, MainForward, Place
<1>5. CASE SelectCommand
  BY <1>5 DEF SelectCommand, MainForward, Place
<1>6. CASE Access
  BY <1>6 DEF Access, MainForward, Place
<1>7. CASE Allocate
  BY <1>7 DEF Allocate, MainForward, Place
<1>8. CASE Start
  BY <1>8 DEF Start, MainForward, Place
<1>9. CASE CountEnviron
  <2>1. turn \in Nat
    BY <1>t DEF TypeOK
  <2>2. turn + 1 > turn
    BY <2>1
  <2>3. QED
    BY <1>9, <2>2 DEF CountEnviron, MainForward
<1>10. CASE CopyEnviron
  BY <1>10 DEF CopyEnviron, MainForward, Place
<1>11. QED
  BY <1>2, <1>3, <1>4, <1>5, <1>6, <1>7, <1>8, <1>9, <1>10 DEF Next, Over

(* MovesForward: what Terminates needs besides fairness.  The position of  *)
(* procfile.c in the file grows from chunk to chunk, and is bounded by the *)
(* length of the file; nothing else is done twice.                         *)
THEOREM NothingTwice == Spec => MovesForward
<1>1. ASSUME IInv, [Next]_vars
      PROVE  [IF UNCHANGED mainVars THEN ParserForward
              ELSE MainForward /\ UNCHANGED parserVars]_vars
  <2>1. CASE UNCHANGED vars
    BY <2>1
  <2>2. CASE ParseProcfile
    BY <1>1, <2>2, ParserMovesForward DEF ParseProcfile, IInv, ParserIInv
  <2>3. CASE ~UNCHANGED vars /\ ~ParseProcfile
    <3>1. MainForward /\ UNCHANGED parserVars
      BY <1>1, <2>3, MainMovesForward DEF IInv
    <3>2. ~UNCHANGED mainVars
      BY <2>3, <3>1 DEF vars
    <3>3. QED
      BY <3>1, <3>2
  <2>4. QED
    BY <2>1, <2>2, <2>3
<1>2. QED
  BY InductiveInvariant, <1>1, PTL DEF Spec, MovesForward
=============================================================================
