------------------------------ MODULE Startup -------------------------------
(***************************************************************************)
(* What fiveman does before anything runs: main of src/src/main.c, the     *)
(* reading of the command line in src/src/options.c, the Procfile, the     *)
(* allocation of the table and the environment a process is started with   *)
(* (fiveman_process_state_start of src/src/fiveman_process_state.c).  All  *)
(* of it is sequential; what it does with a wrong invocation is to abort.  *)
(*                                                                         *)
(* A word of the command line is a record: the option it is given with,    *)
(* its text and the number atoi makes of it.  A path is a sequence of      *)
(* names, the value of a variable whose it is.                             *)
(***************************************************************************)
EXTENDS Procfile, Integers

CONSTANTS
  Invocations,   \* how fiveman may be started with each of the Files
  Readable       \* the paths access(2) grants

Options == {"f", "d", "p", "h", "?", "word"}
SudoOutcomes == {"unset", "granted", "denied"}

ASSUME StartupAssumption ==
  \A f \in Files : \A v \in Invocations[f] :
    /\ v.args \in Seq([option : Options, text : STRING, number : Int])
    /\ v.environ \in Seq(STRING)
    /\ v.PORT \in Int
    /\ v.sudo \in SudoOutcomes

VARIABLES
  invocation,   \* the command line, the environment, and whether main may
                \* take the identity SUDO_UID and SUDO_GID name
  at,           \* where main is
  optind,       \* the words getopt_long has looked at
  words,        \* those of them that are no options
  directory, procfile,   \* as found so far, <<>> is NULL
  port,
  errno,        \* whether it is 0
  table,        \* the rows
  new_environ,  \* the environment of a process, from place 0
  esize,        \* the entries of environ, as counted so far
  c,            \* the place in environ of the entry looked at
  turn          \* i, the turns the counting has taken

environVars == <<new_environ, esize, c, turn>>
mainVars == <<invocation, at, optind, words, directory, procfile, port, errno,
              table, environVars>>
vars == <<parserVars, mainVars>>

Steps == {"environment", "options", "paths", "command", "access", "procfile",
          "start", "count", "started", "exited", "aborted"}

TypeOK ==
  /\ ParserTypeOK
  /\ at \in Steps
  /\ optind \in 0..Len(invocation.args) /\ words \in Seq(STRING)
  /\ port \in Nat \ {0}
  /\ errno \in {"0", "EPERM"}
  /\ Len(table) <= found + 1
  /\ esize \in 0..Len(invocation.environ) /\ c \in 0..Len(invocation.environ)
  /\ turn \in 0..(Len(invocation.environ) + 1)

Init ==
  /\ ParserInit
  /\ invocation \in Invocations[file]
  /\ at = "environment" /\ optind = 0 /\ words = <<>>
  /\ directory = <<>> /\ procfile = <<>> /\ port = 5000 /\ errno = "0"
  /\ table = <<>>
  /\ new_environ = <<>> /\ esize = 0 /\ c = 0 /\ turn = 0

(* setegid and seteuid, whose failure nobody looks at, and PORT.           *)
ReadEnvironment ==
  /\ at = "environment" /\ at' = "options"
  /\ errno' = IF invocation.sudo = "denied" THEN "EPERM" ELSE errno
  /\ port' = IF invocation.PORT > 0 THEN invocation.PORT ELSE port
  /\ UNCHANGED <<parserVars, invocation, optind, words, directory, procfile,
                 table, environVars>>
-----------------------------------------------------------------------------
Arg == invocation.args[optind + 1]

(* Variant with a defect: the first of several options counts.             *)
ParseOptionOnce ==
  /\ at = "options" /\ optind < Len(invocation.args)
  /\ optind' = optind + 1
  /\ words' = IF Arg.option = "word" THEN Append(words, Arg.text) ELSE words
  /\ directory' = IF Arg.option = "d" /\ directory = <<>> THEN <<Arg.text>> ELSE directory
  /\ procfile' = IF Arg.option = "f" /\ procfile = <<>> THEN <<Arg.text>> ELSE procfile
  /\ port' = IF Arg.option = "p" /\ Arg.number > 0 THEN Arg.number ELSE port
  /\ at' = CASE Arg.option = "h" -> "exited"
             [] Arg.option = "p" /\ Arg.number <= 0 -> "aborted"
             [] OTHER -> at
  /\ UNCHANGED <<parserVars, invocation, errno, table, environVars>>

(* One turn of the loop around getopt_long, which puts the words that are  *)
(* no options behind those that are.  An unknown option is passed over.    *)
ParseOption ==
  /\ at = "options" /\ optind < Len(invocation.args)
  /\ optind' = optind + 1
  /\ words' = IF Arg.option = "word" THEN Append(words, Arg.text) ELSE words
  /\ directory' = IF Arg.option = "d" THEN <<Arg.text>> ELSE directory
  /\ procfile' = IF Arg.option = "f" THEN <<Arg.text>> ELSE procfile
  /\ port' = IF Arg.option = "p" /\ Arg.number > 0 THEN Arg.number ELSE port
  /\ at' = CASE Arg.option = "h" -> "exited"
             [] Arg.option = "p" /\ Arg.number <= 0 -> "aborted"
             [] OTHER -> at
  /\ UNCHANGED <<parserVars, invocation, errno, table, environVars>>

(* getwd.                                                                  *)
CurrentDirectory == <<"cwd">>

InDirectory(path) == Append(path, "Procfile")

(* Variant with a defect: the Procfile is looked for where fiveman was     *)
(* started.                                                                *)
DefaultProcfile ==
  /\ at = "options" /\ optind = Len(invocation.args)
  /\ directory' = IF directory = <<>> THEN CurrentDirectory ELSE directory
  /\ procfile' = IF procfile = <<>> THEN InDirectory(CurrentDirectory) ELSE procfile
  /\ at' = IF directory = <<>> /\ errno # "0" THEN "aborted" ELSE "command"
  /\ UNCHANGED <<parserVars, invocation, optind, words, port, errno, table, environVars>>

(* The end of the options: what was not given is filled in.  errno is      *)
(* asserted to be 0 whoever has set it.                                    *)
DefaultPaths ==
  /\ at = "options" /\ optind = Len(invocation.args)
  /\ directory' = IF directory = <<>> THEN CurrentDirectory ELSE directory
  /\ procfile' = IF procfile = <<>> THEN InDirectory(directory') ELSE procfile
  /\ at' = IF directory = <<>> /\ errno # "0" THEN "aborted" ELSE "command"
  /\ UNCHANGED <<parserVars, invocation, optind, words, port, errno, table, environVars>>

(* The words strncmp finds at the beginning of "start".                    *)
Selecting == {"", "s", "st", "sta", "star", "start"}

(* The commands are searched for the first word, and main asserts that one *)
(* was found.                                                              *)
SelectCommand ==
  /\ at = "command"
  /\ at' = IF words = <<>> \/ words[1] \in Selecting THEN "access" ELSE "aborted"
  /\ UNCHANGED <<parserVars, invocation, optind, words, directory, procfile,
                 port, errno, table, environVars>>

(* The last assertions before the Procfile is opened.                      *)
Access ==
  /\ at = "access"
  /\ at' = IF directory \in Readable /\ procfile \in Readable
           THEN "procfile" ELSE "aborted"
  /\ UNCHANGED <<parserVars, invocation, optind, words, directory, procfile,
                 port, errno, table, environVars>>

ParseProcfile == at = "procfile" /\ ParserNext /\ UNCHANGED mainVars
-----------------------------------------------------------------------------
Row(k) == [instruction |-> instructions[k], port |-> port + k - 1]

(* Variant with a defect: as many rows as there are complete instructions. *)
AllocateCounted ==
  /\ at = "procfile" /\ pc = "done" /\ at' = "start"
  /\ table' = [k \in 1..found |-> Row(k)]
  /\ UNCHANGED <<parserVars, invocation, optind, words, directory, procfile,
                 port, errno, environVars>>

(* fiveman_process_state_table_allocate: a row for every instruction of    *)
(* the list, counted or not.                                               *)
Allocate ==
  /\ at = "procfile" /\ pc = "done" /\ at' = "start"
  /\ table' = [k \in DOMAIN instructions |-> Row(k)]
  /\ UNCHANGED <<parserVars, invocation, optind, words, directory, procfile,
                 port, errno, environVars>>

Inherited(name) == [name |-> name, value |-> "inherited"]
New(name) == [name |-> name, value |-> "new"]
Null == [name |-> "", value |-> "null"]

(* fiveman_process_state_start, down to the counting of environ.  Without  *)
(* PATH the length of a null pointer is asked for.                         *)
Start ==
  /\ at = "start"
  /\ at' = IF Contains(invocation.environ, "PATH") THEN "count" ELSE "aborted"
  /\ esize' = 0 /\ c' = 0 /\ turn' = 0
  /\ UNCHANGED <<parserVars, invocation, optind, words, directory, procfile,
                 port, errno, table, new_environ>>

(* The null pointer at the end of environ has been reached.                *)
AtEnd == c = Len(invocation.environ)

(* Variant with a defect: environ[++i] is looked at next.                  *)
CountEnvironAhead ==
  /\ at = "count" /\ ~AtEnd
  /\ esize' = turn /\ c' = turn + 1 /\ turn' = turn + 1
  /\ UNCHANGED <<parserVars, invocation, at, optind, words, directory, procfile,
                 port, errno, table, new_environ>>

(* One turn: esize = i, and then environ[i++] is looked at, which in the   *)
(* first turn is the entry that has been looked at already.                *)
CountEnviron ==
  /\ at = "count" /\ ~AtEnd
  /\ esize' = turn /\ c' = turn /\ turn' = turn + 1
  /\ UNCHANGED <<parserVars, invocation, at, optind, words, directory, procfile,
                 port, errno, table, new_environ>>

(* calloc and memcpy: esize entries of environ, and zeros.                 *)
Copied ==
  [k \in 0..(esize + 1) |-> IF k < esize THEN Inherited(invocation.environ[k + 1]) ELSE Null]

(* PATH goes over the last entry copied, and PORT behind it.               *)
CopyEnviron ==
  /\ at = "count" /\ AtEnd /\ at' = "started"
  /\ new_environ' = [Copied EXCEPT ![esize - 1] = New("PATH"), ![esize] = New("PORT")]
  /\ UNCHANGED <<parserVars, invocation, optind, words, directory, procfile,
                 port, errno, table, esize, c, turn>>

Ended == at \in {"started", "exited", "aborted"} \/ pc = "aborted"

Over == Ended /\ UNCHANGED vars

Next ==
  \/ ReadEnvironment \/ ParseOption \/ DefaultPaths \/ SelectCommand \/ Access
  \/ ParseProcfile \/ Allocate \/ Start \/ CountEnviron \/ CopyEnviron
  \/ Over

Spec == Init /\ [][Next]_vars
FairSpec == Spec /\ WF_vars(Next)
-----------------------------------------------------------------------------
(* The command line as a whole: the last word given with an option, and    *)
(* the first word without one.                                             *)
Given(option) == {k \in DOMAIN invocation.args : invocation.args[k].option = option}
LastOf(option) == invocation.args[Max(Given(option))]
FirstWord == IF Given("word") = {} THEN "start"
             ELSE invocation.args[Min(Given("word"))].text

AskedDirectory ==
  IF Given("d") = {} THEN CurrentDirectory ELSE <<LastOf("d").text>>
AskedProcfile ==
  IF Given("f") = {} THEN InDirectory(AskedDirectory) ELSE <<LastOf("f").text>>
AskedPort ==
  IF Given("p") # {} THEN LastOf("p").number
  ELSE IF invocation.PORT > 0 THEN invocation.PORT ELSE 5000

(* Whatever order the words come in, and however often an option is given: *)
(* the last -d and -f count, and without -f it is the Procfile of that     *)
(* directory, not of the one fiveman was started in.                       *)
PathsAreAsked ==
  at = "started" => directory = AskedDirectory /\ procfile = AskedProcfile

(* The rows are the lines of the file in their order, wherever its chunks  *)
(* ended, on consecutive ports from the one asked for; and one more row,   *)
(* which no count includes, for a last line that has a name but no end.    *)
RowsOfFile ==
  at = "started" =>
    /\ \A p \in ExecEnds :
         table[Number(p)] =
           [instruction |-> Expected(p), port |-> AskedPort + Number(p) - 1]
    /\ LET n == Cardinality(ExecEnds)
           pending == \E q \in NameEnds : \A p \in ExecEnds : p < q
       IN  Len(table) = IF pending THEN n + 1 ELSE n

(* The entries a program finds in the new environment, up to the null      *)
(* pointer.                                                                *)
Passed == {k \in DOMAIN new_environ : \A j \in 0..k : new_environ[j] # Null}

(* However the entries of environ are counted, and whichever are there:    *)
(* the copy ends with a null pointer inside the memory it got, and loses   *)
(* none of the variables fiveman was given but the last one.  A process    *)
(* has the port of its row and the PATH that starts with the directory     *)
(* whatever PORT and PATH fiveman was given, as the last entry of a name   *)
(* is the one the shell keeps.                                             *)
ChildEnvironment ==
  at = "started" =>
    /\ \E k \in DOMAIN new_environ : new_environ[k] = Null
    /\ \A name \in {"PATH", "PORT"} :
         LET of == {k \in Passed : new_environ[k].name = name}
         IN  of # {} /\ new_environ[Max(of)] = New(name)
    /\ \A k \in 1..(Len(invocation.environ) - 1) :
         \E j \in Passed : new_environ[j] = Inherited(invocation.environ[k])

(* What main and its callees refuse, the Procfile apart.                   *)
Refused ==
  \/ \E k \in Given("p") : invocation.args[k].number <= 0
  \/ invocation.sudo = "denied" /\ Given("d") = {}
  \/ FirstWord \notin Selecting
  \/ AskedDirectory \notin Readable \/ AskedProcfile \notin Readable
  \/ ~Contains(invocation.environ, "PATH")

(* The start ends in an abort with exactly the invocations of Refused, and *)
(* those are the ones the code refuses, not all of them on purpose: a      *)
(* failed setegid has left errno behind for an assertion that is about     *)
(* getwd, and a missing PATH is a null pointer.  Whichever comes first in  *)
(* the order of main, none of them gets through and no other is stopped.   *)
RefusedOrStarted ==
  at \in {"aborted", "started"} => (at = "aborted") = Refused

(* One way or another it comes to an end: reading the rest of a chunk      *)
(* again and again would be easy to get wrong.                             *)
Terminates == <>Ended

(* What does not happen twice: the parser reads further in the file,       *)
(* further in the chunk, or is done with the chunk; main looks at another  *)
(* word, counts another entry of environ, or is past another of its steps. *)
(* All of these are bounded.                                               *)
Phase(p) ==
  CASE p = "fread" -> 0 [] p = "scan" -> 1 [] p = "parsed" -> 2 [] OTHER -> 3
Place(a) ==
  CASE a = "environment" -> 0 [] a = "options" -> 1 [] a = "command" -> 2
    [] a = "access" -> 3 [] a = "procfile" -> 4 [] a = "start" -> 5
    [] a = "count" -> 6 [] OTHER -> 7

ParserForward ==
  \/ total_read' > total_read
  \/ total_read' = total_read /\ Phase(pc') > Phase(pc)
  \/ total_read' = total_read /\ pc' = pc /\ i' > i

MainForward ==
  \/ Place(at') > Place(at)
  \/ at' = at /\ optind' > optind
  \/ at' = at /\ turn' > turn

(* No step takes the start of main back to where it was: procfile.c reads  *)
(* no chunk again from the position it has read one from, which is what    *)
(* its assertion on parse_head is for.                                     *)
MovesForward ==
  [][IF UNCHANGED mainVars THEN ParserForward
     ELSE MainForward /\ UNCHANGED parserVars]_vars
=============================================================================
