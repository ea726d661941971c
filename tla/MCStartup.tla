----------------------------- MODULE MCStartup ------------------------------
EXTENDS Startup

(* Every file of up to six characters, and a file without a final newline. *)
AllFiles == BoundedSeq(Characters, 6)
Unfinished == {<<"x", ":", "x">>}

(* Files started with every invocation: two lines, the second in another   *)
(* chunk or unfinished.                                                    *)
SomeFiles == {<<"x", ":", "\n", ":", "x", "\n">>, <<"x", ":", "\n", "x", ":">>}

Word(option, text, number) == [option |-> option, text |-> text, number |-> number]

SomeWords == {
  Word("f", "other", 0), Word("f", "missing", 0),
  Word("d", "app", 0), Word("d", "missing", 0),
  Word("p", "8000", 8000), Word("p", "x", 0),
  Word("h", "", 0), Word("?", "", 0),
  Word("word", "sta", 0), Word("word", "stop", 0)}

CommandLines == BoundedSeq(SomeWords, 3)

Environments == {<<"PATH">>, <<"PATH", "HOME">>, <<"HOME", "PORT", "PATH">>,
                 <<"PORT", "PATH", "HOME", "TERM">>, <<"HOME">>}

Plain == [args |-> <<>>, PORT |-> 0, sudo |-> "granted", environ |-> <<"PATH", "HOME">>]

(* With up to three words in the environment fiveman usually has; with any *)
(* environment, at most one word.                                          *)
SomeInvocations ==
  {[Plain EXCEPT !.args = args] : args \in CommandLines} \cup
  [args : {<<>>} \cup {<<w>> : w \in SomeWords}, PORT : {-1, 0, 7000},
   sudo : SudoOutcomes, environ : Environments]

EveryInvocation ==
  [f \in AllFiles |-> IF f \in SomeFiles THEN SomeInvocations ELSE {Plain}]
PlainInvocation == [f \in Unfinished |-> {Plain}]

SomeReadable == {<<"cwd">>, <<"cwd", "Procfile">>, <<"app">>, <<"app", "Procfile">>,
                 <<"other">>}
=============================================================================
