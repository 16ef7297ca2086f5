------------------------------ MODULE MCShell -------------------------------
(* Model-checking instance of Shell: lines of one and two commands with    *)
(* every operator, "program &" and the empty line among them.              *)
EXTENDS Shell

Typed(words, ops) == [words |-> words, ops |-> ops]
SomeLines ==
  {Typed(<<"program">>, <<>>), Typed(<<"exit">>, <<>>), Typed(<<"nothing">>, <<>>),
   Typed(<<"program", "nothing">>, <<"&">>),
   Typed(<<"cd", "program">>, <<"&">>),
   Typed(<<"cd", "program">>, <<"&&&">>),
   Typed(<<"program", "program">>, <<"&&&">>),
   Typed(<<"program", "cd">>, <<"&&">>),
   Typed(<<"exit", "program">>, <<"&&&">>)}
=============================================================================
