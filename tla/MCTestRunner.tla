---------------------------- MODULE MCTestRunner ----------------------------
(* A model-checking instance of TestRunner.                                *)
EXTENDS TestRunner

TestFile(lines) == [aike |-> TRUE, lines |-> lines]

\* A program to run, a file that is not a test, a test of the compiler's
\* errors, and one with two types.
MCFiles == << TestFile(<<"FLAGS", "OK", "# ">>),
              [aike |-> FALSE, lines |-> <<>>],
              TestFile(<<"# ", "ERROR", "# ", "code">>),
              TestFile(<<"OK", "ERROR">>) >>

Script(writes, s) == [writes |-> writes, status |-> s]

\* Children that print on one stream only, and on both, beyond what a pipe
\* holds; one whose exec fails is silent.
MCScripts == { Script(<<"own", "foreign">>, 1), Script(<<"out", "own", "own">>, 0) }
=============================================================================
