----------------------------- MODULE MCFrontEnd -----------------------------
(***************************************************************************)
(* The front end: the tokenizer on sources of characters, and the parser   *)
(* on sources of tokens.  The parser begins when the tokenizer is done and *)
(* reads words of any length, so a behaviour has one of the two: the       *)
(* tokenizer with nothing to parse, or the parser behind a tokenizer that  *)
(* is done with the empty source.                                          *)
(***************************************************************************)
EXTENDS MCTokenize, MCParse

NothingToParse == indents = <<>> /\ stream = <<>> /\ parsed = <<>>

NothingToTokenize ==
    /\ src = <<>> /\ pc = "done"
    /\ lines = <<>> /\ tokens = <<>> /\ brackets = <<>> /\ result = <<>>
    /\ offset = 0 /\ next = 1

FrontEndInit == (Init /\ NothingToParse) \/ (NothingToTokenize /\ ParseInit)

FrontEndNext ==
    \/ parseLines     /\ UNCHANGED parseVars
    \/ LinesEnd       /\ UNCHANGED parseVars
    \/ parseTokens    /\ UNCHANGED parseVars
    \/ TokensEnd      /\ UNCHANGED parseVars
    \/ matchBrackets  /\ UNCHANGED parseVars
    \/ MatchEnd       /\ UNCHANGED parseVars
    \/ insertNewline  /\ UNCHANGED parseVars
    \/ NewlinesEnd    /\ UNCHANGED parseVars
    \/ Finished       /\ UNCHANGED parseVars
    \/ indents # <<>> /\ parse /\ UNCHANGED vars
    \/ Done           /\ UNCHANGED vars

FrontEndSpec == FrontEndInit /\ [][FrontEndNext]_<<vars, parseVars>>

\* No two trees are printed alike.
ASSUME TreesPrintedApart == PrintsApart
=============================================================================
