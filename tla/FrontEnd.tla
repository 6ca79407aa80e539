------------------------------ MODULE FrontEnd ------------------------------
(***************************************************************************)
(* What parse() does to the tokens that scan() returns                     *)
(* (Compiler/src/parse.cpp:328-388): macro extraction, macro application   *)
(* and the parser, one after the other.                                    *)
(***************************************************************************)
EXTENDS MacroExtract, MacroApply

VARIABLES
  stream, pos, work, nodes, parse_errors, root, parser_state,   \* see Parser
  result        \* "running", "correct", "errors"

P == INSTANCE Parser WITH errors <- parse_errors, state <- parser_state

parser == <<stream, pos, work, nodes, parse_errors, root, parser_state>>

fvars == <<xvars, avars, parser, result>>

\* The tokens of the file __standards__, which parse() includes at the beginning
\* of the main file.
Standard(operator, name, line) ==
  LET Tok(t, text) == Token(t, text, "__standards__", line)
  IN  << Tok("DEFINE", "DEFINE"), Tok("PRIORITY", "PRIO"), Tok("INT", "1000000"),
         Tok("ID_TEMP", "<ID>"), Tok("NV_ID", operator), Tok("INT_TEMP", "<INT>"),
         Tok("AS", "AS"), Tok("RUN", "RUN"), Tok("ID", name), Tok("WITH", "WITH"),
         Tok("INSERTION", "$0"), Tok("ARGSEP", ","), Tok("INSERTION", "$1"),
         Tok("END", "END"), Tok("END_DEFINE", "END DEFINE") >>

StandardMacros == Standard("+", "__INC__", 1) \o Standard("-", "__DEC__", 2)

Init ==
  /\ ExtractInit /\ ApplyIdle /\ P!Idle
  /\ result = "running"

ExtractMacros == ExtractNext /\ UNCHANGED <<avars, parser, result>>

CallApply ==
  /\ at = "done"
  /\ BeginApplication(output, incomplete_macros)
  /\ UNCHANGED <<xvars, parser, result>>

ApplyMacros == ApplyNext /\ UNCHANGED <<xvars, parser, result>>

CallParser ==
  /\ apply_state = "done"
  /\ P!Begin(input)
  /\ UNCHANGED <<xvars, avars, result>>

ParseTokens == P!Next /\ UNCHANGED <<xvars, avars, result>>

\* The errors of the parser, of extraction and of application, in the order in
\* which parse() puts them into the tree's list.
Errors == parse_errors \o encountered_errors \o apply_errors

Return ==
  /\ parser_state = "done" /\ result = "running"
  /\ result' = IF Errors = <<>> THEN "correct" ELSE "errors"
  /\ UNCHANGED <<xvars, avars, parser>>

Running == result = "running" /\ parser_state # "crashed"

Finished == ~ Running /\ UNCHANGED fvars

Next ==
  \/ ExtractMacros \/ CallApply \/ ApplyMacros \/ CallParser \/ ParseTokens
  \/ Return \/ Finished

Spec == Init /\ [][Next]_fvars

\* Nothing but the function itself is needed for it to go on.  This is weak
\* fairness of Next, which Running says is enabled (there is no deadlock) and which
\* is all that changes anything.
FairSpec == Spec /\ ([]<> ~ Running \/ []<><<TRUE>>_fvars)

-----------------------------------------------------------------------------

\* The end-of-file token, at which every loop over the tokens stops, is there and
\* is the last one between any two phases and between any two replacements: no
\* match takes it, no macro brings a second one, and the parser never goes behind
\* it (macro.cpp:124-128, 525-531, parse.cpp:14-29).
StreamEndsInEOF ==
  /\ at \in {"check", "done"} => EndsInEOF(output)
  /\ InputEndsInEOF
  /\ parser_state # "idle" => EndsInEOF(stream) /\ pos \in DOMAIN stream

\* A null pointer is followed only in a text in which an error has been found
\* before: no text without an error makes parse() crash (parse.cpp:308-326).
NullOnlyAfterError == parser_state = "crashed" => parse_errors # <<>>

\* parse() returns, whatever the tokens and the macros are, or it has followed a
\* null pointer: the recursion of extraction, the passes of macros that expand
\* into themselves, and the recovery of the parser all come to an end
\* (macro.cpp:502, parse.cpp:21-27, 191-205, 368-376).
Returns == <> ~ Running
=============================================================================
