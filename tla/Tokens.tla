------------------------------- MODULE Tokens -------------------------------
(***************************************************************************)
(* Tokens (Compiler/include/token.hpp), and the numbers in their texts.    *)
(***************************************************************************)
EXTENDS Integers, Sequences

CONSTANTS
  IntMax,         \* INT_MAX
  ValueOf(_),     \* what strtol makes of the digits in a token's text
  Streams         \* the token streams that scan() may return

\* Token::Type, each type at one more than its number.
Types ==
  << "T_EOF", "ID", "NV_ID", "INT", "PAREN_CLOSE", "PAREN_OPEN", "ARGSEP",
     "PROGSEP", "LABELDEC", "ASSIGN", "NEQ_ZERO", "EQ", "DO", "LOOP", "WHILE",
     "GOTO", "IF", "THEN", "STOP", "END", "PROGRAM", "IN", "OUT", "INCLUDE",
     "FNAME", "DEFINE", "AS", "PRIORITY", "END_DEFINE", "PROG_TEMP",
     "VALUE_TEMP", "ID_TEMP", "INT_TEMP", "ARGS_TEMP", "INSERTION", "TEMP_VAL",
     "RUN", "WITH", "UNKNOWN" >>

Token(t, text, file, line) ==
  [t |-> t, text |-> text, file |-> file, line |-> line]

\* The error kinds of parse_error.hpp, and where in the text they point.
ErrorAt(t, token) == [t |-> t, file |-> token.file, line |-> token.line]

\* A long put into an int.
ToInt(v) == ((v + IntMax + 1) % (2 * IntMax + 2)) - (IntMax + 1)

IntOf(text) == ToInt(ValueOf(text))

\* A stream as scan() returns it: it ends in the one end-of-file token.
EndsInEOF(ts) ==
  /\ ts # <<>>
  /\ \A k \in DOMAIN ts : ts[k].t = "T_EOF" <=> k = Len(ts)

NoEOF(ts) == \A k \in DOMAIN ts : ts[k].t # "T_EOF"

TokenSet == [t : STRING, text : STRING, file : STRING, line : Int]

ASSUME IntMaxAssumption == IntMax \in Nat \ {0}

ASSUME StreamsAssumption ==
  \A ts \in Streams :
    /\ ts \in Seq(TokenSet) /\ EndsInEOF(ts)
    /\ \A k \in DOMAIN ts : ValueOf(ts[k].text) \in Int
=============================================================================
