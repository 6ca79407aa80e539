----------------------------- MODULE MCFrontEnd -----------------------------
(***************************************************************************)
(* Texts for FrontEnd, as sequences of lexemes: beginnings of macro        *)
(* definitions, programs with macros, and programs with one token too      *)
(* many, too few or out of place.                                          *)
(***************************************************************************)
EXTENDS FrontEnd, TLC

Detector  == INSTANCE MacroDetector
MacroText == INSTANCE MacroGrammar
Language  == INSTANCE Sentences

-----------------------------------------------------------------------------
(* Lexemes; what is not listed is a name *)

TypeOf ==
  "DEFINE" :> "DEFINE" @@ "PRIO" :> "PRIORITY" @@ "AS" :> "AS"
    @@ "END DEFINE" :> "END_DEFINE" @@ "<ID>" :> "ID_TEMP" @@ "<INT>" :> "INT_TEMP"
    @@ "<V>" :> "VALUE_TEMP" @@ "<P>" :> "PROG_TEMP" @@ "<A>" :> "ARGS_TEMP"
    @@ "$0" :> "INSERTION" @@ "$1" :> "INSERTION" @@ "$4000002" :> "INSERTION"
    @@ "#0" :> "TEMP_VAL" @@ "+" :> "NV_ID" @@ "-" :> "NV_ID"
    @@ "0" :> "INT" @@ "1" :> "INT" @@ "2" :> "INT" @@ "1000000" :> "INT"
    @@ "2000000" :> "INT" @@ "(" :> "PAREN_OPEN" @@ ")" :> "PAREN_CLOSE"
    @@ "," :> "ARGSEP" @@ ";" :> "PROGSEP" @@ ":" :> "LABELDEC" @@ ":=" :> "ASSIGN"
    @@ "!= 0" :> "NEQ_ZERO" @@ "=" :> "EQ" @@ "DO" :> "DO" @@ "LOOP" :> "LOOP"
    @@ "WHILE" :> "WHILE" @@ "GOTO" :> "GOTO" @@ "IF" :> "IF" @@ "THEN" :> "THEN"
    @@ "STOP" :> "STOP" @@ "END" :> "END" @@ "PROGRAM" :> "PROGRAM" @@ "IN" :> "IN"
    @@ "OUT" :> "OUT" @@ "RUN" :> "RUN" @@ "WITH" :> "WITH"

Lexeme(text, line) ==
  Token(IF text \in DOMAIN TypeOf THEN TypeOf[text] ELSE "ID", text, "main", line)

\* INT_MAX is 2000000 here, and so $4000002 is 0 once it is an int.
MCIntMax == 2000000

MCValueOf(text) ==
  CASE text \in {"1", "$1"}    -> 1
    [] text = "2"              -> 2
    [] text = "1000000"        -> 1000000
    [] text = "2000000"        -> 2000000
    [] text = "$4000002"       -> 4000002
    [] OTHER                   -> 0

\* The limit is 1024 in parse.hpp.
MCPasses == 3

Scanned(lexemes) ==
  StandardMacros \o [n \in DOMAIN lexemes |-> Lexeme(lexemes[n], n)]
    \o <<Token("T_EOF", "EOF", "main", Len(lexemes))>>

-----------------------------------------------------------------------------
(* Texts *)

UpTo(n, S) == UNION {[1 .. m -> S] : m \in 0 .. n}

DefinitionLexemes == {"DEFINE", "PRIO", "1", "AS", "END DEFINE", "a", "<ID>", "$0"}

\* Beginnings of a definition, some of them complete.
Definitions ==
  {<<"DEFINE">> \o s : s \in UpTo(2, DefinitionLexemes)}
    \cup {<<"DEFINE">> \o s \o <<"END DEFINE", "a">> :
            s \in [1 .. 3 -> DefinitionLexemes \ {"1"}]}
    \cup {<<"DEFINE", "PRIO", n, "a", "AS", i, "END DEFINE", "a">> :
            n \in {"1", "2000000", "a"}, i \in {"$0", "$4000002", "STOP"}}

Define(rule, replacement) ==
  <<"DEFINE">> \o rule \o <<"AS">> \o replacement \o <<"END DEFINE">>

Prio(n) == <<"PRIO", n>>

\* One macro or two, and a text that uses them.
Macros_ ==
  { Define(<<"inc", "<ID>">>, <<"$0", ":=", "$0", "+", "1">>) \o <<"inc", "x">>,
    Define(<<"dec", "<ID>", "by", "<INT>">>, <<"$0", ":=", "$0", "-", "$1">>)
      \o <<"dec", "x", "by", "y", ";", "dec", "x", "by", "2">>,
    \* the text of a name matters
    Define(<<"go", "b">>, <<"STOP">>) \o <<"go", "a", ";", "go", "b">>,
    \* a priority against a place further left, and then the lower one
    Define(Prio("1") \o <<"p">>, <<"STOP">>) \o Define(Prio("2") \o <<"q">>, <<"p">>)
      \o <<"p", ";", "q">>,
    \* one that is further left against one that is longer
    Define(<<"r", "s">>, <<"STOP">>) \o Define(<<"q">>, <<"r">>)
      \o <<"q", "s", ";", "r", "s">>,
    \* temporaries
    Define(<<"zero", "<ID>">>, <<"#0", ":=", "0", ";", "$0", ":=", "#0">>)
      \o <<"zero", "x", ";", "zero", "y">>,
    \* as many replacements as there may be, and one less
    Define(<<"q">>, <<"STOP">>) \o <<"q", ";", "q", ";", "q">>,
    Define(<<"q">>, <<"STOP">>) \o <<"q", ";", "q">>,
    \* endless ones
    Define(<<"q">>, <<"q">>) \o <<"q">>,
    Define(<<"q">>, <<"q", ";", "q">>) \o <<"q">>,
    Define(<<"DEFINE">>, <<"STOP", ";">>) \o <<"x", ":=", "1">>,
    \* two that match in one place, in both orders
    Define(<<"q">>, <<"STOP">>) \o Define(<<"q", "r">>, <<"x", ":=", "1">>)
      \o <<"q", "r", ";", "q">>,
    Define(<<"q", "r">>, <<"x", ":=", "1">>) \o Define(<<"q">>, <<"STOP">>)
      \o <<"q", "r", ";", "q">>,
    \* and two that overlap
    Define(<<"q", "r">>, <<"STOP">>) \o Define(<<"r", "q">>, <<"r", ":=", "1">>)
      \o <<"q", "r", "q">>,
    \* values, arguments, programs, also inside each other
    Define(<<"twice", "<V>">>, <<"RUN", "f", "WITH", "$0", ",", "$0", "END">>)
      \o <<"x", ":=", "twice", "twice", "1">>,
    Define(<<"sum", "(", "<A>", ")">>, <<"RUN", "s", "WITH", "$0", "END">>)
      \o <<"x", ":=", "sum", "(", "a", ",", "RUN", "g", "WITH", "1", "END", ")">>,
    Define(<<"do", "<P>", "od">>, <<"LOOP", "x", "DO", "$0", "END">>)
      \o <<"do", "do", "STOP", "od", ";", "a", ":=", "1", "od">>,
    \* with what it may be followed by left open
    Define(<<"rep", "<P>">>, <<"$0">>) \o <<"rep", "STOP">>,
    Define(<<"x">>, <<"y">>) \o Define(<<"rep", "<P>", ";">>, <<"$0">>)
      \o <<"x", ":=", "1">>,
    \* the standard macros
    <<"x", ":=", "x", "+", "1", ";", "y", ":=", "x", "-", "1">>,
    <<"x", ":=", "1", "+", "x">>, <<"x", "+", "1">> }

Programs ==
  { <<"x", ":=", "1">>, <<"x", ":=", "y", ";", "STOP">>,
    <<"m", ":", "x", ":=", "0", ";", "GOTO", "m">>,
    <<"LOOP", "x", "DO", "y", ":=", "1", "END">>,
    <<"WHILE", "x", "!= 0", "DO", "STOP", "END", ";", "STOP">>,
    <<"IF", "x", "=", "1", "THEN", "GOTO", "m">>,
    <<"x", ":=", "RUN", "f", "WITH", "a", ",", "1", "END">>,
    <<"x", ":=", "RUN", "f", "WITH", "RUN", "g", "WITH", "END", "END">>,
    <<"PROGRAM", "f", "IN", "a", ",", "b", "OUT", "c", "DO", "STOP", "END", "STOP">>,
    <<"PROGRAM", "f", "DO", "STOP", "END", "PROGRAM", "g", "IN", "a", "DO", "STOP",
      "END", "STOP">> }

Without(p, n)    == SubSeq(p, 1, n - 1) \o SubSeq(p, n + 1, Len(p))
With(p, n, l)    == [p EXCEPT ![n] = l]
Between(p, n, l) == SubSeq(p, 1, n - 1) \o <<l>> \o SubSeq(p, n, Len(p))

Mistakes ==
  UNION {{Without(p, n) : n \in DOMAIN p}
           \cup {With(p, n, l) : n \in DOMAIN p, l \in {";", "END", "x"}}
           \cup {Between(p, n, l) : n \in 1 .. Len(p) + 1, l \in {";", "END", "PROGRAM"}}
           : p \in Programs}

Starts == UpTo(1, DOMAIN TypeOf \cup {"x"})

MCStreams == {Scanned(s) : s \in Definitions \cup Macros_ \cup Programs \cup Mistakes
                                   \cup Starts}

-----------------------------------------------------------------------------
(* Detectors *)

TypesOf(rule) == [n \in DOMAIN rule |-> rule[n].t]

RuleOf(lexemes) == TypesOf([n \in DOMAIN lexemes |-> Lexeme(lexemes[n], n)])

Rules ==
  {RuleOf(l) : l \in UpTo(2, DefinitionLexemes \ {"DEFINE", "AS"})
     \cup {<<"<ID>", "+", "<INT>">>, <<"dec", "<ID>", "by", "<INT>">>,
           <<"twice", "<V>">>, <<"sum", "(", "<A>", ")">>, <<"do", "<P>", "od">>,
           <<"rep", "<P>">>, <<"rep", "<P>", ";">>}}

\* The tables of each rule; the comparison makes TLC work them out just once.
Tables ==
  LET all == [types \in Rules |->
                Detector!Compiled([n \in DOMAIN types |-> [t |-> types[n]]])]
  IN  CHOOSE f \in {all} : f = all

MCLinear(rule) == ~ Detector!NonLR(Tables[TypesOf(rule)])

MCParse(rule, in) == Detector!Result(Tables[TypesOf(rule)], in)

\* A macro with an empty rule is kept, but its tables have no conflict, and so
\* the error that names the first token of a rule is never made for it
\* (macro.cpp:174-181, 389-398).
ASSUME EmptyRuleIsLinear == MCLinear(<<>>)

\* What the proofs assume of the detectors, of these rules and of what is left of
\* programs from any of their tokens on.
Remainders ==
  UNION {LET s == [n \in DOMAIN p |-> Lexeme(p[n], n)]
                    \o <<Token("T_EOF", "EOF", "main", Len(p))>>
         IN  {SubSeq(s, n, Len(s)) : n \in DOMAIN s} : p \in Programs}

ASSUME DetectorsStopBeforeEOF ==
  \A types \in Rules, in \in Remainders :
    LET rule == [n \in DOMAIN types |-> [t |-> types[n]]]
    IN  MCLinear(rule) => StopsBeforeEOF(rule, in)

MCGenerated(text, file, line, n) ==
  text \o ":" \o file \o ":" \o ToString(line) \o "_(M" \o ToString(n) \o ")"

\* And what they assume of the names, of those that occur here.
ASSUME NamesAreNew ==
  LET texts == UNION {{ts[n].text : n \in DOMAIN ts} : ts \in MCStreams}
      Names(n) == {MCGenerated(t, file, line, n) :
                     t \in texts, file \in {"main", "-"}, line \in 0 .. 9}
  IN  \A n \in 0 .. MCPasses :
        /\ Names(n) \cap (texts \cup {"error"}) = {}
        /\ \A m \in 0 .. MCPasses \ {n} : Names(m) \cap Names(n) = {}

-----------------------------------------------------------------------------

\* Extraction reports an error for exactly the texts that are not sequences of
\* definitions and other tokens by the grammar, however the mistakes in them are
\* recovered from; and if there is none, it finds the macros of the text, with
\* the right indices, and leaves the rest of it (macro.cpp:122-246, 257-270).
ExtractionIsParsing ==
  at = "done" =>
    LET text == MacroText!Parsed(tokens)
    IN  IF encountered_errors # <<>> THEN ~ text.legal
        ELSE /\ text.legal
             /\ incomplete_macros = text.macros
             /\ output = text.rest

\* The parser reports an error for exactly the sequences that are not sentences
\* of the grammar in parse.cpp:35-64, after whatever recovery, and if there is
\* none it has built the tree of the sentence (parse.cpp:76-326, 366-376).
SentencesExactly ==
  parser_state = "done" =>
    LET trees == Language!STrees(Front(stream))
    IN  IF parse_errors # <<>> THEN trees = {} ELSE root \in trees
=============================================================================
