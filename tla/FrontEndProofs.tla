--------------------------- MODULE FrontEndProofs ---------------------------
(***************************************************************************)
(* Proofs about FrontEnd: what is proved of extraction and of application, *)
(* each by itself, holds when parse() runs one after the other; what       *)
(* application assumes of the macros it is called with is what extraction  *)
(* guarantees of those it has found.                                       *)
(***************************************************************************)
EXTENDS FrontEnd, MacroProofs

\* A step of parse() is one of extraction, or leaves that alone.
LEMMA ExtractionIsComponent == Spec => ExtractSpec
<1>1. Init => ExtractInit
  BY DEF Init
<1>2. [Next]_fvars => [ExtractNext]_xvars
  BY DEF Next, ExtractMacros, CallApply, ApplyMacros, CallParser, ParseTokens,
         Return, Finished, fvars
<1> QED BY <1>1, <1>2, PTL DEF Spec, ExtractSpec

\* A step is one of application, or leaves that alone; it is called with what
\* extraction has found.
LEMMA ApplicationIsComponent == Spec => ApplySpec
<1>1. Init => ApplyIdle
  BY DEF Init
<1>2. ExtractInv /\ [Next]_fvars => [Called \/ ApplyNext]_avars
  <2> SUFFICES ASSUME ExtractInv, [Next]_fvars
               PROVE  [Called \/ ApplyNext]_avars
    OBVIOUS
  <2>1. CASE CallApply
    BY <2>1 DEF CallApply, Called, ExtractInv
  <2>2. CASE ApplyMacros
    BY <2>2 DEF ApplyMacros
  <2>3. CASE \/ ExtractMacros \/ CallParser \/ ParseTokens \/ Return \/ Finished
             \/ UNCHANGED fvars
    BY <2>3 DEF ExtractMacros, CallParser, ParseTokens, Return, Finished, fvars
  <2> QED BY <2>1, <2>2, <2>3 DEF Next
<1> QED BY <1>1, <1>2, ExtractionIsComponent, ExtractInvariance, PTL
        DEF Spec, ApplySpec

\* In parse(), every insertion of every macro resolves (macro.cpp:257-270).
THEOREM InsertionsAlwaysResolve == Spec => []InsertionsResolve
BY ExtractionIsComponent, ExtractionResolves, PTL

\* In parse(), the stream that the parser gets is one that no macro applies to,
\* or the limit of passes is reported (macro.cpp:493-541).
THEOREM ParserGetsNormalForm == Spec => []NormalFormOrError
BY ApplicationIsComponent, NormalForm, PTL

\* In parse(), each replacement is one of the most urgent (macro.cpp:496-523).
THEOREM MostUrgentIsReplaced == Spec => ReplacesMostUrgent
BY ApplicationIsComponent, MostUrgentReplaced, PTL

-----------------------------------------------------------------------------
(* The parser *)

PP == INSTANCE ParserProofs WITH errors <- parse_errors, state <- parser_state

\* What the instance assumes of the constants.
LEMMA InstanceAssumptions ==
  /\ IntMax \in Nat \ {0}
  /\ \A ts \in Streams :
       /\ ts \in Seq(PP!TokenSet) /\ PP!EndsInEOF(ts)
       /\ \A n \in DOMAIN ts : ValueOf(ts[n].text) \in Int
BY IntMaxAssumption, StreamsAssumption DEF TokenSet, EndsInEOF, PP!TokenSet,
   PP!EndsInEOF

\* The parser of parse() is the one the proofs are about.
LEMMA SameIdle == P!Idle <=> PP!Idle
BY DEF P!Idle, P!Null, PP!Idle, PP!Null

LEMMA SameBegin == ASSUME NEW ts PROVE P!Begin(ts) <=> PP!Begin(ts)
BY DEF P!Begin, P!Do, P!Finish, PP!Begin, PP!Do, PP!Finish

LEMMA SameNext == P!Next <=> PP!Next
BY DEF
       P!Front, P!ErrorAt, P!NoEOF, P!Null, P!At, P!Mk, P!Name, P!Number, P!Inner,
       P!Split, P!Assignment, P!Goto, P!IfGoto, P!Do, P!match, P!matchmk, P!Make,
       P!Drop, P!Finish, P!Current, P!lookahead, P!Here, P!Pending, P!Becomes,
       P!Report, P!Silent, P!Push, P!Return, P!Constant, P!Calling, P!Recovery,
       P!Behind, P!Matching, P!Match, P!MatchMk, P!S, P!Optional, P!PORTS, P!OPORTS,
       P!ARGS, P!MARGS, P!More, P!Statement, P!P_Statement, P!P_Name, P!PID,
       P!P_Nothing, P!expected_end_or_semicolon, P!MOREP, P!MOREP_Excess, P!Value,
       P!VALUE, P!VARGS, P!MVARGS, P!Parts, P!Made, P!Making, P!TheParts,
       P!MakeNode, P!FollowNull, P!DropNode, P!Finishing, P!Excess, P!EndOfParse,
       P!Next,
       PP!Front, PP!ErrorAt, PP!NoEOF, PP!Null, PP!At, PP!Mk, PP!Name, PP!Number,
       PP!Inner, PP!Split, PP!Assignment, PP!Goto, PP!IfGoto, PP!Do, PP!match,
       PP!matchmk, PP!Make, PP!Drop, PP!Finish, PP!Current, PP!lookahead, PP!Here,
       PP!Pending, PP!Becomes, PP!Report, PP!Silent, PP!Push, PP!Return,
       PP!Constant, PP!Calling, PP!Recovery, PP!Behind, PP!Matching, PP!Match,
       PP!MatchMk, PP!S, PP!Optional, PP!PORTS, PP!OPORTS, PP!ARGS, PP!MARGS,
       PP!More, PP!Statement, PP!P_Statement, PP!P_Name, PP!PID, PP!P_Nothing,
       PP!expected_end_or_semicolon, PP!MOREP, PP!MOREP_Excess, PP!Value, PP!VALUE,
       PP!VARGS, PP!MVARGS, PP!Parts, PP!Made, PP!Making, PP!TheParts, PP!MakeNode,
       PP!FollowNull, PP!DropNode, PP!Finishing, PP!Excess, PP!EndOfParse, PP!Next

\* A step of parse() is one of the parser, or the call of it, or leaves that alone.
LEMMA ParserSteps ==
  ASSUME [Next]_fvars
  PROVE  \/ apply_state = "done" /\ PP!Begin(input)
         \/ PP!Next
         \/ UNCHANGED PP!pvars
<1>1. CASE CallParser
  BY <1>1, SameBegin DEF CallParser
<1>2. CASE ParseTokens
  BY <1>2, SameNext DEF ParseTokens
<1>3. CASE \/ ExtractMacros \/ CallApply \/ ApplyMacros \/ Return \/ Finished
           \/ UNCHANGED fvars
  BY <1>3 DEF ExtractMacros, CallApply, ApplyMacros, Return, Finished, fvars, parser,
     PP!pvars
<1> QED BY <1>1, <1>2, <1>3 DEF Next

LEMMA StackHolds == Spec => []PP!StackInv
<1>1. Init => PP!StackInv
  BY SameIdle, InstanceAssumptions, PP!InitStackInv DEF Init
<1>2. PP!StackInv /\ [Next]_fvars => PP!StackInv'
  BY ParserSteps, InstanceAssumptions, PP!BeginInv, PP!NextStackInv,
     PP!StackInvUnchanged
<1> QED BY <1>1, <1>2, PTL DEF Spec

\* In parse(), no text without an error makes the parser follow a null pointer:
\* every construction finds the parts it was promised (parse.cpp:76-326).
THEOREM NoCrashWithoutError == Spec => []NullOnlyAfterError
<1>1. PP!StackInv => NullOnlyAfterError
  BY DEF PP!StackInv, NullOnlyAfterError
<1> QED BY StackHolds, <1>1, PTL

-----------------------------------------------------------------------------
(* The end of the stream *)

LEMMA SameStream ==
  ASSUME NEW ts
  PROVE  IsStream(ts) <=> PP!IsSeq(ts) /\ PP!EndsInEOF(ts)
BY DEF IsStream, IsSeq, Range, EndsInEOF, PP!IsSeq, PP!Range, PP!EndsInEOF

\* What extraction leaves is what application starts with.
LEMMA StreamStep ==
  ASSUME MatchesStopBeforeEOF, ExtractInv, ApplyInv, StreamInv, [Next]_fvars
  PROVE  StreamInv'
<1>1. CASE CallApply
  <2>1. at = "done" /\ BeginApplication(output, incomplete_macros)
    BY <1>1 DEF CallApply
  <2>2. output \in Seq(Readable) /\ EndsInEOF(output) /\ AllSound(incomplete_macros)
    BY <2>1 DEF ExtractInv, Ended
  <2>3. IsStream(output)
    BY <2>2, SeqIs DEF IsStream
  <2>4. \A n \in DOMAIN output : output[n].text \in Written
    <3>1. \A n \in DOMAIN output : output[n] \in Readable
      BY <2>2
    <3> QED BY <3>1 DEF Readable
  <2> QED BY <2>1, <2>2, <2>3, <2>4, BeginStreamInv
<1>2. CASE ApplyMacros
  BY <1>2, NextStreamInv DEF ApplyMacros
<1>3. CASE \/ ExtractMacros \/ CallParser \/ ParseTokens \/ Return \/ Finished
           \/ UNCHANGED fvars
  <2>1. UNCHANGED avars
    BY <1>3 DEF ExtractMacros, CallParser, ParseTokens, Return, Finished, fvars
  <2> QED BY <2>1, StutterStreamInv
<1> QED BY <1>1, <1>2, <1>3 DEF Next

\* And what application leaves is what the parser gets.
LEMMA PositionStep ==
  ASSUME StreamInv, PP!PosInv, [Next]_fvars
  PROVE  PP!PosInv'
<1>1. CASE apply_state = "done" /\ PP!Begin(input)
  <2>1. IsStream(input)
    BY <1>1 DEF StreamInv
  <2> QED BY <1>1, <2>1, SameStream, InstanceAssumptions, PP!BeginPos
<1>2. CASE PP!Next
  BY <1>2, InstanceAssumptions, PP!NextPos
<1>3. CASE UNCHANGED PP!pvars
  BY <1>3 DEF PP!PosInv, PP!pvars, PP!EndsInEOF
<1> QED BY <1>1, <1>2, <1>3, ParserSteps

\* Between any two steps of parse() the tokens end in the end-of-file token, and
\* have no other one: neither a definition that is broken off, nor a match, nor a
\* replacement, nor the recovery of the parser takes it, doubles it, or goes behind
\* it.  What is assumed is that the parser generated for a rule does not take it
\* (macro.cpp:96-106, 124-128, 525-531, parse.cpp:14-29).
THEOREM StreamKept ==
  ASSUME MatchesStopBeforeEOF
  PROVE  Spec => []StreamEndsInEOF
<1>1. Init => StreamInv /\ PP!PosInv
  BY SameIdle, InitStreamInv DEF Init, PP!PosInv, PP!Idle
<1>2. ExtractInv /\ ApplyInv /\ StreamInv /\ PP!PosInv /\ [Next]_fvars
        => (StreamInv /\ PP!PosInv)'
  BY StreamStep, PositionStep
<1>3. ExtractInv /\ StreamInv /\ PP!PosInv => StreamEndsInEOF
  <2> SUFFICES ASSUME ExtractInv, StreamInv, PP!PosInv  PROVE StreamEndsInEOF
    OBVIOUS
  <2>1. at \in {"check", "done"} => EndsInEOF(output)
    BY DEF ExtractInv, Ended
  <2>2. InputEndsInEOF
    BY DEF StreamInv, IsStream, InputEndsInEOF
  <2>3. parser_state # "idle" => EndsInEOF(stream) /\ pos \in DOMAIN stream
    <3>1. parser_state # "idle" => PP!IsSeq(stream) /\ PP!EndsInEOF(stream)
      BY DEF PP!PosInv
    <3>2. parser_state # "idle" => pos \in DOMAIN stream
      BY DEF PP!PosInv
    <3> QED BY <3>1, <3>2, SameStream DEF IsStream
  <2> QED BY <2>1, <2>2, <2>3 DEF StreamEndsInEOF
<1>4. Spec => []ExtractInv
  BY ExtractionIsComponent, ExtractInvariance, PTL
<1>5. Spec => []ApplyInv
  BY ApplicationIsComponent, ApplyInvariance, PTL
<1> QED BY <1>1, <1>2, <1>3, <1>4, <1>5, PTL DEF Spec

-----------------------------------------------------------------------------
(* Temporaries *)

\* In parse(), every expansion of a macro has temporaries of its own: the names
\* made for them are those of no token in the stream, be it from a file, from
\* another expansion, or handed from one macro to the next (macro.cpp:458-467,
\* 525-531).  What is assumed of the names is that they are no lexemes and tell
\* the passes apart (macro.cpp:459-461, lexer.l:46-84).
THEOREM TemporariesAreOwn ==
  ASSUME MatchesStopBeforeEOF, GeneratedAreNew
  PROVE  Spec => NamesAreFresh
<1>1. Init => StreamInv
  BY InitStreamInv DEF Init
<1>2. ExtractInv /\ ApplyInv /\ StreamInv /\ [Next]_fvars => StreamInv'
  BY StreamStep
<1>3. ApplyInv /\ StreamInv => [Replace => FreshNames]_avars
  BY ReplaceIsFresh
<1>4. Spec => []ExtractInv
  BY ExtractionIsComponent, ExtractInvariance, PTL
<1>5. Spec => []ApplyInv
  BY ApplicationIsComponent, ApplyInvariance, PTL
<1> QED BY <1>1, <1>2, <1>3, <1>4, <1>5, PTL DEF Spec, NamesAreFresh
=============================================================================
