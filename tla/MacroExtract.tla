---------------------------- MODULE MacroExtract ----------------------------
(***************************************************************************)
(* Macro extraction (Compiler/src/macro.cpp, S, D, MD and A): takes the    *)
(* macro definitions out of a token stream.                                *)
(*                                                                         *)
(* Each of the four functions ends in the call of another one or of        *)
(* itself, but for what remains to be done when A returns: S goes on, after *)
(* D or MD have dropped a macro they called A for.  So the call stack is    *)
(* the function that runs, `at`, and whether its macro will be dropped.     *)
(***************************************************************************)
EXTENDS Macros

VARIABLES
  tokens,             \* the argument
  at,                 \* "S", "D", "MD", "A"; "check" after S has returned,
                      \* "done" after extract_macros has
  drop,               \* the macro under construction is popped when A returns
  tok_pos,
  output, incomplete_macros, encountered_errors

xvars == <<tokens, at, drop, tok_pos, output, incomplete_macros,
           encountered_errors>>

ExtractInit ==
  /\ tokens \in Streams
  /\ at = "S" /\ drop = FALSE /\ tok_pos = 0
  /\ output = <<>> /\ incomplete_macros = <<>> /\ encountered_errors = <<>>

-----------------------------------------------------------------------------

\* es.tokens[MIN(es.tok_pos + n, es.tokens.size() - 1)]
Coming(n) ==
  tokens[IF tok_pos + n < Len(tokens) THEN tok_pos + n + 1 ELSE Len(tokens)]

\* lookahead() after n further calls of advance.
lookahead(n) ==
  IF tok_pos + n >= Len(tokens) THEN "T_EOF" ELSE tokens[tok_pos + n + 1].t

Current == incomplete_macros[Len(incomplete_macros)]

Updated(md) == [incomplete_macros EXCEPT ![Len(incomplete_macros)] = md]

advance(n) == tok_pos' = tok_pos + n /\ UNCHANGED tokens

error(t) ==
  encountered_errors' = Append(encountered_errors, ErrorAt(t, Coming(0)))

Silent == UNCHANGED encountered_errors

NoOutput == UNCHANGED output

\* strToInt: what it adds to the errors when the token to blame is `token`.
RangeErrors(text, token) ==
  IF ValueOf(text) >= IntMax THEN <<ErrorAt("RANGE", token)>> ELSE <<>>

\* Mutant of WithRule: names and numbers count as patterns.
WithRuleCounted(md, l) ==
  [md EXCEPT
     !.rule = Append(@, l),
     !.content_constraint_token_indices =
        IF l.t \in Constraints THEN Append(@, Len(md.rule)) ELSE @,
     !.template_token_indices =
        IF l.t \in Constraints \cup Templates THEN Append(@, Len(md.rule)) ELSE @]

\* push_rule; indices count from 0.
WithRule(md, l) ==
  [md EXCEPT
     !.rule = Append(@, l),
     !.content_constraint_token_indices =
        IF l.t \in Constraints THEN Append(@, Len(md.rule)) ELSE @,
     !.template_token_indices =
        IF l.t \in Templates THEN Append(@, Len(md.rule)) ELSE @]

push_rule ==
  incomplete_macros' = Updated(WithRule(Current, Coming(0)))

push_replacement ==
  incomplete_macros' =
    Updated([Current EXCEPT !.replacement = Append(@, Coming(0))])

-----------------------------------------------------------------------------
(* S: outside of definitions *)

S_EOF ==
  /\ at = "S" /\ lookahead(0) = "T_EOF"
  /\ output' = Append(output, Coming(0))
  /\ advance(1)
  /\ at' = "check"
  /\ UNCHANGED <<drop, incomplete_macros, encountered_errors>>

S_Copy ==
  /\ at = "S" /\ lookahead(0) \notin {"T_EOF", "DEFINE"}
  /\ output' = Append(output, Coming(0))
  /\ advance(1)
  /\ UNCHANGED <<at, drop, incomplete_macros, encountered_errors>>

Defining == at = "S" /\ lookahead(0) = "DEFINE" /\ at' = "D" /\ UNCHANGED drop

S_Define ==
  /\ Defining /\ lookahead(1) # "PRIORITY"
  /\ incomplete_macros' = Append(incomplete_macros, MacroDefinition(0))
  /\ advance(1)
  /\ NoOutput /\ Silent

\* The token that strToInt blames is the one behind the number.
S_Priority ==
  /\ Defining /\ lookahead(1) = "PRIORITY" /\ lookahead(2) = "INT"
  /\ incomplete_macros' =
       Append(incomplete_macros, MacroDefinition(IntOf(Coming(2).text)))
  /\ encountered_errors' =
       encountered_errors \o RangeErrors(Coming(2).text, Coming(3))
  /\ advance(3)
  /\ NoOutput

\* What stands in the number's place is skipped, whatever it is.
S_NoPriority ==
  /\ Defining /\ lookahead(1) = "PRIORITY" /\ lookahead(2) # "INT"
  /\ incomplete_macros' = Append(incomplete_macros, MacroDefinition(0))
  /\ encountered_errors' =
       Append(encountered_errors, ErrorAt("MACRO_EXTRACT_EXPECT", Coming(2)))
  /\ advance(3)
  /\ NoOutput

-----------------------------------------------------------------------------
(* D and MD: the first token of a rule, and the others *)

InRule == at \in {"D", "MD"} /\ NoOutput

Rule_EOF ==
  /\ InRule /\ lookahead(0) = "T_EOF"
  /\ error("MACRO_EXTRACT_EXPECT")
  /\ advance(1)
  /\ at' = "A" /\ drop' = TRUE
  /\ UNCHANGED incomplete_macros

D_As ==
  /\ InRule /\ at = "D" /\ lookahead(0) = "AS"
  /\ error("MACRO_EXTRACT_EMPTY_DEFINE")
  /\ advance(1)
  /\ at' = "A" /\ drop' = TRUE
  /\ UNCHANGED incomplete_macros

MD_As ==
  /\ InRule /\ at = "MD" /\ lookahead(0) = "AS"
  /\ advance(1)
  /\ at' = "A"
  /\ Silent /\ UNCHANGED <<drop, incomplete_macros>>

\* Also D goes on in MD, which does not insist on a rule.
Rule_Define ==
  /\ InRule /\ lookahead(0) = "DEFINE"
  /\ error("MACRO_EXTRACT_NESTED")
  /\ advance(1)
  /\ at' = "MD"
  /\ UNCHANGED <<drop, incomplete_macros>>

Rule_Push ==
  /\ InRule /\ lookahead(0) \notin {"T_EOF", "AS", "DEFINE"}
  /\ push_rule
  /\ advance(1)
  /\ at' = "MD"
  /\ Silent /\ UNCHANGED drop

-----------------------------------------------------------------------------
(* A: the replacement *)

InReplacement == at = "A" /\ NoOutput

\* Back in S, after D or MD have popped the macro if they had to.
A_Returns ==
  /\ at' = "S" /\ drop' = FALSE
  /\ incomplete_macros' = IF drop THEN Front(incomplete_macros)
                          ELSE incomplete_macros

\* A macro that is not terminated is kept all the same.
A_EOF ==
  /\ InReplacement /\ lookahead(0) = "T_EOF"
  /\ error("MACRO_EXTRACT_EXPECT")
  /\ advance(1)
  /\ A_Returns

A_End ==
  /\ InReplacement /\ lookahead(0) = "END_DEFINE"
  /\ advance(1)
  /\ A_Returns /\ Silent

A_Nested ==
  /\ InReplacement /\ lookahead(0) \in {"DEFINE", "AS"}
  /\ error("MACRO_EXTRACT_NESTED")
  /\ advance(1)
  /\ UNCHANGED <<at, drop, incomplete_macros>>

A_Push ==
  /\ InReplacement /\ lookahead(0) \notin {"T_EOF", "END_DEFINE", "DEFINE", "AS"}
  /\ push_replacement
  /\ advance(1)
  /\ Silent /\ UNCHANGED <<at, drop>>

-----------------------------------------------------------------------------
(* The insertion points, after S has returned *)

Dangling(md, t) == t.t = "INSERTION" /\ ~ Resolves(md, t)

Checked(md) ==
  [md EXCEPT !.replacement =
     [k \in DOMAIN @ |-> IF Dangling(md, @[k])
                         THEN [@[k] EXCEPT !.t = "ID", !.text = "error"]
                         ELSE @[k]]]

\* strToInt is past the end of the tokens by now and blames the last one.
InsertionErrors(md) ==
  FlattenSeq([k \in DOMAIN md.replacement |->
    LET t == md.replacement[k]
    IN  IF t.t # "INSERTION" THEN <<>>
        ELSE RangeErrors(t.text, Coming(0))
               \o IF Resolves(md, t) THEN <<>> ELSE <<ErrorAt("RANGE", t)>>])

CheckInsertions ==
  /\ at = "check"
  /\ incomplete_macros' =
       [k \in DOMAIN incomplete_macros |-> Checked(incomplete_macros[k])]
  /\ encountered_errors' =
       encountered_errors
         \o FlattenSeq([k \in DOMAIN incomplete_macros |->
                          InsertionErrors(incomplete_macros[k])])
  /\ at' = "done"
  /\ UNCHANGED <<tokens, drop, tok_pos, output>>

-----------------------------------------------------------------------------

ExtractNext ==
  \/ S_EOF \/ S_Copy \/ S_Define \/ S_Priority \/ S_NoPriority
  \/ Rule_EOF \/ D_As \/ MD_As \/ Rule_Define \/ Rule_Push
  \/ A_EOF \/ A_End \/ A_Nested \/ A_Push
  \/ CheckInsertions

ExtractSpec == ExtractInit /\ [][ExtractNext]_xvars

-----------------------------------------------------------------------------

\* Every insertion in a macro that is kept refers to a pattern of its rule, and
\* that to a symbol of the rule, so that what get_replacement looks up without a
\* check is there (macro.cpp:257-270, 452-455).
InsertionsResolve ==
  at = "done" =>
    \A n \in DOMAIN incomplete_macros :
      InsertionsFound(incomplete_macros[n]) /\ IndicesInRule(incomplete_macros[n])
=============================================================================
