---------------------------- MODULE MacroProofs ----------------------------
(***************************************************************************)
(* Proofs about MacroExtract and MacroApply, each by itself.               *)
(*                                                                         *)
(* For any token streams, however macros are broken off or nested, what is *)
(* extracted can be applied, and what is left is a stream again.  For any  *)
(* definitions, any stream, any limit and any parsers of the rules, the    *)
(* most urgent match is replaced, and what is returned has no match left   *)
(* unless the limit is reported.                                           *)
(***************************************************************************)
EXTENDS MacroExtract, MacroApply, Vectors

-----------------------------------------------------------------------------
(* Extraction *)

\* What may be the text of a token without a macro's having generated it.
Written ==
  (UNION {{ts[n].text : n \in DOMAIN ts} : ts \in Streams}) \cup {"error"}

\* Tokens of a stream, and the macros that can be made of them.
Readable == {t \in TokenSet : ValueOf(t.text) \in Int /\ t.text \in Written}

Fields == [priority : Int, rule : Seq(Readable),
           content_constraint_token_indices : Seq(Nat),
           template_token_indices : Seq(Nat), replacement : Seq(Readable)]

Macro == {md \in Fields : IndicesInRule(md) /\ NoEOF(md.rule) /\ NoEOF(md.replacement)}

\* A token of a replacement, for a temporary, too.
Plain(token) ==
  /\ "t" \in DOMAIN token /\ "text" \in DOMAIN token
  /\ token.text \in Written /\ token.line \in Int
  /\ token.t = "TEMP_VAL" => token.text \in STRING /\ token.file \in STRING

\* What application relies on: what is to be inserted is there, and no token is an
\* end of file.
Sound(md) ==
  /\ IsSeq(md.rule) /\ NoEOF(md.rule)
  /\ IsSeq(md.replacement) /\ NoEOF(md.replacement)
  /\ \A n \in DOMAIN md.replacement : Plain(md.replacement[n])
  /\ md.template_token_indices \in Seq(Nat)
  /\ InsertionsFound(md) /\ IndicesInRule(md)

AllSound(macros) == \A n \in DOMAIN macros : Sound(macros[n])

Ended == at \in {"check", "done"}

\* The inductive invariant.  There is a macro under construction wherever one
\* is added to, and until the insertions are checked all macros are typed.
ExtractInv ==
  /\ tokens \in Streams /\ tok_pos \in Nat
  /\ at \in {"S", "D", "MD", "A", "check", "done"}
  /\ at # "done" => incomplete_macros \in Seq(Macro)
  /\ at = "done" => Prioritized(incomplete_macros) /\ AllSound(incomplete_macros)
  /\ at \in {"D", "MD", "A"} => incomplete_macros # <<>>
  /\ output \in Seq(Readable)
  /\ IF Ended THEN EndsInEOF(output) ELSE NoEOF(output)

-----------------------------------------------------------------------------
(* Numbers, tokens and rules *)

LEMMA ToIntInt == ASSUME NEW v \in Int PROVE ToInt(v) \in Int
  <1> DEFINE w == 2 * IntMax + 2
  <1>1. w \in Nat \ {0} /\ IntMax + 1 \in Int
    BY IntMaxAssumption
  <1> HIDE DEF w
  <1>2. (v + IntMax + 1) % w \in Int
    BY <1>1, IntMaxAssumption
  <1> QED
    BY <1>1, <1>2 DEF ToInt, w

\* A stream's tokens, and the one that comes.
LEMMA ComingReadable ==
  ASSUME ExtractInv, NEW n \in Nat
  PROVE  /\ Coming(n) \in Readable
         /\ lookahead(n) = "T_EOF" <=> Coming(n).t = "T_EOF"
  <1>1. /\ tokens \in Seq(TokenSet) /\ tokens # <<>>
        /\ \A j \in DOMAIN tokens : ValueOf(tokens[j].text) \in Int
        /\ \A j \in DOMAIN tokens : tokens[j].t = "T_EOF" <=> j = Len(tokens)
    BY StreamsAssumption DEF ExtractInv, EndsInEOF
  <1>2. tok_pos \in Nat /\ Len(tokens) \in Nat /\ Len(tokens) >= 1
    BY <1>1 DEF ExtractInv
  <1>3. \A j \in 1 .. Len(tokens) : tokens[j] \in Readable
    <2>1. \A j \in 1 .. Len(tokens) : tokens[j].text \in Written
      BY <1>1, <1>2 DEF ExtractInv, Written
    <2> QED
      BY <1>1, <2>1 DEF Readable
  <1>4. CASE tok_pos + n < Len(tokens)
    <2>1. tok_pos + n + 1 \in 1 .. Len(tokens)
      BY <1>2, <1>4
    <2>2. Coming(n) = tokens[tok_pos + n + 1]
      BY <1>4 DEF Coming
    <2>3. lookahead(n) = tokens[tok_pos + n + 1].t
      BY <1>4, <1>2 DEF lookahead
    <2> QED
      BY <2>1, <2>2, <2>3, <1>3
  <1>5. CASE ~ (tok_pos + n < Len(tokens))
    <2>1. Coming(n) = tokens[Len(tokens)] /\ lookahead(n) = "T_EOF"
      BY <1>5, <1>2 DEF Coming, lookahead
    <2> QED
      BY <2>1, <1>1, <1>2, <1>3
  <1> QED
    BY <1>4, <1>5

LEMMA NewMacro ==
  ASSUME NEW p \in Int
  PROVE  MacroDefinition(p) \in Macro
  BY DEF MacroDefinition, Macro, Fields, IndicesInRule, NoEOF

LEMMA AppendNoEOF ==
  ASSUME NEW ts, IsSeq(ts), NoEOF(ts), NEW l, l.t # "T_EOF"
  PROVE  NoEOF(Append(ts, l))
  <1>1. IsSeq(Append(ts, l))
    BY AppendIs
  <1>2. /\ Len(Append(ts, l)) = Len(ts) + 1 /\ Append(ts, l)[Len(ts) + 1] = l
        /\ \A n \in 1 .. Len(ts) : Append(ts, l)[n] = ts[n]
    BY AppendIs
  <1>3. Len(ts) \in Nat /\ DOMAIN ts = 1 .. Len(ts)
    BY SeqFacts
  <1>4. DOMAIN Append(ts, l) = 1 .. Len(ts) + 1
    BY <1>1, <1>2, SeqFacts
  <1>5. \A n \in 1 .. Len(ts) + 1 : n \in 1 .. Len(ts) \/ n = Len(ts) + 1
    BY <1>3
  <1> QED
    BY <1>2, <1>3, <1>4, <1>5 DEF NoEOF

\* The rule and the replacement of a macro are sequences.
LEMMA MacroSequences ==
  ASSUME NEW md \in Macro
  PROVE  IsSeq(md.rule) /\ IsSeq(md.replacement)
  <1>1. md.rule \in Seq(Readable) /\ md.replacement \in Seq(Readable)
    BY DEF Macro, Fields
  <1> QED
    BY <1>1, SeqIs

\* An index that push_rule adds is the one of the token it adds.
LEMMA WithRuleMacro ==
  ASSUME NEW md \in Macro, NEW l \in Readable, l.t # "T_EOF"
  PROVE  WithRule(md, l) \in Macro
  <1> DEFINE new == WithRule(md, l)
             n   == Len(md.rule)
  <1>1. md \in Fields /\ IndicesInRule(md) /\ n \in Nat
    BY DEF Macro, Fields
  <1>2. \A indices \in Seq(Nat) : Append(indices, n) \in Seq(Nat)
    BY <1>1
  <1>3. /\ new.rule = Append(md.rule, l)
        /\ new.content_constraint_token_indices \in
             {md.content_constraint_token_indices,
              Append(md.content_constraint_token_indices, n)}
        /\ new.template_token_indices \in
             {md.template_token_indices, Append(md.template_token_indices, n)}
    BY <1>1 DEF WithRule, Fields
  <1>4. new \in Fields
    <2> DEFINE r == Append(md.rule, l)
               c == IF l.t \in Constraints
                      THEN Append(md.content_constraint_token_indices, n)
                      ELSE md.content_constraint_token_indices
               t == IF l.t \in Templates
                      THEN Append(md.template_token_indices, n)
                      ELSE md.template_token_indices
    <2>1. r \in Seq(Readable) /\ c \in Seq(Nat) /\ t \in Seq(Nat)
      BY <1>1, <1>2 DEF Fields
    <2>2. new = [md EXCEPT !.rule = r, !.content_constraint_token_indices = c,
                           !.template_token_indices = t]
      BY DEF WithRule
    <2> HIDE DEF new, r, c, t
    <2> QED
      BY <1>1, <2>1, <2>2 DEF Fields
  <1>5. Len(new.rule) = n + 1
    BY <1>1, <1>3 DEF Fields
  <1>6. ASSUME NEW indices \in Seq(Nat),
               \A i \in DOMAIN indices : indices[i] < n,
               NEW grown \in {indices, Append(indices, n)}
        PROVE  \A i \in DOMAIN grown : grown[i] < n + 1
    <2>1. \A i \in DOMAIN indices : indices[i] \in Nat
      OBVIOUS
    <2>2. CASE grown = indices
      BY <2>1, <2>2, <1>6, <1>1
    <2>3. CASE grown = Append(indices, n)
      <3>1. \A i \in DOMAIN grown : \/ i \in DOMAIN indices /\ grown[i] = indices[i]
                                  \/ grown[i] = n
        BY <2>3, <1>1
      <3> QED
        BY <3>1, <2>1, <1>6, <1>1
    <2> QED
      BY <2>2, <2>3
  <1>7. /\ \A i \in DOMAIN new.content_constraint_token_indices :
             new.content_constraint_token_indices[i] < n + 1
        /\ \A i \in DOMAIN new.template_token_indices :
             new.template_token_indices[i] < n + 1
    BY <1>1, <1>3, <1>6 DEF Fields, IndicesInRule
  <1>8. NoEOF(new.rule) /\ NoEOF(new.replacement)
    <2>1. NoEOF(Append(md.rule, l)) /\ NoEOF(md.replacement)
      BY MacroSequences, AppendNoEOF DEF Macro
    <2>2. new.replacement = md.replacement
      BY <1>1 DEF WithRule, Fields
    <2> QED
      BY <1>3, <2>1, <2>2
  <1>9. IndicesInRule(new)
    BY <1>4, <1>5, <1>7 DEF IndicesInRule
  <1> HIDE DEF new
  <1>10. new \in Macro
    BY <1>4, <1>8, <1>9 DEF Macro
  <1> QED
    BY <1>10 DEF new

LEMMA WithReplacementMacro ==
  ASSUME NEW md \in Macro, NEW l \in Readable, l.t # "T_EOF"
  PROVE  [md EXCEPT !.replacement = Append(@, l)] \in Macro
  <1> DEFINE new == [md EXCEPT !.replacement = Append(@, l)]
  <1>1. md \in Fields /\ IndicesInRule(md)
    BY DEF Macro
  <1>2. /\ new.rule = md.rule
        /\ new.content_constraint_token_indices =
             md.content_constraint_token_indices
        /\ new.template_token_indices = md.template_token_indices
    BY <1>1 DEF Fields
  <1>3. Append(md.replacement, l) \in Seq(Readable)
    BY <1>1 DEF Fields
  <1>4. new \in Fields
    BY <1>1, <1>3 DEF Fields
  <1>5. IndicesInRule(new)
    BY <1>1, <1>2 DEF IndicesInRule
  <1>6. NoEOF(new.rule) /\ NoEOF(new.replacement)
    <2>1. new.replacement = Append(md.replacement, l)
      BY <1>1 DEF Fields
    <2>2. NoEOF(md.rule) /\ NoEOF(Append(md.replacement, l))
      BY MacroSequences, AppendNoEOF DEF Macro
    <2> QED
      BY <1>2, <2>1, <2>2
  <1> HIDE DEF new
  <1>7. new \in Macro
    BY <1>4, <1>5, <1>6 DEF Macro
  <1> QED
    BY <1>7 DEF new

\* The macro under construction, and what becomes of all when it changes.
LEMMA CurrentMacro ==
  ASSUME ExtractInv, at \in {"D", "MD", "A"}
  PROVE  /\ Current \in Macro
         /\ \A md \in Macro : Updated(md) \in Seq(Macro) /\ Updated(md) # <<>>
         /\ Front(incomplete_macros) \in Seq(Macro)
  <1>1. incomplete_macros \in Seq(Macro) /\ incomplete_macros # <<>>
    BY DEF ExtractInv
  <1>2. Len(incomplete_macros) \in 1 .. Len(incomplete_macros)
    BY <1>1
  <1>3. \A md \in Macro : Updated(md) \in Seq(Macro) /\ Updated(md) # <<>>
    BY <1>1, <1>2 DEF Updated
  <1>4. Front(incomplete_macros) \in Seq(Macro)
    BY <1>1, <1>2 DEF Front
  <1> QED
    BY <1>1, <1>2, <1>3, <1>4 DEF Current

-----------------------------------------------------------------------------
(* One lemma for each function *)

LEMMA InitExtractInv == ExtractInit => ExtractInv
  BY DEF ExtractInit, ExtractInv, Ended, NoEOF

LEMMA AdvanceTyped ==
  ASSUME ExtractInv, NEW n \in Nat, advance(n)
  PROVE  tokens' \in Streams /\ tok_pos' \in Nat
  BY DEF ExtractInv, advance

LEMMA S_ExtractInv ==
  ASSUME ExtractInv, S_EOF \/ S_Copy \/ S_Define \/ S_Priority \/ S_NoPriority
  PROVE  ExtractInv'
  <1>1. /\ at = "S" /\ output \in Seq(Readable) /\ NoEOF(output)
        /\ incomplete_macros \in Seq(Macro)
    BY DEF S_EOF, S_Copy, S_Define, S_Priority, S_NoPriority, Defining,
       ExtractInv, Ended
  <1>2. tokens' \in Streams /\ tok_pos' \in Nat
    BY AdvanceTyped DEF S_EOF, S_Copy, S_Define, S_Priority, S_NoPriority
  <1>3. /\ Coming(0) \in Readable
        /\ lookahead(0) = "T_EOF" <=> Coming(0).t = "T_EOF"
    BY ComingReadable
  <1>4. CASE S_EOF
    <2>1. output' = Append(output, Coming(0)) /\ Coming(0).t = "T_EOF"
      BY <1>3, <1>4 DEF S_EOF
    <2>2. EndsInEOF(output') /\ output' \in Seq(Readable)
      BY <2>1, <1>1, <1>3 DEF EndsInEOF, NoEOF
    <2> QED
      BY <1>1, <1>2, <1>4, <2>2 DEF S_EOF, ExtractInv, Ended
  <1>5. CASE S_Copy
    <2>1. output' = Append(output, Coming(0)) /\ Coming(0).t # "T_EOF"
      BY <1>3, <1>5 DEF S_Copy
    <2>2. NoEOF(output') /\ output' \in Seq(Readable)
      BY <2>1, <1>1, <1>3 DEF NoEOF
    <2> QED
      BY <1>1, <1>2, <1>5, <2>2 DEF S_Copy, ExtractInv, Ended
  <1>6. CASE S_Define \/ S_Priority \/ S_NoPriority
    <2>1. Coming(2) \in Readable
      BY ComingReadable
    <2>2. IntOf(Coming(2).text) \in Int
      BY <2>1, ToIntInt DEF IntOf, Readable
    <2>3. PICK p \in Int : incomplete_macros' =
                             Append(incomplete_macros, MacroDefinition(p))
      BY <1>6, <2>2 DEF S_Define, S_Priority, S_NoPriority
    <2>4. incomplete_macros' \in Seq(Macro) /\ incomplete_macros' # <<>>
      BY <1>1, <2>3, NewMacro
    <2>5. output' = output /\ at' = "D"
      BY <1>6 DEF S_Define, S_Priority, S_NoPriority, Defining, NoOutput
    <2> QED
      BY <1>1, <1>2, <2>4, <2>5 DEF ExtractInv, Ended, NoEOF
  <1> QED
    BY <1>4, <1>5, <1>6

\* Where a macro is under construction, only it and `at` need a look.
LEMMA ConstructionExtractInv ==
  ASSUME ExtractInv, at \in {"D", "MD", "A"}, advance(1), NoOutput,
         at' \in {"S", "MD", "A"}, incomplete_macros' \in Seq(Macro),
         at' \in {"MD", "A"} => incomplete_macros' # <<>>
  PROVE  ExtractInv'
  BY AdvanceTyped DEF ExtractInv, Ended, NoOutput, NoEOF

LEMMA Rule_ExtractInv ==
  ASSUME ExtractInv, Rule_EOF \/ D_As \/ MD_As \/ Rule_Define \/ Rule_Push
  PROVE  ExtractInv'
  <1>1. at \in {"D", "MD", "A"} /\ NoOutput /\ advance(1) /\ at' \in {"MD", "A"}
    BY DEF Rule_EOF, D_As, MD_As, Rule_Define, Rule_Push, InRule
  <1>2. incomplete_macros \in Seq(Macro) /\ incomplete_macros # <<>>
    BY <1>1 DEF ExtractInv
  <1>3. CASE Rule_Push
    <2>1. Coming(0) \in Readable /\ Coming(0).t # "T_EOF"
      BY <1>3, ComingReadable DEF Rule_Push
    <2>2. WithRule(Current, Coming(0)) \in Macro
      BY <1>1, <2>1, CurrentMacro, WithRuleMacro
    <2>3. incomplete_macros' = Updated(WithRule(Current, Coming(0)))
      BY <1>3 DEF Rule_Push, push_rule
    <2> QED
      BY <1>1, <2>2, <2>3, CurrentMacro, ConstructionExtractInv
  <1>4. CASE Rule_EOF \/ D_As \/ MD_As \/ Rule_Define
    <2>1. UNCHANGED incomplete_macros
      BY <1>4 DEF Rule_EOF, D_As, MD_As, Rule_Define
    <2> QED
      BY <1>1, <1>2, <2>1, ConstructionExtractInv
  <1> QED
    BY <1>3, <1>4

LEMMA A_ExtractInv ==
  ASSUME ExtractInv, A_EOF \/ A_End \/ A_Nested \/ A_Push
  PROVE  ExtractInv'
  <1>1. at = "A" /\ NoOutput /\ advance(1)
    BY DEF A_EOF, A_End, A_Nested, A_Push, InReplacement
  <1>2. incomplete_macros \in Seq(Macro) /\ incomplete_macros # <<>>
    BY <1>1 DEF ExtractInv
  <1>3. CASE A_EOF \/ A_End
    <2>1. A_Returns
      BY <1>3 DEF A_EOF, A_End
    <2>2. incomplete_macros' \in Seq(Macro)
      BY <1>1, <1>2, <2>1, CurrentMacro DEF A_Returns
    <2> QED
      BY <1>1, <2>1, <2>2, ConstructionExtractInv DEF A_Returns
  <1>4. CASE A_Nested
    BY <1>1, <1>2, <1>4, ConstructionExtractInv DEF A_Nested
  <1>5. CASE A_Push
    <2> DEFINE md == [Current EXCEPT !.replacement = Append(@, Coming(0))]
    <2>1. Coming(0) \in Readable /\ Coming(0).t # "T_EOF"
      BY <1>5, ComingReadable DEF A_Push
    <2>2. md \in Macro
      BY <1>1, <2>1, CurrentMacro, WithReplacementMacro
    <2>3. incomplete_macros' = Updated(md) /\ at' = "A"
      BY <1>1, <1>5 DEF A_Push, push_replacement
    <2> QED
      BY <1>1, <2>2, <2>3, CurrentMacro, ConstructionExtractInv
  <1> QED
    BY <1>3, <1>4, <1>5

\* What is still an insertion after the check is one that resolves.
LEMMA CheckedSound ==
  ASSUME NEW md \in Macro
  PROVE  Sound(Checked(md))
  <1> DEFINE new == Checked(md)
  <1>1. md \in Fields /\ IndicesInRule(md)
    BY DEF Macro
  <1>2. /\ new.rule = md.rule
        /\ new.content_constraint_token_indices =
             md.content_constraint_token_indices
        /\ new.template_token_indices = md.template_token_indices
        /\ new.replacement =
             [n \in DOMAIN md.replacement |->
                IF Dangling(md, md.replacement[n])
                  THEN [md.replacement[n] EXCEPT !.t = "ID", !.text = "error"]
                  ELSE md.replacement[n]]
    BY <1>1 DEF Checked, Fields
  <1>3. ASSUME NEW n \in DOMAIN new.replacement,
               new.replacement[n].t = "INSERTION"
        PROVE  IntOf(new.replacement[n].text) + 1
                 \in DOMAIN new.template_token_indices
    <2>1. n \in DOMAIN md.replacement /\ md.replacement[n] \in Readable
      <3>1. DOMAIN new.replacement = DOMAIN md.replacement
        BY <1>2
      <3>2. md.replacement \in Seq(Readable)
        BY <1>1 DEF Fields
      <3> QED
        BY <3>1, <3>2, <1>3
    <2>2. md.replacement[n] \in [t : STRING, text : STRING, file : STRING, line : Int]
      BY <2>1 DEF Readable, TokenSet
    <2>3. ~ Dangling(md, md.replacement[n])
      BY <2>1, <2>2, <1>2, <1>3
    <2>4. new.replacement[n] = md.replacement[n]
      BY <2>1, <2>3, <1>2
    <2>5. Resolves(md, md.replacement[n])
      BY <2>3, <2>4, <1>3 DEF Dangling
    <2>6. IntOf(md.replacement[n].text) \in Int
      BY <2>1, ToIntInt DEF IntOf, Readable
    <2>7. md.template_token_indices \in Seq(Nat)
      BY <1>1 DEF Fields
    <2>8. IntOf(md.replacement[n].text) + 1 \in DOMAIN md.template_token_indices
      BY <2>5, <2>6, <2>7 DEF Resolves
    <2> QED
      BY <2>4, <2>8, <1>2
  <1>4. IsSeq(md.rule) /\ IsSeq(md.replacement)
    BY MacroSequences
  <1>5. IsSeq(new.replacement)
    <2> DEFINE n == Len(md.replacement)
               r == new.replacement
    <2>1. n \in Nat /\ DOMAIN md.replacement = 1 .. n
      BY <1>4, SeqFacts
    <2>2. r = [j \in 1 .. n |-> r[j]]
      BY <2>1, <1>2
    <2> HIDE DEF n, r
    <2> QED
      BY <2>1, <2>2, FunctionIs DEF r
  <1>6. ASSUME NEW n \in DOMAIN new.replacement
        PROVE  Plain(new.replacement[n]) /\ new.replacement[n].t # "T_EOF"
    <2>1. n \in DOMAIN md.replacement /\ md.replacement[n] \in Readable
      <3>1. DOMAIN new.replacement = DOMAIN md.replacement
        BY <1>2
      <3>2. md.replacement \in Seq(Readable)
        BY <1>1 DEF Fields
      <3> QED
        BY <3>1, <3>2, <1>6
    <2>2. md.replacement[n] \in [t : STRING, text : STRING, file : STRING, line : Int]
      BY <2>1 DEF Readable, TokenSet
    <2>3. md.replacement[n].t # "T_EOF"
      BY <2>1 DEF Macro, NoEOF
    <2>4. new.replacement[n] \in
            {[md.replacement[n] EXCEPT !.t = "ID", !.text = "error"], md.replacement[n]}
      BY <2>1, <1>2
    <2>5. md.replacement[n].text \in Written /\ "error" \in Written
      BY <2>1 DEF Readable, Written
    <2> QED
      BY <2>2, <2>3, <2>4, <2>5 DEF Plain
  <1>7. md.template_token_indices \in Seq(Nat) /\ NoEOF(md.rule)
    BY <1>1 DEF Fields, Macro
  <1>8. InsertionsFound(new) /\ IndicesInRule(new)
    BY <1>1, <1>2, <1>3 DEF InsertionsFound, IndicesInRule
  <1> HIDE DEF new
  <1>9. Sound(new)
    BY <1>2, <1>4, <1>5, <1>6, <1>7, <1>8 DEF Sound, NoEOF
  <1> QED
    BY <1>9 DEF new

LEMMA CheckExtractInv == ASSUME ExtractInv, CheckInsertions PROVE ExtractInv'
  <1>1. incomplete_macros \in Seq(Macro) /\ EndsInEOF(output) /\ at' = "done"
    BY DEF ExtractInv, CheckInsertions, Ended
  <1>2. incomplete_macros' =
          [n \in DOMAIN incomplete_macros |-> Checked(incomplete_macros[n])]
    BY DEF CheckInsertions
  <1>3. AllSound(incomplete_macros')
    BY <1>1, <1>2, CheckedSound DEF AllSound
  <1>4. Prioritized(incomplete_macros')
    <2> DEFINE S == {Checked(md) : md \in Macro}
    <2>1. \A md \in S : md.priority \in Int
      BY DEF Checked, Macro, Fields
    <2>2. incomplete_macros' \in Seq(S)
      <3>1. \A n \in DOMAIN incomplete_macros : Checked(incomplete_macros[n]) \in S
        BY <1>1
      <3>2. Len(incomplete_macros) \in Nat
            /\ DOMAIN incomplete_macros = 1 .. Len(incomplete_macros)
        BY <1>1
      <3> HIDE DEF S
      <3>3. incomplete_macros' \in [1 .. Len(incomplete_macros) -> S]
        BY <3>1, <3>2, <1>2, Zenon
      <3> QED
        BY <3>2, <3>3
    <2> HIDE DEF S
    <2> QED
      BY <2>1, <2>2 DEF Prioritized
  <1>5. at' = "done" /\ UNCHANGED <<tokens, tok_pos, output>>
    BY DEF CheckInsertions
  <1> QED
    BY <1>1, <1>3, <1>4, <1>5
    DEF ExtractInv, Ended, EndsInEOF, AllSound, Prioritized

LEMMA StutterExtractInv == ExtractInv /\ UNCHANGED xvars => ExtractInv'
  BY DEF ExtractInv, xvars, Ended, EndsInEOF, NoEOF

THEOREM ExtractInvariance == ExtractSpec => []ExtractInv
  <1>1. ExtractInv /\ [ExtractNext]_xvars => ExtractInv'
    BY S_ExtractInv, Rule_ExtractInv, A_ExtractInv, CheckExtractInv,
       StutterExtractInv DEF ExtractNext
  <1> QED
    BY InitExtractInv, <1>1, PTL DEF ExtractSpec

\* Every insertion in a macro that extract_macros returns refers to a pattern
\* of its rule, and every index to a symbol of it, for any stream, whatever
\* numbers its insertions have: get_replacement needs no check (macro.cpp:257-270).
THEOREM ExtractionResolves == ExtractSpec => []InsertionsResolve
  <1>1. ExtractInv => InsertionsResolve
    BY DEF ExtractInv, InsertionsResolve, AllSound, Sound
  <1> QED
    BY ExtractInvariance, <1>1, PTL

\* What is left of the stream ends in the end-of-file token and has no other,
\* also when a definition is broken off by the end: apply_macros and the parser
\* get what they rely on (macro.cpp:96-106).
OutputEndsInEOF == Ended => EndsInEOF(output)

THEOREM ExtractionLeavesStream == ExtractSpec => []OutputEndsInEOF
  <1>1. ExtractInv => OutputEndsInEOF
    BY DEF ExtractInv, OutputEndsInEOF
  <1> QED
    BY ExtractInvariance, <1>1, PTL

-----------------------------------------------------------------------------
(* Application                                                             *)
(*                                                                         *)
(* What a rule matches does not matter: Detects and Response are expanded  *)
(* for the place of a match being an index, and for the end of the stream. *)

\* A call, of which only the priorities have to be what they are in the code.
Called ==
  \E stream, macros :
    /\ Prioritized(macros)
    /\ BeginApplication(stream, macros)

ApplySpec == ApplyIdle /\ [][Called \/ ApplyNext]_avars

\* The matches of the bin that is being run.
Finds == {Find(n) : n \in {m \in Bin(Highest) : Detects(usable[m], input)}}

FoundUpTo(i) ==
  \A n \in Bin(Highest) :
    n <= i /\ Detects(usable[n], input) =>
      \E j \in DOMAIN detected : detected[j] = Find(n)

NoMatchIn(priorities) ==
  \A n \in DOMAIN usable :
    usable[n].priority \in priorities => ~ Detects(usable[n], input)

InPass == apply_state \in {"bins", "detect", "choose"}

Typed ==
  /\ apply_state \in {"idle", "detectors", "pass", "bins", "detect", "choose", "done"}
  /\ apply_state \in {"idle", "detectors"} => pass = 0
  /\ apply_state = "idle" => k = 1
  /\ apply_state = "detectors" => Prioritized(definitions) /\ k \in Nat \ {0}
  /\ Prioritized(usable)
  /\ IsSeq(apply_errors)
  /\ pass \in Nat

\* The bins that were tried have no match; a pass that is over has changed
\* the stream.
PassInv ==
  /\ InPass => pass < Passes /\ NoMatchIn(tried)
  /\ apply_state \in {"detect", "choose"} => Untried # {}
  /\ apply_state = "pass" => pass <= Passes /\ (pass > 0 => changed)
  /\ NormalFormOrError

\* While a bin is run, its matches are found in order.
DetectInv ==
  apply_state = "detect" => k \in Nat /\ detected \in Seq(Finds) /\ FoundUpTo(k)

\* Then all are there, and none of those compared is further left than the best.
ChooseInv ==
  apply_state = "choose" =>
    /\ detected \in Seq(Finds) /\ FoundUpTo(Len(usable))
    /\ k \in Nat /\ k <= Len(detected) + 1
    /\ best \in DOMAIN detected /\ best < k
    /\ \A j \in DOMAIN detected :
         j < k => detected[best].r.location <= detected[j].r.location

ApplyInv == Typed /\ PassInv /\ DetectInv /\ ChooseInv

-----------------------------------------------------------------------------
(* Least and greatest elements *)

\* The first integers of a sequence have an upper bound, however many they are.
LEMMA Bounded ==
  ASSUME NEW s, NEW m \in Nat, \A n \in 1 .. m : s[n] \in Int
  PROVE  \E b \in Int : \A n \in 1 .. m : s[n] <= b
  <1> DEFINE Bound(i, b) == \A n \in 1 .. i : s[n] <= b
             HasBound(i) == \E b \in Int : Bound(i, b)
             Bad == {i \in 0 .. m : ~ HasBound(i)}
  <1>1. SUFFICES ASSUME Bad # {} PROVE FALSE
    <2>1. HasBound(m)
      <3> HIDE DEF HasBound
      <3> QED
        BY <1>1
    <2> QED
      BY <2>1
  <1>2. \E i \in Bad : \A j \in Bad : i <= j
    <2>1. Bad \subseteq Nat
      OBVIOUS
    <2> HIDE DEF Bad
    <2> QED
      BY <1>1, <2>1, LeastNatural
  <1>3. PICK i \in Bad : \A j \in Bad : i <= j
    BY <1>2
  <1>4. i \in 0 .. m /\ ~ HasBound(i)
    <2> HIDE DEF HasBound
    <2> QED
      OBVIOUS
  <1>5. i # 0
    <2>1. Bound(0, 0)
      OBVIOUS
    <2> QED
      BY <2>1, <1>4
  <1>6. HasBound(i - 1)
    <2> HIDE DEF HasBound
    <2> QED
      BY <1>3, <1>4, <1>5
  <1>7. PICK b \in Int : Bound(i - 1, b)
    BY <1>6
  <1>8. i \in 1 .. m /\ s[i] \in Int
    BY <1>4, <1>5
  <1> DEFINE c == IF s[i] <= b THEN b ELSE s[i]
  <1>9. c \in Int /\ b <= c /\ s[i] <= c
    BY <1>7, <1>8
  <1>10. Bound(i, c)
    <2> HIDE DEF c
    <2>1. ASSUME NEW n \in 1 .. i PROVE s[n] <= c
      <3>1. CASE n = i
        BY <3>1, <1>9
      <3>2. CASE n # i
        <4>1. n \in 1 .. i - 1 /\ n \in 1 .. m
          BY <3>2, <1>8
        <4>2. s[n] <= b /\ s[n] \in Int
          BY <4>1, <1>7
        <4> QED
          BY <4>2, <1>7, <1>9
      <3> QED
        BY <3>1, <3>2
    <2> QED
      BY <2>1
  <1>11. HasBound(i)
    <2> HIDE DEF Bound, c
    <2> QED
      BY <1>9, <1>10
  <1> QED
    BY <1>4, <1>11

\* So any of them have a greatest one.
LEMMA MaxOfSequence ==
  ASSUME NEW s, NEW m \in Nat, \A n \in 1 .. m : s[n] \in Int,
         NEW S, S \subseteq {s[n] : n \in 1 .. m}, S # {}
  PROVE  Max(S) \in S /\ \A y \in S : y <= Max(S)
  <1>1. PICK b \in Int : \A n \in 1 .. m : s[n] <= b
    BY Bounded
  <1> DEFINE Below == {b - x : x \in S}
  <1>2. \A x \in S : x \in Int /\ b - x \in Nat
    BY <1>1
  <1>3. PICK d \in Below : \A e \in Below : d <= e
    <2>1. Below \subseteq Nat /\ Below # {}
      BY <1>2
    <2> HIDE DEF Below
    <2> QED
      BY <2>1, LeastNatural
  <1>4. PICK x \in S : d = b - x
    <2>1. d \in Below
      BY <1>3
    <2> QED
      BY <2>1
  <1>5. ASSUME NEW y \in S PROVE x >= y
    <2>1. d <= b - y
      BY <1>3
    <2> QED
      BY <2>1, <1>2, <1>4
  <1>6. Max(S) \in S /\ \A y \in S : Max(S) >= y
    BY <1>5 DEF Max
  <1> QED
    BY <1>2, <1>6

-----------------------------------------------------------------------------
(* Bins and matches *)

\* The bin that is run is the one of the highest priority not tried.
LEMMA CurrentIsHighest ==
  ASSUME Typed, Untried # {}
  PROVE  Highest \in Untried /\ \A q \in Untried : q <= Highest
  <1> DEFINE s == [n \in DOMAIN usable |-> usable[n].priority]
             m == Len(usable)
  <1>1. PICK S : usable \in Seq(S) /\ \A md \in S : md.priority \in Int
    BY DEF Typed, Prioritized
  <1>2. m \in Nat /\ DOMAIN usable = 1 .. m /\ \A n \in 1 .. m : s[n] \in Int
    BY <1>1
  <1>3. Untried \subseteq {s[n] : n \in 1 .. m}
    BY <1>2 DEF Untried, Priorities
  <1> HIDE DEF s, m
  <1> QED
    BY <1>1, <1>2, <1>3, MaxOfSequence DEF Highest

LEMMA MatchPlace ==
  ASSUME NEW md, NEW in, Detects(md, in)
  PROVE  Response(md, in).location \in Nat
  <1>1. Locations(md, in) \subseteq Nat /\ Locations(md, in) # {}
    BY DEF Locations, Detects
  <1>2. Min(Locations(md, in)) \in Nat
    BY <1>1, MinNatural
  <1> QED
    BY <1>2 DEF Response, ResponseAt, Found

\* The matches of a bin, and their places.
LEMMA FindsPlaced ==
  ASSUME NEW f \in Finds
  PROVE  /\ f.r.location \in Nat
         /\ \E n \in Bin(Highest) : f = Find(n) /\ f.md = usable[n]
  <1>1. PICK n \in Bin(Highest) : Detects(usable[n], input) /\ f = Find(n)
    BY DEF Finds
  <1>2. f.md = usable[n] /\ f.r = Response(usable[n], input)
    BY <1>1 DEF Find
  <1> QED
    BY <1>1, <1>2, MatchPlace

\* What stays as it is while a bin is run.
LEMMA SameBin ==
  ASSUME UNCHANGED <<usable, tried, input>>
  PROVE  /\ Untried' = Untried /\ Highest' = Highest
         /\ Bin(Highest)' = Bin(Highest) /\ Finds' = Finds
         /\ \A n \in Bin(Highest) : Find(n)' = Find(n)
         /\ NoMatchIn(tried)' <=> NoMatchIn(tried)
  <1>1. Untried' = Untried
    BY DEF Untried, Priorities
  <1>2. Highest' = Highest
    BY <1>1 DEF Highest
  <1>3. Bin(Highest)' = Bin(Highest)
    BY <1>2 DEF Bin
  <1>4. \A n \in Bin(Highest) : Find(n)' = Find(n)
    BY DEF Find
  <1>5. Finds' = Finds
    BY <1>2, <1>3, <1>4 DEF Finds, Find, Bin
  <1>6. NoMatchIn(tried)' <=> NoMatchIn(tried)
    BY DEF NoMatchIn
  <1> QED
    BY <1>1, <1>2, <1>3, <1>4, <1>5, <1>6

-----------------------------------------------------------------------------
(* Up to the passes *)

LEMMA InitApplyInv == ApplyIdle => ApplyInv
  <1>1. Prioritized(<<>>) /\ IsSeq(<<>>)
    <2> DEFINE none == {}
    <2>1. <<>> \in Seq(none) /\ \A md \in none : md.priority \in Int
      OBVIOUS
    <2> HIDE DEF none
    <2>2. Prioritized(<<>>)
      BY <2>1, Zenon DEF Prioritized
    <2>3. IsSeq(<<>>)
      BY EmptyIs
    <2> QED
      BY <2>2, <2>3
  <1> QED
    BY <1>1 DEF ApplyIdle, Rest, ApplyInv, Typed, PassInv, InPass, DetectInv,
                ChooseInv, NormalFormOrError

LEMMA CalledApplyInv == ApplyInv /\ Called => ApplyInv'
  BY DEF ApplyInv, Typed, PassInv, InPass, DetectInv, ChooseInv, Called,
     BeginApplication,
         NormalFormOrError, IsSeq

LEMMA GetDetectorApplyInv == ApplyInv /\ GetDetector => ApplyInv'
  <1> SUFFICES ASSUME ApplyInv, GetDetector PROVE ApplyInv'
    OBVIOUS
  <1>1. /\ Prioritized(definitions) /\ k \in DOMAIN definitions
        /\ Prioritized(usable) /\ IsSeq(apply_errors)
    <2>1. /\ Prioritized(definitions) /\ k \in Nat \ {0} /\ k <= Len(definitions)
          /\ Prioritized(usable) /\ IsSeq(apply_errors)
      BY DEF ApplyInv, Typed, GetDetector
    <2> QED
      BY <2>1 DEF Prioritized
  <1>2. Prioritized(Append(usable, definitions[k]))
    <2>1. PICK S : definitions \in Seq(S) /\ \A md \in S : md.priority \in Int
      BY <1>1 DEF Prioritized
    <2>2. PICK U : usable \in Seq(U) /\ \A md \in U : md.priority \in Int
      BY <1>1 DEF Prioritized
    <2>3. definitions[k] \in S
      BY <1>1, <2>1
    <2>4. usable \in Seq(S \cup U)
      BY <2>2
    <2>5. Append(usable, definitions[k]) \in Seq(S \cup U)
      BY <2>3, <2>4
    <2> QED
      BY <2>1, <2>2, <2>5 DEF Prioritized
  <1>3. Prioritized(usable)' /\ IsSeq(apply_errors)'
    <2>1. CASE Linear(definitions[k].rule)
      <3>1. usable' = Append(usable, definitions[k]) /\ apply_errors' = apply_errors
        BY <2>1 DEF GetDetector
      <3> QED
        BY <3>1, <1>1, <1>2 DEF IsSeq, Prioritized
    <2>2. CASE ~ Linear(definitions[k].rule)
      <3>1. usable' = usable
            /\ \E e : apply_errors' = Append(apply_errors, e)
        BY <2>2 DEF GetDetector
      <3>2. IsSeq(apply_errors')
        BY <3>1, <1>1, AppendIs
      <3> QED
        BY <3>1, <3>2, <1>1 DEF IsSeq, Prioritized
    <2> QED
      BY <2>1, <2>2
  <1> QED
    BY <1>3
    DEF ApplyInv, Typed, PassInv, InPass, DetectInv, ChooseInv, GetDetector,
                NormalFormOrError

LEMMA HaveDetectorsApplyInv == ApplyInv /\ HaveDetectors => ApplyInv'
  BY PassesAssumption
  DEF ApplyInv, Typed, PassInv, InPass, DetectInv, ChooseInv, HaveDetectors,
      NormalFormOrError, IsSeq

LEMMA BeginPassApplyInv == ApplyInv /\ BeginPass => ApplyInv'
  BY DEF ApplyInv, Typed, PassInv, InPass, DetectInv, ChooseInv, BeginPass,
     NoMatchIn,
         NormalFormOrError, IsSeq

-----------------------------------------------------------------------------
(* A bin *)

\* The part of the invariant that is the same for all steps within a bin.
LEMMA InBin ==
  ASSUME ApplyInv, InPass, InPass', UNCHANGED <<usable, apply_errors, input, pass, tried>>,
         apply_state' \in {"detect", "choose"} => Untried # {},
         DetectInv', ChooseInv'
  PROVE  ApplyInv'
  <1>1. Typed'
    BY DEF ApplyInv, Typed, InPass, IsSeq
  <1>2. PassInv'
    BY SameBin DEF ApplyInv, PassInv, InPass, NormalFormOrError
  <1> QED
    BY <1>1, <1>2 DEF ApplyInv

LEMMA EnterBinApplyInv == ApplyInv /\ EnterBin => ApplyInv'
  <1> SUFFICES ASSUME ApplyInv, EnterBin PROVE ApplyInv'
    OBVIOUS
  <1>1. UNCHANGED <<usable, apply_errors, input, pass, tried>> /\ k' = 0 /\ detected' = <<>>
    BY DEF EnterBin
  <1>2. \A n \in Bin(Highest)' : ~ (n <= 0)
    BY <1>1 DEF ApplyInv, Typed, Bin
  <1>3. FoundUpTo(k)'
    BY <1>1, <1>2 DEF FoundUpTo
  <1>4. DetectInv'
    BY <1>1, <1>3 DEF DetectInv
  <1>5. InPass /\ InPass' /\ ChooseInv' /\ Untried # {}
    BY DEF EnterBin, InPass, ChooseInv
  <1> QED
    BY <1>1, <1>4, <1>5, InBin

\* The next detector of the bin is the first behind the last one.
LEMMA LeftLeast ==
  ASSUME ApplyInv, k \in Nat
  PROVE  /\ \A n \in Bin(Highest) : n \in Nat /\ n <= Len(usable)
         /\ Left # {} => /\ Min(Left) \in Bin(Highest) /\ Min(Left) > k
                        /\ \A n \in Left : Min(Left) <= n
         /\ Left = {} => \A n \in Bin(Highest) : n <= k
  <1>1. \E S : usable \in Seq(S)
    BY DEF ApplyInv, Typed, Prioritized
  <1>2. \A n \in Bin(Highest) : n \in Nat /\ n <= Len(usable)
    BY <1>1 DEF Bin
  <1>3. Left \subseteq Nat /\ \A n \in Left : n \in Bin(Highest) /\ n > k
    BY <1>2 DEF Left
  <1>4. Left # {} => Min(Left) \in Left /\ \A n \in Left : Min(Left) <= n
    BY <1>3, MinNatural
  <1>5. ASSUME Left = {}, NEW n \in Bin(Highest) PROVE n <= k
    BY <1>2, <1>5 DEF Left
  <1> QED
    BY <1>2, <1>3, <1>4, <1>5

LEMMA DetectApplyInv == ApplyInv /\ Detect => ApplyInv'
  <1> SUFFICES ASSUME ApplyInv, Detect PROVE ApplyInv'
    OBVIOUS
  <1> DEFINE n == Min(Left)
  <1>1. /\ UNCHANGED <<usable, apply_errors, input, pass, tried, apply_state>>
        /\ apply_state = "detect" /\ k' = n /\ Left # {}
        /\ detected' = IF Detects(usable[n], input) THEN Append(detected, Find(n))
                       ELSE detected
    BY DEF Detect
  <1>2. k \in Nat /\ detected \in Seq(Finds) /\ FoundUpTo(k) /\ Untried # {}
    BY <1>1 DEF ApplyInv, DetectInv, PassInv
  <1>3. /\ n \in Bin(Highest) /\ n \in Nat /\ n > k
        /\ \A m \in Bin(Highest) : m \in Nat /\ (m > k => n <= m)
    BY <1>1, <1>2, LeftLeast DEF Left
  <1> HIDE DEF n
  <1>4. detected' \in Seq(Finds)
    BY <1>1, <1>2, <1>3 DEF Finds
  <1>5. ASSUME NEW m \in Bin(Highest), m <= n, Detects(usable[m], input)
        PROVE  \E j \in DOMAIN detected' : detected'[j] = Find(m)
    <2>1. CASE m <= k
      <3>1. PICK j \in DOMAIN detected : detected[j] = Find(m)
        BY <2>1, <1>2, <1>5 DEF FoundUpTo
      <3>2. j \in DOMAIN detected' /\ detected'[j] = detected[j]
        BY <1>1, <1>2
      <3> QED
        BY <3>1, <3>2
    <2>2. CASE ~ (m <= k)
      <3>1. m = n
        BY <2>2, <1>2, <1>3, <1>5
      <3>2. detected' = Append(detected, Find(n))
        BY <3>1, <1>1, <1>5
      <3> QED
        BY <3>1, <3>2, <1>2
    <2> QED
      BY <2>1, <2>2
  <1>6. FoundUpTo(k)'
    BY <1>1, <1>5, SameBin DEF FoundUpTo
  <1>7. DetectInv' /\ ChooseInv'
    BY <1>1, <1>3, <1>4, <1>6, SameBin DEF DetectInv, ChooseInv
  <1>8. InPass /\ InPass'
    BY <1>1 DEF InPass
  <1> QED
    BY <1>1, <1>2, <1>7, <1>8, InBin

LEMMA NothingDetectedApplyInv == ApplyInv /\ NothingDetected => ApplyInv'
  <1> SUFFICES ASSUME ApplyInv, NothingDetected PROVE ApplyInv'
    OBVIOUS
  <1>1. /\ UNCHANGED <<usable, apply_errors, input, pass>> /\ tried' = tried \cup {Highest}
        /\ apply_state = "detect" /\ apply_state' = "bins" /\ detected = <<>> /\ Left = {}
    BY DEF NothingDetected, Detected
  <1>2. k \in Nat /\ FoundUpTo(k) /\ NoMatchIn(tried) /\ pass < Passes
    BY <1>1 DEF ApplyInv, DetectInv, PassInv, InPass
  <1>3. \A n \in Bin(Highest) : ~ Detects(usable[n], input)
    BY <1>1, <1>2, LeftLeast DEF FoundUpTo
  <1>4. NoMatchIn(tried')
    BY <1>1, <1>2, <1>3 DEF NoMatchIn, Bin
  <1>5. NoMatchIn(tried)'
    BY <1>1, <1>4 DEF NoMatchIn
  <1> QED
    BY <1>1, <1>2, <1>5
    DEF ApplyInv, Typed, IsSeq, PassInv, InPass, DetectInv, ChooseInv,
        NormalFormOrError

LEMMA BeginChoiceApplyInv == ApplyInv /\ BeginChoice => ApplyInv'
  <1> SUFFICES ASSUME ApplyInv, BeginChoice PROVE ApplyInv'
    OBVIOUS
  <1>1. /\ UNCHANGED <<usable, apply_errors, input, pass, tried, detected>>
        /\ apply_state = "detect" /\ apply_state' = "choose" /\ detected # <<>> /\ Left = {}
        /\ best' = 1 /\ k' = 2
    BY DEF BeginChoice, Detected
  <1>2. k \in Nat /\ detected \in Seq(Finds) /\ FoundUpTo(k) /\ Untried # {}
    BY <1>1 DEF ApplyInv, DetectInv, PassInv
  <1>3. FoundUpTo(Len(usable))
    BY <1>1, <1>2, LeftLeast DEF FoundUpTo
  <1>4. FoundUpTo(Len(usable))'
    BY <1>1, <1>3, SameBin DEF FoundUpTo
  <1>5. 1 \in DOMAIN detected /\ detected[1] \in Finds /\ Len(detected) \in Nat
    BY <1>1, <1>2
  <1>6. detected[1].r.location <= detected[1].r.location
    BY <1>5, FindsPlaced
  <1>7. \A j \in DOMAIN detected : j < 2 => j = 1
    BY <1>2
  <1>8. DetectInv' /\ ChooseInv'
    BY <1>1, <1>2, <1>4, <1>5, <1>6, <1>7, SameBin DEF DetectInv, ChooseInv
  <1>9. InPass /\ InPass'
    BY <1>1 DEF InPass
  <1> QED
    BY <1>1, <1>2, <1>8, <1>9, InBin

\* Whatever Before says of matches in one place, it never leads to one further
\* right.
LEMMA ChooseApplyInv == ApplyInv /\ Choose => ApplyInv'
  <1> SUFFICES ASSUME ApplyInv, Choose PROVE ApplyInv'
    OBVIOUS
  <1>1. /\ UNCHANGED <<usable, apply_errors, input, pass, tried, detected, apply_state>>
        /\ apply_state = "choose" /\ k <= Len(detected) /\ k' = k + 1
        /\ best' = IF Before(detected[k].r, detected[best].r) THEN k ELSE best
    BY DEF Choose
  <1>2. /\ detected \in Seq(Finds) /\ FoundUpTo(Len(usable)) /\ Untried # {}
        /\ k \in Nat /\ best \in DOMAIN detected /\ best < k
        /\ \A j \in DOMAIN detected :
             j < k => detected[best].r.location <= detected[j].r.location
    BY <1>1 DEF ApplyInv, ChooseInv, PassInv
  <1>3. k \in DOMAIN detected /\ \A j \in DOMAIN detected : j \in Nat
    BY <1>1, <1>2
  <1> DEFINE Place(j) == detected[j].r.location
  <1>4. \A j \in DOMAIN detected : Place(j) \in Nat
    BY <1>2, FindsPlaced
  <1>5. Place(best') <= Place(k) /\ Place(best') <= Place(best)
        /\ best' \in DOMAIN detected /\ best' < k'
    <2>1. CASE Before(detected[k].r, detected[best].r)
      <3>1. Place(k) <= Place(best)
        BY <2>1, <1>2, <1>3, <1>4 DEF Before
      <3> QED
        BY <3>1, <2>1, <1>1, <1>2, <1>3, <1>4
    <2>2. CASE ~ Before(detected[k].r, detected[best].r)
      <3>1. Place(best) <= Place(k)
        BY <2>2, <1>2, <1>3, <1>4 DEF Before
      <3> QED
        BY <3>1, <2>2, <1>1, <1>2, <1>3, <1>4
    <2> QED
      BY <2>1, <2>2
  <1>6. ASSUME NEW j \in DOMAIN detected, j < k' PROVE Place(best') <= Place(j)
    <2>1. j < k \/ j = k
      BY <1>1, <1>2, <1>3, <1>6
    <2>2. CASE j < k
      <3>1. Place(best) <= Place(j)
        BY <2>2, <1>2
      <3> QED
        BY <3>1, <1>2, <1>4, <1>5
    <2> QED
      BY <2>1, <2>2, <1>5
  <1>7. FoundUpTo(Len(usable))'
    BY <1>1, <1>2, SameBin DEF FoundUpTo
  <1>8. detected' \in Seq(Finds') /\ k' \in Nat /\ k' <= Len(detected') + 1
    BY <1>1, <1>2, SameBin
  <1>9. DetectInv' /\ ChooseInv'
    BY <1>1, <1>5, <1>6, <1>7, <1>8 DEF DetectInv, ChooseInv
  <1>10. InPass /\ InPass'
    BY <1>1 DEF InPass
  <1> QED
    BY <1>1, <1>2, <1>9, <1>10, InBin

-----------------------------------------------------------------------------
(* The end of a pass *)

LEMMA ReplaceApplyInv == ApplyInv /\ Replace => ApplyInv'
  BY PassesAssumption
  DEF ApplyInv, Typed, IsSeq, PassInv, InPass, DetectInv, ChooseInv, Replace,
      Replacing, NormalFormOrError

LEMMA UnchangedApplyInv == ApplyInv /\ Unchanged => ApplyInv'
  <1> SUFFICES ASSUME ApplyInv, Unchanged PROVE ApplyInv'
    OBVIOUS
  <1>1. apply_state = "bins" /\ Untried = {} /\ apply_state' = "done"
        /\ UNCHANGED <<input, apply_errors, usable, pass, tried>>
    BY DEF Unchanged
  <1>2. NoMatchIn(tried)
    BY <1>1 DEF ApplyInv, PassInv, InPass
  <1>3. \A n \in DOMAIN usable : ~ Detects(usable[n], input)
    BY <1>1, <1>2 DEF NoMatchIn, Untried, Priorities
  <1>4. NormalFormOrError'
    BY <1>1, <1>3 DEF NormalFormOrError
  <1> QED
    BY <1>1, <1>4
    DEF ApplyInv, Typed, IsSeq, PassInv, InPass, DetectInv, ChooseInv

LEMMA EndPassesApplyInv == ApplyInv /\ EndPasses => ApplyInv'
  <1> SUFFICES ASSUME ApplyInv, EndPasses PROVE ApplyInv'
    OBVIOUS
  <1>1. /\ apply_state = "pass" /\ pass = Passes /\ apply_state' = "done"
        /\ UNCHANGED <<usable, pass>>
        /\ apply_errors' = IF changed THEN Append(apply_errors, ReachedMaxPasses)
                            ELSE apply_errors
    BY DEF EndPasses
  <1>2. IsSeq(apply_errors) /\ pass \in Nat /\ (pass > 0 => changed)
    BY <1>1 DEF ApplyInv, Typed, PassInv
  <1>3. IsSeq(apply_errors')
    BY <1>1, <1>2, AppendIs
  <1>4. Passes > 0 => LimitReached'
    <2>1. SUFFICES ASSUME Passes > 0 PROVE LimitReached'
      OBVIOUS
    <2>2. apply_errors' = Append(apply_errors, ReachedMaxPasses)
      BY <2>1, <1>1, <1>2
    <2> QED
      BY <2>2, <1>2, AppendIs DEF LimitReached, ReachedMaxPasses, ErrorAt
  <1>5. NormalFormOrError'
    BY <1>4 DEF NormalFormOrError
  <1> QED
    BY <1>1, <1>2, <1>3, <1>5
    DEF ApplyInv, Typed, IsSeq, PassInv, InPass, DetectInv, ChooseInv

LEMMA StutterApplyInv == ApplyInv /\ UNCHANGED avars => ApplyInv'
  <1> SUFFICES ASSUME ApplyInv, UNCHANGED avars PROVE ApplyInv'
    OBVIOUS
  <1>1. UNCHANGED <<input, definitions, apply_errors, usable, apply_state, pass,
                    changed, tried,
                    k, detected, best>>
    BY DEF avars
  <1>2. \A i : FoundUpTo(i)' <=> FoundUpTo(i)
    BY <1>1, SameBin DEF FoundUpTo
  <1>3. Typed' /\ PassInv'
    BY <1>1, SameBin
    DEF ApplyInv, Typed, IsSeq, PassInv, InPass, NormalFormOrError,
        LimitReached
  <1>4. DetectInv' /\ ChooseInv'
    BY <1>1, <1>2, SameBin DEF ApplyInv, DetectInv, ChooseInv
  <1> QED
    BY <1>3, <1>4 DEF ApplyInv

THEOREM ApplyInvariance == ApplySpec => []ApplyInv
  <1>1. ApplyInv /\ [Called \/ ApplyNext]_avars => ApplyInv'
    BY CalledApplyInv, GetDetectorApplyInv, HaveDetectorsApplyInv,
       BeginPassApplyInv, EnterBinApplyInv,
       DetectApplyInv, NothingDetectedApplyInv, BeginChoiceApplyInv,
       ChooseApplyInv, ReplaceApplyInv,
       UnchangedApplyInv, EndPassesApplyInv, StutterApplyInv
    DEF ApplyNext
  <1> QED
    BY InitApplyInv, <1>1, PTL DEF ApplySpec

\* Unless the limit of passes is reported, no macro applies to what apply_macros
\* returns, whatever the macros and the limit are (macro.cpp:493-541).
THEOREM NormalForm == ApplySpec => []NormalFormOrError
  <1>1. ApplyInv => NormalFormOrError
    BY DEF ApplyInv, PassInv
  <1> QED
    BY ApplyInvariance, <1>1, PTL

\* The match that is replaced is one of the highest priority that matches at all,
\* and of those one furthest left, although the comparison given to
\* std::min_element is no order (macro.cpp:496-523).
THEOREM MostUrgentReplaced == ApplySpec => ReplacesMostUrgent
  <1>1. ApplyInv /\ [Called \/ ApplyNext]_avars => [Replace => MostUrgent]_avars
    <2> SUFFICES ASSUME ApplyInv, Replace PROVE MostUrgent
      OBVIOUS
    <2>1. /\ apply_state = "choose" /\ k > Len(detected)
          /\ detected \in Seq(Finds) /\ FoundUpTo(Len(usable))
          /\ Untried # {} /\ NoMatchIn(tried) /\ best \in DOMAIN detected
          /\ \A j \in DOMAIN detected :
               j < k => detected[best].r.location <= detected[j].r.location
          /\ k \in Nat
      BY DEF Replace, Replacing, ApplyInv, ChooseInv, PassInv, InPass
    <2>2. Chosen \in Finds
      BY <2>1 DEF Chosen
    <2>3. Chosen.md.priority = Highest
      BY <2>2, FindsPlaced DEF Bin
    <2> SUFFICES ASSUME NEW n \in DOMAIN usable, Detects(usable[n], input)
                 PROVE  /\ usable[n].priority <= Highest
                        /\ usable[n].priority = Highest =>
                             Chosen.r.location <= Response(usable[n], input).location
      BY <2>3 DEF MostUrgent
    <2>4. usable[n].priority \in Untried
      BY <2>1 DEF NoMatchIn, Untried, Priorities
    <2>5. usable[n].priority <= Highest
      BY <2>1, <2>4, CurrentIsHighest DEF ApplyInv
    <2>6. ASSUME usable[n].priority = Highest
          PROVE  Chosen.r.location <= Response(usable[n], input).location
      <3>1. n \in Bin(Highest)
        BY <2>6 DEF Bin
      <3>2. n <= Len(usable)
        BY DEF ApplyInv, Typed
      <3>3. PICK j \in DOMAIN detected : detected[j] = Find(n)
        BY <3>1, <3>2, <2>1 DEF FoundUpTo
      <3>4. j < k
        BY <2>1
      <3> QED
        BY <3>3, <3>4, <2>1 DEF Chosen, Find
    <2> QED
      BY <2>5, <2>6
  <1> QED
    BY ApplyInvariance, <1>1, PTL DEF ApplySpec, ReplacesMostUrgent

-----------------------------------------------------------------------------
(* The end of the stream *)

\* What is assumed of the parsers of the rules: no match takes the end of file.
MatchesStopBeforeEOF ==
  \A rule, in :
    /\ IsSeq(rule) /\ NoEOF(rule) /\ Linear(rule)
    /\ IsSeq(in) /\ EndsInEOF(in)
    => StopsBeforeEOF(rule, in)

\* A text that is written in a file, or has been generated before a pass.
UsedBefore(p, text) ==
  \/ text \in Written
  \/ \E t \in STRING, file \in STRING, line \in Int, n \in Nat :
       n < p /\ text = Generated(t, file, line, n)

TextsKnown(p, ts) == \A n \in DOMAIN ts : UsedBefore(p, ts[n].text)

\* Tokens in front of the end, those of the pass that is going on included.
Proper(ts) == NoEOF(ts) /\ TextsKnown(pass + 1, ts)

IsStream(ts) == IsSeq(ts) /\ EndsInEOF(ts)

StreamInv ==
  /\ apply_state # "idle" => IsStream(input)
  /\ TextsKnown(pass, input)
  /\ apply_state = "detectors" => AllSound(definitions)
  /\ \A n \in DOMAIN usable : Sound(usable[n]) /\ Linear(usable[n].rule)

LEMMA KnownLater ==
  ASSUME NEW p \in Nat, NEW ts, TextsKnown(p, ts)
  PROVE  TextsKnown(p + 1, ts)
  <1>1. \A n \in Nat : n < p => n < p + 1
    OBVIOUS
  <1>2. ASSUME NEW text, UsedBefore(p, text)
        PROVE  UsedBefore(p + 1, text)
    BY <1>1, <1>2 DEF UsedBefore
  <1> QED
    BY <1>2 DEF TextsKnown

LEMMA InitStreamInv == ApplyIdle => StreamInv
  BY DEF ApplyIdle, StreamInv, TextsKnown

LEMMA BeginStreamInv ==
  ASSUME StreamInv, NEW stream, NEW macros, IsStream(stream), AllSound(macros),
         \A n \in DOMAIN stream : stream[n].text \in Written,
         BeginApplication(stream, macros)
  PROVE  StreamInv'
  <1>1. /\ input' = stream /\ definitions' = macros /\ usable' = usable
        /\ apply_state' = "detectors"
    BY DEF BeginApplication
  <1>2. IsStream(input') /\ AllSound(definitions') /\ TextsKnown(pass', input')
    BY <1>1 DEF TextsKnown, UsedBefore
  <1> QED
    BY <1>1, <1>2 DEF StreamInv

LEMMA DetectorStreamInv ==
  ASSUME ApplyInv, StreamInv, GetDetector
  PROVE  StreamInv'
  <1>1. /\ apply_state = "detectors" /\ k <= Len(definitions) /\ k \in Nat \ {0}
        /\ input' = input /\ definitions' = definitions /\ apply_state' = apply_state
        /\ pass' = pass
    BY DEF GetDetector, ApplyInv, Typed
  <1>2. \E S : definitions \in Seq(S)
    BY <1>1 DEF ApplyInv, Typed, Prioritized
  <1>3. k \in DOMAIN definitions
    BY <1>1, <1>2
  <1>4. IsSeq(usable)
    <2>1. \E S : usable \in Seq(S)
      BY DEF ApplyInv, Typed, Prioritized
    <2> QED
      BY <2>1, SeqIs
  <1>5. Sound(definitions[k])
    BY <1>1, <1>3 DEF StreamInv, AllSound
  <1>6. \A n \in DOMAIN usable' : Sound(usable'[n]) /\ Linear(usable'[n].rule)
    <2>1. CASE Linear(definitions[k].rule)
      <3> DEFINE md == definitions[k]
      <3>1. usable' = Append(usable, md)
        BY <2>1 DEF GetDetector
      <3>2. Sound(md) /\ Linear(md.rule)
        BY <1>5, <2>1
      <3> HIDE DEF md
      <3>3. IsSeq(usable')
        BY <3>1, <1>4, AppendIs
      <3>4. /\ Len(usable') = Len(usable) + 1
            /\ \A n \in 1 .. Len(usable) : usable'[n] = usable[n]
            /\ usable'[Len(usable) + 1] = md
        BY <3>1, <1>4, AppendIs
      <3>5. Len(usable) \in Nat /\ DOMAIN usable = 1 .. Len(usable)
        BY <1>4, SeqFacts
      <3>6. DOMAIN usable' = 1 .. Len(usable) + 1
        BY <3>3, <3>4, SeqFacts
      <3>7. \A n \in 1 .. Len(usable) + 1 : n \in 1 .. Len(usable) \/ n = Len(usable) + 1
        BY <3>5
      <3> QED
        BY <3>2, <3>4, <3>5, <3>6, <3>7 DEF StreamInv
    <2>2. CASE ~ Linear(definitions[k].rule)
      BY <2>2 DEF GetDetector, StreamInv
    <2> QED
      BY <2>1, <2>2
  <1>7. IsStream(input') /\ AllSound(definitions') /\ TextsKnown(pass', input')
    BY <1>1 DEF StreamInv
  <1> QED
    BY <1>1, <1>6, <1>7 DEF StreamInv

\* What a match is, where it is found.
LEMMA MatchIs ==
  ASSUME MatchesStopBeforeEOF, NEW md, Sound(md), Linear(md.rule), NEW in, IsStream(in),
         TextsKnown(pass + 1, in), Detects(md, in)
  PROVE  /\ Response(md, in).location \in Nat /\ Response(md, in).length \in Nat
         /\ Response(md, in).location + Response(md, in).length < Len(in)
         /\ \A n \in DOMAIN md.rule : /\ IsSeq(Response(md, in).matched[n])
                                      /\ Proper(Response(md, in).matched[n])
  <1> DEFINE i == Min(Locations(md, in))
             rest == SubSeq(in, i + 1, Len(in))
             answer == Parse(md.rule, rest)
  <1>1. Locations(md, in) # {} /\ Locations(md, in) \subseteq 0 .. Len(in) - 1
    BY DEF Detects, Locations
  <1>2. i \in Locations(md, in)
    <2>1. Locations(md, in) \subseteq Nat
      BY <1>1
    <2> QED
      BY <1>1, <2>1, MinNatural
  <1>3. answer.t = "ACCEPT"
    BY <1>2 DEF Locations, Matches, Accepted, Answer
  <1>4. IsSeq(in) /\ EndsInEOF(in)
    BY DEF IsStream
  <1>5. Len(in) \in Nat /\ DOMAIN in = 1 .. Len(in)
    BY <1>4, SeqFacts
  <1>6. i \in 0 .. Len(in) - 1
    BY <1>1, <1>2
  <1>7. /\ Response(md, in).location = i /\ Response(md, in).length = Len(answer.total)
        /\ Response(md, in).matched = answer.split
    BY DEF Response, ResponseAt, Found, Answer
  <1> HIDE DEF i, answer
  <1>8. IsSeq(rest)
    BY <1>4, <1>5, <1>6, SuffixIs
  <1>9. /\ Len(rest) = Len(in) - i
        /\ \A n \in 1 .. Len(in) - i : rest[n] = in[i + n]
    <2>1. i + 1 \in 1 .. Len(in) + 1
      BY <1>5, <1>6
    <2>2. /\ Len(rest) = Len(in) - (i + 1) + 1
          /\ \A n \in 1 .. Len(in) - (i + 1) + 1 : rest[n] = in[(i + 1) + n - 1]
      BY <1>4, <2>1, SuffixIs
    <2> HIDE DEF rest
    <2> QED
      BY <2>2, <1>5, <1>6
  <1> HIDE DEF rest
  <1>10. DOMAIN rest = 1 .. Len(in) - i
    BY <1>8, <1>9, SeqFacts
  <1>11. EndsInEOF(rest)
    <2>1. rest # <<>>
      BY <1>9, <1>5, <1>6
    <2>2. ASSUME NEW n \in 1 .. Len(in) - i
          PROVE  rest[n].t = "T_EOF" <=> n = Len(in) - i
      <3>1. i + n \in 1 .. Len(in)
        BY <1>5, <1>6
      <3>2. in[i + n].t = "T_EOF" <=> i + n = Len(in)
        BY <3>1, <1>4, <1>5 DEF EndsInEOF
      <3> QED
        BY <3>2, <1>9, <1>5, <1>6
    <2> QED
      BY <2>1, <2>2, <1>9, <1>10 DEF EndsInEOF
  <1>12. IsSeq(md.rule) /\ NoEOF(md.rule)
    BY DEF Sound
  <1>13. /\ Len(answer.total) \in 0 .. Len(rest) - 1
         /\ \A n \in DOMAIN md.rule : answer.split[n] \in Seq(Range(Front(rest)))
    BY <1>3, <1>8, <1>11, <1>12
    DEF MatchesStopBeforeEOF, StopsBeforeEOF, answer
  <1>15. ASSUME NEW n \in DOMAIN md.rule
          PROVE  IsSeq(answer.split[n]) /\ Proper(answer.split[n])
    <2> DEFINE part == answer.split[n]
               S    == Range(Front(rest))
    <2>1. \A x \in S : x.t # "T_EOF" /\ UsedBefore(pass + 1, x.text)
      <3>1. rest # <<>>
        BY <1>11 DEF EndsInEOF
      <3>2. IsSeq(Front(rest))
        BY <1>8, <3>1, FrontIs
      <3>3. /\ Len(Front(rest)) = Len(rest) - 1
            /\ \A j \in 1 .. Len(rest) - 1 : Front(rest)[j] = rest[j]
        BY <1>8, <3>1, FrontIs
      <3>4. DOMAIN Front(rest) = 1 .. Len(rest) - 1
        BY <3>2, <3>3, SeqFacts
      <3>5. ASSUME NEW j \in 1 .. Len(rest) - 1
            PROVE  /\ Front(rest)[j].t # "T_EOF"
                   /\ UsedBefore(pass + 1, Front(rest)[j].text)
        <4>1. j \in 1 .. Len(rest) /\ j # Len(rest) /\ i + j \in 1 .. Len(in)
          BY <1>5, <1>6, <1>9
        <4>2. rest[j].t # "T_EOF"
          BY <4>1, <1>9, <1>10, <1>11 DEF EndsInEOF
        <4>3. rest[j] = in[i + j]
          BY <4>1, <1>9
        <4>4. UsedBefore(pass + 1, rest[j].text)
          BY <4>1, <4>3, <1>5 DEF TextsKnown
        <4> QED
          BY <4>2, <4>4, <3>3
      <3> QED
        BY <3>4, <3>5 DEF Range
    <2>2. part \in Seq(S)
      BY <1>13
    <2> HIDE DEF part, S
    <2>3. \A j \in DOMAIN part : part[j] \in S
      BY <2>2
    <2>4. IsSeq(part) /\ NoEOF(part) /\ TextsKnown(pass + 1, part)
      BY <2>1, <2>2, <2>3, SeqIs DEF NoEOF, TextsKnown
    <2> QED
      BY <2>4 DEF Proper, part
  <1>14. Len(answer.total) \in Nat /\ i + Len(answer.total) < Len(in) /\ i \in Nat
    BY <1>13, <1>9, <1>5, <1>6
  <1> QED
    BY <1>7, <1>14, <1>15

LEMMA OneToken ==
  ASSUME NEW token, token.t # "T_EOF", UsedBefore(pass + 1, token.text)
  PROVE  IsSeq(<<token>>) /\ Proper(<<token>>)
  <1>1. <<token>> \in Seq({token})
    OBVIOUS
  <1>2. IsSeq(<<token>>)
    BY <1>1, SeqIs
  <1> QED
    BY <1>2 DEF Proper, NoEOF, TextsKnown

\* A temporary stands for one token, which has its name in this pass.
LEMMA TemporaryIs ==
  ASSUME NEW md, Sound(md), NEW r, NEW n \in DOMAIN md.replacement,
         md.replacement[n].t = "TEMP_VAL"
  PROVE  \E t \in STRING, file \in STRING, line \in Int :
           Instance(md, r, md.replacement[n])[1].text = Generated(t, file, line, pass)
  <1> DEFINE token == md.replacement[n]
             name  == Generated(token.text, token.file, md.replacement[1].line, pass)
             new   == [token EXCEPT !.t = "ID", !.text = name]
  <1>1. Plain(token) /\ Plain(md.replacement[1])
    <2>1. IsSeq(md.replacement)
      BY DEF Sound
    <2>2. 1 \in DOMAIN md.replacement
      BY <2>1, SeqFacts
    <2> QED
      BY <2>2 DEF Sound
  <1>2. token.text \in STRING /\ token.file \in STRING /\ md.replacement[1].line \in Int
    BY <1>1 DEF Plain
  <1>3. Instance(md, r, token) = <<new>>
    BY DEF Instance
  <1>4. new.text = name
    <2> HIDE DEF name, token
    <2> QED
      BY <1>1 DEF Plain
  <1> HIDE DEF new
  <1>5. Instance(md, r, token)[1].text = name
    BY <1>3, <1>4
  <1> QED
    BY <1>2, <1>5

\* What a token of the replacement stands for has no end of file, and a name of
\* this pass at most.
LEMMA InstanceIs ==
  ASSUME pass \in Nat, NEW md, Sound(md), NEW r,
         \A n \in DOMAIN md.rule : IsSeq(r.matched[n]) /\ Proper(r.matched[n]),
         NEW n \in DOMAIN md.replacement
  PROVE  /\ IsSeq(Instance(md, r, md.replacement[n]))
         /\ Proper(Instance(md, r, md.replacement[n]))
  <1> DEFINE token == md.replacement[n]
             found == Instance(md, r, token)
  <1>1. token.t # "T_EOF" /\ Plain(token) /\ Plain(md.replacement[1])
    <2>1. IsSeq(md.replacement)
      BY DEF Sound
    <2>2. 1 \in DOMAIN md.replacement
      BY <2>1, SeqFacts
    <2> QED
      BY <2>2 DEF Sound, NoEOF
  <1>2. CASE token.t = "INSERTION"
    <2> DEFINE i == IntOf(token.text) + 1
               j == md.template_token_indices[i]
    <2>1. i \in DOMAIN md.template_token_indices
      BY <1>2 DEF Sound, InsertionsFound
    <2>2. md.template_token_indices \in Seq(Nat)
      BY DEF Sound
    <2>3. j \in Nat /\ j < Len(md.rule)
      <3> HIDE DEF i
      <3> QED
        BY <2>1, <2>2 DEF Sound, IndicesInRule
    <2>4. IsSeq(md.rule)
      BY DEF Sound
    <2>5. Len(md.rule) \in Nat /\ DOMAIN md.rule = 1 .. Len(md.rule)
      BY <2>4, SeqFacts
    <2>6. found = r.matched[j + 1]
      BY <1>2 DEF Instance
    <2> HIDE DEF i, j, found
    <2>7. j + 1 \in DOMAIN md.rule
      BY <2>3, <2>5
    <2>8. IsSeq(found) /\ Proper(found)
      BY <2>6, <2>7
    <2> QED
      BY <2>8 DEF found
  <1>3. CASE token.t = "TEMP_VAL"
    <2> DEFINE name == Generated(token.text, token.file, md.replacement[1].line, pass)
               new  == [token EXCEPT !.t = "ID", !.text = name]
    <2>1. found = <<new>>
      BY <1>3 DEF Instance
    <2>2. new.t = "ID" /\ new.text \in {name, token.text}
      <3> HIDE DEF name, token
      <3> QED
        BY <1>1 DEF Plain
    <2>3. UsedBefore(pass + 1, name) /\ UsedBefore(pass + 1, token.text)
      <3>1. /\ token.text \in STRING /\ token.file \in STRING
            /\ md.replacement[1].line \in Int /\ token.text \in Written
        BY <1>1, <1>3 DEF Plain
      <3>2. pass < pass + 1
        OBVIOUS
      <3> QED
        BY <3>1, <3>2 DEF UsedBefore
    <2> HIDE DEF new, found, name, token
    <2>4. IsSeq(found) /\ Proper(found)
      BY <2>1, <2>2, <2>3, OneToken
    <2> QED
      BY <2>4 DEF found, token
  <1>4. CASE token.t \notin {"INSERTION", "TEMP_VAL"}
    <2>1. found = <<token>>
      BY <1>4 DEF Instance
    <2>2. UsedBefore(pass + 1, token.text)
      BY <1>1 DEF Plain, UsedBefore
    <2> HIDE DEF found, token
    <2>3. IsSeq(found) /\ Proper(found)
      BY <2>1, <2>2, <1>1, OneToken
    <2> QED
      BY <2>3 DEF found, token
  <1> QED
    BY <1>2, <1>3, <1>4

LEMMA ReplacementIs ==
  ASSUME pass \in Nat, NEW md, Sound(md), NEW r,
         \A n \in DOMAIN md.rule : IsSeq(r.matched[n]) /\ Proper(r.matched[n])
  PROVE  IsSeq(get_replacement(md, r)) /\ Proper(get_replacement(md, r))
  <1> DEFINE m == Len(md.replacement)
             parts == [n \in DOMAIN md.replacement |->
                         Instance(md, r, md.replacement[n])]
             all == FlattenSeq(parts)
  <1>1. IsSeq(md.replacement)
    BY DEF Sound
  <1>2. m \in Nat /\ DOMAIN md.replacement = 1 .. m
    BY <1>1, SeqFacts
  <1>3. \A n \in 1 .. m : IsSeq(parts[n]) /\ Proper(parts[n])
    BY <1>2, InstanceIs
  <1>4. parts = [n \in 1 .. m |-> parts[n]]
    BY <1>2
  <1>5. get_replacement(md, r) = all
    BY DEF get_replacement
  <1> HIDE DEF m, parts
  <1>6. IsSeq(parts) /\ Len(parts) = m
    BY <1>2, <1>4, FunctionIs
  <1>7. \A n \in 1 .. Len(parts) : IsSeq(parts[n])
    BY <1>3, <1>6
  <1>8. IsSeq(all)
    BY <1>6, <1>7, FlattenIs
  <1>9. \A n \in 1 .. Len(all) :
          \E i \in 1 .. Len(parts) : \E j \in 1 .. Len(parts[i]) : all[n] = parts[i][j]
    BY <1>6, <1>7, FlattenIs
  <1> HIDE DEF all
  <1>10. ASSUME NEW n \in DOMAIN all  PROVE all[n].t # "T_EOF" /\ UsedBefore(pass + 1, all[n].text)
    <2>1. n \in 1 .. Len(all)
      BY <1>8, SeqFacts
    <2>2. PICK i \in 1 .. Len(parts) : \E j \in 1 .. Len(parts[i]) : all[n] = parts[i][j]
      BY <2>1, <1>9
    <2>3. PICK j \in 1 .. Len(parts[i]) : all[n] = parts[i][j]
      BY <2>2
    <2>4. IsSeq(parts[i])
      BY <1>7
    <2>5. j \in DOMAIN parts[i]
      BY <2>3, <2>4, SeqFacts, SMTT(30)
    <2> QED
      BY <2>3, <2>5, <1>3, <1>6 DEF Proper, NoEOF, TextsKnown
  <1> QED
    BY <1>5, <1>8, <1>10 DEF Proper, NoEOF, TextsKnown

\* What is put for tokens before the end of file leaves that where it is.
LEMMA SplicedIs ==
  ASSUME IsStream(input), NEW r, r.location \in Nat, r.length \in Nat,
         r.location + r.length < Len(input),
         NEW replacement, IsSeq(replacement), NoEOF(replacement)
  PROVE  /\ IsStream(Spliced(r, replacement))
         /\ \A n \in DOMAIN Spliced(r, replacement) :
              \/ \E q \in DOMAIN input : Spliced(r, replacement)[n] = input[q]
              \/ \E q \in DOMAIN replacement :
                   Spliced(r, replacement)[n] = replacement[q]
  <1> DEFINE n == Len(input)
             i == r.location
             l == r.length
             s == SubSeq(input, 1, i)
             t == SubSeq(input, i + l + 1, n)
             a == s \o replacement
             b == a \o t
             m == Len(replacement)
  <1>1. IsSeq(input) /\ EndsInEOF(input)
    BY DEF IsStream
  <1>2. n \in Nat /\ DOMAIN input = 1 .. n
    BY <1>1, SeqFacts
  <1>3. Spliced(r, replacement) = b
    BY DEF Spliced
  <1>4. i \in Nat /\ l \in Nat /\ i + l < n
    OBVIOUS
  <1>5. m \in Nat /\ DOMAIN replacement = 1 .. m
    BY SeqFacts
  <1> HIDE DEF n, i, l, m
  <1>6. IsSeq(s)
    BY <1>1, <1>2, <1>4, PrefixIs DEF n
  <1>7. Len(s) = i /\ \A q \in 1 .. i : s[q] = input[q]
    BY <1>1, <1>2, <1>4, PrefixIs DEF n
  <1>8. i + l + 1 \in 1 .. n + 1
    BY <1>2, <1>4
  <1>9. IsSeq(t)
    BY <1>1, <1>8, SuffixIs DEF n
  <1>10. /\ Len(t) = n - (i + l + 1) + 1
         /\ \A q \in 1 .. n - (i + l + 1) + 1 : t[q] = input[(i + l + 1) + q - 1]
    BY <1>1, <1>8, SuffixIs DEF n
  <1> HIDE DEF s, t
  <1>11. IsSeq(a)
    BY <1>6, ConcatIs
  <1>12. /\ Len(a) = Len(s) + m
         /\ \A q \in 1 .. Len(s) : a[q] = s[q]
         /\ \A q \in Len(s) + 1 .. Len(s) + m : a[q] = replacement[q - Len(s)]
    BY <1>6, ConcatIs DEF m
  <1> HIDE DEF a
  <1>13. IsSeq(b)
    BY <1>11, <1>9, ConcatIs
  <1>14. /\ Len(b) = Len(a) + Len(t)
         /\ \A q \in 1 .. Len(a) : b[q] = a[q]
         /\ \A q \in Len(a) + 1 .. Len(a) + Len(t) : b[q] = t[q - Len(a)]
    BY <1>11, <1>9, ConcatIs
  <1> HIDE DEF b
  <1>15. Len(a) = i + m /\ Len(t) = n - i - l /\ Len(b) = i + m + (n - i - l)
    BY <1>7, <1>10, <1>12, <1>14, <1>2, <1>4, <1>5
  <1>16. DOMAIN b = 1 .. Len(b)
    BY <1>13, SeqFacts
  <1>17. /\ n \in Nat /\ i \in Nat /\ l \in Nat /\ m \in Nat /\ i + l < n
         /\ Len(s) = i /\ Len(a) = i + m /\ Len(t) = n - i - l
         /\ Len(b) = i + m + (n - i - l)
    BY <1>2, <1>4, <1>5, <1>7, <1>15
  <1>18. ASSUME NEW j \in 1 .. Len(b)
         PROVE  /\ b[j].t = "T_EOF" <=> j = Len(b)
                /\ \/ \E q \in DOMAIN input : b[j] = input[q]
                   \/ \E q \in DOMAIN replacement : b[j] = replacement[q]
    <2>1. CASE j <= i
      <3>1. j \in 1 .. Len(s) /\ j \in 1 .. Len(a) /\ j \in 1 .. n /\ j # n /\ j # Len(b)
        BY <2>1, <1>17
      <3>2. b[j] = input[j]
        BY <3>1, <1>14, <1>12, <1>7, SMTT(30)
      <3>3. input[j].t # "T_EOF"
        BY <3>1, <1>1, <1>2 DEF EndsInEOF, n
      <3> QED
        BY <3>1, <3>2, <3>3, <1>2
    <2>2. CASE i < j /\ j <= i + m
      <3>1. /\ j \in Len(s) + 1 .. Len(s) + m /\ j \in 1 .. Len(a) /\ j - i \in 1 .. m
            /\ j # Len(b)
        BY <2>2, <1>17
      <3>2. b[j] = replacement[j - i]
        BY <3>1, <1>14, <1>12, <1>7
      <3>3. replacement[j - i].t # "T_EOF"
        BY <3>1, <1>5 DEF NoEOF
      <3> QED
        BY <3>1, <3>2, <3>3, <1>5
    <2>3. CASE i + m < j
      <3>1. /\ j \in Len(a) + 1 .. Len(a) + Len(t)
            /\ j - (i + m) \in 1 .. n - (i + l + 1) + 1
            /\ (i + l + 1) + (j - (i + m)) - 1 = j - m + l
            /\ j - m + l \in 1 .. n
            /\ j - m + l = n <=> j = Len(b)
        BY <2>3, <1>17
      <3>2. b[j] = t[j - (i + m)]
        BY <3>1, <1>14, <1>15
      <3>3. t[j - (i + m)] = input[j - m + l]
        BY <3>1, <1>10
      <3>4. input[j - m + l].t = "T_EOF" <=> j - m + l = n
        BY <3>1, <1>1, <1>2 DEF EndsInEOF, n
      <3> QED
        BY <3>1, <3>2, <3>3, <3>4, <1>2
    <2> QED
      BY <2>1, <2>2, <2>3, <1>17
  <1>19. b # <<>>
    <2>1. Len(b) # 0
      BY <1>17, SMTT(30)
    <2> QED
      BY <2>1
  <1>20. EndsInEOF(b)
    BY <1>16, <1>18, <1>19 DEF EndsInEOF
  <1> QED
    BY <1>3, <1>13, <1>16, <1>18, <1>20 DEF IsStream

LEMMA ReplaceStreamInv ==
  ASSUME MatchesStopBeforeEOF, ApplyInv, StreamInv, Replace
  PROVE  StreamInv'
  <1> DEFINE f == Chosen
             replacement == get_replacement(f.md, f.r)
  <1>1. /\ apply_state = "choose" /\ apply_state' = "pass" /\ usable' = usable
        /\ input' = Spliced(f.r, replacement) /\ pass' = pass + 1
    BY DEF Replace, Replacing
  <1>2. detected \in Seq(Finds) /\ best \in DOMAIN detected
    BY <1>1 DEF ApplyInv, ChooseInv
  <1>3. f \in Finds
    BY <1>2 DEF Chosen
  <1>4. PICK n \in Bin(Highest) : Detects(usable[n], input) /\ f = Find(n)
    BY <1>3 DEF Finds
  <1>5. n \in DOMAIN usable
    BY DEF Bin
  <1>6. f.md = usable[n] /\ f.r = Response(usable[n], input)
    BY <1>4 DEF Find
  <1>7. Sound(f.md) /\ Linear(f.md.rule) /\ IsStream(input)
    BY <1>1, <1>5, <1>6 DEF StreamInv
  <1> HIDE DEF f
  <1>8. pass \in Nat
    BY DEF ApplyInv, Typed
  <1>9. TextsKnown(pass + 1, input)
    BY <1>8, KnownLater DEF StreamInv
  <1>10. /\ f.r.location \in Nat /\ f.r.length \in Nat
         /\ f.r.location + f.r.length < Len(input)
         /\ \A i \in DOMAIN f.md.rule : IsSeq(f.r.matched[i]) /\ Proper(f.r.matched[i])
    <2> DEFINE md == usable[n]
    <2>1. Sound(md) /\ Linear(md.rule) /\ Detects(md, input)
      BY <1>4, <1>6, <1>7
    <2>2. /\ Response(md, input).location \in Nat /\ Response(md, input).length \in Nat
          /\ Response(md, input).location + Response(md, input).length < Len(input)
          /\ \A i \in DOMAIN md.rule : /\ IsSeq(Response(md, input).matched[i])
                                       /\ Proper(Response(md, input).matched[i])
      <3> HIDE DEF md
      <3> QED
        BY <2>1, <1>7, <1>9, MatchIs
    <2> QED
      BY <2>2, <1>6
  <1>11. IsSeq(replacement) /\ Proper(replacement)
    BY <1>7, <1>8, <1>10, ReplacementIs
  <1> HIDE DEF replacement
  <1> DEFINE result == Spliced(f.r, replacement)
  <1>12. NoEOF(replacement) /\ TextsKnown(pass + 1, replacement)
    BY <1>11 DEF Proper
  <1>13. /\ IsStream(result)
         /\ \A q \in DOMAIN result :
              \/ \E i \in DOMAIN input : result[q] = input[i]
              \/ \E i \in DOMAIN replacement : result[q] = replacement[i]
    BY <1>7, <1>10, <1>11, <1>12, SplicedIs
  <1> HIDE DEF result
  <1>14. TextsKnown(pass + 1, result)
    BY <1>9, <1>12, <1>13 DEF TextsKnown
  <1>15. IsStream(input') /\ TextsKnown(pass', input')
    BY <1>1, <1>13, <1>14 DEF result
  <1> QED
    BY <1>1, <1>15 DEF StreamInv

\* Nothing but a replacement changes the stream.
LEMMA NextStreamInv ==
  ASSUME MatchesStopBeforeEOF, ApplyInv, StreamInv, ApplyNext
  PROVE  StreamInv'
  <1>1. CASE GetDetector
    BY <1>1, DetectorStreamInv
  <1>2. CASE Replace
    BY <1>2, ReplaceStreamInv
  <1>3. CASE \/ HaveDetectors \/ BeginPass \/ EnterBin \/ Detect \/ NothingDetected
             \/ BeginChoice \/ Choose \/ Unchanged \/ EndPasses
    <2>1. /\ input' = input /\ usable' = usable /\ pass' = pass
          /\ apply_state # "idle" /\ apply_state' # "detectors"
      BY <1>3 DEF HaveDetectors, BeginPass, EnterBin, Detect, NothingDetected,
                  Detected, BeginChoice, Choose, Unchanged, EndPasses
    <2>2. IsStream(input') /\ TextsKnown(pass', input')
      BY <2>1 DEF StreamInv, HaveDetectors
    <2> QED
      BY <2>1, <2>2 DEF StreamInv
  <1> QED
    BY <1>1, <1>2, <1>3 DEF ApplyNext

LEMMA StutterStreamInv == StreamInv /\ UNCHANGED avars => StreamInv'
  <1> SUFFICES ASSUME StreamInv, UNCHANGED avars PROVE StreamInv'
    OBVIOUS
  <1>1. UNCHANGED <<input, definitions, usable, apply_state, pass>>
    BY DEF avars
  <1>2. /\ apply_state # "idle" => IsStream(input')
        /\ apply_state = "detectors" => AllSound(definitions')
        /\ TextsKnown(pass', input')
    BY <1>1 DEF StreamInv
  <1> QED
    BY <1>1, <1>2 DEF StreamInv

\* What is assumed of the names that are generated: no token has one without a
\* macro's having generated it, and those of two passes differ.
GeneratedAreNew ==
  \A t \in STRING, file \in STRING, line \in Int, n \in Nat :
    /\ Generated(t, file, line, n) \notin Written
    /\ \A s \in STRING, f \in STRING, l \in Int, m \in Nat :
         Generated(s, f, l, m) = Generated(t, file, line, n) => m = n

\* When a match is replaced, the stream has no name of this pass yet.
LEMMA ReplaceIsFresh ==
  ASSUME GeneratedAreNew, ApplyInv, StreamInv, Replace
  PROVE  FreshNames
  <1> DEFINE f == Chosen
             md == f.md
  <1>1. apply_state = "choose" /\ pass \in Nat
    BY DEF Replace, Replacing, ApplyInv, Typed
  <1>2. f \in Finds
    BY <1>1 DEF ApplyInv, ChooseInv, Chosen
  <1>3. Sound(md)
    <2>1. PICK n \in Bin(Highest) : f = Find(n)
      BY <1>2 DEF Finds
    <2>2. n \in DOMAIN usable /\ md = usable[n]
      BY <2>1 DEF Bin, Find
    <2> QED
      BY <2>2 DEF StreamInv
  <1>4. \A q \in DOMAIN input : UsedBefore(pass, input[q].text)
    BY DEF StreamInv, TextsKnown
  <1> HIDE DEF f
  <1>5. ASSUME NEW n \in DOMAIN md.replacement, md.replacement[n].t = "TEMP_VAL",
               NEW q \in DOMAIN input
        PROVE  input[q].text # Instance(md, f.r, md.replacement[n])[1].text
    <2> HIDE DEF md
    <2>1. PICK t \in STRING, file \in STRING, line \in Int :
            Instance(md, f.r, md.replacement[n])[1].text = Generated(t, file, line, pass)
      BY <1>3, <1>5, TemporaryIs
    <2>2. Generated(t, file, line, pass) \notin Written
      BY <1>1 DEF GeneratedAreNew
    <2>3. ASSUME NEW s \in STRING, NEW g \in STRING, NEW l \in Int, NEW m \in Nat,
                 m < pass
          PROVE  Generated(s, g, l, m) # Generated(t, file, line, pass)
      <3>1. m # pass
        BY <1>1, <2>3
      <3> QED
        BY <1>1, <3>1 DEF GeneratedAreNew
    <2> DEFINE text == input[q].text
               name == Generated(t, file, line, pass)
    <2>4. UsedBefore(pass, text)
      BY <1>4
    <2> HIDE DEF text
    <2>5. text # name
      <3>1. CASE text \in Written
        BY <3>1, <2>2
      <3>2. ASSUME NEW s \in STRING, NEW g \in STRING, NEW l \in Int, NEW m \in Nat,
                   m < pass, text = Generated(s, g, l, m)
            PROVE  text # name
        BY <3>2, <2>3
      <3> QED
        BY <2>4, <3>1, <3>2 DEF UsedBefore
    <2> HIDE DEF name
    <2> QED
      BY <2>1, <2>5 DEF text, name
  <1> QED
    BY <1>5 DEF FreshNames, f
=============================================================================
