------------------------------- MODULE Macros -------------------------------
(***************************************************************************)
(* Macro definitions (Compiler/include/macro.hpp), which extraction makes  *)
(* and application uses.                                                   *)
(***************************************************************************)
EXTENDS Tokens, SequencesExt

CONSTANT Passes   \* THEO_MACRO_PASSES, the limit of replacements

ASSUME PassesAssumption == Passes \in Nat

\* The tokens that stand for themselves only if they have the same text, and
\* those that stand for something to be inserted.
Constraints == {"NV_ID", "ID", "INT"}
Templates   == {"PROG_TEMP", "ARGS_TEMP", "ID_TEMP", "INT_TEMP", "VALUE_TEMP"}

MacroDefinition(priority) ==
  [priority |-> priority, rule |-> <<>>,
   content_constraint_token_indices |-> <<>>, template_token_indices |-> <<>>,
   replacement |-> <<>>]

\* A list of macros, whatever they are made of, can be ordered by priority.
Prioritized(macros) ==
  \E S : macros \in Seq(S) /\ \A md \in S : md.priority \in Int

\* The indices, from 0, are those of tokens of the rule.
IndicesInRule(md) ==
  \A indices \in {md.content_constraint_token_indices, md.template_token_indices} :
    \A n \in DOMAIN indices : indices[n] < Len(md.rule)

\* Mutant of Resolves: the number of patterns is an insertion point too.
ResolvesOneMore(md, t) ==
  /\ 0 <= IntOf(t.text)
  /\ IntOf(t.text) <= Len(md.template_token_indices)

\* An insertion point, and a pattern of the rule that it stands for.
Resolves(md, t) ==
  /\ 0 <= IntOf(t.text)
  /\ IntOf(t.text) < Len(md.template_token_indices)

\* Every insertion finds something to insert.
InsertionsFound(md) ==
  \A n \in DOMAIN md.replacement :
    md.replacement[n].t = "INSERTION" =>
      IntOf(md.replacement[n].text) + 1 \in DOMAIN md.template_token_indices
=============================================================================
