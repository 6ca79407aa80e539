---------------------------- MODULE MacroDetector ----------------------------
(***************************************************************************)
(* The parser of a macro's rule (Compiler/src/macro.cpp, MacroDetector):   *)
(* the grammar of what patterns stand for, with the rule as the right side *)
(* of its start symbol, and the LR parser generated for it.                *)
(***************************************************************************)
EXTENDS Tokens, SequencesExt

\* The number of a token type.
TypeNumber(t) == (CHOOSE n \in DOMAIN Types : Types[n] = t) - 1

\* A leaf value has one token; the value of a symbol has the tokens it covers,
\* and that of the start symbol those of each symbol of the rule.
Accumulation(total, split) == [total |-> total, split |-> split]

TokenTerminal(token) == TypeNumber(token.t)

TokenValue(token) == Accumulation(<<token>>, <<<<token>>>>)

Totals(values) == [n \in DOMAIN values |-> values[n].total]

\* default_accumulator puts each value popped in front of those before it.
default_accumulator(popped) ==
  Accumulation(FlattenSeq(Reverse(Totals(popped))), <<>>)

\* The action of MACRO leaves its total_sequence in the order of popping, as only
\* the length of it is used.
macro_accumulator(popped) ==
  Accumulation(FlattenSeq(Totals(popped)), Reverse(Totals(popped)))

G == INSTANCE Grammar

ID        == G!NonTerminal(0)
INT       == G!NonTerminal(1)
VALUE     == G!NonTerminal(2)
ARGS      == G!NonTerminal(3)
P         == G!NonTerminal(4)
STATEMENT == G!NonTerminal(5)
ATOMIC_P  == G!NonTerminal(6)
MACRO     == G!NonTerminal(7)

Reduction(left, alternative, popped) ==
  IF left = MACRO THEN macro_accumulator(popped) ELSE default_accumulator(popped)

LR == INSTANCE LRParser WITH TerminalOf <- TokenTerminal, Creator <- TokenValue,
                             SemanticAction <- Reduction

T(type) == G!Terminal(TypeNumber(type))

\* The grammar every detector starts with, in the order of the rules.
Rules ==
  << <<ID, <<T("ID")>>>>, <<INT, <<T("INT")>>>>,
     <<VALUE, <<ID>>>>, <<VALUE, <<INT>>>>,
     <<VALUE, <<T("RUN"), ID, T("WITH"), ARGS, T("END")>>>>,
     <<ARGS, <<VALUE>>>>, <<ARGS, <<ARGS, T("ARGSEP"), VALUE>>>>,
     <<P, <<P, T("PROGSEP"), STATEMENT>>>>, <<P, <<STATEMENT>>>>,
     <<STATEMENT, <<ID, T("LABELDEC"), ATOMIC_P>>>>, <<STATEMENT, <<ATOMIC_P>>>>,
     <<ATOMIC_P, <<ID, T("ASSIGN"), VALUE>>>>,
     <<ATOMIC_P, <<T("LOOP"), ID, T("DO"), P, T("END")>>>>,
     <<ATOMIC_P, <<T("WHILE"), ID, T("NEQ_ZERO"), T("DO"), P, T("END")>>>>,
     <<ATOMIC_P, <<T("GOTO"), ID>>>>,
     <<ATOMIC_P, <<T("IF"), ID, T("EQ"), INT, T("THEN"), T("GOTO"), ID>>>>,
     <<ATOMIC_P, <<T("STOP")>>>> >>

Standard ==
  FoldLeft(LAMBDA g, rule : G!add(g, rule[1], rule[2]),
           [G!EmptyGrammar EXCEPT !.total_non_terminals = 8], Rules)

PatternSymbol(token) ==
  CASE token.t = "ID_TEMP"    -> ID
    [] token.t = "INT_TEMP"   -> INT
    [] token.t = "ARGS_TEMP"  -> ARGS
    [] token.t = "PROG_TEMP"  -> P
    [] token.t = "VALUE_TEMP" -> VALUE
    [] OTHER                  -> T(token.t)

DetectorGrammar(rule) ==
  G!add(Standard, MACRO, [n \in DOMAIN rule |-> PatternSymbol(rule[n])])

\* The parser's tables; it accepts prefixes.
Compiled(rule) ==
  LR!generateParseTables(DetectorGrammar(rule), MACRO, T("T_EOF"), TRUE)

NonLR(tables) == ~ LR!IsConflictFree(tables)

\* The parser run on a stream.
Outcome(result, value) ==
  IF result = "REJECT" THEN [t |-> "REJECT"]
  ELSE [t |-> "ACCEPT", total |-> value.total, split |-> value.split]

ResultOf(c) == Outcome(c.result, Last(c.values))

Result(tables, in) == ResultOf(LR!Run(tables, in, LR!Start))
=============================================================================
