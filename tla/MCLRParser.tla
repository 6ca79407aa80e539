----------------------------- MODULE MCLRParser -----------------------------
(***************************************************************************)
(* Small grammars for LRMachine: terminal 0 is the end of input, 1 to 5    *)
(* are a to e; S, A, B, C are the nonterminals 0 to 3.  Values are the     *)
(* derivation trees.                                                       *)
(***************************************************************************)
EXTENDS LRMachine, TLC

Reference == INSTANCE Derivations

MCTerminalOf(token) == token

MCCreator(token) ==
  [symbol |-> Terminal(token), alternative |-> 0, children |-> <<>>]

MCSemanticAction(left, alternative, popped) ==
  [symbol |-> left, alternative |-> alternative, children |-> Reverse(popped)]

S == NonTerminal(0)   A == NonTerminal(1)
B == NonTerminal(2)   C == NonTerminal(3)
a == Terminal(1)      b == Terminal(2)   x == Terminal(3)
d == Terminal(4)      e == Terminal(5)

Of(rules) ==
  FoldLeft(LAMBDA g, r : add(g, r[1], r[2]),
           [EmptyGrammar EXCEPT !.total_non_terminals = 4], rules)

Grammars ==
  << \* as many b as a before them
     Of(<< <<S, <<a, S, b>>>>, <<S, <<>>>> >>),
     \* lists, by recursion on the left and on the right
     Of(<< <<S, <<S, b, a>>>>, <<S, <<a>>>> >>),
     Of(<< <<S, <<a, b, S>>>>, <<S, <<a>>>> >>),
     \* things that may be missing, one behind the other
     Of(<< <<S, <<A, B, x>>>>, <<A, <<a>>>>, <<A, <<>>>>, <<B, <<b>>>>, <<B, <<>>>> >>),
     Of(<< <<S, <<A, B>>>>, <<A, <<a, A>>>>, <<A, <<>>>>, <<B, <<A>>>>, <<B, <<b>>>> >>),
     \* LR(1), but not if states with the same core are merged
     Of(<< <<S, <<a, A, a>>>>, <<S, <<b, A, b>>>>, <<S, <<a, B, b>>>>,
           <<S, <<b, B, a>>>>, <<A, <<x>>>>, <<B, <<x>>>> >>),
     \* the grammar of elements_test.cpp, and a part of lrparser_test.cpp's, once
     \* as it is and once with an end marker
     Of(<< <<S, <<A, A>>>>, <<A, <<a, A>>>>, <<A, <<b>>>> >>),
     Of(<< <<S, <<S, a, A>>>>, <<S, <<A>>>>, <<A, <<A, b, B>>>>, <<A, <<B>>>>,
           <<B, <<x>>>> >>),
     Of(<< <<C, <<A, d>>>>, <<S, <<C>>>>, <<A, <<A, a, B>>>>, <<A, <<B>>>>,
           <<B, <<x>>>> >>),
     \* ambiguous, in five ways
     Of(<< <<S, <<S, S>>>>, <<S, <<a>>>> >>),
     Of(<< <<S, <<A>>>>, <<S, <<B>>>>, <<A, <<a>>>>, <<B, <<a>>>> >>),
     Of(<< <<S, <<a>>>>, <<S, <<a>>>> >>),
     Of(<< <<S, <<S>>>>, <<S, <<a>>>> >>),
     Of(<< <<S, <<B, S, b>>>>, <<S, <<a>>>>, <<B, <<>>>> >>),
     \* not ambiguous, but two tokens have to be seen
     Of(<< <<S, <<A, a, a>>>>, <<S, <<B, a, b>>>>, <<A, <<x>>>>, <<B, <<x>>>> >>),
     \* palindromes, which no number of tokens suffices for
     Of(<< <<S, <<a, S, a>>>>, <<S, <<b>>>>, <<S, <<a>>>> >>),
     \* no word at all; the empty word only; a nonterminal without rules
     Of(<< <<S, <<a, S>>>> >>),
     Of(<< <<S, <<Epsilon>>>> >>),
     Of(<< <<S, <<a, Epsilon, b>>>>, <<S, <<b, C>>>>, <<S, <<A, C, a>>>>,
           <<A, <<>>>> >>) >>

MCProblems ==
  {[G |-> Grammars[n], S |-> S, eof |-> Terminal(0), accept_prefix |-> prefix]
     : n \in DOMAIN Grammars, prefix \in BOOLEAN}

\* Terminals that the grammar uses, and the end.
Used(G) == {s[2] : s \in {u \in UsedSymbols(G) : IsTerminal(u)}} \cup {0}

\* One terminal more than there are columns for, and up to five of the others.
MCInputs(p) ==
  LET more == Max(Used(p.G)) + 1
  IN  {Append(w, 0) : w \in UNION {[1 .. n -> (Used(p.G) \ {0}) \cup {more}] : n \in 0 .. 5}}

-----------------------------------------------------------------------------

\* Each value is the value of a derivation of its symbol, the actions got their
\* arguments in the right order and number, and together the values stand for
\* the tokens read so far, each once and in order: in macro.cpp the values are
\* the tokens that a replacement is put together from (lrparser.hpp:238-250).
ValuesDeriveTheInput ==
  /\ \A n \in DOMAIN c.values : Reference!IsDerivation(problem.G, c.values[n])
  /\ FlattenSeq([n \in DOMAIN c.values |-> Reference!Yield(c.values[n])])
       = SubSeq(in, 1, c.ip - 1)

Words == [p \in Problems |-> Reference!Words(p.G, p.S, 5)]

\* What follows a word must be the end, or with accept_prefix anything the
\* tables have a column for.
Ends(p, t) == IF p.accept_prefix THEN t <= Max(Used(p.G)) ELSE t = 0

\* The parser of a grammar without conflicts accepts the words of the grammar
\* and nothing else, or exactly what starts with one; the value is that of the
\* start symbol for this word (lrparser.hpp:36-38).
AcceptsExactly ==
  c.result # "running" =>
    LET matched == {n \in 0 .. Len(in) - 1 : /\ SubSeq(in, 1, n) \in Words[problem]
                                             /\ Ends(problem, in[n + 1])}
    IN  IF c.result = "ACCEPT"
          THEN /\ matched = {c.ip - 1}
               /\ Len(c.values) = 1 /\ c.values[1].symbol = S
          ELSE matched = {}

LR1 == [p \in Problems |-> Reference!IsLR1(p.G, p.S, p.eof, p.accept_prefix,
                                           Used(p.G), 7)]

\* A conflict is reported for exactly the grammars that do not determine what to
\* do from what has been read and one terminal: no conflict is lost because one
\* action silently replaces another, and none is made up
\* (lrparser.hpp:58-62, 116-182).
ConflictsAreDeserved ==
  generated # "no" => (generated = "tables" <=> LR1[problem])
=============================================================================
