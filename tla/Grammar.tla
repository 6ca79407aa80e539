------------------------------ MODULE Grammar ------------------------------
(***************************************************************************)
(* Context-free grammars and their FIRST sets                              *)
(* (Compiler/src/ParserGenerator/grammar.cpp and its grammar.hpp).         *)
(*                                                                         *)
(* A symbol is the pair of its type and its index, in the order of         *)
(* operator<.  A grammar is the number of its nonterminals and, for each   *)
(* of them that has any, the list of its right sides.                      *)
(***************************************************************************)
EXTENDS Integers, Sequences, FiniteSets, SequencesExt

Epsilon        == <<0, 0>>
Terminal(i)    == <<1, i>>
NonTerminal(i) == <<2, i>>

IsTerminal(s)    == s[1] = 1
IsNonTerminal(s) == s[1] = 2

EmptyGrammar == [total_non_terminals |-> 0, right_sides |-> <<>>]

\* createNonTerminal: the symbol it returns, and the grammar it leaves.
Created(G) == NonTerminal(G.total_non_terminals)
createNonTerminal(G) == [G EXCEPT !.total_non_terminals = @ + 1]

\* The right sides of a nonterminal, none if it was never a left side.
Alternatives(G, A) ==
  IF A \in DOMAIN G.right_sides THEN G.right_sides[A] ELSE <<>>

\* SemanticGrammar::add: epsilons disappear from a right side.
add(G, left, right) ==
  IF ~ IsNonTerminal(left) THEN G
  ELSE LET alternative == SelectSeq(right, LAMBDA s : s # Epsilon)
           more == Append(Alternatives(G, left), alternative)
       IN  [G EXCEPT !.right_sides =
              [A \in DOMAIN @ \cup {left} |-> IF A = left THEN more ELSE @[A]]]

UsedSymbols(G) ==
  UNION {UNION {Range(G.right_sides[A][n]) : n \in DOMAIN G.right_sides[A]}
           : A \in DOMAIN G.right_sides}

max_used_terminal(G) ==
  Max({0} \cup {s[2] : s \in {u \in UsedSymbols(G) : IsTerminal(u)}})

\* The terminals a string may start with by the sets F, and Epsilon if all of
\* its symbols may be empty.  A symbol without a set has the empty one.
first(F, string) ==
  LET Of(s)   == IF s \in DOMAIN F THEN F[s] ELSE {}
      Empty(n) == \A m \in 1 .. n : Epsilon \in Of(string[m])
  IN  UNION {Of(string[n]) \ {Epsilon} : n \in {m \in DOMAIN string : Empty(m - 1)}}
        \cup IF Empty(Len(string)) THEN {Epsilon} ELSE {}

\* One turn of the loop of calculateFirstSets, which changes the sets in place.
FirstRound(G, F) ==
  [s \in DOMAIN F |->
     IF IsTerminal(s) THEN {s}
     ELSE F[s] \cup UNION {first(F, Alternatives(G, s)[n])
                             : n \in DOMAIN Alternatives(G, s)}]

RECURSIVE FirstFixpoint(_, _)
FirstFixpoint(G, F) ==
  LET more == FirstRound(G, F)
  IN  IF more = F THEN F ELSE FirstFixpoint(G, more)

\* calculateFirstSets: repeat until nothing changes.
first_sets(G) ==
  FirstFixpoint(G, [s \in DOMAIN G.right_sides \cup UsedSymbols(G) |-> {}])
=============================================================================
