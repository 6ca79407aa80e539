------------------------------ MODULE LRTables ------------------------------
(***************************************************************************)
(* The LR(1) automaton of a grammar and its parse tables (lrdea.cpp, and   *)
(* generateParseTables of lrparser.hpp in ParserGenerator).                *)
(*                                                                         *)
(* An element is <<left, alternative, dot, follow>>, compared in that      *)
(* order; alternatives count from 1, dots from 0.                          *)
(***************************************************************************)
EXTENDS Grammar

fetch_right(G, e) == Alternatives(G, e[1])[e[2]]

IsComplete(G, e) == e[3] = Len(fetch_right(G, e))

\* The symbol behind the dot, Epsilon if there is none.
get_before(G, e) ==
  IF IsComplete(G, e) THEN Epsilon ELSE fetch_right(G, e)[e[3] + 1]

\* What follows that symbol.
get_follow_string(G, e) ==
  LET a == fetch_right(G, e) IN Append(SubSeq(a, e[3] + 2, Len(a)), e[4])

\* The elements that start the symbol behind the dot.
Started(G, F, e) ==
  LET expecting == get_before(G, e)
  IN  IF ~ IsNonTerminal(expecting) THEN {}
      ELSE {<<expecting, n, 0, la>> : n \in DOMAIN Alternatives(G, expecting),
                                      la \in first(F, get_follow_string(G, e))}

RECURSIVE HullFrom(_, _, _, _)
HullFrom(G, F, I, fresh) ==
  LET more == UNION {Started(G, F, e) : e \in fresh} \ I
  IN  IF more = {} THEN I ELSE HullFrom(G, F, I \cup more, more)

\* The code adds one element and starts over, until there is none to add.
hull(G, F, I) == HullFrom(G, F, I, I)

jump(G, F, I, X) ==
  hull(G, F, {[e EXCEPT ![3] = @ + 1] : e \in {i \in I : get_before(G, i) = X}})

get_befores(G, I) == {get_before(G, e) : e \in I} \ {Epsilon}

\* The registry: the number of a state.
StateOf(states, I) == CHOOSE n \in DOMAIN states : states[n] = I

WithState(states, I) ==
  IF \E n \in DOMAIN states : states[n] = I THEN states ELSE Append(states, I)

RECURSIVE Explore(_, _, _, _)
Explore(G, F, states, jumps) ==
  IF Len(jumps) = Len(states) THEN [states |-> states, jumps |-> jumps]
  ELSE LET I  == states[Len(jumps) + 1]
           target == [X \in get_befores(G, I) |-> jump(G, F, I, X)]
           more == FoldSet(LAMBDA X, found : WithState(found, target[X]),
                           states, DOMAIN target)
       IN  Explore(G, F, more,
             Append(jumps, [X \in DOMAIN target |-> StateOf(more, target[X])]))

\* elements() adds S' -> S, the nonterminal before the last, and E -> eof, which
\* makes sure that there is a FIRST set for eof.
StartSymbol(G) == NonTerminal(G.total_non_terminals - 2)

Augmented(G, S, eof) ==
  LET G1 == add(createNonTerminal(G), Created(G), <<S>>)
  IN  add(createNonTerminal(G1), Created(G1), <<eof>>)

\* elements(), for a grammar that is augmented: the states with their jumps,
\* the first of them the start.
elements(G, eof) ==
  LET F == first_sets(G)
  IN  Explore(G, F, <<hull(G, F, {<<StartSymbol(G), 1, 0, eof>>})>>, <<>>)

-----------------------------------------------------------------------------
(* Tables *)

Err             == [t |-> "ERR"]
Accept          == [t |-> "ACCEPT"]
ShiftTo(n)      == [t |-> "SHIFT", state |-> n]
ReduceBy(G, e)  == [t |-> "REDUCE", left |-> e[1], alternative |-> e[2],
                    beta |-> Len(fetch_right(G, e))]

Entry(action, conflicts) == [action |-> action, conflicts |-> conflicts]

\* Mutant of place: the later action wins, and no conflict is reported.
placeOver(entry, action) == Entry(action, entry.conflicts)

\* place_reduce and place_accept, which keep what is there but for ACCEPT.
place(entry, action) ==
  IF entry.action.t \in {"REDUCE", "SHIFT"}
    THEN Entry(entry.action, entry.conflicts + 1)
    ELSE Entry(action, entry.conflicts)

Less(e1, e2) ==
  \E n \in 1 .. 4 :
    /\ \A m \in 1 .. n - 1 : e1[m] = e2[m]
    /\ IF n \in {1, 4}
         THEN \/ e1[n][1] < e2[n][1]
              \/ e1[n][1] = e2[n][1] /\ e1[n][2] < e2[n][2]
         ELSE e1[n] < e2[n]

\* The elements of a set in the order in which std::set has them.
RECURSIVE Ordered(_)
Ordered(I) ==
  IF I = {} THEN <<>>
  ELSE LET e == CHOOSE x \in I : \A y \in I \ {x} : Less(x, y)
       IN  <<e>> \o Ordered(I \ {e})

\* Mutant of ActsOn: a prefix is accepted before the end of input only.
ActsOnFollow(e, terminal, eof, accept_prefix) == e[4][2] = terminal

\* The terminals for which a complete element has its action placed.
ActsOn(e, terminal, eof, accept_prefix) ==
  e[4][2] = terminal \/ (accept_prefix /\ e[4] = eof)

ActionOf(G, e) == IF e[1] = StartSymbol(G) THEN Accept ELSE ReduceBy(G, e)

\* The shift of a state, and then what its complete elements place.
EntryOf(G, complete, jumps, terminal, eof, accept_prefix) ==
  FoldLeft(LAMBDA entry, e : IF ActsOn(e, terminal, eof, accept_prefix)
                               THEN place(entry, ActionOf(G, e)) ELSE entry,
           Entry(IF Terminal(terminal) \in DOMAIN jumps
                   THEN ShiftTo(jumps[Terminal(terminal)]) ELSE Err, 0),
           complete)

\* generateParseTables: action[state][terminal] (with the conflicts met there)
\* and jump[state].
generateParseTables(G0, S, eof, accept_prefix) ==
  LET G == Augmented(G0, S, eof)
      C == elements(G, eof)
      Row(n) ==
        LET complete == Ordered({e \in C.states[n] : IsComplete(G, e)})
        IN  [terminal \in 0 .. max_used_terminal(G) |->
               EntryOf(G, complete, C.jumps[n], terminal, eof, accept_prefix)]
  IN  [action |-> [n \in DOMAIN C.states |-> Row(n)], jump |-> C.jumps]

\* What it returns is empty: no conflict has been reported.
IsConflictFree(T) ==
  \A n \in DOMAIN T.action :
    \A terminal \in DOMAIN T.action[n] : T.action[n][terminal].conflicts = 0
=============================================================================
