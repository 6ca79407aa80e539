------------------------------ MODULE LRMachine ------------------------------
(***************************************************************************)
(* An LR parser in use (ParserGenerator/lrparser.hpp): its tables are      *)
(* generated, and if that reports no conflict it parses, step by step.     *)
(***************************************************************************)
EXTENDS LRParser

CONSTANTS
  Problems,     \* what parsers are constructed for: G, S, eof, accept_prefix
  Inputs(_)     \* the sequences of tokens such a parser is given

VARIABLES
  problem,
  generated,    \* "no", "conflicts", "tables"
  in,           \* the argument of parse
  c             \* its ip and stacks

lvars == <<problem, generated, in, c>>

Tables == [p \in Problems |->
             generateParseTables(p.G, p.S, p.eof, p.accept_prefix)]

T == Tables[problem]

Init ==
  /\ problem \in Problems
  /\ generated = "no"
  /\ in = <<>> /\ c = Start

Generate ==
  /\ generated = "no"
  /\ generated' = IF IsConflictFree(T) THEN "tables" ELSE "conflicts"
  /\ UNCHANGED <<problem, in, c>>

Parse ==
  /\ generated = "tables" /\ in = <<>>
  /\ in' \in Inputs(problem)
  /\ UNCHANGED <<problem, generated, c>>

Parsing == in # <<>> /\ c.result = "running"

Step(t) ==
  /\ Parsing /\ ActionFor(T, in, c).t = t
  /\ UNCHANGED <<problem, generated, in>>

Shift  == Step("SHIFT")  /\ c' = Shifted(T, in, c)
Reduce == Step("REDUCE") /\ c' = Reduced(T, in, c)
Accepts == Step("ACCEPT") /\ c' = Accepted(c)
Rejects == Step("ERR")    /\ c' = Rejected(c)

Next == Generate \/ Parse \/ Shift \/ Reduce \/ Accepts \/ Rejects

\* parse() runs to its end once it is called; nobody has to call it.
FairSpec ==
  /\ Init /\ [][Next]_lvars
  /\ WF_lvars(Shift \/ Reduce \/ Accepts \/ Rejects)

-----------------------------------------------------------------------------

\* The stacks are never popped below their bottom, every jump that is looked up
\* is there, no token behind the last is read, and the states are those the
\* automaton is led through by the symbols of the values
\* (lrparser.hpp:226-251, where nothing is checked).
StacksAgree ==
  /\ in # <<>> => c.ip \in DOMAIN in
  /\ Len(c.states) = Len(c.values) + 1
  /\ c.states[1] = 1
  /\ \A n \in DOMAIN c.values :
       LET X == c.values[n].symbol
       IN  /\ c.states[n] \in DOMAIN T.jump
           /\ X \in DOMAIN T.jump[c.states[n]]
           /\ c.states[n + 1] = T.jump[c.states[n]][X]

\* parse() returns, for every grammar without conflicts and every input: no
\* sequence of empty reductions goes on for ever (lrparser.hpp:225-260).
Terminates == in # <<>> ~> c.result # "running"
=============================================================================
