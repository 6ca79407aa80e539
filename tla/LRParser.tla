------------------------------ MODULE LRParser ------------------------------
(***************************************************************************)
(* One call of the table-driven parser (LRParser::parse in                 *)
(* ParserGenerator/lrparser.hpp), as steps from one configuration of its   *)
(* stacks to the next.  States count from 1, the start.                    *)
(***************************************************************************)
EXTENDS LRTables

CONSTANTS
  TerminalOf(_),     \* the translator: a token's terminal
  Creator(_),        \* the semantic value of a token
  SemanticAction(_, _, _)
                     \* that of a nonterminal's alternative, made of the values
                     \* popped, of which the last symbol's is the first

Start ==
  [ip |-> 1, states |-> <<1>>, values |-> <<>>, result |-> "running"]

\* A terminal that no column is there for is rejected like one without action.
ActionFor(T, in, c) ==
  LET row == T.action[Last(c.states)]
      a   == TerminalOf(in[c.ip])
  IN  IF a \in DOMAIN row THEN row[a].action ELSE Err

\* Mutant of Shifted: the token stays.
ShiftedInPlace(T, in, c) ==
  [c EXCEPT !.states = Append(@, ActionFor(T, in, c).state),
            !.values = Append(@, Creator(in[c.ip]))]

Shifted(T, in, c) ==
  [c EXCEPT !.states = Append(@, ActionFor(T, in, c).state),
            !.values = Append(@, Creator(in[c.ip])),
            !.ip = @ + 1]

Popped(stack, beta) == SubSeq(stack, 1, Len(stack) - beta)

\* Mutant of Reduced: the state that is left is the one before the reduction.
ReducedFromTop(T, in, c) ==
  LET a == ActionFor(T, in, c)
      jumps == T.jump[Last(c.states)]
  IN  [c EXCEPT
         !.states = Append(Popped(@, a.beta),
                           IF a.left \in DOMAIN jumps THEN jumps[a.left] ELSE -1),
         !.values = Append(Popped(@, a.beta),
                           SemanticAction(a.left, a.alternative,
                             Reverse(SubSeq(@, Len(@) - a.beta + 1, Len(@)))))]

\* Without an entry the jump is to -1.
Reduced(T, in, c) ==
  LET a == ActionFor(T, in, c)
      jumps == T.jump[Last(Popped(c.states, a.beta))]
  IN  [c EXCEPT
         !.states = Append(Popped(@, a.beta),
                           IF a.left \in DOMAIN jumps THEN jumps[a.left] ELSE -1),
         !.values = Append(Popped(@, a.beta),
                           SemanticAction(a.left, a.alternative,
                             Reverse(SubSeq(@, Len(@) - a.beta + 1, Len(@)))))]

Accepted(c) == [c EXCEPT !.result = "ACCEPT"]

\* Mutant of Rejected: the loop goes on.
RejectedNot(c) == c

Rejected(c) == [c EXCEPT !.result = "REJECT"]

\* What a configuration is followed by.
Follower(T, in, c) ==
  CASE ActionFor(T, in, c).t = "SHIFT"  -> Shifted(T, in, c)
    [] ActionFor(T, in, c).t = "REDUCE" -> Reduced(T, in, c)
    [] ActionFor(T, in, c).t = "ACCEPT" -> Accepted(c)
    [] ActionFor(T, in, c).t = "ERR"    -> Rejected(c)

\* Where the configurations of a set end.
RECURSIVE Outcomes(_, _, _)
Outcomes(T, in, configurations) ==
  UNION {IF c.result = "running" THEN Outcomes(T, in, {Follower(T, in, c)}) ELSE {c}
           : c \in configurations}

Run(T, in, c) == CHOOSE end \in Outcomes(T, in, {c}) : TRUE
=============================================================================
