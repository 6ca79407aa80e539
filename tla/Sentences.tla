------------------------------ MODULE Sentences ------------------------------
(***************************************************************************)
(* Reference for Parser: the grammar that the comment in parse.cpp:35-64   *)
(* gives, as the trees (in the shapes of Syntax) of the sentences of each  *)
(* nonterminal, by the places where a sequence of tokens can be divided.   *)
(*                                                                         *)
(* A statement that has a mark may divide in two ways, as it and the mark  *)
(* can both have the rest of the block; so there is a set of trees.        *)
(***************************************************************************)
EXTENDS Syntax, SequencesExt

Pos(x) == At(x.file, x.line)
Id(x)  == Name(Pos(x), x.text)
Int_(x) == Number(Pos(x), x.text)

\* The tokens begin with these types.
Begins(ts, types) ==
  Len(types) <= Len(ts) /\ \A n \in DOMAIN types : ts[n].t = types[n]

From(ts, n)  == SubSeq(ts, n, Len(ts))
To(ts, n)    == SubSeq(ts, 1, n)
Places(ts, t) == {n \in DOMAIN ts : ts[n].t = t}

RECURSIVE PTrees(_), VALUETrees(_), VARGSTrees(_), ARGSTrees(_)

MOREPTrees(ts) ==
  IF ts = <<>> THEN {Null}
  ELSE IF Begins(ts, <<"PROGSEP">>) THEN PTrees(Tail(ts)) ELSE {}

\* A body up to an END, and what is behind it; n is where the body begins.
Blocks(ts, n) ==
  UNION {{<<body, Pos(ts[e]), more>> :
            body \in PTrees(SubSeq(ts, n, e - 1)), more \in MOREPTrees(From(ts, e + 1))}
           : e \in {m \in Places(ts, "END") : m >= n}}

PTrees(ts) ==
  CASE Begins(ts, <<"ID", "ASSIGN">>) ->
         UNION {{Assignment(Id(ts[1]), v, more) :
                   v \in VALUETrees(SubSeq(ts, 3, n)),
                   more \in MOREPTrees(From(ts, n + 1))} : n \in 3 .. Len(ts)}
    [] Begins(ts, <<"ID", "LABELDEC">>) ->
         UNION {{Split(Id(ts[1]), Marked(Id(ts[1]), s).left, more) :
                   s \in PTrees(SubSeq(ts, 3, n)),
                   more \in MOREPTrees(From(ts, n + 1))} : n \in 3 .. Len(ts)}
    [] Begins(ts, <<"LOOP", "ID", "DO">>) ->
         {Loop(Id(ts[2]), b[1], b[2], b[3]) : b \in Blocks(ts, 4)}
    [] Begins(ts, <<"WHILE", "ID", "NEQ_ZERO", "DO">>) ->
         {While(Id(ts[2]), b[1], b[2], b[3]) : b \in Blocks(ts, 5)}
    [] Begins(ts, <<"GOTO", "ID">>) ->
         {Goto(Id(ts[2]), more) : more \in MOREPTrees(From(ts, 3))}
    [] Begins(ts, <<"IF", "ID", "EQ", "INT", "THEN", "GOTO", "ID">>) ->
         {IfGoto(Id(ts[2]), Int_(ts[4]), Id(ts[7]), more) :
            more \in MOREPTrees(From(ts, 8))}
    [] Begins(ts, <<"STOP">>) ->
         {Split(Pos(ts[1]), Mk("STOP", Pos(ts[1]), ts[1].text, Null, Null), more) :
            more \in MOREPTrees(Tail(ts))}
    [] OTHER -> {}

VALUETrees(ts) ==
  CASE Begins(ts, <<"ID">>) /\ Len(ts) = 1  -> {Id(ts[1])}
    [] Begins(ts, <<"INT">>) /\ Len(ts) = 1 -> {Int_(ts[1])}
    [] Begins(ts, <<"RUN", "ID", "WITH">>) /\ ts[Len(ts)].t = "END" ->
         {Call(Id(ts[2]), vargs) :
            vargs \in IF Len(ts) = 4 THEN {Null}
                      ELSE VARGSTrees(SubSeq(ts, 4, Len(ts) - 1))}
    [] OTHER -> {}

\* VARGS that are not empty: a value and MVARGS.
VARGSTrees(ts) ==
  {VargList(v, Null) : v \in VALUETrees(ts)}
    \cup UNION {{VargList(v, more) : v \in VALUETrees(To(ts, n - 1)),
                                     more \in VARGSTrees(From(ts, n + 1))}
                  : n \in Places(ts, "ARGSEP")}

ARGSTrees(ts) ==
  CASE Begins(ts, <<"ID">>) /\ Len(ts) = 1 -> {ArgList(Id(ts[1]), Null)}
    [] Begins(ts, <<"ID", "ARGSEP">>) ->
         {ArgList(Id(ts[1]), more) : more \in ARGSTrees(From(ts, 3))}
    [] OTHER -> {}

PORTSTrees(ts) ==
  CASE ts = <<>> -> {Null}
    [] Begins(ts, <<"IN">>) ->
         {Ports(args, Null) : args \in ARGSTrees(Tail(ts))}
           \cup IF Len(ts) > 3 /\ ts[Len(ts) - 1].t = "OUT" /\ ts[Len(ts)].t = "ID"
                THEN {Ports(args, Id(ts[Len(ts)])) :
                        args \in ARGSTrees(SubSeq(ts, 2, Len(ts) - 2))}
                ELSE {}
    [] OTHER -> {}

RECURSIVE STrees(_)
STrees(ts) ==
  IF ~ Begins(ts, <<"PROGRAM", "ID">>) THEN PTrees(ts)
  ELSE UNION {{Program(Id(ts[2]), ports, body, Pos(ts[e]), more) :
                 ports \in PORTSTrees(SubSeq(ts, 3, d - 1)),
                 body \in PTrees(SubSeq(ts, d + 1, e - 1)),
                 more \in STrees(From(ts, e + 1))}
                : <<d, e>> \in {<<m, n>> \in Places(ts, "DO") \X Places(ts, "END") :
                                  m < n}}
=============================================================================
