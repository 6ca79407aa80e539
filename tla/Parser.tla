------------------------------- MODULE Parser -------------------------------
(***************************************************************************)
(* The recursive-descent parser (Compiler/src/parse.cpp).                  *)
(*                                                                         *)
(* The C++ stack is the sequence `work` of what is still to be done, the   *)
(* next thing first: calls of the functions for nonterminals, calls of     *)
(* match and matchmk, and the construction of a node.  The nodes that are  *)
(* local variables or results of these functions are on the stack `nodes`, *)
(* which a construction takes its parts from.                              *)
(***************************************************************************)
EXTENDS Tokens, Syntax, SequencesExt

VARIABLES
  stream,     \* the tokens
  pos,        \* the number of the token the parser is at
  work, nodes,
  errors,
  root,       \* a.root, once S has returned for the first time
  state       \* "idle", "running"; "done"; "crashed" when a null pointer has
              \* been followed

pvars == <<stream, pos, work, nodes, errors, root, state>>

Idle ==
  /\ stream = <<>> /\ pos = 1 /\ work = <<>> /\ nodes = <<>> /\ errors = <<>>
  /\ root = Null
  /\ state = "idle"

\* Work: call the function of a nonterminal, match a token, make a node of the
\* token matched, make a node of nodes, go round the loop at the end of parse().
Do(f)       == [do |-> "call", f |-> f]
match(t)    == [do |-> "match", t |-> t]
matchmk(t)  == [do |-> "matchmk", t |-> t]
Make(shape) == [do |-> "make", shape |-> shape]
Drop        == [do |-> "drop"]
Finish(first) == [do |-> "finish", first |-> first]

\* parse() has the stream of tokens it works on.
Begin(tokens) ==
  /\ state = "idle"
  /\ stream' = tokens
  /\ state' = "running"
  /\ work' = <<Do("S"), Finish(TRUE)>>
  /\ UNCHANGED <<pos, nodes, errors, root>>

-----------------------------------------------------------------------------

Current   == stream[pos]
lookahead == Current.t
Here      == At(Current.file, Current.line)

Pending(thing) ==
  state = "running" /\ work # <<>> /\ work[1].do = thing

\* The function that is called is replaced by what it does.
Becomes(body) == work' = body \o Tail(work)

Report(t) == errors' = Append(errors, ErrorAt(t, Current))

Silent == UNCHANGED errors

Push(node) == nodes' = Append(nodes, node)

Return(node) == Becomes(<<>>) /\ Push(node)

Constant == UNCHANGED <<stream, root, state>>

Calling(f) == Pending("call") /\ work[1].f = f /\ Constant /\ UNCHANGED pos

-----------------------------------------------------------------------------
(* match *)

\* Where a token that is not the one expected is looked for no longer.
Recovery ==
  CHOOSE n \in pos .. Len(stream) :
    /\ stream[n].t \in {"PROGSEP", "T_EOF"}
    /\ \A m \in pos .. n - 1 : stream[m].t \notin {"PROGSEP", "T_EOF"}

\* One token on, unless that is the end of file.
Behind(n) == IF stream[n].t # "T_EOF" THEN n + 1 ELSE n

Matching(t) ==
  IF lookahead = t THEN pos' = Behind(pos) /\ Silent
  ELSE pos' = Behind(Recovery) /\ Report("expected token")

Match ==
  /\ Pending("match")
  /\ Matching(work[1].t)
  /\ Becomes(<<>>)
  /\ Constant /\ UNCHANGED nodes

\* The node is made where the parser is, whatever token it finds there.
MatchMk ==
  /\ Pending("matchmk")
  /\ Return(CASE work[1].t = "INT"  -> Number(Here, Current.text)
              [] work[1].t = "STOP" -> Mk("STOP", Here, Current.text, Null, Null)
              [] OTHER              -> Name(Here, Current.text))
  /\ Matching(work[1].t)
  /\ Constant

-----------------------------------------------------------------------------
(* Functions of nonterminals *)

S ==
  /\ Calling("S")
  /\ Becomes(IF lookahead = "PROGRAM"
               THEN <<match("PROGRAM"), matchmk("ID"), Do("PORTS"), match("DO"),
                      Do("P"), matchmk("END"), Do("S"), Make("PROGRAM")>>
               ELSE <<Do("P")>>)
  /\ Silent /\ UNCHANGED nodes

Optional(body) == Becomes(body) /\ UNCHANGED nodes

PORTS ==
  /\ Calling("PORTS")
  /\ IF lookahead = "IN"
       THEN Optional(<<match("IN"), Do("ARGS"), Do("OPORTS"), Make("PORTS")>>)
       ELSE Return(Null)
  /\ Silent

OPORTS ==
  /\ Calling("OPORTS")
  /\ IF lookahead = "OUT" THEN Optional(<<match("OUT"), matchmk("ID")>>)
     ELSE Return(Null)
  /\ Silent

ARGS ==
  /\ Calling("ARGS")
  /\ Optional(<<matchmk("ID"), Do("MARGS"), Make("LIST")>>)
  /\ Silent

MARGS ==
  /\ Calling("MARGS")
  /\ IF lookahead = "ARGSEP" THEN Optional(<<match("ARGSEP"), Do("ARGS")>>)
     ELSE Return(Null)
  /\ Silent

\* Behind each statement come the rest of its block and what is there although
\* it should not be.
More(shape) == <<Do("MOREP"), Do("END"), Make(shape)>>

\* P for everything a statement can begin with but a name.
Statement(t) ==
  CASE t = "LOOP" ->
         <<match("LOOP"), matchmk("ID"), match("DO"), Do("P"), matchmk("END")>>
           \o More("LOOP")
    [] t = "WHILE" ->
         <<match("WHILE"), matchmk("ID"), match("NEQ_ZERO"), match("DO"), Do("P"),
           matchmk("END")>> \o More("WHILE")
    [] t = "GOTO" -> <<match("GOTO"), matchmk("ID")>> \o More("GOTO")
    [] t = "IF" ->
         <<match("IF"), matchmk("ID"), match("EQ"), matchmk("INT"), match("THEN"),
           match("GOTO"), matchmk("ID")>> \o More("IF")
    [] t = "STOP" -> <<matchmk("STOP")>> \o More("STOP")

P_Statement ==
  /\ Calling("P")
  /\ lookahead \in {"LOOP", "WHILE", "GOTO", "IF", "STOP"}
  /\ Becomes(Statement(lookahead))
  /\ Silent /\ UNCHANGED nodes

P_Name ==
  /\ Calling("P") /\ lookahead = "ID"
  /\ Becomes(<<matchmk("ID"), Do("PID")>>)
  /\ Silent /\ UNCHANGED nodes

\* What follows the name decides.
PID ==
  /\ Calling("PID")
  /\ CASE lookahead = "ASSIGN" ->
            /\ Optional(<<match("ASSIGN"), Do("VALUE")>> \o More("ASSIGN"))
            /\ Silent
       [] lookahead = "LABELDEC" ->
            /\ Optional(<<match("LABELDEC"), Do("P")>> \o More("MARK"))
            /\ Silent
       [] OTHER ->
            /\ Optional(More("NAME"))
            /\ Report("expected assignment or label")

P_Nothing ==
  /\ Calling("P")
  /\ lookahead \notin {"ID", "LOOP", "WHILE", "GOTO", "IF", "STOP"}
  /\ Report("expected program component")
  /\ Becomes(<<Do("END")>>)
  /\ Push(Null)

\* Mutant of expected_end_or_semicolon: another statement is read silently.
expected_end_or_semicolonSilent ==
  /\ Calling("END")
  /\ CASE lookahead \in {"ID", "LOOP", "WHILE", "GOTO", "IF", "STOP"} ->
            Optional(<<Do("P"), Drop, Do("END")>>) /\ Silent
       [] lookahead = "PROGRAM" ->
            Optional(<<Do("S"), Drop, Do("END")>>) /\ Report("not allowed here")
       [] lookahead = "PROGSEP" ->
            Optional(<<Do("MOREP"), Drop, Do("END")>>) /\ Silent
       [] OTHER -> Optional(<<>>) /\ Silent

\* Its loop, one turn at a time.
expected_end_or_semicolon ==
  /\ Calling("END")
  /\ CASE lookahead \in {"ID", "LOOP", "WHILE", "GOTO", "IF", "STOP"} ->
            Optional(<<Do("P"), Drop, Do("END")>>) /\ Report("missing ;")
       [] lookahead = "PROGRAM" ->
            Optional(<<Do("S"), Drop, Do("END")>>) /\ Report("not allowed here")
       [] lookahead = "PROGSEP" ->
            Optional(<<Do("MOREP"), Drop, Do("END")>>) /\ Silent
       [] OTHER -> Optional(<<>>) /\ Silent

MOREP ==
  /\ Calling("MOREP")
  /\ IF lookahead = "PROGSEP" THEN Optional(<<match("PROGSEP"), Do("EXCESS")>>)
     ELSE Return(Null)
  /\ Silent

\* MOREP behind the semicolon.
MOREP_Excess ==
  /\ Calling("EXCESS")
  /\ Optional(<<Do("P")>>)
  /\ IF lookahead \in {"END", "T_EOF"} THEN Report("excess ;") ELSE Silent

Value(t) ==
  CASE t = "ID"  -> <<matchmk("ID")>>
    [] t = "INT" -> <<matchmk("INT")>>
    [] t = "RUN" -> <<match("RUN"), matchmk("ID"), match("WITH"), Do("VARGS"),
                      match("END"), Make("CALL")>>

\* Mutant of VALUE: that there is none is not reported.
VALUESilent ==
  /\ Calling("VALUE")
  /\ IF lookahead \in {"ID", "INT", "RUN"}
       THEN Optional(Value(lookahead)) /\ Silent
       ELSE Return(Null) /\ Silent

VALUE ==
  /\ Calling("VALUE")
  /\ IF lookahead \in {"ID", "INT", "RUN"}
       THEN Optional(Value(lookahead)) /\ Silent
       ELSE Return(Null) /\ Report("expected value")

VARGS ==
  /\ Calling("VARGS")
  /\ IF lookahead \in {"ID", "INT", "RUN"}
       THEN Optional(<<Do("VALUE"), Do("MVARGS"), Make("LIST")>>)
       ELSE Return(Null)
  /\ Silent

MVARGS ==
  /\ Calling("MVARGS")
  /\ IF lookahead = "ARGSEP"
       THEN Optional(<<match("ARGSEP"), Do("VALUE"), Do("MVARGS"), Make("LIST")>>)
       ELSE Return(Null)
  /\ Silent

-----------------------------------------------------------------------------
(* Construction *)

\* How many nodes each shape is made of.
Parts(shape) ==
  CASE shape = "PROGRAM"                 -> 5
    [] shape \in {"LOOP", "WHILE", "IF"} -> 4
    [] shape \in {"ASSIGN", "MARK"}      -> 3
    [] shape \in {"PORTS", "LIST", "CALL", "GOTO", "STOP", "NAME"} -> 2

\* The node made of them; n[1] is the one made first.
Made(shape, n) ==
  CASE shape = "PROGRAM" ->
         Split(n[1], Inner("PROGRAM", n[1], Split(n[1], n[1], n[2]),
                           Split(n[1], n[3], Inner("MARK", n[4], n[4], Null))),
               n[5])
    [] shape = "PORTS"   -> Split(n[1], n[1], n[2])
    [] shape = "LIST"    -> Split(n[1], n[1], n[2])
    [] shape = "CALL"    -> Inner("CALL", n[1], n[1], n[2])
    [] shape = "ASSIGN"  -> Assignment(n[1], n[2], n[3])
    [] shape = "MARK"    -> Split(n[1], Split(n[1], Inner("MARK", n[1], n[1], Null),
                                              n[2]), n[3])
    [] shape = "NAME"    -> Split(n[1], Null, n[2])
    [] shape \in {"LOOP", "WHILE"} ->
         Split(n[1], Split(n[1], Inner(shape, n[1], n[1], n[2]),
                           Inner("MARK", n[3], n[3], Null)), n[4])
    [] shape = "GOTO"    -> Goto(n[1], n[2])
    [] shape = "IF"      -> IfGoto(n[1], n[2], n[3], n[4])
    [] shape = "STOP"    -> Split(n[1], n[1], n[2])

Making == Pending("make") /\ UNCHANGED <<stream, pos, errors, root>>

TheParts ==
  SubSeq(nodes, Len(nodes) - Parts(work[1].shape) + 1, Len(nodes))

\* Every construction takes its position from the first of its parts.
MakeNode ==
  /\ Making /\ TheParts[1] # Null
  /\ nodes' = Append(SubSeq(nodes, 1, Len(nodes) - Parts(work[1].shape)),
                     Made(work[1].shape, TheParts))
  /\ Becomes(<<>>)
  /\ UNCHANGED state

FollowNull ==
  /\ Making /\ TheParts[1] = Null
  /\ state' = "crashed"
  /\ UNCHANGED <<work, nodes>>

DropNode ==
  /\ Pending("drop")
  /\ nodes' = Front(nodes)
  /\ Becomes(<<>>)
  /\ Silent /\ Constant /\ UNCHANGED pos

-----------------------------------------------------------------------------
(* The end of parse() *)

\* S has returned; only the tree it returns first is kept.
Finishing ==
  /\ Pending("finish")
  /\ root' = IF work[1].first THEN nodes[1] ELSE root
  /\ nodes' = <<>>
  /\ UNCHANGED stream

Excess ==
  /\ Finishing /\ lookahead # "T_EOF"
  /\ Report("expected EOF")
  /\ pos' = Behind(pos)
  /\ work' = IF stream[pos'].t = "T_EOF" THEN <<Finish(FALSE)>>
             ELSE <<Do("S"), Finish(FALSE)>>
  /\ UNCHANGED state

EndOfParse ==
  /\ Finishing /\ lookahead = "T_EOF"
  /\ work' = <<>>
  /\ state' = "done"
  /\ UNCHANGED <<pos, errors>>

-----------------------------------------------------------------------------

Next ==
  \/ Match \/ MatchMk
  \/ S \/ PORTS \/ OPORTS \/ ARGS \/ MARGS
  \/ P_Statement \/ P_Name \/ PID \/ P_Nothing
  \/ expected_end_or_semicolon \/ MOREP \/ MOREP_Excess
  \/ VALUE \/ VARGS \/ MVARGS
  \/ MakeNode \/ FollowNull \/ DropNode
  \/ Excess \/ EndOfParse
=============================================================================
