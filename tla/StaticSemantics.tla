--------------------------- MODULE StaticSemantics ---------------------------
(***************************************************************************)
(* Which trees the code generator has to accept, said of the tree alone:   *)
(* the errors of Compiler/include/gen.hpp, without a traversal state.      *)
(***************************************************************************)
EXTENDS Syntax, FiniteSets, TLC

CONSTANT MaxWord

\* The number of values or names in a list.
RECURSIVE Length(_)
Length(n) == CASE n.t = "NULL"  -> 0
               [] n.t = "SPLIT" -> Length(n.left) + Length(n.right)
               [] OTHER         -> 1

\* Adding a constant to a variable, or subtracting it.
Builtin(call) ==
  /\ call.left.tok \in {"__INC__", "__DEC__"}
  /\ Length(call.right) = 2
  /\ call.right.left.t = "NAME"
  /\ call.right.right.left.t = "NUMBER"

\* A value, or a list of values, where programs has the number of parameters
\* of each program that can be run.
RECURSIVE LegalValue(_, _)
LegalValue(n, programs) ==
  CASE n.t \in {"NULL", "NAME"} -> TRUE
    [] n.t = "NUMBER" -> n.tok < MaxWord
    [] n.t = "SPLIT"  -> /\ LegalValue(n.left, programs)
                         /\ LegalValue(n.right, programs)
    [] n.t = "CALL"   -> /\ LegalValue(n.right, programs)
                         /\ \/ Builtin(n)
                            \/ /\ n.left.tok \in DOMAIN programs
                               /\ programs[n.left.tok] = Length(n.right)
    [] OTHER -> FALSE

RECURSIVE LegalStatements(_, _)
LegalStatements(n, programs) ==
  CASE n.t \in {"NULL", "MARK", "GOTO", "STOP"} -> TRUE
    [] n.t = "SPLIT"  -> /\ LegalStatements(n.left, programs)
                         /\ LegalStatements(n.right, programs)
    [] n.t = "ASSIGN" -> LegalValue(n.right, programs)
    [] n.t = "IF"     -> LegalValue(n.left.right, programs)
    [] n.t \in {"LOOP", "WHILE"} -> LegalStatements(n.right, programs)
    [] OTHER -> FALSE

\* The names found by Of(node) at the statements of a block.
RECURSIVE Collect(_, _)
Collect(Of(_), n) ==
  CASE n.t = "SPLIT" -> Collect(Of, n.left) \cup Collect(Of, n.right)
    [] n.t \in {"LOOP", "WHILE"} -> Of(n) \cup Collect(Of, n.right)
    [] OTHER -> Of(n)

MarksSet(n)  == IF n.t = "MARK" THEN {n.left.tok} ELSE {}
MarksUsed(n) == CASE n.t = "GOTO" -> {n.left.tok}
                  [] n.t = "IF"   -> {n.right.left.tok}
                  [] OTHER        -> {}

LegalBlock(n, programs) ==
  /\ LegalStatements(n, programs)
  /\ Collect(MarksUsed, n) \subseteq Collect(MarksSet, n)

IsDefinition(n) == n.t = "SPLIT" /\ n.left.t = "PROGRAM"

\* A program may run the programs defined before it; of two with the same name
\* the later one counts.
RECURSIVE LegalFrom(_, _)
LegalFrom(n, programs) ==
  IF ~ IsDefinition(n) THEN LegalBlock(n, programs)
  ELSE LET p == n.left
           name == p.left.left.tok
           parameters == Length(p.left.right.left)
       IN  /\ LegalBlock(p.right, programs)
           /\ LegalFrom(n.right, (name :> parameters) @@ programs)

Legal(ast) == ast.parsed_correctly /\ LegalFrom(ast.root, <<>>)

-----------------------------------------------------------------------------
(* The lines a debugger can be expected to stop at *)

LineOf(n) == {[file |-> n.file, line |-> n.line]}

StatementLine(n) == IF n.t = "NULL" THEN {} ELSE LineOf(n)

\* Lines with a statement or an END on them, and lines on which a definition
\* starts.
RECURSIVE StatementLines(_), DefinitionLines(_)
StatementLines(n) ==
  IF IsDefinition(n)
    THEN Collect(StatementLine, n.left.right) \cup StatementLines(n.right)
    ELSE Collect(StatementLine, n)

DefinitionLines(n) ==
  IF IsDefinition(n) THEN LineOf(n.left) \cup DefinitionLines(n.right) ELSE {}
=============================================================================
