------------------------------- MODULE Syntax -------------------------------
(***************************************************************************)
(* The abstract syntax trees that the parser hands to the code generator   *)
(* (Compiler/include/ast.hpp), in the shapes Compiler/src/parse.cpp builds *)
(* them for each construct of the language.                                *)
(*                                                                         *)
(* Every node carries the file and the line of one of its tokens, which is *)
(* how breakpoints find their way into the code.  A name is the tok of its *)
(* node; the tok of a number is the number.                                *)
(***************************************************************************)
EXTENDS Integers, Sequences

Null == [t |-> "NULL"]

\* The position of a node or of a token.
At(file, line) == [file |-> file, line |-> line]

\* AST::mk, at the position of node or token n.
Mk(t, n, tok, left, right) ==
  [t |-> t, tok |-> tok, file |-> n.file, line |-> n.line,
   left |-> left, right |-> right]

Name(at, name)       == Mk("NAME", at, name, Null, Null)
Number(at, value)    == Mk("NUMBER", at, value, Null, Null)
Inner(t, n, l, r)    == Mk(t, n, "", l, r)
Split(n, l, r)       == Inner("SPLIT", n, l, r)

\* Every END is a mark too, so that it gets a line of its own in the code.
End(at) == Inner("MARK", at, Name(at, "END"), Null)

-----------------------------------------------------------------------------
(* Values *)

\* RUN id WITH vargs END
Call(id, vargs) == Inner("CALL", id, id, vargs)

VargList(value, more) == Split(value, value, more)

\* What the standard macros <ID> + <INT> and <ID> - <INT> leave: only the
\* arguments stand in a file the user wrote.
Increment(id, int) ==
  Call(Name(At("__standards__", 1), "__INC__"),
       VargList(id, VargList(int, Null)))

Decrement(id, int) ==
  Call(Name(At("__standards__", 2), "__DEC__"),
       VargList(id, VargList(int, Null)))

-----------------------------------------------------------------------------
(* Statements, each with the rest of its block, more *)

Assignment(name, value, more) ==
  Split(name, Inner("ASSIGN", name, name, value), more)

Marked(name, statement) ==
  Split(name, Split(name, Inner("MARK", name, name, Null), statement), Null)

Loop(name, body, end, more) ==
  Split(name, Split(name, Inner("LOOP", name, name, body), End(end)), more)

While(name, body, end, more) ==
  Split(name, Split(name, Inner("WHILE", name, name, body), End(end)), more)

Goto(name, more) == Split(name, Inner("GOTO", name, name, Null), more)

IfGoto(id, int, go, more) ==
  Split(id, Inner("IF", id, Inner("EQ", id, id, int),
                  Inner("GOTO", go, go, Null)), more)

Stop(at, more) == Split(at, Mk("STOP", at, "STOP", Null, Null), more)

-----------------------------------------------------------------------------
(* Programs *)

ArgList(id, more) == Split(id, id, more)

Ports(args, out) == Split(args, args, out)

\* PROGRAM name ports DO body END, followed by what comes after it.  Without
\* IN there are no ports.
Program(name, ports, body, end, more) ==
  Split(name, Inner("PROGRAM", name, Split(name, name, ports),
                    Split(name, body, End(end))), more)
=============================================================================
