------------------------------ MODULE Inclusion ------------------------------
(***************************************************************************)
(* What a text with includes stands for, by recursion over the files: the  *)
(* tokens of the main file with each include replaced by the tokens of the *)
(* file it names, and the errors met, in this order.                       *)
(***************************************************************************)
EXTENDS Integers, Sequences

Text(toks, errors) == [toks |-> toks, errors |-> errors]

Nothing == Text(<<>>, <<>>)

a ++ b == Text(a.toks \o b.toks, a.errors \o b.errors)

Mistake(t, file, line, file_request) ==
  Text(<<>>, <<[t |-> t, file |-> file, line |-> line,
                file_request |-> file_request]>>)

OneToken(f, x) ==
  Text(<<[t |-> x.t, text |-> x.text, file |-> f, line |-> x.line]>>, <<>>)

\* The text of file f behind its first n lexemes, within the files in open.
RECURSIVE Expansion(_, _, _, _)
Expansion(files, f, n, open) ==
  LET content == files[f]
      After(k) == Expansion(files, f, n + k, open)
      x == content[n + 1]
      y == content[n + 2]
  IN  CASE n >= Len(content) -> Nothing
        [] n < Len(content) /\ x.t # "INCLUDE" -> OneToken(f, x) ++ After(1)
        [] n + 1 = Len(content) /\ x.t = "INCLUDE" ->
             Mistake("EXPECTED_FILENAME", f, x.line, "")
        [] OTHER ->
             (CASE y.t # "FNAME" -> Mistake("EXPECTED_FILENAME", f, y.line, "")
                [] y.t = "FNAME" /\ y.text \notin DOMAIN files ->
                     Mistake("FILE_NOT_FOUND", f, y.line, y.text)
                [] y.t = "FNAME" /\ y.text \in open ->
                     Mistake("RECURSIVE_INCLUDE", f, y.line, "")
                [] OTHER -> Expansion(files, y.text, 0, open \cup {y.text}))
             ++ After(2)

Meaning(files, main) ==
  IF main \in DOMAIN files THEN Expansion(files, main, 0, {main})
  ELSE Mistake("MAIN_FILE_NOT_FOUND", "-", -1, main)

\* What is still to come when the files of stack are being read, the last one
\* first.
RECURSIVE Pending(_, _)
Pending(files, stack) ==
  IF stack = <<>> THEN Nothing
  ELSE LET top  == stack[Len(stack)]
           open == {stack[k].f : k \in DOMAIN stack}
       IN  Expansion(files, top.f, top.read, open)
             ++ Pending(files, SubSeq(stack, 1, Len(stack) - 1))

Completed(text, files, stack) == text ++ Pending(files, stack)
=============================================================================
