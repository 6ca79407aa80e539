------------------------------- MODULE MCScan -------------------------------
(***************************************************************************)
(* Files for model-checking Scan: contents of one to three pieces, with    *)
(* every lexeme on a line of its own.                                      *)
(***************************************************************************)
EXTENDS Scan, TLC

Reference == INSTANCE Inclusion

Tok         == <<<<"LOOP", "LOOP">>>>
Include(f)  == <<<<"INCLUDE", "include">>, <<"FNAME", f>>>>
BareInclude == <<<<"INCLUDE", "include">>>>
FileName    == <<<<"FNAME", "c">>>>

Pieces == {Tok, BareInclude, FileName}
            \cup {Include(f) : f \in {"main", "a", "b", "nowhere"}}

OnLines(xs) == [k \in DOMAIN xs |-> Lexeme(xs[k][1], xs[k][2], k)]

One == {OnLines(p) : p \in Pieces} \cup {<<>>}
Two == One \cup {OnLines(p \o q) : p, q \in Pieces}

MCNames == {"main", "elsewhere"}

\* Three files, with one of them short; or a main file without others.
MCFiles ==
  {"main" :> m @@ "a" :> a @@ "b" :> b : m \in Two, a \in Two, b \in One}
    \cup {"main" :> m : m \in Two}

-----------------------------------------------------------------------------

\* At every moment the tokens and errors there are, followed by those of what
\* is left of the open files, are those the text stands for: no token of a file
\* is lost, doubled or moved by an include in it or around it, none gets the
\* position of another one, and each include that fails leaves one error behind
\* and nothing else (scan.cpp:51-97).
StreamIsExpansion ==
  LET done  == Reference!Text(res, errors)
      total == Reference!Meaning(files, main)
  IN  /\ outcome = "running" =>
           Reference!Completed(done, files, lex_stack) = total
      /\ outcome = "returned" =>
           LET back == total.toks[Len(total.toks)]
           IN  /\ res = Append(total.toks,
                               [back EXCEPT !.t = "T_EOF", !.text = "EOF"])
               /\ errors = total.errors
      /\ outcome = "undefined" => total = Reference!Text(<<>>, errors)
=============================================================================
