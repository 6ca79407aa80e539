-------------------------------- MODULE Scan --------------------------------
(***************************************************************************)
(* The scanner driver of libTheoC (Compiler/src/scan.cpp): one stream of   *)
(* tokens from a main file and the files it includes.                      *)
(*                                                                         *)
(* A file's content is the sequence of the lexemes the flex scanner        *)
(* matches in it; a name in quotation marks stands for the file it names.  *)
(* The scanner's rules match any character, so none of them gives the      *)
(* token UNKNOWN and the branch for it is left out.                        *)
(***************************************************************************)
EXTENDS Integers, Sequences, FiniteSets

CONSTANTS
  Files,        \* the maps from file names to contents scan() may be given
  Names         \* the file names it may be given as main

Lexeme(t, text, line) == [t |-> t, text |-> text, line |-> line]

ASSUME FilesAssumption ==
  \A fs \in Files :
    IsFiniteSet(DOMAIN fs) /\ \A f \in DOMAIN fs : Len(fs[f]) \in Nat

VARIABLES
  files, main,  \* the arguments
  lex_stack,    \* files being read: name, and the lexemes read of each
  res, errors,
  outcome       \* "running"; "returned"; "undefined" where res.back() is
                \* taken of an empty vector

vars == <<files, main, lex_stack, res, errors, outcome>>

Scanner(f) == [f |-> f, read |-> 0]

Top == lex_stack[Len(lex_stack)]

exists_scanner(f) == \E k \in DOMAIN lex_stack : lex_stack[k].f = f

ParseError(t, file, line, file_request) ==
  [t |-> t, file |-> file, line |-> line, file_request |-> file_request]

Init ==
  /\ files \in Files
  /\ main \in Names
  /\ lex_stack = IF main \in DOMAIN files THEN <<Scanner(main)>> ELSE <<>>
  /\ errors = IF main \in DOMAIN files THEN <<>>
              ELSE <<ParseError("MAIN_FILE_NOT_FOUND", "-", -1, main)>>
  /\ res = <<>>
  /\ outcome = "running"

-----------------------------------------------------------------------------

\* yylex of the file on top returns 0 after n further lexemes.
EndsAfter(n) == Top.read + n >= Len(files[Top.f])

\* The n-th lexeme yylex returns next.
Coming(n) == files[Top.f][Top.read + n]

Scanning == outcome = "running" /\ lex_stack # <<>>

\* The file on top has been read up to n lexemes further.
Advanced(n) == [lex_stack EXCEPT ![Len(lex_stack)].read = @ + n]

Unchanged == UNCHANGED <<files, main, outcome>>

\* Mutant of EndOfFile: the scanner is cleaned up and stays on the stack.
EndOfFileStays ==
  /\ Scanning /\ EndsAfter(0)
  /\ UNCHANGED vars

EndOfFile ==
  /\ Scanning /\ EndsAfter(0)
  /\ lex_stack' = SubSeq(lex_stack, 1, Len(lex_stack) - 1)
  /\ UNCHANGED <<res, errors>>
  /\ Unchanged

TokenIn(f, x) == [t |-> x.t, text |-> x.text, file |-> f, line |-> x.line]

PushToken ==
  /\ Scanning /\ ~ EndsAfter(0)
  /\ Coming(1).t # "INCLUDE"
  /\ res' = Append(res, TokenIn(Top.f, Coming(1)))
  /\ lex_stack' = Advanced(1)
  /\ UNCHANGED errors
  /\ Unchanged

Including == Scanning /\ ~ EndsAfter(0) /\ Coming(1).t = "INCLUDE"

Failed(t, line, read, file_request) ==
  /\ errors' = Append(errors, ParseError(t, Top.f, line, file_request))
  /\ lex_stack' = Advanced(read)
  /\ UNCHANGED res
  /\ Unchanged

\* Mutant of IncludeAtEnd: a name is skipped although there is none.
IncludeAtEndSkips ==
  /\ Including /\ EndsAfter(1)
  /\ Failed("EXPECTED_FILENAME", Coming(1).line, 2, "")

\* At the end of the file t still is the INCLUDE.
IncludeAtEnd ==
  /\ Including /\ EndsAfter(1)
  /\ Failed("EXPECTED_FILENAME", Coming(1).line, 1, "")

\* The token in the file name's place is dropped.
IncludeNoName ==
  /\ Including /\ ~ EndsAfter(1)
  /\ Coming(2).t # "FNAME"
  /\ Failed("EXPECTED_FILENAME", Coming(2).line, 2, "")

Naming == Including /\ ~ EndsAfter(1) /\ Coming(2).t = "FNAME"

nfn == Coming(2).text

IncludeMissing ==
  /\ Naming /\ nfn \notin DOMAIN files
  /\ Failed("FILE_NOT_FOUND", Coming(2).line, 2, nfn)

IncludeRecursive ==
  /\ Naming /\ nfn \in DOMAIN files
  /\ exists_scanner(nfn)
  /\ Failed("RECURSIVE_INCLUDE", Coming(2).line, 2, "")

\* Mutant of IncludeFile: a file is not read a second time.
IncludeOnce ==
  /\ Naming /\ nfn \in DOMAIN files
  /\ ~ exists_scanner(nfn)
  /\ lex_stack' = IF \E k \in DOMAIN res : res[k].file = nfn
                    THEN Advanced(2)
                    ELSE Append(Advanced(2), Scanner(nfn))
  /\ UNCHANGED <<res, errors>>
  /\ Unchanged

\* Mutant of IncludeFile: only the including file is refused.
IncludeChecksTop ==
  /\ Naming /\ nfn \in DOMAIN files
  /\ nfn # Top.f
  /\ lex_stack' = Append(Advanced(2), Scanner(nfn))
  /\ UNCHANGED <<res, errors>>
  /\ Unchanged

IncludeFile ==
  /\ Naming /\ nfn \in DOMAIN files
  /\ ~ exists_scanner(nfn)
  /\ lex_stack' = Append(Advanced(2), Scanner(nfn))
  /\ UNCHANGED <<res, errors>>
  /\ Unchanged

Ending == outcome = "running" /\ lex_stack = <<>>

Finish ==
  /\ Ending /\ res # <<>>
  /\ LET back == res[Len(res)]
     IN  res' = Append(res, TokenIn(back.file, Lexeme("T_EOF", "EOF", back.line)))
  /\ outcome' = "returned"
  /\ UNCHANGED <<files, main, lex_stack, errors>>

FinishEmpty ==
  /\ Ending /\ res = <<>>
  /\ outcome' = "undefined"
  /\ UNCHANGED <<files, main, lex_stack, res, errors>>

Next ==
  \/ EndOfFile \/ PushToken
  \/ IncludeAtEnd \/ IncludeNoName
  \/ IncludeMissing \/ IncludeRecursive \/ IncludeFile
  \/ Finish \/ FinishEmpty

Spec == Init /\ [][Next]_vars

\* scan() is one loop; nothing else decides when it goes on.
FairSpec == Spec /\ WF_vars(Next)

-----------------------------------------------------------------------------

\* The stack has files that exist, each of them read up to a place in it.
TypeOK ==
  /\ lex_stack \in Seq([f : DOMAIN files, read : Nat])
  /\ \A k \in DOMAIN lex_stack :
       lex_stack[k].read <= Len(files[lex_stack[k].f])
  /\ outcome \in {"running", "returned", "undefined"}

\* No file is read while it is being read.
NoFileInsideItself ==
  \A j, k \in DOMAIN lex_stack : lex_stack[j].f = lex_stack[k].f => j = k

\* Whichever way files include each other, never are more of them open than
\* there are (scan.cpp:32-37, 86-91).
DepthBounded == Len(lex_stack) <= Cardinality(DOMAIN files)

\* Every scan comes to its end, for all files that include each other or
\* themselves (scan.cpp:51-97).
Terminates == <>(outcome # "running")

\* compiler.hpp:13 of compile(), for any files and any main: "a codegen result
\* which will contain a valid program or error messages"; scan() returns, be it
\* with an error for a main file that is not there (scan.cpp:47-50).
ScanReturns == outcome # "undefined"
=============================================================================
