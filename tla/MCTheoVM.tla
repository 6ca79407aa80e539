------------------------------ MODULE MCTheoVM ------------------------------
(***************************************************************************)
(* Programs for model-checking TheoVM, laid out as gen.cpp lays them out   *)
(* (Product: as VM/test/instr_test.cpp does), and their certificates.      *)
(***************************************************************************)
EXTENDS TheoVM, TLC

Bp(f, l) == [file |-> f, line |-> l]

\* A vector of instructions from a sequence.
Vector(seq) == [i \in 0 .. (Len(seq) - 1) |-> seq[i + 1]]

\* potential_breaks from line_info.
BreaksOf(line_info) ==
  [bp \in {line_info[i] : i \in DOMAIN line_info} |->
     {i \in DOMAIN line_info : line_info[i] = bp}]

Compiled(seq, stack_maps, line_info) ==
  [code |-> Vector(seq), stack_maps |-> Vector(stack_maps),
   potential_breaks |-> BreaksOf(line_info), line_info |-> line_info]

StackMap(name, map) == [func_name |-> name, map |-> map]

NoLines == [i \in {} |-> Bp("", 0)]

\* Part of a certificate's table: map m at the locations of locs.
On(locs, m) == [i \in locs |-> m]

-----------------------------------------------------------------------------
(* instr_test.cpp with 2 * 2: nested calls inside a loop, the root entered  *)
(* through EXEC                                                            *)

Product == Compiled(
  << PrepareExec(3, 0, 0), Exec(2),
     Add(0, 0, 2), Add(1, 1, 2),
     PrepareExec(4, 2, 0), Arg(0, 0), Arg(1, 1), Exec(15), Halt,
     Add(2, 1, 0), JmpC(4, 2), Add(0, 0, 1), Add(2, 2, -1), Jmp(-3), Ret(0),
     Add(3, 1, 0), JmpC(7, 3), PrepareExec(3, 1, 2), Arg(0, 2), Arg(1, 0),
     Exec(9), Add(3, 3, -1), Jmp(-6), Ret(2) >>,
  << StackMap("main", 0 :> "x0" @@ 1 :> "x1"),
     StackMap("+", 0 :> "x0" @@ 1 :> "x2"),
     StackMap("*", 0 :> "x0" @@ 1 :> "x1" @@ 2 :> "x2") >>,
  NoLines)

ProductCertificate ==
  [root |-> 0, size |-> Vector(<<3, 3, 4>>),
   owner |-> On(0 .. 1, NoFrame) @@ On(2 .. 8, 0) @@ On(9 .. 14, 1)
               @@ On(15 .. 23, 2),
   callee |-> On({1}, 0) @@ On(5 .. 7, 2) @@ On(18 .. 20, 1)
                @@ On(0 .. 23, NoFrame)]

-----------------------------------------------------------------------------
(*  1 PROGRAM inc IN a DO           5 LOOP y DO                             *)
(*  2   x0 := a + 1                 6   z := RUN inc WITH z END             *)
(*  3 END                           7 END                                   *)
(*  4 y := 2;                                                               *)

Increment == Compiled(
  << PrepareExec(4, 1, 0), Jmp(7),
     PotentialBreak, Add(2, 0, 0), LoadConstant(3, 1), Add(1, 2, 1),
     PotentialBreak, Ret(1),
     PotentialBreak, LoadConstant(0, 2),
     PotentialBreak, Add(1, 0, 0), JmpC(8, 1),
     PotentialBreak, Add(3, 2, 0), PrepareExec(4, 0, 2), Arg(0, 3), Exec(2),
     Add(1, 1, -1), Jmp(-7), PotentialBreak, Halt >>,
  << StackMap("inc", 0 :> "a" @@ 1 :> "x0"),
     StackMap("#root", 0 :> "y" @@ 1 :> "Loop Variable" @@ 2 :> "z") >>,
  2 :> Bp("m", 2) @@ 6 :> Bp("m", 3) @@ 8 :> Bp("m", 4) @@ 10 :> Bp("m", 5)
    @@ 13 :> Bp("m", 6) @@ 20 :> Bp("m", 7))

IncrementCertificate ==
  [root |-> 1, size |-> Vector(<<4, 4>>),
   owner |-> On({0}, NoFrame) @@ On(2 .. 7, 0) @@ On(0 .. 21, 1),
   callee |-> On(16 .. 17, 0) @@ On(0 .. 21, NoFrame)]

-----------------------------------------------------------------------------
(* Line 1 of an included file b twice, a jump back, and a sum that wraps:   *)
(*   b:1 x := x + 1 (twice)   m:2 t: IF x = 2 THEN GOTO e   m:3 e: STOP     *)

Revisit == Compiled(
  << PrepareExec(3, 0, 0),
     PotentialBreak, Add(0, 0, 1),
     PotentialBreak, LoadConstant(2, 2), Test(1, 0, 2), JmpC(2, 1), Jmp(-6),
     PotentialBreak, Add(0, 0, MaxWord),
     PotentialBreak, Halt, Halt >>,
  << StackMap("#root", 0 :> "x") >>,
  1 :> Bp("b", 1) @@ 3 :> Bp("m", 2) @@ 8 :> Bp("b", 1) @@ 10 :> Bp("m", 3))

RevisitCertificate ==
  [root |-> 0, size |-> Vector(<<3>>),
   owner |-> On({0}, NoFrame) @@ On(0 .. 12, 0),
   callee |-> On(0 .. 12, NoFrame)]

-----------------------------------------------------------------------------
(*  1 PROGRAM f IN a DO             4 x := RUN f WITH x END                 *)
(*  2   STOP                                                                *)
(*  3 END                                                                   *)
(* STOP inside a call: both activations are still there when the machine    *)
(* has halted.                                                              *)

StopInCall == Compiled(
  << PrepareExec(2, 1, 0), Jmp(5),
     PotentialBreak, Halt, PotentialBreak, Ret(1),
     PotentialBreak, Add(1, 0, 0), PrepareExec(2, 0, 0), Arg(0, 1), Exec(2),
     Halt >>,
  << StackMap("f", 0 :> "a" @@ 1 :> "x0"), StackMap("#root", 0 :> "x") >>,
  2 :> Bp("m", 2) @@ 4 :> Bp("m", 3) @@ 6 :> Bp("m", 4))

StopInCallCertificate ==
  [root |-> 1, size |-> Vector(<<2, 2>>),
   owner |-> On({0}, NoFrame) @@ On(2 .. 5, 0) @@ On(0 .. 11, 1),
   callee |-> On(9 .. 10, 0) @@ On(0 .. 11, NoFrame)]

-----------------------------------------------------------------------------

MCCertificate ==
  Product :> ProductCertificate @@ Increment :> IncrementCertificate
    @@ Revisit :> RevisitCertificate @@ StopInCall :> StopInCallCertificate

MCPrograms == DOMAIN MCCertificate

\* What the command line prints once the program has halted: the variables of
\* the last activation (cli.cpp:221-226).
Printed ==
  Product :> {<<"x0", 4>>, <<"x1", 2>>}
    @@ Increment :> {<<"y", 2>>, <<"Loop Variable", 0>>, <<"z", 2>>}
    @@ Revisit :> {<<"x", 0>>}
    @@ StopInCall :> {<<"a", 0>>, <<"x0", 0>>}

\* However the run was interrupted by breakpoints, steps and changes of the
\* settings, a halted program shows the values its source computes.
FinalValues ==
  isDone /\ stack # <<>> => getActivationVariables(Back) = Printed[program]
=============================================================================
