-------------------------------- MODULE Main --------------------------------
(***************************************************************************)
(* The command line without -d (CLI/cli.cpp, main, from the call of        *)
(* compile() on): the code generator, the machine that runs what it emits, *)
(* and the values printed at the end.                                      *)
(*                                                                         *)
(* The machine is RegisterMachine, which TheoVM implements for every       *)
(* program that is verified, as those of the code generator are.           *)
(***************************************************************************)
EXTENDS CodeGen

VARIABLES
  program, ip, frames,  \* the machine
  main                  \* "compiling", "running"; "printed", "refused"

machine == <<program, ip, frames>>

mvars == <<vars, machine, main>>

M == INSTANCE RegisterMachine WITH Programs <- {}

MainInit ==
  /\ Init
  /\ program = <<>> /\ ip = 0 /\ frames = <<>>
  /\ main = "compiling"

Compile == main = "compiling" /\ Next /\ UNCHANGED <<machine, main>>

Compiled == main = "compiling" /\ outcome = "returned"

PrintErrors ==
  /\ Compiled /\ gs.errors # <<>>
  /\ main' = "refused"
  /\ UNCHANGED <<vars, machine>>

\* VM v(cr.code), and v.execute() is called.
CreateVM ==
  /\ Compiled /\ gs.errors = <<>>
  /\ program' = Output
  /\ main' = "running"
  /\ UNCHANGED <<vars, ip, frames>>

Execute ==
  /\ main = "running"
  /\ \/ M!Skip \/ M!AddConst \/ M!TestEqual \/ M!Load \/ M!Jump \/ M!JumpIfZero
     \/ M!Prepare \/ M!PassArgument \/ M!Enter \/ M!Return
  /\ UNCHANGED <<vars, main>>

\* execute() has returned.
PrintVariables ==
  /\ main = "running" /\ M!Current.op = "HALT"
  /\ main' = "printed"
  /\ UNCHANGED <<vars, machine>>

Exit == main \in {"printed", "refused"} /\ UNCHANGED mvars

MainNext ==
  Compile \/ PrintErrors \/ CreateVM \/ Execute \/ PrintVariables \/ Exit

MainSpec == MainInit /\ [][MainNext]_mvars

\* What getActivationVariables() has of a frame, loop counters left out.
Variables(frame) ==
  LET map == program.stack_maps[frame.debug_info].map
  IN  {<<map[r][1], frame.regs[r]>> : r \in {i \in DOMAIN map : Len(map[i]) = 1}}
=============================================================================
