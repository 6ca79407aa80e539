-------------------------- MODULE RegisterMachine --------------------------
(***************************************************************************)
(* What libTheoVM promises: a machine on which every running program has   *)
(* registers of its own and nothing a debugger does can be told from the   *)
(* values computed.  There is no data segment to lay activations out in,   *)
(* there are no breakpoints to enable, and a POTENTIAL_BREAK does nothing. *)
(*                                                                         *)
(* TheoVM implements this machine with one vector of words, one vector of  *)
(* activations and a patched copy of the code.                             *)
(***************************************************************************)
EXTENDS Bytecode

CONSTANT Programs       \* the programs the machine may be built for

VARIABLES
  program,              \* the program being run
  ip,                   \* the next instruction
  frames                \* the running programs, the current one last

vars == <<program, ip, frames>>

Current == program.code[ip]

Last == Len(frames)

Reg(r) == frames[Last].regs[r]

Init ==
  /\ program \in Programs
  /\ ip = 0
  /\ frames = <<>>

-----------------------------------------------------------------------------
(* Steps inside the current program *)

Advance(next) == ip' = next /\ UNCHANGED program

Write(r, value) ==
  frames' = [frames EXCEPT ![Last].regs[r] = value]

Skip ==
  /\ Current.op = "POTENTIAL_BREAK"
  /\ Advance(ip + 1)
  /\ UNCHANGED frames

AddConst ==
  /\ Current.op = "ADD_CONST"
  /\ Write(Current.target, AddClamped(Reg(Current.source), Current.constant))
  /\ Advance(ip + 1)

TestEqual ==
  /\ Current.op = "TEST"
  /\ Write(Current.target,
           IF Reg(Current.op1) = Reg(Current.op2) THEN 0 ELSE 1)
  /\ Advance(ip + 1)

Load ==
  /\ Current.op = "CONST"
  /\ Write(Current.target, Current.constant)
  /\ Advance(ip + 1)

Jump ==
  /\ Current.op = "JMP"
  /\ Advance(ip + Current.offset)
  /\ UNCHANGED frames

JumpIfZero ==
  /\ Current.op = "JMPC"
  /\ Advance(ip + (IF Reg(Current.source) = 0 THEN Current.offset ELSE 1))
  /\ UNCHANGED frames

-----------------------------------------------------------------------------
(* Calls: open a frame of zeroes, pass arguments, enter, and return *)

Prepare ==
  /\ Current.op = "PREPARE_EXEC"
  /\ frames' = Append(frames,
       [regs |-> [r \in 0 .. (Current.count - 1) |-> 0],
        ret_target |-> Current.target, ret_addr |-> -1,
        debug_info |-> Current.index])
  /\ Advance(ip + 1)

PassArgument ==
  /\ Current.op = "ARG"
  /\ Write(Current.target, frames[Last - 1].regs[Current.source])
  /\ Advance(ip + 1)

Enter ==
  /\ Current.op = "EXEC"
  /\ frames' = [frames EXCEPT ![Last].ret_addr = ip + 1]
  /\ Advance(Current.entry)

Return ==
  /\ Current.op = "RET"
  /\ frames' =
       [SubSeq(frames, 1, Last - 1) EXCEPT
          ![Last - 1].regs[frames[Last].ret_target] = Reg(Current.source)]
  /\ Advance(frames[Last].ret_addr)

\* VM::reset: the same program from its beginning.
Restart ==
  /\ ip' = 0
  /\ frames' = <<>>
  /\ UNCHANGED program

Next ==
  \/ Skip \/ AddConst \/ TestEqual \/ Load \/ Jump \/ JumpIfZero
  \/ Prepare \/ PassArgument \/ Enter \/ Return \/ Restart

Spec == Init /\ [][Next]_vars
=============================================================================
