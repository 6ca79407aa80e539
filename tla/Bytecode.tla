------------------------------ MODULE Bytecode ------------------------------
(***************************************************************************)
(* The bytecode libTheoC hands to libTheoVM: instructions                  *)
(* (VM/include/instr.hpp, VM/src/instr.cpp), programs                      *)
(* (VM/include/program.hpp), and the static conditions under which the     *)
(* virtual machine may run a program without indexing outside its vectors. *)
(*                                                                         *)
(* A vector<Instruction> is a function on 0 .. n-1, so that a              *)
(* ProgramIndex means what it means in the code.  A set of ProgramIndex    *)
(* stands for a vector whose order nothing depends on.                     *)
(***************************************************************************)
EXTENDS Integers, Sequences

CONSTANT MaxWord    \* INT_MAX of the build: VM::Word is an int

ASSUME MaxWordAssumption == MaxWord \in Nat \ {0}

-----------------------------------------------------------------------------
(* Words *)

Word == -(MaxWord + 1) .. MaxWord

\* What a register may hold.
NatWord == 0 .. MaxWord

\* Signed addition of two words.  No operand is known when the machine is
\* compiled, so the sum is the processor's: it wraps.
WrapAdd(a, b) ==
  LET sum == a + b
  IN  CASE sum > MaxWord        -> sum - 2 * (MaxWord + 1)
        [] sum < -(MaxWord + 1) -> sum + 2 * (MaxWord + 1)
        [] OTHER                -> sum

\* Mutant of AddClamped: the result of a subtraction is not clamped.
AddUnclamped(a, c) == WrapAdd(a, c)

\* std::max(a + c, 0)
AddClamped(a, c) == IF WrapAdd(a, c) < 0 THEN 0 ELSE WrapAdd(a, c)

-----------------------------------------------------------------------------
(* Instructions: the constructors of instr.cpp *)

PotentialBreak == [op |-> "POTENTIAL_BREAK"]
Break          == [op |-> "BREAK"]
Halt           == [op |-> "HALT"]
Test(target, op1, op2) ==
  [op |-> "TEST", target |-> target, op1 |-> op1, op2 |-> op2]
Add(target, source, constant) ==
  [op |-> "ADD_CONST", target |-> target, source |-> source,
   constant |-> constant]
LoadConstant(target, constant) ==
  [op |-> "CONST", target |-> target, constant |-> constant]
Jmp(offset)          == [op |-> "JMP", offset |-> offset]
JmpC(offset, source) == [op |-> "JMPC", offset |-> offset, source |-> source]
PrepareExec(count, index, target) ==
  [op |-> "PREPARE_EXEC", count |-> count, index |-> index, target |-> target]
Arg(target, source) == [op |-> "ARG", target |-> target, source |-> source]
Exec(entry)         == [op |-> "EXEC", entry |-> entry]
Ret(source)         == [op |-> "RET", source |-> source]

Instruction ==
       [op : {"POTENTIAL_BREAK", "BREAK", "HALT"}]
  \cup [op : {"TEST"}, target : Nat, op1 : Nat, op2 : Nat]
  \cup [op : {"ADD_CONST"}, target : Nat, source : Nat, constant : Word]
  \cup [op : {"CONST"}, target : Nat, constant : Word]
  \cup [op : {"JMP"}, offset : Int]
  \cup [op : {"JMPC"}, offset : Int, source : Nat]
  \cup [op : {"PREPARE_EXEC"}, count : Nat, index : Nat, target : Nat]
  \cup [op : {"ARG"}, target : Nat, source : Nat]
  \cup [op : {"EXEC"}, entry : Nat]
  \cup [op : {"RET"}, source : Nat]

-----------------------------------------------------------------------------
(***************************************************************************)
(* A certificate says what the activation stack looks like whenever        *)
(* control is at a location: which program (named by its stack map) the    *)
(* current activation belongs to, and which program's activation is being  *)
(* built on top of it between PREPARE_EXEC and EXEC.  The code carries no  *)
(* such table; it is the invariant the code generator keeps implicitly.    *)
(***************************************************************************)

NoFrame == -1

Registers(c, m) == 0 .. (c.size[m] - 1)

\* Location j belongs to the body of program m.
InBody(p, c, m, j) ==
  /\ j \in DOMAIN p.code
  /\ c.owner[j] = m
  /\ c.callee[j] = NoFrame

\* Instructions of a body that only touch the current activation.
BodyVerified(p, c, i) ==
  LET ins == p.code[i]
      m   == c.owner[i]
      Reg == Registers(c, m)
  IN  /\ m # NoFrame
      /\ c.callee[i] = NoFrame
      /\ ins.op \in {"POTENTIAL_BREAK", "ADD_CONST", "TEST", "CONST", "JMPC"}
           => InBody(p, c, m, i + 1)
      /\ ins.op \in {"JMP", "JMPC"} => InBody(p, c, m, i + ins.offset)
      /\ ins.op \in {"ADD_CONST", "TEST", "CONST"} => ins.target \in Reg
      /\ ins.op \in {"ADD_CONST", "JMPC", "RET"} => ins.source \in Reg
      /\ ins.op = "TEST" => ins.op1 \in Reg /\ ins.op2 \in Reg
      /\ ins.op = "CONST" => ins.constant >= 0
      /\ ins.op = "RET" => m # c.root

\* PREPARE_EXEC opens an activation of the size its program was compiled to:
\* the root's from the empty stack, any other from the body of its caller.
PrepareVerified(p, c, i) ==
  LET ins == p.code[i]
      m   == c.owner[i]
  IN  /\ c.callee[i] = NoFrame
      /\ ins.index \in DOMAIN p.stack_maps
      /\ ins.count = c.size[ins.index]
      /\ ins.index = c.root <=> m = NoFrame
      /\ m = NoFrame =>
           \/ InBody(p, c, c.root, i + 1)
           \/ /\ i + 1 \in DOMAIN p.code
              /\ c.owner[i + 1] = NoFrame
              /\ c.callee[i + 1] = c.root
              /\ p.code[i + 1].op = "EXEC"
      /\ m # NoFrame =>
           /\ ins.target \in Registers(c, m)
           /\ i + 1 \in DOMAIN p.code
           /\ c.owner[i + 1] = m
           /\ c.callee[i + 1] = ins.index
           /\ p.code[i + 1].op \in {"ARG", "EXEC"}

\* ARG and EXEC complete the activation that PREPARE_EXEC opened.
CallVerified(p, c, i) ==
  LET ins == p.code[i]
      m   == c.owner[i]
      f   == c.callee[i]
  IN  /\ f # NoFrame
      /\ ins.op = "ARG" =>
           /\ m # NoFrame
           /\ ins.source \in Registers(c, m)
           /\ ins.target \in Registers(c, f)
           /\ i + 1 \in DOMAIN p.code
           /\ c.owner[i + 1] = m
           /\ c.callee[i + 1] = f
      /\ ins.op = "EXEC" =>
           /\ InBody(p, c, f, ins.entry)
           /\ m # NoFrame => InBody(p, c, m, i + 1)

\* The tables a certificate is made of.
CertificateShape(p, c) ==
  /\ DOMAIN p.code \subseteq Nat
  /\ DOMAIN p.stack_maps \subseteq Nat
  /\ c.size \in [DOMAIN p.stack_maps -> Nat]
  /\ c.root \in DOMAIN p.stack_maps
  /\ c.owner \in [DOMAIN p.code -> DOMAIN p.stack_maps \cup {NoFrame}]
  /\ c.callee \in [DOMAIN p.code -> DOMAIN p.stack_maps \cup {NoFrame}]
  /\ \A m \in DOMAIN p.stack_maps :
       DOMAIN p.stack_maps[m].map \subseteq Registers(c, m)
  /\ 0 \in DOMAIN p.code
  /\ c.owner[0] = NoFrame
  /\ c.callee[0] = NoFrame

Verified(p, c) ==
  /\ p.code \in [DOMAIN p.code -> Instruction]
  /\ CertificateShape(p, c)
  /\ \A i \in DOMAIN p.code :
       /\ p.code[i].op = "PREPARE_EXEC" => PrepareVerified(p, c, i)
       /\ p.code[i].op \in {"ARG", "EXEC"} => CallVerified(p, c, i)
       /\ p.code[i].op \notin {"PREPARE_EXEC", "ARG", "EXEC"}
            => BodyVerified(p, c, i)
       /\ p.code[i].op # "BREAK"

\* A program calls only programs compiled before it, so calls never recurse.
CallsDescend(p, c) ==
  \A i \in DOMAIN p.code :
    p.code[i].op = "PREPARE_EXEC" /\ c.owner[i] # NoFrame
      => p.code[i].index < c.owner[i]

\* Every position a breakpoint names is a POTENTIAL_BREAK of that line.
BreaksSound(p) ==
  \A bp \in DOMAIN p.potential_breaks : \A i \in p.potential_breaks[bp] :
    /\ i \in DOMAIN p.code
    /\ p.code[i] = PotentialBreak
    /\ i \in DOMAIN p.line_info
    /\ p.line_info[i] = bp

\* Every POTENTIAL_BREAK of the code can be reached by naming its line.
BreaksComplete(p) ==
  \A i \in DOMAIN p.code : p.code[i] = PotentialBreak =>
    /\ i \in DOMAIN p.line_info
    /\ p.line_info[i] \in DOMAIN p.potential_breaks
    /\ i \in p.potential_breaks[p.line_info[i]]
=============================================================================
