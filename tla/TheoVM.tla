------------------------------- MODULE TheoVM -------------------------------
(***************************************************************************)
(* The virtual machine of libTheoVM (VM/src/vm.cpp).                       *)
(*                                                                         *)
(* One action per case of VM::executeSingle and one per method of the      *)
(* interface.  VM::execute is a loop around executeSingle and gives its    *)
(* caller no turn before it returns; a caller that drives executeSingle    *)
(* itself may call any method between two instructions (vm.hpp:107-115).   *)
(*                                                                         *)
(* A vector is a sequence: word i of data is data[i + 1].                  *)
(***************************************************************************)
EXTENDS Bytecode

CONSTANTS
  Programs,     \* the programs a VM may be constructed with
  Certificate,  \* of each program, the stack shapes of its locations
  MaxData       \* bound: words the process can allocate for data

ASSUME ProgramsAssumption ==
  \A p \in Programs : Verified(p, Certificate[p]) /\ BreaksSound(p)

ASSUME MaxDataAssumption == MaxData \in Nat

VARIABLES
  program,               \* the Program given to the constructor
  code,                  \* the VM's own copy of program.code
  instruction_pointer,
  data,
  stack,
  stepping_mode_enabled,
  enabled_breakpoints,
  executing,             \* VM::execute has been called and has not returned
  halted_on              \* why executeSingle last returned true: "break" or
                         \* "halt"; "none" if it returned false

machine  == <<instruction_pointer, data, stack>>
settings == <<code, stepping_mode_enabled, enabled_breakpoints>>
vars     == <<program, machine, settings, executing, halted_on>>

-----------------------------------------------------------------------------
(* Activations *)

Activation(data_start, seg_size, ret_target, ret_addr, debug_info) ==
  [data_start |-> data_start, seg_size |-> seg_size,
   ret_target |-> ret_target, ret_addr |-> ret_addr,
   debug_info |-> debug_info]

\* Position in data of register r of activation a.
Cell(a, r) == a.data_start + r + 1

Back == stack[Len(stack)]           \* this->stack.back()
Caller == stack[Len(stack) - 1]     \* *(this->stack.end() - 2)

Register(r) == data[Cell(Back, r)]

\* The variables of activation a as a debugger reads them: pairs of a name
\* and the word it has.
getActivationVariables(a) ==
  LET names == program.stack_maps[a.debug_info].map
  IN  IF a.seg_size = 0 THEN {}
      ELSE {<<names[r], data[Cell(a, r)]>> : r \in DOMAIN names}

-----------------------------------------------------------------------------
(* Queries *)

NoBreak == [file |-> "none", line |-> -1]

getCurrentBreak ==
  IF instruction_pointer - 1 \in DOMAIN program.line_info
    THEN program.line_info[instruction_pointer - 1]
    ELSE NoBreak

isDone == code[instruction_pointer].op = "HALT"

getAvailableBreakpoints == DOMAIN program.potential_breaks

-----------------------------------------------------------------------------
(* VM::VM *)

Init ==
  /\ program \in Programs
  /\ code = program.code
  /\ instruction_pointer = 0
  /\ data = <<>>
  /\ stack = <<>>
  /\ stepping_mode_enabled = FALSE
  /\ enabled_breakpoints = {}
  /\ executing = FALSE
  /\ halted_on = "none"

-----------------------------------------------------------------------------
(* VM::executeSingle *)

Current == code[instruction_pointer]

\* executeSingle returns false: a running execute() goes on.
ReturnFalse ==
  /\ halted_on' = "none"
  /\ UNCHANGED <<program, settings, executing>>

\* executeSingle returns true: a running execute() returns too.
ReturnTrue(cause) ==
  /\ halted_on' = cause
  /\ executing' = FALSE
  /\ UNCHANGED <<program, settings>>

Store(cell, word) == data' = [data EXCEPT ![cell] = word]

\* Mutant of ExecPotentialBreak: stepping mode is not looked at.
PotentialBreakRunsOn ==
  /\ Current.op = "POTENTIAL_BREAK"
  /\ instruction_pointer' = instruction_pointer + 1
  /\ ReturnFalse
  /\ UNCHANGED <<data, stack>>

ExecPotentialBreak ==
  /\ Current.op = "POTENTIAL_BREAK"
  /\ instruction_pointer' = instruction_pointer + 1
  /\ IF stepping_mode_enabled THEN ReturnTrue("break") ELSE ReturnFalse
  /\ UNCHANGED <<data, stack>>

\* Mutant of ExecBreak: the instruction pointer stays on the BREAK.
BreakStays ==
  /\ Current.op = "BREAK"
  /\ ReturnTrue("break")
  /\ UNCHANGED machine

ExecBreak ==
  /\ Current.op = "BREAK"
  /\ instruction_pointer' = instruction_pointer + 1
  /\ ReturnTrue("break")
  /\ UNCHANGED <<data, stack>>

\* Mutant of ExecHalt: executeSingle returns false.
HaltRunsOn ==
  /\ Current.op = "HALT"
  /\ ReturnFalse
  /\ UNCHANGED machine

ExecHalt ==
  /\ Current.op = "HALT"
  /\ ReturnTrue("halt")
  /\ UNCHANGED machine

ExecAddConst ==
  /\ Current.op = "ADD_CONST"
  /\ Store(Cell(Back, Current.target),
           AddClamped(Register(Current.source), Current.constant))
  /\ instruction_pointer' = instruction_pointer + 1
  /\ ReturnFalse
  /\ UNCHANGED stack

ExecTest ==
  /\ Current.op = "TEST"
  /\ Store(Cell(Back, Current.target),
           IF Register(Current.op1) = Register(Current.op2) THEN 0 ELSE 1)
  /\ instruction_pointer' = instruction_pointer + 1
  /\ ReturnFalse
  /\ UNCHANGED stack

ExecConst ==
  /\ Current.op = "CONST"
  /\ Store(Cell(Back, Current.target), Current.constant)
  /\ instruction_pointer' = instruction_pointer + 1
  /\ ReturnFalse
  /\ UNCHANGED stack

ExecJmp ==
  /\ Current.op = "JMP"
  /\ instruction_pointer' = instruction_pointer + Current.offset
  /\ ReturnFalse
  /\ UNCHANGED <<data, stack>>

ExecJmpC ==
  /\ Current.op = "JMPC"
  /\ instruction_pointer' = instruction_pointer
       + (IF Register(Current.source) = 0 THEN Current.offset ELSE 1)
  /\ ReturnFalse
  /\ UNCHANGED <<data, stack>>

\* Mutant of ExecPrepareExec: data.size() is read after data has been resized.
PrepareBehindData ==
  /\ Current.op = "PREPARE_EXEC"
  /\ Len(data) + Current.count <= MaxData
  /\ data' = data \o [k \in 1 .. Current.count |-> 0]
  /\ stack' = Append(stack, Activation(Len(data'), Current.count,
                                       Current.target, -1, Current.index))
  /\ instruction_pointer' = instruction_pointer + 1
  /\ ReturnFalse

\* Mutant of ExecPrepareExec: the activation is one register short.
PrepareShort ==
  /\ Current.op = "PREPARE_EXEC"
  /\ Len(data) + Current.count <= MaxData
  /\ data' = data \o [k \in 1 .. Current.count - 1 |-> 0]
  /\ stack' = Append(stack, Activation(Len(data), Current.count - 1,
                                       Current.target, -1, Current.index))
  /\ instruction_pointer' = instruction_pointer + 1
  /\ ReturnFalse

\* The new activation is built at the end of data, whose words are never
\* given back by RET.
ExecPrepareExec ==
  /\ Current.op = "PREPARE_EXEC"
  /\ Len(data) + Current.count <= MaxData
  /\ data' = data \o [k \in 1 .. Current.count |-> 0]
  /\ stack' = Append(stack, Activation(Len(data), Current.count,
                                       Current.target, -1, Current.index))
  /\ instruction_pointer' = instruction_pointer + 1
  /\ ReturnFalse

\* Mutant of ExecArg: the argument is read from the activation being built.
ArgFromBack ==
  /\ Current.op = "ARG"
  /\ Store(Cell(Back, Current.target), data[Cell(Back, Current.source)])
  /\ instruction_pointer' = instruction_pointer + 1
  /\ ReturnFalse
  /\ UNCHANGED stack

ExecArg ==
  /\ Current.op = "ARG"
  /\ Store(Cell(Back, Current.target), data[Cell(Caller, Current.source)])
  /\ instruction_pointer' = instruction_pointer + 1
  /\ ReturnFalse
  /\ UNCHANGED stack

\* Mutant of ExecExec: control returns to the EXEC itself.
ExecAgain ==
  /\ Current.op = "EXEC"
  /\ stack' = [stack EXCEPT ![Len(stack)].ret_addr = instruction_pointer]
  /\ instruction_pointer' = Current.entry
  /\ ReturnFalse
  /\ UNCHANGED data

\* Mutant of ExecExec: no return address is set.
ExecForgetsReturn ==
  /\ Current.op = "EXEC"
  /\ instruction_pointer' = Current.entry
  /\ ReturnFalse
  /\ UNCHANGED <<data, stack>>

ExecExec ==
  /\ Current.op = "EXEC"
  /\ stack' = [stack EXCEPT ![Len(stack)].ret_addr = instruction_pointer + 1]
  /\ instruction_pointer' = Current.entry
  /\ ReturnFalse
  /\ UNCHANGED data

\* Mutant of ExecRet: the activation stays on the stack.
RetKeepsActivation ==
  /\ Current.op = "RET"
  /\ Store(Cell(Caller, Back.ret_target), Register(Current.source))
  /\ instruction_pointer' = Back.ret_addr
  /\ ReturnFalse
  /\ UNCHANGED stack

\* Mutant of ExecRet: the result goes to the program that returns it.
RetToItself ==
  /\ Current.op = "RET"
  /\ Store(Cell(Back, Back.ret_target), Register(Current.source))
  /\ instruction_pointer' = Back.ret_addr
  /\ stack' = SubSeq(stack, 1, Len(stack) - 1)
  /\ ReturnFalse

ExecRet ==
  /\ Current.op = "RET"
  /\ Store(Cell(Caller, Back.ret_target), Register(Current.source))
  /\ instruction_pointer' = Back.ret_addr
  /\ stack' = SubSeq(stack, 1, Len(stack) - 1)
  /\ ReturnFalse

executeSingle ==
  \/ ExecPotentialBreak \/ ExecBreak \/ ExecHalt
  \/ ExecAddConst \/ ExecTest \/ ExecConst
  \/ ExecJmp \/ ExecJmpC
  \/ ExecPrepareExec \/ ExecArg \/ ExecExec \/ ExecRet

-----------------------------------------------------------------------------
(* The rest of the interface, open to the caller when execute() is not     *)
(* running                                                                 *)

execute ==
  /\ ~ executing
  /\ executing' = TRUE
  /\ UNCHANGED <<program, machine, settings, halted_on>>

setSteppingMode(mode) ==
  /\ ~ executing
  /\ stepping_mode_enabled' = mode
  /\ UNCHANGED <<program, machine, code, enabled_breakpoints, executing,
                 halted_on>>

\* code with the instructions at locations given the opcode op.
Patched(locations, op) ==
  [i \in DOMAIN code |->
     IF i \in locations THEN [code[i] EXCEPT !.op = op] ELSE code[i]]

\* A breakpoint the program does not have changes nothing (and returns false).
setBreakPoint(bp, value) ==
  /\ ~ executing
  /\ bp \in DOMAIN program.potential_breaks
  /\ enabled_breakpoints' =
       IF value THEN enabled_breakpoints \cup {bp}
                ELSE enabled_breakpoints \ {bp}
  /\ code' = Patched(program.potential_breaks[bp],
                     IF value THEN "BREAK" ELSE "POTENTIAL_BREAK")
  /\ UNCHANGED <<program, machine, stepping_mode_enabled, executing,
                 halted_on>>

\* Every location of an enabled breakpoint.
EnabledLocations ==
  UNION {program.potential_breaks[bp] : bp \in enabled_breakpoints}

\* Mutant of RemoveBreakpoints: the set is emptied, the code left patched.
ForgetBreakpoints ==
  /\ enabled_breakpoints' = {}
  /\ UNCHANGED code

RemoveBreakpoints ==
  /\ code' = Patched(EnabledLocations, "POTENTIAL_BREAK")
  /\ enabled_breakpoints' = {}

clearBreakpoints ==
  /\ ~ executing
  /\ RemoveBreakpoints
  /\ UNCHANGED <<program, machine, stepping_mode_enabled, executing,
                 halted_on>>

\* Mutant of reset: the activations are not removed.
ResetKeepsStack ==
  /\ ~ executing
  /\ stepping_mode_enabled' = FALSE
  /\ instruction_pointer' = 0
  /\ RemoveBreakpoints
  /\ data' = <<>>
  /\ halted_on' = "none"
  /\ UNCHANGED <<program, stack, executing>>

\* Mutant of reset: stepping mode is left as it is.
ResetKeepsStepping ==
  /\ ~ executing
  /\ instruction_pointer' = 0
  /\ RemoveBreakpoints
  /\ data' = <<>>
  /\ stack' = <<>>
  /\ halted_on' = "none"
  /\ UNCHANGED <<program, stepping_mode_enabled, executing>>

reset ==
  /\ ~ executing
  /\ stepping_mode_enabled' = FALSE
  /\ instruction_pointer' = 0
  /\ RemoveBreakpoints
  /\ data' = <<>>
  /\ stack' = <<>>
  /\ halted_on' = "none"
  /\ UNCHANGED <<program, executing>>

Client ==
  \/ execute
  \/ \E mode \in BOOLEAN : setSteppingMode(mode)
  \/ \E bp \in getAvailableBreakpoints, value \in BOOLEAN :
       setBreakPoint(bp, value)
  \/ clearBreakpoints
  \/ reset

Next == executeSingle \/ Client

Spec == Init /\ [][Next]_vars

-----------------------------------------------------------------------------
(* What the machine must never do.  Locations are judged by the program    *)
(* given to the constructor and its certificate, not by the patched copy.  *)

cert == Certificate[program]

Owner  == cert.owner[instruction_pointer]
Callee == cert.callee[instruction_pointer]

ActivationType ==
  [data_start : Nat, seg_size : Nat, ret_target : Nat,
   ret_addr : Nat \cup {-1}, debug_info : Nat]

\* Every variable has its type; a word of data is never negative.
TypeOK ==
  /\ program \in Programs
  /\ code \in [DOMAIN program.code -> Instruction]
  /\ instruction_pointer \in DOMAIN program.code
  /\ data \in Seq(NatWord)
  /\ stack \in Seq(ActivationType)
  /\ stepping_mode_enabled \in BOOLEAN
  /\ enabled_breakpoints \subseteq DOMAIN program.potential_breaks
  /\ executing \in BOOLEAN
  /\ halted_on \in {"none", "break", "halt"}

\* Activations lie in data one behind the other: two calls that are both
\* alive never share a word, although data_start is taken from the size of a
\* vector that returns do not shrink (vm.cpp:156, 184-192).
ActivationsDisjoint ==
  /\ \A k \in DOMAIN stack :
       stack[k].data_start + stack[k].seg_size <= Len(data)
  /\ \A j, k \in DOMAIN stack :
       j < k => stack[j].data_start + stack[j].seg_size <= stack[k].data_start

\* The registers an instruction names in the current activation, and in the
\* one below it.
BackOperands(ins) ==
  CASE ins.op = "ADD_CONST"        -> {ins.target, ins.source}
    [] ins.op = "TEST"             -> {ins.target, ins.op1, ins.op2}
    [] ins.op \in {"CONST", "ARG"} -> {ins.target}
    [] ins.op \in {"JMPC", "RET"}  -> {ins.source}
    [] OTHER                       -> {}

CallerOperands(ins) ==
  CASE ins.op = "ARG" -> {ins.source}
    [] ins.op = "RET" -> {Back.ret_target}
    [] OTHER          -> {}

\* executeSingle indexes data and stack without a check.  The instruction it
\* is about to execute finds the activations it needs, and each register it
\* names inside the segment of its own activation (vm.cpp:110-194).
OperandsInSegment ==
  /\ BackOperands(Current) # {} \/ Current.op = "EXEC" => Len(stack) >= 1
  /\ Current.op \in {"ARG", "RET"} => Len(stack) >= 2
  /\ \A r \in BackOperands(Current) : r < Back.seg_size
  /\ \A r \in CallerOperands(Current) : r < Caller.seg_size

\* The activations alive are those of the programs whose code surrounds the
\* instruction pointer, also while a call is being set up, so that a debugger
\* names the variables of the right program (vm.cpp:17-26).
StackMatchesLocation ==
  /\ Owner = NoFrame /\ Callee = NoFrame => stack = <<>>
  /\ Owner = NoFrame /\ Callee # NoFrame =>
       Len(stack) = 1 /\ Back.debug_info = Callee
  /\ Owner # NoFrame /\ Callee = NoFrame =>
       Len(stack) >= 1 /\ Back.debug_info = Owner
  /\ Owner # NoFrame /\ Callee # NoFrame =>
       Len(stack) >= 2 /\ Back.debug_info = Callee /\ Caller.debug_info = Owner

\* What calls rely on until they return: every activation has the size its
\* program was compiled to, the root's is the first and the only one of the
\* root, and each other one returns into the body of the program below it, to
\* a register that one has (vm.cpp:154-194).
CallsLinked ==
  /\ \A k \in DOMAIN stack :
       /\ stack[k].debug_info \in DOMAIN cert.size
       /\ stack[k].seg_size = cert.size[stack[k].debug_info]
       /\ stack[k].debug_info = cert.root <=> k = 1
  /\ \A k \in 2 .. Len(stack) :
       /\ stack[k].ret_target < stack[k - 1].seg_size
       /\ \/ InBody(program, cert, stack[k - 1].debug_info, stack[k].ret_addr)
          \/ k = Len(stack) /\ Callee # NoFrame

\* Whatever was enabled, disabled, cleared or reset before, a location holds a
\* BREAK exactly if an enabled breakpoint names it, and every other
\* instruction is the compiler's (vm.cpp:47-68, 76-82).
CodeIsPatched ==
  \A i \in DOMAIN program.code :
    code[i] = IF i \in EnabledLocations THEN Break ELSE program.code[i]

\* Without recursion in the program the activation stack stays within the
\* number of its stack maps.
StackDepthBounded ==
  CallsDescend(program, cert) => Len(stack) <= cert.root + 1

\* executeSingle stops on a breakpoint exactly where one was asked for: at any
\* potential break in stepping mode, else at a location of an enabled
\* breakpoint, and then getCurrentBreak names that breakpoint
\* (vm.hpp:67-82, 107-117).
StopsWhereAsked ==
  [][executeSingle =>
       LET asked == instruction_pointer \in EnabledLocations
       IN  /\ halted_on' = "break" <=>
                /\ program.code[instruction_pointer] = PotentialBreak
                /\ stepping_mode_enabled \/ asked
           /\ asked => getCurrentBreak' \in enabled_breakpoints]_vars

\* "resets the VM to its initial state" (vm.hpp:94-98): what a fresh VM of the
\* same program would be, with the compiler's code.
ResetRestoresInitialState ==
  [][reset =>
       /\ code' = program.code
       /\ machine' = <<0, <<>>, <<>>>>
       /\ ~ stepping_mode_enabled'
       /\ enabled_breakpoints' = {}]_vars

\* The frames of the abstract machine: each activation's segment of data.
FrameOf(words, a) ==
  [regs |-> [r \in 0 .. (a.seg_size - 1) |-> words[Cell(a, r)]],
   ret_target |-> a.ret_target, ret_addr |-> a.ret_addr,
   debug_info |-> a.debug_info]

Frames == [k \in 1 .. Len(stack) |-> FrameOf(data, stack[k])]

RM == INSTANCE RegisterMachine
        WITH ip <- instruction_pointer, frames <- Frames

\* Calls keep their registers apart, and breakpoints, stepping and clearing
\* never change what is computed: every step of the VM is a step of the
\* register machine, which has neither a data segment nor breakpoints, or
\* leaves it as it is.
RefinesRegisterMachine == RM!Spec
=============================================================================
