---------------------------- MODULE TheoVMProofs ----------------------------
(***************************************************************************)
(* Proofs about TheoVM, for every set of verified programs and every bound,*)
(* by itself and under the debugger: whatever is typed, in whichever order,*)
(* the machine stays sound, what the prompt shows is complete, and the     *)
(* program computes what it computes undebugged.                           *)
(***************************************************************************)
EXTENDS Debugger, SequenceTheorems, TLAPS

\* The inductive invariant: the parts TLC checks one by one.
IInv ==
  /\ TypeOK
  /\ ActivationsDisjoint
  /\ StackMatchesLocation
  /\ CallsLinked
  /\ CodeIsPatched

-----------------------------------------------------------------------------
(* What a verified program guarantees about the instruction to be executed *)

\* The program a VM was constructed with has a certificate, and its
\* breakpoints name potential breaks.
LEMMA ProgramVerified ==
  ASSUME program \in Programs
  PROVE  Verified(program, cert) /\ BreaksSound(program)
BY ProgramsAssumption DEF cert

\* Patching only hides POTENTIAL_BREAKs.
LEMMA CurrentIsCompiled ==
  ASSUME IInv
  PROVE  /\ instruction_pointer \in DOMAIN program.code
         /\ Current \in Instruction
         /\ program.code[instruction_pointer] \in Instruction
         /\ Current.op \in {"BREAK", "POTENTIAL_BREAK"}
              => program.code[instruction_pointer] = PotentialBreak
         /\ Current.op # "BREAK" => Current = program.code[instruction_pointer]
<1> DEFINE i == instruction_pointer
<1>1. Verified(program, cert) /\ BreaksSound(program)
  BY ProgramVerified DEF IInv, TypeOK
<1>2. i \in DOMAIN program.code /\ Current \in Instruction
  BY DEF IInv, TypeOK, Current
<1>3. program.code[i] \in Instruction /\ program.code[i].op # "BREAK"
  BY <1>1, <1>2 DEF Verified
<1>4. CASE i \in EnabledLocations
  <2>1. PICK bp \in enabled_breakpoints : i \in program.potential_breaks[bp]
    BY <1>4 DEF EnabledLocations
  <2>2. program.code[i] = PotentialBreak
    BY <1>1, <2>1 DEF BreaksSound, IInv, TypeOK
  <2>3. Current = Break
    BY <1>2, <1>4 DEF IInv, CodeIsPatched, Current
  <2> QED BY <1>2, <1>3, <2>2, <2>3 DEF Break, PotentialBreak
<1>5. CASE i \notin EnabledLocations
  <2>1. Current = program.code[i]
    BY <1>2, <1>5 DEF IInv, CodeIsPatched, Current
  <2>2. program.code[i].op = "POTENTIAL_BREAK" =>
          program.code[i] = PotentialBreak
    BY <1>3 DEF Instruction, PotentialBreak
  <2> QED BY <1>2, <1>3, <2>1, <2>2
<1> QED BY <1>4, <1>5

\* An instruction of a body runs on the activation of that body's program.
LEMMA BodyInstruction ==
  ASSUME IInv,
         Current.op \notin {"PREPARE_EXEC", "ARG", "EXEC"}
  PROVE  /\ BodyVerified(program, cert, instruction_pointer)
         /\ Owner # NoFrame
         /\ Callee = NoFrame
         /\ Len(stack) >= 1
         /\ Back \in ActivationType
         /\ Back.debug_info = Owner
         /\ Back.seg_size = cert.size[Owner]
         /\ Back.data_start + Back.seg_size <= Len(data)
<1>1. Verified(program, cert)
  BY ProgramVerified DEF IInv, TypeOK
<1>2. BodyVerified(program, cert, instruction_pointer)
  BY <1>1, CurrentIsCompiled DEF Verified, PotentialBreak
<1>3. Owner # NoFrame /\ Callee = NoFrame
  BY <1>2 DEF BodyVerified, Owner, Callee
<1>4. Len(stack) >= 1 /\ Back.debug_info = Owner
  BY <1>3 DEF IInv, StackMatchesLocation
<1>5. Len(stack) \in DOMAIN stack /\ Back \in ActivationType
  BY <1>4 DEF IInv, TypeOK, Back
<1> QED
  BY <1>2, <1>3, <1>4, <1>5 DEF IInv, CallsLinked, ActivationsDisjoint, Back

-----------------------------------------------------------------------------
(* Words and data *)

\* Clamped addition yields a word that is not negative, also when it wraps.
LEMMA AddClampedIsWord ==
  ASSUME NEW a \in NatWord, NEW c \in Word
  PROVE  AddClamped(a, c) \in NatWord
<1> USE DEF NatWord
<1>1. WrapAdd(a, c) \in -(MaxWord + 1) .. MaxWord
  BY MaxWordAssumption DEF WrapAdd, Word
<1> QED BY <1>1, MaxWordAssumption DEF AddClamped

\* Storing a word into data changes neither its length nor its type.
LEMMA StoreKeepsData ==
  ASSUME data \in Seq(NatWord), NEW cell, NEW word \in NatWord,
         Store(cell, word)
  PROVE  data' \in Seq(NatWord) /\ Len(data') = Len(data)
<1>1. data' = [data EXCEPT ![cell] = word]
  BY DEF Store
<1>2. CASE cell \in 1 .. Len(data)
  BY <1>1, <1>2, ExceptSeq
<1>3. CASE cell \notin 1 .. Len(data)
  <2>1. data' = data
    BY <1>1, <1>3, LenProperties
  <2> QED BY <2>1
<1> QED BY <1>2, <1>3

-----------------------------------------------------------------------------
(* Steps that leave the activations as they are *)

\* A step within the body of the current program that moves no activation and
\* keeps the length of data keeps the invariant.
LEMMA BodyStep ==
  ASSUME IInv,
         Callee = NoFrame,
         Owner # NoFrame,
         InBody(program, cert, Owner, instruction_pointer'),
         data' \in Seq(NatWord),
         Len(data') = Len(data),
         UNCHANGED <<program, settings, stack>>,
         executing' \in BOOLEAN,
         halted_on' \in {"none", "break", "halt"}
  PROVE  IInv'
<1> USE DEF settings
<1>1. cert' = cert /\ program' = program /\ stack' = stack
  BY DEF cert
<1>2. Owner' = Owner /\ Callee' = Callee
  BY <1>1 DEF InBody, Owner, Callee
<1>3. TypeOK'
  BY <1>1 DEF IInv, TypeOK, InBody
<1>4. ActivationsDisjoint'
  BY <1>1 DEF IInv, ActivationsDisjoint
<1>5. StackMatchesLocation'
  BY <1>1, <1>2 DEF IInv, StackMatchesLocation, Back, Caller
<1>6. CallsLinked'
  BY <1>1, <1>2 DEF IInv, CallsLinked
<1>7. CodeIsPatched'
  BY <1>1 DEF IInv, CodeIsPatched, EnabledLocations
<1> QED BY <1>3, <1>4, <1>5, <1>6, <1>7 DEF IInv

LEMMA PotentialBreakKeepsInvariant ==
  ASSUME IInv, ExecPotentialBreak \/ ExecBreak  PROVE IInv'
<1>1. Current.op \in {"POTENTIAL_BREAK", "BREAK"}
  BY DEF ExecPotentialBreak, ExecBreak
<1>2. InBody(program, cert, Owner, instruction_pointer')
  BY <1>1, BodyInstruction, CurrentIsCompiled
     DEF BodyVerified, Owner, ExecPotentialBreak, ExecBreak, PotentialBreak
<1> QED
  BY <1>1, <1>2, BodyInstruction, BodyStep
     DEF ExecPotentialBreak, ExecBreak, ReturnTrue, ReturnFalse, IInv, TypeOK

LEMMA HaltKeepsInvariant ==
  ASSUME IInv, ExecHalt  PROVE IInv'
<1>1. Current.op = "HALT"
  BY DEF ExecHalt
<1>2. InBody(program, cert, Owner, instruction_pointer')
  BY <1>1, BodyInstruction, CurrentIsCompiled
     DEF InBody, BodyVerified, Owner, ExecHalt, machine
<1> QED
  BY <1>1, <1>2, BodyInstruction, BodyStep
     DEF ExecHalt, ReturnTrue, IInv, TypeOK, machine

LEMMA JumpKeepsInvariant ==
  ASSUME IInv, ExecJmp \/ ExecJmpC  PROVE IInv'
<1>1. Current.op \in {"JMP", "JMPC"}
  BY DEF ExecJmp, ExecJmpC
<1>2. InBody(program, cert, Owner, instruction_pointer')
  BY <1>1, BodyInstruction, CurrentIsCompiled
     DEF BodyVerified, Owner, ExecJmp, ExecJmpC
<1> QED
  BY <1>1, <1>2, BodyInstruction, BodyStep
     DEF ExecJmp, ExecJmpC, ReturnFalse, IInv, TypeOK

\* The operands of an instruction of a body are words of data.
LEMMA RegistersAreWords ==
  ASSUME IInv,
         Current.op \notin {"PREPARE_EXEC", "ARG", "EXEC"},
         NEW r \in Registers(cert, Owner)
  PROVE  /\ Cell(Back, r) \in 1 .. Len(data)
         /\ Register(r) \in NatWord
<1>1. Back.data_start \in Nat /\ Back.seg_size \in Nat
  BY BodyInstruction DEF ActivationType
<1>2. r \in 0 .. (Back.seg_size - 1)
  BY BodyInstruction DEF Registers
<1>3. data \in Seq(NatWord) /\ Len(data) \in Nat
  BY DEF IInv, TypeOK
<1>4. Cell(Back, r) \in 1 .. Len(data)
  BY <1>1, <1>2, <1>3, BodyInstruction DEF Cell
<1> QED BY <1>3, <1>4, ElementOfSeq DEF Register

LEMMA ArithmeticKeepsInvariant ==
  ASSUME IInv, ExecAddConst \/ ExecTest \/ ExecConst  PROVE IInv'
<1>1. Current.op \in {"ADD_CONST", "TEST", "CONST"}
  BY DEF ExecAddConst, ExecTest, ExecConst
<1>2. Current = program.code[instruction_pointer]
      /\ Current \in Instruction
  BY <1>1, CurrentIsCompiled
<1>3. InBody(program, cert, Owner, instruction_pointer')
  BY <1>1, <1>2, BodyInstruction
     DEF BodyVerified, Owner, ExecAddConst, ExecTest, ExecConst
<1>4. data' \in Seq(NatWord) /\ Len(data') = Len(data)
  <2>1. CASE ExecAddConst
    <3>1. Current.constant \in Word
      BY <1>2, <2>1 DEF ExecAddConst, Instruction
    <3>2. Current.source \in Registers(cert, Owner)
      BY <1>2, <2>1, BodyInstruction DEF ExecAddConst, BodyVerified, Owner
    <3>3. Register(Current.source) \in NatWord
      BY <1>1, <3>2, RegistersAreWords
    <3>4. AddClamped(Register(Current.source), Current.constant) \in NatWord
      BY <3>1, <3>3, AddClampedIsWord
    <3> QED BY <2>1, <3>4, StoreKeepsData DEF ExecAddConst, IInv, TypeOK
  <2>2. CASE ExecTest
    <3> DEFINE word == IF Register(Current.op1) = Register(Current.op2)
                         THEN 0 ELSE 1
    <3>2. Store(Cell(Back, Current.target), word)
      BY <2>2 DEF ExecTest
    <3>3. word \in NatWord
      BY MaxWordAssumption DEF NatWord
    <3> QED BY <3>2, <3>3, StoreKeepsData DEF IInv, TypeOK
  <2>3. CASE ExecConst
    <3>1. Current.constant \in Word
      BY <1>2, <2>3 DEF ExecConst, Instruction
    <3>2. Current.constant >= 0
      BY <1>2, <2>3, BodyInstruction DEF ExecConst, BodyVerified
    <3>3. Current.constant \in NatWord
      BY <3>1, <3>2, MaxWordAssumption DEF Word, NatWord
    <3> QED BY <2>3, <3>3, StoreKeepsData DEF ExecConst, IInv, TypeOK
  <2> QED BY <2>1, <2>2, <2>3
<1> QED
  BY <1>1, <1>3, <1>4, BodyInstruction, BodyStep
     DEF ExecAddConst, ExecTest, ExecConst, ReturnFalse, IInv, TypeOK

-----------------------------------------------------------------------------
(* Calls *)

\* What the invariant says of a single activation.
LEMMA ActivationFacts ==
  ASSUME IInv, NEW k \in DOMAIN stack
  PROVE  /\ k \in 1 .. Len(stack)
         /\ Len(stack) \in Nat
         /\ stack[k] \in ActivationType
         /\ stack[k].data_start \in Nat
         /\ stack[k].seg_size \in Nat
         /\ stack[k].data_start + stack[k].seg_size <= Len(data)
         /\ stack[k].debug_info \in DOMAIN cert.size
         /\ stack[k].seg_size = cert.size[stack[k].debug_info]
         /\ stack[k].debug_info = cert.root <=> k = 1
<1>1. stack \in Seq(ActivationType) /\ Len(stack) \in Nat
      /\ k \in 1 .. Len(stack)
  BY LenProperties DEF IInv, TypeOK
<1>2. stack[k] \in ActivationType
  BY <1>1, ElementOfSeq
<1> QED
  BY <1>1, <1>2 DEF ActivationType, IInv, ActivationsDisjoint, CallsLinked

\* A register of activation k is a word of data.
LEMMA ActivationRegister ==
  ASSUME IInv, NEW k \in DOMAIN stack,
         NEW r \in Registers(cert, stack[k].debug_info)
  PROVE  /\ Cell(stack[k], r) \in 1 .. Len(data)
         /\ data[Cell(stack[k], r)] \in NatWord
<1>1. r \in 0 .. (stack[k].seg_size - 1)
  BY ActivationFacts DEF Registers
<1>2. data \in Seq(NatWord) /\ Len(data) \in Nat
  BY DEF IInv, TypeOK
<1>3. Cell(stack[k], r) \in 1 .. Len(data)
  BY <1>1, <1>2, ActivationFacts DEF Cell
<1> QED BY <1>2, <1>3, ElementOfSeq

LEMMA CallInstruction ==
  ASSUME IInv, Current.op \in {"ARG", "EXEC"}
  PROVE  /\ CallVerified(program, cert, instruction_pointer)
         /\ Current = program.code[instruction_pointer]
         /\ Callee # NoFrame
         /\ Len(stack) \in DOMAIN stack
         /\ Back.debug_info = Callee
         /\ Owner = NoFrame => Len(stack) = 1
         /\ Owner # NoFrame =>
              /\ Len(stack) - 1 \in DOMAIN stack
              /\ Caller.debug_info = Owner
<1>1. Verified(program, cert)
  BY ProgramVerified DEF IInv, TypeOK
<1>2. CallVerified(program, cert, instruction_pointer)
      /\ Current = program.code[instruction_pointer]
  BY <1>1, CurrentIsCompiled DEF Verified
<1>3. Callee # NoFrame
  BY <1>2 DEF CallVerified, Callee
<1>4. DOMAIN stack = 1 .. Len(stack) /\ Len(stack) \in Nat
  BY LenProperties DEF IInv, TypeOK
<1> QED BY <1>2, <1>3, <1>4 DEF IInv, StackMatchesLocation

LEMMA ArgKeepsInvariant ==
  ASSUME IInv, ExecArg  PROVE IInv'
<1>1. Current.op = "ARG"
  BY DEF ExecArg
<1>2. /\ cert' = cert /\ program' = program /\ stack' = stack
      /\ instruction_pointer' = instruction_pointer + 1
      /\ UNCHANGED settings
  BY DEF cert, ExecArg, ReturnFalse
<1>3. /\ Owner # NoFrame
      /\ Current.source \in Registers(cert, Owner)
      /\ instruction_pointer' \in DOMAIN program.code
      /\ Owner' = Owner
      /\ Callee' = Callee
  BY <1>1, <1>2, CallInstruction DEF CallVerified, Owner, Callee
<1>4. data[Cell(Caller, Current.source)] \in NatWord
  BY <1>1, <1>3, CallInstruction, ActivationRegister DEF Caller
<1>5. data' \in Seq(NatWord) /\ Len(data') = Len(data)
  BY <1>4, StoreKeepsData DEF ExecArg, IInv, TypeOK
<1>6. TypeOK'
  BY <1>2, <1>3, <1>5 DEF IInv, TypeOK, settings, ExecArg, ReturnFalse
<1>7. ActivationsDisjoint'
  BY <1>2, <1>5 DEF IInv, ActivationsDisjoint
<1>8. StackMatchesLocation'
  BY <1>2, <1>3 DEF IInv, StackMatchesLocation, Back, Caller
<1>9. CallsLinked'
  BY <1>2, <1>3 DEF IInv, CallsLinked
<1>10. CodeIsPatched'
  BY <1>2 DEF IInv, CodeIsPatched, EnabledLocations, settings
<1> QED BY <1>6, <1>7, <1>8, <1>9, <1>10 DEF IInv

LEMMA ExecKeepsInvariant ==
  ASSUME IInv, ExecExec  PROVE IInv'
<1> DEFINE n == Len(stack)
<1>1. Current.op = "EXEC"
  BY DEF ExecExec
<1>2. /\ cert' = cert /\ program' = program /\ data' = data
      /\ stack' = [stack EXCEPT ![n].ret_addr = instruction_pointer + 1]
      /\ instruction_pointer' = Current.entry
      /\ UNCHANGED settings
  BY DEF cert, ExecExec, ReturnFalse
<1>3. /\ InBody(program, cert, Callee, instruction_pointer')
      /\ Owner # NoFrame =>
           InBody(program, cert, Owner, instruction_pointer + 1)
  BY <1>1, <1>2, CallInstruction DEF CallVerified, Owner, Callee
<1>4. Owner' = Callee /\ Callee' = NoFrame
  BY <1>2, <1>3 DEF InBody, Owner, Callee
<1>5. n \in Nat /\ DOMAIN stack = 1 .. n /\ n \in 1 .. n
  BY <1>1, CallInstruction, LenProperties DEF IInv, TypeOK
<1>6. instruction_pointer + 1 \in Nat
  <2>1. DOMAIN program.code \subseteq Nat
    BY ProgramVerified DEF IInv, TypeOK, Verified, CertificateShape
  <2> QED BY <2>1 DEF IInv, TypeOK
<1>7. /\ stack' \in Seq(ActivationType)
      /\ Len(stack') = n
      /\ \A k \in 1 .. n :
           /\ stack'[k].data_start = stack[k].data_start
           /\ stack'[k].seg_size = stack[k].seg_size
           /\ stack'[k].ret_target = stack[k].ret_target
           /\ stack'[k].debug_info = stack[k].debug_info
           /\ stack'[k].ret_addr =
                IF k = n THEN instruction_pointer + 1 ELSE stack[k].ret_addr
  <2> DEFINE a == [stack[n] EXCEPT !.ret_addr = instruction_pointer + 1]
  <2>1. stack \in Seq(ActivationType) /\ stack[n] \in ActivationType
    BY <1>5, ElementOfSeq DEF IInv, TypeOK
  <2>2. a \in ActivationType
    BY <1>6, <2>1 DEF ActivationType
  <2>3. stack' = [stack EXCEPT ![n] = a]
    BY <1>2
  <2>4. /\ stack' \in Seq(ActivationType)
        /\ Len(stack') = n
        /\ \A k \in 1 .. n : stack'[k] = IF k = n THEN a ELSE stack[k]
    BY <1>5, <2>1, <2>2, <2>3, ExceptSeq
  <2>5. /\ a.data_start = stack[n].data_start /\ a.seg_size = stack[n].seg_size
        /\ a.ret_target = stack[n].ret_target /\ a.debug_info = stack[n].debug_info
        /\ a.ret_addr = instruction_pointer + 1
    BY <2>1 DEF ActivationType
  <2> HIDE DEF a
  <2>6. ASSUME NEW k \in 1 .. n
        PROVE  /\ stack'[k].data_start = stack[k].data_start
               /\ stack'[k].seg_size = stack[k].seg_size
               /\ stack'[k].ret_target = stack[k].ret_target
               /\ stack'[k].debug_info = stack[k].debug_info
               /\ stack'[k].ret_addr =
                    IF k = n THEN instruction_pointer + 1 ELSE stack[k].ret_addr
    <3>1. CASE k = n
      BY <3>1, <2>4, <2>5
    <3>2. CASE k # n
      BY <3>2, <2>4
    <3> QED BY <3>1, <3>2
  <2> QED BY <2>4, <2>6
<1>8. DOMAIN stack' = 1 .. n
  BY <1>7, LenProperties
<1>9. TypeOK'
  BY <1>2, <1>3, <1>7
     DEF IInv, TypeOK, InBody, settings, ExecExec, ReturnFalse
<1>10. ActivationsDisjoint'
  BY <1>2, <1>5, <1>7, <1>8, SMTT(30) DEF IInv, ActivationsDisjoint
<1>11. StackMatchesLocation'
  <2>1. Back'.debug_info = Callee
    BY <1>1, <1>5, <1>7, CallInstruction DEF Back
  <2>2. Callee # NoFrame
    BY <1>1, CallInstruction
  <2>3. Len(stack') >= 1
    <3>1. n \in Nat /\ n >= 1
      BY <1>5
    <3>2. Len(stack') = n
      BY <1>7
    <3> HIDE DEF n
    <3> QED BY <3>1, <3>2
  <2> QED BY <1>4, <2>1, <2>2, <2>3 DEF StackMatchesLocation
<1>12. CallsLinked'
  <2>1. \A k \in 1 .. n :
          /\ stack'[k].debug_info \in DOMAIN cert.size
          /\ stack'[k].seg_size = cert.size[stack'[k].debug_info]
          /\ stack'[k].debug_info = cert.root <=> k = 1
    BY <1>5, <1>7 DEF IInv, CallsLinked
  <2>2. ASSUME NEW k \in 2 .. n
        PROVE  /\ stack'[k].ret_target < stack'[k - 1].seg_size
               /\ InBody(program, cert, stack'[k - 1].debug_info,
                         stack'[k].ret_addr)
    <3>1. k \in 1 .. n /\ k - 1 \in 1 .. n /\ k - 1 # n
      BY <1>5
    <3>2. CASE k = n
      <4>1. Owner # NoFrame /\ stack[k - 1].debug_info = Owner
        BY <1>1, <1>5, <3>2, CallInstruction DEF Caller
      <4> QED BY <1>3, <1>7, <3>1, <3>2, <4>1 DEF IInv, CallsLinked
    <3>3. CASE k # n
      BY <1>7, <3>1, <3>3 DEF IInv, CallsLinked
    <3> QED BY <3>2, <3>3
  <2> QED BY <1>2, <1>7, <1>8, <2>1, <2>2, SMTT(30) DEF CallsLinked
<1>13. CodeIsPatched'
  BY <1>2 DEF IInv, CodeIsPatched, EnabledLocations, settings
<1> QED BY <1>9, <1>10, <1>11, <1>12, <1>13 DEF IInv

LEMMA PrepareExecKeepsInvariant ==
  ASSUME IInv, ExecPrepareExec  PROVE IInv'
<1> DEFINE n == Len(stack)
           count == Current.count
           a == Activation(Len(data), count, Current.target, -1, Current.index)
<1>1. Current.op = "PREPARE_EXEC"
  BY DEF ExecPrepareExec
<1>2. /\ cert' = cert /\ program' = program
      /\ data' = data \o [k \in 1 .. count |-> 0]
      /\ stack' = Append(stack, a)
      /\ instruction_pointer' = instruction_pointer + 1
      /\ UNCHANGED settings
  BY DEF cert, ExecPrepareExec, ReturnFalse
<1>3. PrepareVerified(program, cert, instruction_pointer)
      /\ Current = program.code[instruction_pointer]
      /\ Current \in Instruction
  BY <1>1, ProgramVerified, CurrentIsCompiled DEF IInv, TypeOK, Verified
<1>4. /\ Callee = NoFrame
      /\ count = cert.size[Current.index]
      /\ Current.index \in DOMAIN cert.size
      /\ Current.index = cert.root <=> Owner = NoFrame
      /\ Owner # NoFrame => Current.target \in Registers(cert, Owner)
  BY <1>3, ProgramVerified
     DEF PrepareVerified, Owner, Callee, IInv, TypeOK, Verified, CertificateShape
<1>5. /\ instruction_pointer' \in DOMAIN program.code
      /\ Owner = NoFrame =>
           \/ Owner' = cert.root /\ Callee' = NoFrame
           \/ Owner' = NoFrame /\ Callee' = cert.root
      /\ Owner # NoFrame => Owner' = Owner /\ Callee' = Current.index
  BY <1>2, <1>3 DEF PrepareVerified, InBody, Owner, Callee
<1>6. cert.root # NoFrame /\ Current.index # NoFrame
  BY <1>3, ProgramVerified
     DEF IInv, TypeOK, Verified, CertificateShape, PrepareVerified, NoFrame
<1>7. count \in Nat /\ Current.target \in Nat /\ Current.index \in Nat
  BY <1>1, <1>3 DEF Instruction
<1>8. /\ stack \in Seq(ActivationType) /\ n \in Nat /\ DOMAIN stack = 1 .. n
      /\ data \in Seq(NatWord) /\ Len(data) \in Nat
  BY LenProperties DEF IInv, TypeOK
<1>9. /\ n = 0 <=> Owner = NoFrame
      /\ Owner # NoFrame => stack[n].debug_info = Owner
  <2>1. stack = <<>> => n = 0
    OBVIOUS
  <2> QED BY <1>4, <1>8, <2>1 DEF IInv, StackMatchesLocation, Back
<1>10. a \in ActivationType
  BY <1>7, <1>8 DEF Activation, ActivationType
<1>11. /\ stack' \in Seq(ActivationType)
       /\ Len(stack') = n + 1
       /\ DOMAIN stack' = 1 .. (n + 1)
       /\ \A k \in 1 .. n : stack'[k] = stack[k]
       /\ stack'[n + 1] = a
  BY <1>2, <1>8, <1>10
<1>12. /\ data' \in Seq(NatWord)
       /\ Len(data') = Len(data) + count
  <2>1. [k \in 1 .. count |-> 0] \in Seq(NatWord)
    BY <1>7, MaxWordAssumption, SeqDef DEF NatWord
  <2>2. Len([k \in 1 .. count |-> 0]) = count
    BY <1>7
  <2> DEFINE zeroes == [k \in 1 .. count |-> 0]
  <2>3. data' = data \o zeroes /\ zeroes \in Seq(NatWord) /\ Len(zeroes) = count
    BY <1>2, <2>1, <2>2
  <2> HIDE DEF zeroes
  <2>4. data \in Seq(NatWord)
    BY <1>8
  <2>5. /\ data \o zeroes \in Seq(NatWord)
        /\ Len(data \o zeroes) = Len(data) + Len(zeroes)
    BY <2>3, <2>4, ConcatProperties
  <2> QED BY <2>3, <2>5
<1>13. TypeOK'
  BY <1>2, <1>5, <1>11, <1>12
     DEF IInv, TypeOK, settings, ExecPrepareExec, ReturnFalse
<1>14. ActivationsDisjoint'
  <2>1. \A k \in 1 .. n :
          /\ stack[k].data_start \in Nat
          /\ stack[k].seg_size \in Nat
          /\ stack[k].data_start + stack[k].seg_size <= Len(data)
    BY <1>8, ActivationFacts
  <2>2. a.data_start = Len(data) /\ a.seg_size = count
    BY DEF Activation
  <2>3. ASSUME NEW k \in 1 .. (n + 1)
        PROVE  stack'[k].data_start + stack'[k].seg_size <= Len(data')
    <3>1. CASE k = n + 1
      BY <1>7, <1>8, <1>11, <1>12, <2>2, <3>1
    <3>2. CASE k # n + 1
      <4>1. k \in 1 .. n
        BY <1>8, <3>2
      <4>2. stack'[k] = stack[k]
        BY <1>11, <4>1
      <4>3. /\ stack[k].data_start \in Nat /\ stack[k].seg_size \in Nat
            /\ stack[k].data_start + stack[k].seg_size <= Len(data)
        BY <2>1, <4>1
      <4>4. Len(data) <= Len(data')
        BY <1>7, <1>8, <1>12
      <4>5. Len(data) \in Nat /\ Len(data') \in Nat
        BY <1>7, <1>8, <1>12
      <4>6. stack[k].data_start + stack[k].seg_size <= Len(data')
        BY ONLY <4>3, <4>4, <4>5
      <4> QED BY ONLY <4>2, <4>6
    <3> QED BY <3>1, <3>2
  <2>4. ASSUME NEW j \in 1 .. (n + 1), NEW k \in 1 .. (n + 1), j < k
        PROVE  stack'[j].data_start + stack'[j].seg_size
                 <= stack'[k].data_start
    <3>1. j \in 1 .. n
      BY <1>8, <2>4
    <3>2. CASE k = n + 1
      BY <1>11, <2>1, <2>2, <3>1, <3>2
    <3>3. CASE k # n + 1
      <4>1. k \in 1 .. n
        BY <1>8, <3>3
      <4> QED BY <1>8, <1>11, <2>4, <3>1, <4>1 DEF IInv, ActivationsDisjoint
    <3> QED BY <3>2, <3>3
  <2> QED BY <1>11, <2>3, <2>4 DEF ActivationsDisjoint
<1>15. StackMatchesLocation'
  <2>1. Back' = a /\ (n > 0 => Caller' = stack[n])
    BY <1>8, <1>11 DEF Back, Caller
  <2>2. a.debug_info = Current.index
    BY DEF Activation
  <2> QED
    BY <1>4, <1>5, <1>6, <1>8, <1>9, <1>11, <2>1, <2>2
       DEF StackMatchesLocation
<1>16. CallsLinked'
  <2>1. /\ a.debug_info = Current.index /\ a.seg_size = count
        /\ a.ret_target = Current.target
    BY DEF Activation
  <2>2. ASSUME NEW k \in 1 .. (n + 1)
        PROVE  /\ stack'[k].debug_info \in DOMAIN cert.size
               /\ stack'[k].seg_size = cert.size[stack'[k].debug_info]
               /\ stack'[k].debug_info = cert.root <=> k = 1
    <3>1. CASE k = n + 1
      <4>1. k = 1 <=> n = 0
        BY <1>8, <3>1
      <4> QED BY <1>4, <1>9, <1>11, <2>1, <3>1, <4>1
    <3>2. CASE k # n + 1
      <4>1. k \in 1 .. n
        BY <1>8, <3>2
      <4> QED BY <1>8, <1>11, <4>1, ActivationFacts
    <3> QED BY <3>1, <3>2
  <2>3. ASSUME NEW k \in 2 .. (n + 1)
        PROVE  /\ stack'[k].ret_target < stack'[k - 1].seg_size
               /\ \/ InBody(program, cert, stack'[k - 1].debug_info,
                            stack'[k].ret_addr)
                  \/ k = n + 1 /\ Callee' # NoFrame
    <3>1. k - 1 \in 1 .. n
      BY <1>8
    <3>2. CASE k = n + 1
      <4>1. Owner # NoFrame /\ k - 1 = n
        BY <1>8, <1>9, <3>2
      <4>2. stack[n].seg_size = cert.size[Owner] /\ stack[n].seg_size \in Nat
        BY <1>8, <1>9, <3>1, <4>1, ActivationFacts
      <4>3. Current.target < stack[n].seg_size
        BY <1>4, <1>7, <4>1, <4>2 DEF Registers
      <4> QED BY <1>5, <1>6, <1>11, <2>1, <3>1, <3>2, <4>1, <4>3
    <3>3. CASE k # n + 1
      <4>1. k \in 2 .. n
        BY <1>8, <3>3
      <4> QED BY <1>4, <1>8, <1>11, <3>1, <4>1 DEF IInv, CallsLinked
    <3> QED BY <3>2, <3>3
  <2> QED BY <1>2, <1>11, <2>2, <2>3 DEF CallsLinked
<1>17. CodeIsPatched'
  BY <1>2 DEF IInv, CodeIsPatched, EnabledLocations, settings
<1> QED BY <1>13, <1>14, <1>15, <1>16, <1>17 DEF IInv

\* A program other than the root has its caller below it, into whose body it
\* returns.
LEMMA RetInstruction ==
  ASSUME IInv, Current.op = "RET"
  PROVE  /\ Len(stack) \in Nat
         /\ DOMAIN stack = 1 .. Len(stack)
         /\ Len(stack) >= 2
         /\ Current.source \in Registers(cert, Back.debug_info)
         /\ Back.ret_target \in Registers(cert, Caller.debug_info)
         /\ InBody(program, cert, Caller.debug_info, Back.ret_addr)
<1> DEFINE n == Len(stack)
<1>1. Current = program.code[instruction_pointer]
  BY CurrentIsCompiled
<1>2. /\ Owner # cert.root
      /\ Current.source \in Registers(cert, Owner)
      /\ Back.debug_info = Owner
      /\ Callee = NoFrame
      /\ n >= 1
  BY <1>1, BodyInstruction DEF BodyVerified, Owner
<1>3. n \in Nat /\ DOMAIN stack = 1 .. n
  BY LenProperties DEF IInv, TypeOK
<1>4. n # 1
  BY <1>2, <1>3, ActivationFacts DEF Back
<1>5. n \in 2 .. n /\ n - 1 \in DOMAIN stack /\ n \in DOMAIN stack
  BY <1>2, <1>3, <1>4
<1>6. /\ Back.ret_target < Caller.seg_size
      /\ InBody(program, cert, Caller.debug_info, Back.ret_addr)
  BY <1>2, <1>5 DEF IInv, CallsLinked, Back, Caller
<1>7. Back.ret_target \in Nat
  BY <1>5, ActivationFacts DEF ActivationType, Back
<1>8. Caller.seg_size = cert.size[Caller.debug_info] /\ Caller.seg_size \in Nat
  BY <1>5, ActivationFacts DEF Caller
<1>9. Back.ret_target \in Registers(cert, Caller.debug_info)
  BY <1>6, <1>7, <1>8 DEF Registers
<1> QED BY <1>2, <1>3, <1>5, <1>6, <1>9

LEMMA RetKeepsInvariant ==
  ASSUME IInv, ExecRet  PROVE IInv'
<1> DEFINE n == Len(stack)
<1>1. Current.op = "RET"
  BY DEF ExecRet
<1>2. /\ cert' = cert /\ program' = program
      /\ stack' = SubSeq(stack, 1, n - 1)
      /\ instruction_pointer' = Back.ret_addr
      /\ UNCHANGED settings
  BY DEF cert, ExecRet, ReturnFalse
<1>3. /\ n \in Nat /\ DOMAIN stack = 1 .. n /\ n >= 2
      /\ InBody(program, cert, Caller.debug_info, instruction_pointer')
  BY <1>1, <1>2, RetInstruction
<1>4. Owner' = Caller.debug_info /\ Callee' = NoFrame
  BY <1>2, <1>3 DEF InBody, Owner, Callee
<1>5. n \in DOMAIN stack /\ n - 1 \in DOMAIN stack
  BY <1>3
<1>6. /\ stack' \in Seq(ActivationType)
      /\ Len(stack') = n - 1
      /\ DOMAIN stack' = 1 .. (n - 1)
      /\ \A k \in 1 .. (n - 1) : stack'[k] = stack[k]
  <2>1. \A k \in 1 .. (n - 1) : stack[k] \in ActivationType
    BY <1>3, ActivationFacts
  <2> QED BY <1>2, <1>3, <2>1, SubSeqProperties, LenProperties
<1>7. data' \in Seq(NatWord) /\ Len(data') = Len(data)
  <2>1. Register(Current.source) \in NatWord
    BY <1>1, <1>5, RetInstruction, ActivationRegister DEF Back, Register
  <2> QED BY <2>1, StoreKeepsData DEF ExecRet, IInv, TypeOK
<1>8. Caller.debug_info # NoFrame
  BY <1>5, ActivationFacts, ProgramVerified
     DEF Caller, IInv, TypeOK, Verified, CertificateShape, NoFrame
<1>9. TypeOK'
  BY <1>2, <1>3, <1>6, <1>7
     DEF IInv, TypeOK, InBody, settings, ExecRet, ReturnFalse
<1>14. \A k \in 1 .. (n - 1) : k \in DOMAIN stack
  BY <1>3
<1>10. ActivationsDisjoint'
  <2>1. ASSUME NEW k \in 1 .. (n - 1)
        PROVE  stack'[k].data_start + stack'[k].seg_size <= Len(data')
    BY <1>6, <1>7, <1>14, ActivationFacts
  <2>2. ASSUME NEW j \in 1 .. (n - 1), NEW k \in 1 .. (n - 1), j < k
        PROVE  stack'[j].data_start + stack'[j].seg_size
                 <= stack'[k].data_start
    BY <1>6, <1>14, <2>2 DEF IInv, ActivationsDisjoint
  <2> QED BY <1>6, <2>1, <2>2 DEF ActivationsDisjoint
<1>11. StackMatchesLocation'
  <2>1. Back' = Caller
    BY <1>3, <1>6 DEF Back, Caller
  <2> QED BY <1>3, <1>4, <1>6, <1>8, <2>1 DEF StackMatchesLocation
<1>12. CallsLinked'
  <2>1. ASSUME NEW k \in 1 .. (n - 1)
        PROVE  /\ stack'[k].debug_info \in DOMAIN cert.size
               /\ stack'[k].seg_size = cert.size[stack'[k].debug_info]
               /\ stack'[k].debug_info = cert.root <=> k = 1
    BY <1>6, <1>14, ActivationFacts
  <2>2. ASSUME NEW k \in 2 .. (n - 1)
        PROVE  /\ stack'[k].ret_target < stack'[k - 1].seg_size
               /\ InBody(program, cert, stack'[k - 1].debug_info,
                         stack'[k].ret_addr)
    <3>1. /\ k \in 2 .. n /\ k # n
          /\ k \in 1 .. (n - 1) /\ k - 1 \in 1 .. (n - 1)
      <4>1. n \in Nat /\ n >= 2
        BY <1>3
      <4> HIDE DEF n
      <4> QED BY <4>1
    <3> QED BY <1>6, <3>1 DEF IInv, CallsLinked
  <2> QED BY <1>2, <1>6, <2>1, <2>2 DEF CallsLinked
<1>13. CodeIsPatched'
  BY <1>2 DEF IInv, CodeIsPatched, EnabledLocations, settings
<1> QED BY <1>9, <1>10, <1>11, <1>12, <1>13 DEF IInv

-----------------------------------------------------------------------------
(* The methods of the interface *)

\* Methods that only change settings keep what the machine has computed.
LEMMA SettingsStep ==
  ASSUME IInv,
         UNCHANGED <<program, instruction_pointer, data, stack, halted_on>>,
         code' \in [DOMAIN program.code -> Instruction],
         stepping_mode_enabled' \in BOOLEAN,
         enabled_breakpoints' \subseteq DOMAIN program.potential_breaks,
         executing' \in BOOLEAN,
         CodeIsPatched'
  PROVE  IInv'
<1>1. cert' = cert /\ Owner' = Owner /\ Callee' = Callee
  BY DEF cert, Owner, Callee
<1>2. TypeOK'
  BY DEF IInv, TypeOK
<1>3. ActivationsDisjoint'
  BY DEF IInv, ActivationsDisjoint
<1>4. StackMatchesLocation'
  BY <1>1 DEF IInv, StackMatchesLocation, Back, Caller
<1>5. CallsLinked'
  BY <1>1 DEF IInv, CallsLinked
<1> QED BY <1>2, <1>3, <1>4, <1>5 DEF IInv

\* An instruction that one of the program's breakpoints names is a
\* POTENTIAL_BREAK, and is so for this breakpoint only.
LEMMA BreakpointLocations ==
  ASSUME IInv, NEW bp \in DOMAIN program.potential_breaks,
         NEW i \in program.potential_breaks[bp]
  PROVE  /\ i \in DOMAIN program.code
         /\ program.code[i] = PotentialBreak
         /\ code[i] \in {Break, PotentialBreak}
         /\ \A other \in DOMAIN program.potential_breaks :
              i \in program.potential_breaks[other] => other = bp
<1>1. BreaksSound(program)
  BY ProgramVerified DEF IInv, TypeOK
<1>2. i \in DOMAIN program.code /\ program.code[i] = PotentialBreak
  BY <1>1 DEF BreaksSound
<1>3. code[i] \in {Break, PotentialBreak}
  BY <1>2 DEF IInv, CodeIsPatched
<1>4. \A other \in DOMAIN program.potential_breaks :
        i \in program.potential_breaks[other] => other = bp
  BY <1>1 DEF BreaksSound
<1> QED BY <1>2, <1>3, <1>4

LEMMA SetBreakPointKeepsInvariant ==
  ASSUME IInv,
         NEW bp \in DOMAIN program.potential_breaks, NEW value \in BOOLEAN,
         setBreakPoint(bp, value)
  PROVE  IInv'
<1> DEFINE locs == program.potential_breaks[bp]
           op == IF value THEN "BREAK" ELSE "POTENTIAL_BREAK"
<1>1. /\ UNCHANGED <<program, instruction_pointer, data, stack, halted_on,
                     stepping_mode_enabled, executing>>
      /\ enabled_breakpoints' = IF value THEN enabled_breakpoints \cup {bp}
                                         ELSE enabled_breakpoints \ {bp}
      /\ code' = Patched(locs, op)
  BY DEF setBreakPoint, machine
<1>2. enabled_breakpoints' \subseteq DOMAIN program.potential_breaks
  BY <1>1 DEF IInv, TypeOK
<1>3. DOMAIN code = DOMAIN program.code
  BY DEF IInv, TypeOK
<1>4. \A i \in DOMAIN program.code :
        code'[i] = IF i \in locs
                     THEN IF value THEN Break ELSE PotentialBreak
                     ELSE code[i]
  <2>1. \A i \in locs : /\ [code[i] EXCEPT !.op = "BREAK"] = Break
                        /\ [code[i] EXCEPT !.op = "POTENTIAL_BREAK"]
                             = PotentialBreak
    BY BreakpointLocations DEF Break, PotentialBreak
  <2> QED BY <1>1, <1>3, <2>1 DEF Patched
<1>5. code' \in [DOMAIN program.code -> Instruction]
  <2>1. Break \in Instruction /\ PotentialBreak \in Instruction
    BY DEF Break, PotentialBreak, Instruction
  <2>2. \A i \in DOMAIN program.code : code'[i] \in Instruction
    BY <1>4, <2>1 DEF IInv, TypeOK
  <2>3. code' = [i \in DOMAIN program.code |-> code'[i]]
    BY <1>1, <1>3 DEF Patched
  <2> QED BY <2>2, <2>3
<1>6. CodeIsPatched'
  <2>1. ASSUME NEW i \in DOMAIN program.code
        PROVE  i \in EnabledLocations' <=>
                 IF i \in locs THEN value ELSE i \in EnabledLocations
    BY <1>1, BreakpointLocations DEF EnabledLocations, IInv, TypeOK
  <2>2. \A i \in locs : program.code[i] = PotentialBreak
    BY BreakpointLocations
  <2> QED BY <1>1, <1>4, <2>1, <2>2 DEF CodeIsPatched, IInv
<1> QED BY <1>1, <1>2, <1>5, <1>6, SettingsStep DEF IInv, TypeOK

\* clearBreakpoints leaves the code as the compiler emitted it.
LEMMA RemoveBreakpointsRestoresCode ==
  ASSUME IInv, RemoveBreakpoints  PROVE code' = program.code
<1>1. DOMAIN code = DOMAIN program.code
  BY DEF IInv, TypeOK
<1>2. ASSUME NEW i \in DOMAIN program.code  PROVE code'[i] = program.code[i]
  <2>1. CASE i \in EnabledLocations
    <3>1. PICK bp \in enabled_breakpoints : i \in program.potential_breaks[bp]
      BY <2>1 DEF EnabledLocations
    <3>2. program.code[i] = PotentialBreak /\ code[i] \in {Break, PotentialBreak}
      BY <3>1, BreakpointLocations DEF IInv, TypeOK
    <3>3. code'[i] = [code[i] EXCEPT !.op = "POTENTIAL_BREAK"]
      BY <1>1, <2>1 DEF RemoveBreakpoints, Patched
    <3> QED BY <3>2, <3>3 DEF Break, PotentialBreak
  <2>2. CASE i \notin EnabledLocations
    BY <1>1, <2>2 DEF RemoveBreakpoints, Patched, IInv, CodeIsPatched
  <2> QED BY <2>1, <2>2
<1>3. code' = [i \in DOMAIN program.code |-> code'[i]]
  BY <1>1 DEF RemoveBreakpoints, Patched
<1>4. program.code = [i \in DOMAIN program.code |-> program.code[i]]
  BY ProgramVerified DEF IInv, TypeOK, Verified
<1> QED BY <1>2, <1>3, <1>4

LEMMA ClearKeepsInvariant ==
  ASSUME IInv, clearBreakpoints  PROVE IInv'
<1>1. /\ UNCHANGED <<program, instruction_pointer, data, stack, halted_on,
                     stepping_mode_enabled, executing>>
      /\ RemoveBreakpoints
  BY DEF clearBreakpoints, machine
<1>2. code' = program.code /\ enabled_breakpoints' = {}
  BY <1>1, RemoveBreakpointsRestoresCode DEF RemoveBreakpoints
<1>3. code' \in [DOMAIN program.code -> Instruction]
  BY <1>2, ProgramVerified DEF IInv, TypeOK, Verified
<1>4. CodeIsPatched'
  BY <1>1, <1>2 DEF CodeIsPatched, EnabledLocations
<1> QED BY <1>1, <1>2, <1>3, <1>4, SettingsStep DEF IInv, TypeOK

LEMMA ResetKeepsInvariant ==
  ASSUME IInv, reset  PROVE IInv'
<1>1. /\ program' = program /\ cert' = cert /\ code' = program.code
      /\ instruction_pointer' = 0 /\ data' = <<>> /\ stack' = <<>>
      /\ stepping_mode_enabled' = FALSE /\ enabled_breakpoints' = {}
      /\ executing' = executing /\ halted_on' = "none"
  BY RemoveBreakpointsRestoresCode DEF reset, RemoveBreakpoints, cert
<1>2. Verified(program, cert)
  BY ProgramVerified DEF IInv, TypeOK
<1>3. 0 \in DOMAIN program.code /\ Owner' = NoFrame /\ Callee' = NoFrame
  BY <1>1, <1>2 DEF Verified, CertificateShape, Owner, Callee
<1>4. Len(stack') = 0 /\ DOMAIN stack' = {} /\ 2 .. Len(stack') = {}
  BY <1>1
<1>5. TypeOK'
  BY <1>1, <1>2, <1>3, EmptySeq DEF IInv, TypeOK, Verified
<1>6. ActivationsDisjoint' /\ CallsLinked'
  BY <1>4 DEF ActivationsDisjoint, CallsLinked
<1>7. StackMatchesLocation'
  BY <1>1, <1>3 DEF StackMatchesLocation
<1>8. CodeIsPatched'
  BY <1>1 DEF CodeIsPatched, EnabledLocations
<1> QED BY <1>5, <1>6, <1>7, <1>8 DEF IInv

-----------------------------------------------------------------------------
(* The invariant *)

\* A freshly constructed machine satisfies the invariant.
LEMMA InitEstablishesInvariant == Init => IInv
<1> SUFFICES ASSUME Init PROVE IInv
  OBVIOUS
<1>1. Verified(program, cert)
  BY ProgramVerified DEF Init
<1>2. 0 \in DOMAIN program.code /\ Owner = NoFrame /\ Callee = NoFrame
  BY <1>1 DEF Init, Verified, CertificateShape, Owner, Callee
<1>3. Len(stack) = 0 /\ DOMAIN stack = {} /\ 2 .. Len(stack) = {}
  BY DEF Init
<1>4. TypeOK
  BY <1>1, <1>2, EmptySeq DEF Init, TypeOK, Verified
<1>5. ActivationsDisjoint /\ CallsLinked
  BY <1>3 DEF ActivationsDisjoint, CallsLinked
<1>6. StackMatchesLocation
  BY <1>2 DEF Init, StackMatchesLocation
<1>7. CodeIsPatched
  BY DEF Init, CodeIsPatched, EnabledLocations
<1> QED BY <1>4, <1>5, <1>6, <1>7 DEF IInv

LEMMA StutterKeepsInvariant ==
  ASSUME IInv, UNCHANGED vars  PROVE IInv'
<1>1. UNCHANGED <<program, code, instruction_pointer, data, stack,
                  stepping_mode_enabled, enabled_breakpoints, executing,
                  halted_on>>
  BY DEF vars, machine, settings
<1>2. CodeIsPatched'
  BY <1>1 DEF IInv, CodeIsPatched, EnabledLocations
<1> QED BY <1>1, <1>2, SettingsStep DEF IInv, TypeOK

LEMMA StepKeepsInvariant == IInv /\ [Next]_vars => IInv'
<1> SUFFICES ASSUME IInv, [Next]_vars PROVE IInv'
  OBVIOUS
<1>1. CASE executeSingle
  BY <1>1, PotentialBreakKeepsInvariant, HaltKeepsInvariant,
     ArithmeticKeepsInvariant, JumpKeepsInvariant, PrepareExecKeepsInvariant,
     ArgKeepsInvariant, ExecKeepsInvariant, RetKeepsInvariant
     DEF executeSingle
<1>2. CASE execute \/ \E mode \in BOOLEAN : setSteppingMode(mode)
  <2>1. UNCHANGED <<program, instruction_pointer, data, stack, halted_on, code,
                    enabled_breakpoints>>
        /\ stepping_mode_enabled' \in BOOLEAN /\ executing' \in BOOLEAN
    BY <1>2 DEF execute, setSteppingMode, machine, settings, IInv, TypeOK
  <2>2. CodeIsPatched'
    BY <2>1 DEF IInv, CodeIsPatched, EnabledLocations
  <2> QED BY <2>1, <2>2, SettingsStep DEF IInv, TypeOK
<1>3. CASE \E bp \in getAvailableBreakpoints, value \in BOOLEAN :
             setBreakPoint(bp, value)
  BY <1>3, SetBreakPointKeepsInvariant DEF getAvailableBreakpoints
<1>4. CASE clearBreakpoints
  BY <1>4, ClearKeepsInvariant
<1>5. CASE reset
  BY <1>5, ResetKeepsInvariant
<1>6. CASE UNCHANGED vars
  BY <1>6, StutterKeepsInvariant
<1> QED BY <1>1, <1>2, <1>3, <1>4, <1>5, <1>6 DEF Next, Client

\* The machine keeps its invariant whatever its client does.
THEOREM Invariant == Spec => []IInv
BY InitEstablishesInvariant, StepKeepsInvariant, PTL DEF Spec

\* Every variable keeps its type: the instruction pointer never leaves the
\* code, no word of data is ever negative.
THEOREM TypeCorrect == Spec => []TypeOK
<1>1. IInv => TypeOK
  BY DEF IInv
<1> QED BY <1>1, Invariant, PTL

\* Live activations never share a word of data.
THEOREM Isolation == Spec => []ActivationsDisjoint
<1>1. IInv => ActivationsDisjoint
  BY DEF IInv
<1> QED BY <1>1, Invariant, PTL

\* The stack is that of the program whose code is executed.
THEOREM StackShape == Spec => []StackMatchesLocation
<1>1. IInv => StackMatchesLocation
  BY DEF IInv
<1> QED BY <1>1, Invariant, PTL

\* Calls find their way back: sizes, return addresses and return registers fit
\* the programs on the stack.
THEOREM Linkage == Spec => []CallsLinked
<1>1. IInv => CallsLinked
  BY DEF IInv
<1> QED BY <1>1, Invariant, PTL

\* A location holds a BREAK exactly if an enabled breakpoint names it.
THEOREM Transparency == Spec => []CodeIsPatched
<1>1. IInv => CodeIsPatched
  BY DEF IInv
<1> QED BY <1>1, Invariant, PTL

-----------------------------------------------------------------------------
(* Memory safety *)

LEMMA InvariantKeepsOperandsInside == IInv => OperandsInSegment
<1> SUFFICES ASSUME IInv PROVE OperandsInSegment
  OBVIOUS
<1>1. CASE Current.op \notin {"PREPARE_EXEC", "ARG", "EXEC"}
  <2>1. Back.seg_size = cert.size[Owner] /\ Back.seg_size \in Nat
        /\ Len(stack) >= 1
    BY <1>1, BodyInstruction DEF ActivationType
  <2>2. \A r \in BackOperands(Current) : r \in Registers(cert, Owner)
    BY <1>1, BodyInstruction, CurrentIsCompiled
       DEF BackOperands, BodyVerified, Owner
  <2>3. \A r \in BackOperands(Current) : r < Back.seg_size
    BY <2>1, <2>2 DEF Registers
  <2>4. CASE Current.op = "RET"
    <3>1. Len(stack) - 1 \in DOMAIN stack
      BY <2>4, RetInstruction
    <3>2. Caller.seg_size = cert.size[Caller.debug_info]
          /\ Caller.seg_size \in Nat
      BY <3>1, ActivationFacts DEF Caller
    <3>3. Back.ret_target < Caller.seg_size
      BY <2>4, <3>2, RetInstruction DEF Registers
    <3> QED BY <2>1, <2>3, <2>4, <3>3, RetInstruction
            DEF OperandsInSegment, CallerOperands
  <2>5. CASE Current.op # "RET"
    BY <1>1, <2>1, <2>3, <2>5 DEF OperandsInSegment, CallerOperands
  <2> QED BY <2>4, <2>5
<1>2. CASE Current.op = "PREPARE_EXEC"
  BY <1>2 DEF OperandsInSegment, BackOperands, CallerOperands
<1>3. CASE Current.op = "EXEC"
  <2>1. Len(stack) >= 1
    BY <1>3, CallInstruction, ActivationFacts
  <2> QED BY <1>3, <2>1 DEF OperandsInSegment, BackOperands, CallerOperands
<1>4. CASE Current.op = "ARG"
  <2>1. /\ Len(stack) \in DOMAIN stack /\ Len(stack) - 1 \in DOMAIN stack
        /\ Current.source \in Registers(cert, Caller.debug_info)
        /\ Current.target \in Registers(cert, Back.debug_info)
    BY <1>4, CallInstruction DEF CallVerified, Owner, Callee
  <2>2. Len(stack) >= 2
    BY <2>1, ActivationFacts
  <2>3. /\ Back.seg_size = cert.size[Back.debug_info] /\ Back.seg_size \in Nat
        /\ Caller.seg_size = cert.size[Caller.debug_info]
        /\ Caller.seg_size \in Nat
    BY <2>1, ActivationFacts DEF Back, Caller
  <2>4. Current.source < Caller.seg_size /\ Current.target < Back.seg_size
    BY <2>1, <2>3 DEF Registers
  <2> QED BY <1>4, <2>2, <2>4
          DEF OperandsInSegment, BackOperands, CallerOperands
<1> QED BY <1>1, <1>2, <1>3, <1>4

\* No instruction ever reads or writes outside the segment of the activation
\* whose register it names.
THEOREM MemorySafety == Spec => []OperandsInSegment
BY InvariantKeepsOperandsInside, Invariant, PTL

-----------------------------------------------------------------------------
(* Stopping and resetting *)

LEMMA StepStopsWhereAsked ==
  ASSUME IInv, executeSingle
  PROVE  LET asked == instruction_pointer \in EnabledLocations
         IN  /\ halted_on' = "break" <=>
                  /\ program.code[instruction_pointer] = PotentialBreak
                  /\ stepping_mode_enabled \/ asked
             /\ asked => getCurrentBreak' \in enabled_breakpoints
<1> DEFINE i == instruction_pointer
           asked == i \in EnabledLocations
<1>1. i \in DOMAIN program.code
      /\ Current = IF asked THEN Break ELSE program.code[i]
  BY DEF IInv, TypeOK, CodeIsPatched, Current
<1>2. CASE asked
  <2>1. PICK bp \in enabled_breakpoints : i \in program.potential_breaks[bp]
    BY <1>2 DEF EnabledLocations
  <2>2. program.code[i] = PotentialBreak
        /\ i \in DOMAIN program.line_info /\ program.line_info[i] = bp
    BY <2>1, ProgramVerified DEF BreaksSound, IInv, TypeOK
  <2>3. Current.op = "BREAK"
    BY <1>1, <1>2 DEF Break
  <2>4. ExecBreak
    BY <2>3 DEF executeSingle, ExecPotentialBreak, ExecHalt, ExecAddConst,
                ExecTest, ExecConst, ExecJmp, ExecJmpC, ExecPrepareExec,
                ExecArg, ExecExec, ExecRet
  <2>5. halted_on' = "break" /\ instruction_pointer' = i + 1
        /\ program' = program
    BY <2>4 DEF ExecBreak, ReturnTrue
  <2>6. i \in Int
    BY <1>1, ProgramVerified DEF IInv, TypeOK, Verified, CertificateShape
  <2>7. (i + 1) - 1 = i
    BY <2>6
  <2>8. getCurrentBreak' = bp
    BY <2>2, <2>5, <2>7 DEF getCurrentBreak
  <2> QED BY <1>2, <2>2, <2>5, <2>8
<1>3. CASE ~ asked
  <2>1. Current = program.code[i] /\ Current \in Instruction
        /\ Current.op # "BREAK"
    BY <1>1, <1>3, ProgramVerified, CurrentIsCompiled
       DEF Verified, IInv, TypeOK
  <2>2. program.code[i] = PotentialBreak <=> Current.op = "POTENTIAL_BREAK"
    BY <2>1, CurrentIsCompiled DEF PotentialBreak
  <2>3. halted_on' = "break" <=>
          Current.op = "POTENTIAL_BREAK" /\ stepping_mode_enabled
    <3>1. CASE ExecPotentialBreak
      BY <3>1 DEF ExecPotentialBreak, ReturnTrue, ReturnFalse
    <3>2. CASE ExecBreak
      BY <2>1, <3>2 DEF ExecBreak
    <3>3. CASE ExecHalt
      BY <3>3 DEF ExecHalt, ReturnTrue
    <3>4. CASE \/ ExecAddConst \/ ExecTest \/ ExecConst \/ ExecJmp \/ ExecJmpC
               \/ ExecPrepareExec \/ ExecArg \/ ExecExec \/ ExecRet
      BY <3>4 DEF ExecAddConst, ExecTest, ExecConst, ExecJmp, ExecJmpC,
                  ExecPrepareExec, ExecArg, ExecExec, ExecRet, ReturnFalse
    <3> QED BY <3>1, <3>2, <3>3, <3>4 DEF executeSingle
  <2> QED BY <1>3, <2>2, <2>3
<1> QED BY <1>2, <1>3

\* The machine stops at a breakpoint exactly if it was asked to.
THEOREM Stops == Spec => StopsWhereAsked
<1>1. IInv /\ [Next]_vars =>
        [executeSingle =>
           LET asked == instruction_pointer \in EnabledLocations
           IN  /\ halted_on' = "break" <=>
                    /\ program.code[instruction_pointer] = PotentialBreak
                    /\ stepping_mode_enabled \/ asked
               /\ asked => getCurrentBreak' \in enabled_breakpoints]_vars
  BY StepStopsWhereAsked
<1> QED BY <1>1, Invariant, PTL DEF Spec, StopsWhereAsked

LEMMA ResetIsInitial ==
  ASSUME IInv, reset
  PROVE  /\ code' = program.code
         /\ machine' = <<0, <<>>, <<>>>>
         /\ ~ stepping_mode_enabled'
         /\ enabled_breakpoints' = {}
BY RemoveBreakpointsRestoresCode DEF reset, RemoveBreakpoints, machine

\* reset makes the machine a fresh one.
THEOREM ResetIsFresh == Spec => ResetRestoresInitialState
<1>1. IInv /\ [Next]_vars =>
        [reset =>
           /\ code' = program.code
           /\ machine' = <<0, <<>>, <<>>>>
           /\ ~ stepping_mode_enabled'
           /\ enabled_breakpoints' = {}]_vars
  BY ResetIsInitial
<1> QED BY <1>1, Invariant, PTL DEF Spec, ResetRestoresInitialState

-----------------------------------------------------------------------------
(* Depth of the stack                                                       *)

\* Each call is of a program with a smaller stack map, so position and stack
\* map of an activation never add up to more than they do for the root.
DepthInvariant ==
  CallsDescend(program, cert) =>
    \A k \in DOMAIN stack : stack[k].debug_info + k <= cert.root + 1

LEMMA DepthOfInitial == Init => DepthInvariant
BY DEF Init, DepthInvariant

LEMMA DepthOfStep == IInv /\ DepthInvariant /\ [Next]_vars => DepthInvariant'
<1> SUFFICES ASSUME IInv, DepthInvariant, [Next]_vars,
                    CallsDescend(program, cert)',
                    NEW k \in DOMAIN stack'
             PROVE  stack'[k].debug_info + k <= cert'.root + 1
  BY DEF DepthInvariant
<1> DEFINE n == Len(stack)
<1>1. program' = program /\ cert' = cert
  BY DEF vars, Next, Client, executeSingle, ExecPotentialBreak, ExecBreak,
         ExecHalt, ExecAddConst, ExecTest, ExecConst, ExecJmp, ExecJmpC,
         ExecPrepareExec, ExecArg, ExecExec, ExecRet, ReturnTrue, ReturnFalse,
         execute, setSteppingMode, setBreakPoint, clearBreakpoints, reset, cert
<1>2. \A j \in DOMAIN stack : stack[j].debug_info + j <= cert.root + 1
  BY <1>1 DEF DepthInvariant
<1>3. /\ stack \in Seq(ActivationType) /\ n \in Nat /\ DOMAIN stack = 1 .. n
  BY LenProperties DEF IInv, TypeOK
<1>4. CASE UNCHANGED stack
  BY <1>1, <1>2, <1>4
<1>5. CASE ExecExec
  <2>1. stack' = [stack EXCEPT ![n].ret_addr = instruction_pointer + 1]
    BY <1>5 DEF ExecExec
  <2>2. k \in DOMAIN stack /\ stack[k] \in ActivationType
    BY <1>3, <2>1, ElementOfSeq
  <2>3. stack'[k].debug_info = stack[k].debug_info
    BY <2>1, <2>2 DEF ActivationType
  <2> QED BY <1>1, <1>2, <2>2, <2>3
<1>6. CASE ExecRet
  <2>1. stack' = SubSeq(stack, 1, n - 1) /\ Current.op = "RET"
    BY <1>6 DEF ExecRet
  <2>2. n >= 2
    BY <2>1, RetInstruction
  <2>3. DOMAIN stack' = 1 .. (n - 1)
        /\ \A j \in 1 .. (n - 1) : stack'[j] = stack[j] /\ j \in DOMAIN stack
    <3>1. \A j \in 1 .. (n - 1) : stack[j] \in ActivationType
                                /\ j \in DOMAIN stack
      BY <1>3, ElementOfSeq
    <3> QED BY <1>3, <2>1, <2>2, <3>1, SubSeqProperties, LenProperties
  <2> QED BY <1>1, <1>2, <2>3
<1>7. CASE ExecPrepareExec
  <2> DEFINE a == Activation(Len(data), Current.count, Current.target, -1,
                             Current.index)
  <2>1. stack' = Append(stack, a) /\ Current.op = "PREPARE_EXEC"
    BY <1>7 DEF ExecPrepareExec
  <2>2. /\ DOMAIN stack' = 1 .. (n + 1)
        /\ stack'[n + 1].debug_info = Current.index
        /\ \A j \in 1 .. n : stack'[j] = stack[j]
    <3>1. a.debug_info = Current.index
      BY DEF Activation
    <3> HIDE DEF a
    <3> QED BY <1>3, <2>1, <3>1
  <2>3. /\ instruction_pointer \in DOMAIN program.code
        /\ Current = program.code[instruction_pointer]
        /\ PrepareVerified(program, cert, instruction_pointer)
        /\ Current.index \in Nat
        /\ Callee = NoFrame
    BY <2>1, CurrentIsCompiled, ProgramVerified
       DEF IInv, TypeOK, Verified, PrepareVerified, Callee, Instruction
  <2>4. CASE k = n + 1
    <3>1. CASE Owner = NoFrame
      <4>1. n = 0 /\ Current.index = cert.root
        BY <2>3, <3>1 DEF IInv, StackMatchesLocation, PrepareVerified, Owner
      <4> QED BY <1>1, <2>2, <2>3, <2>4, <4>1
    <3>2. CASE Owner # NoFrame
      <4>1. n >= 1 /\ stack[n].debug_info = Owner
        BY <2>3, <3>2 DEF IInv, StackMatchesLocation, Back
      <4>2. Current.index < Owner
        BY <1>1, <2>1, <2>3, <3>2 DEF CallsDescend, Owner
      <4>3. n \in DOMAIN stack /\ Owner \in Nat
        BY <1>3, <4>1, ActivationFacts DEF ActivationType
      <4>4. Owner + n <= cert.root + 1
        BY <1>2, <4>1, <4>3
      <4>5. cert.root \in Nat
        BY ProgramVerified DEF IInv, TypeOK, Verified, CertificateShape
      <4> QED BY <1>1, <1>3, <2>2, <2>3, <2>4, <4>2, <4>3, <4>4, <4>5
    <3> QED BY <3>1, <3>2
  <2>5. CASE k # n + 1
    BY <1>1, <1>2, <1>3, <2>2, <2>5
  <2> QED BY <2>4, <2>5
<1>8. CASE reset
  BY <1>8 DEF reset
<1> QED
  BY <1>4, <1>5, <1>6, <1>7, <1>8
     DEF vars, machine, Next, Client, executeSingle, ExecPotentialBreak,
         ExecBreak, ExecHalt, ExecAddConst, ExecTest, ExecConst, ExecJmp,
         ExecJmpC, ExecArg, execute, setSteppingMode, setBreakPoint,
         clearBreakpoints

\* Programs that call only earlier ones need no more activations than they have
\* stack maps.
THEOREM BoundedDepth == Spec => []StackDepthBounded
<1>1. IInv /\ DepthInvariant => StackDepthBounded
  <2> SUFFICES ASSUME IInv, DepthInvariant, CallsDescend(program, cert)
               PROVE  Len(stack) <= cert.root + 1
    BY DEF StackDepthBounded
  <2>1. Len(stack) \in Nat /\ DOMAIN stack = 1 .. Len(stack)
    BY LenProperties DEF IInv, TypeOK
  <2>2. cert.root \in Nat
    BY ProgramVerified DEF IInv, TypeOK, Verified, CertificateShape
  <2>3. CASE Len(stack) = 0
    BY <2>2, <2>3
  <2>4. CASE Len(stack) # 0
    <3>1. Len(stack) \in DOMAIN stack
      BY <2>1, <2>4
    <3>2. stack[Len(stack)].debug_info \in Nat
      BY <3>1, ActivationFacts DEF ActivationType
    <3>3. stack[Len(stack)].debug_info + Len(stack) <= cert.root + 1
      BY <3>1 DEF DepthInvariant
    <3> QED BY <2>1, <2>2, <3>2, <3>3
  <2> QED BY <2>3, <2>4
<1> QED BY <1>1, Invariant, DepthOfInitial, DepthOfStep, PTL DEF Spec

-----------------------------------------------------------------------------
(* TheoVM implements RegisterMachine: what is stored in one activation     *)
(* reaches no other one's registers, and no debugger command reaches any.  *)

\* The registers of every activation are words of data of its own.
LEMMA CellsApart ==
  ASSUME IInv, NEW k \in DOMAIN stack, NEW t \in DOMAIN stack,
         NEW q \in 0 .. (stack[k].seg_size - 1),
         NEW r \in 0 .. (stack[t].seg_size - 1),
         k # t \/ q # r
  PROVE  Cell(stack[k], q) # Cell(stack[t], r)
<1>1. /\ stack[k].data_start \in Nat /\ stack[k].seg_size \in Nat
      /\ stack[t].data_start \in Nat /\ stack[t].seg_size \in Nat
      /\ k \in Int /\ t \in Int
  BY ActivationFacts
<1>2. CASE k = t
  BY <1>1, <1>2 DEF Cell
<1>3. CASE k < t
  <2>1. stack[k].data_start + stack[k].seg_size <= stack[t].data_start
    BY <1>3 DEF IInv, ActivationsDisjoint
  <2> QED BY <1>1, <2>1 DEF Cell
<1>4. CASE t < k
  <2>1. stack[t].data_start + stack[t].seg_size <= stack[k].data_start
    BY <1>4 DEF IInv, ActivationsDisjoint
  <2> QED BY <1>1, <2>1 DEF Cell
<1> QED BY <1>1, <1>2, <1>3, <1>4

\* Storing into a register of activation t changes that register of that frame.
LEMMA StoredFrame ==
  ASSUME IInv, NEW k \in DOMAIN stack, NEW t \in DOMAIN stack,
         NEW r \in Registers(cert, stack[t].debug_info), NEW v,
         Store(Cell(stack[t], r), v)
  PROVE  FrameOf(data', stack[k]) =
           IF k = t THEN [FrameOf(data, stack[k]) EXCEPT !.regs[r] = v]
                    ELSE FrameOf(data, stack[k])
<1> DEFINE Q == 0 .. (stack[k].seg_size - 1)
           old == [q \in Q |-> data[Cell(stack[k], q)]]
           new == [q \in Q |-> data'[Cell(stack[k], q)]]
<1>1. r \in 0 .. (stack[t].seg_size - 1)
  BY ActivationFacts DEF Registers
<1>2. Cell(stack[t], r) \in DOMAIN data
  BY ActivationRegister, LenProperties DEF IInv, TypeOK
<1>3. data' = [data EXCEPT ![Cell(stack[t], r)] = v]
  BY DEF Store
<1>4. CASE k = t
  <2>1. \A q \in Q : data'[Cell(stack[k], q)] =
                       IF q = r THEN v ELSE data[Cell(stack[k], q)]
    BY <1>1, <1>2, <1>3, <1>4, CellsApart
  <2>2. new = [old EXCEPT ![r] = v]
    BY <2>1
  <2> QED BY <1>4, <2>2 DEF FrameOf
<1>5. CASE k # t
  <2>1. \A q \in Q : data'[Cell(stack[k], q)] = data[Cell(stack[k], q)]
    BY <1>1, <1>2, <1>3, <1>5, CellsApart
  <2>2. new = old
    BY <2>1
  <2> QED BY <1>5, <2>2 DEF FrameOf
<1> QED BY <1>4, <1>5

\* The frames of a machine that keeps its activations, seen one by one.
LEMMA StoredFrames ==
  ASSUME IInv, NEW t \in DOMAIN stack,
         NEW r \in Registers(cert, stack[t].debug_info), NEW v,
         Store(Cell(stack[t], r), v), UNCHANGED stack
  PROVE  Frames' = [Frames EXCEPT ![t].regs[r] = v]
<1>1. Len(stack) \in Nat /\ DOMAIN stack = 1 .. Len(stack)
  BY LenProperties DEF IInv, TypeOK
<1>2. Frames' = [k \in 1 .. Len(stack) |-> FrameOf(data', stack[k])]
  BY DEF Frames
<1>3. \A k \in 1 .. Len(stack) : FrameOf(data', stack[k]) =
        IF k = t THEN [FrameOf(data, stack[k]) EXCEPT !.regs[r] = v]
                 ELSE FrameOf(data, stack[k])
  BY <1>1, StoredFrame
<1>4. Frames = [k \in 1 .. Len(stack) |-> FrameOf(data, stack[k])]
  BY DEF Frames
<1> HIDE DEF Frames, FrameOf
<1> QED BY <1>1, <1>2, <1>3, <1>4

\* What the register machine reads is what TheoVM reads.
LEMMA FrameRegister ==
  ASSUME IInv, NEW k \in DOMAIN stack,
         NEW r \in Registers(cert, stack[k].debug_info)
  PROVE  /\ Frames[k].regs[r] = data[Cell(stack[k], r)]
         /\ Len(Frames) = Len(stack)
         /\ Frames[k].ret_target = stack[k].ret_target
         /\ Frames[k].ret_addr = stack[k].ret_addr
<1>1. Len(stack) \in Nat /\ DOMAIN stack = 1 .. Len(stack)
  BY LenProperties DEF IInv, TypeOK
<1>2. r \in 0 .. (stack[k].seg_size - 1)
  BY ActivationFacts DEF Registers
<1>3. Frames[k] = FrameOf(data, stack[k])
  BY <1>1 DEF Frames
<1>4. Len(Frames) = Len(stack)
  BY <1>1 DEF Frames
<1> QED BY <1>2, <1>3, <1>4 DEF FrameOf

-----------------------------------------------------------------------------
(* Instructions of a body *)

LEMMA BodyOperand ==
  ASSUME IInv, Current.op \notin {"PREPARE_EXEC", "ARG", "EXEC"},
         NEW r \in Registers(cert, Owner)
  PROVE  RM!Reg(r) = Register(r)
<1>1. Len(stack) \in DOMAIN stack /\ Back.debug_info = Owner
  BY BodyInstruction, LenProperties DEF IInv, TypeOK
<1> QED BY <1>1, FrameRegister DEF RM!Reg, RM!Last, Register, Back

LEMMA BodyWrite ==
  ASSUME IInv, Current.op \notin {"PREPARE_EXEC", "ARG", "EXEC"},
         NEW r \in Registers(cert, Owner), NEW v,
         Store(Cell(Back, r), v), UNCHANGED stack
  PROVE  RM!Write(r, v)
<1>1. Len(stack) \in DOMAIN stack /\ Back.debug_info = Owner
  BY BodyInstruction, LenProperties DEF IInv, TypeOK
<1>2. Len(Frames) = Len(stack)
  BY LenProperties DEF Frames, IInv, TypeOK
<1>3. Frames' = [Frames EXCEPT ![Len(stack)].regs[r] = v]
  BY <1>1, StoredFrames DEF Back
<1> QED BY <1>2, <1>3 DEF RM!Write, RM!Last

\* Neither a potential break, nor a break, nor an instruction that moves only
\* the instruction pointer, changes a frame.
LEMMA SameFrames ==
  ASSUME UNCHANGED <<data, stack>>  PROVE Frames' = Frames
BY DEF Frames

LEMMA ArithmeticRefines ==
  ASSUME IInv, ExecAddConst \/ ExecTest \/ ExecConst
  PROVE  RM!AddConst \/ RM!TestEqual \/ RM!Load
<1>1. Current.op \in {"ADD_CONST", "TEST", "CONST"} /\ UNCHANGED program
      /\ UNCHANGED stack /\ instruction_pointer' = instruction_pointer + 1
  BY DEF ExecAddConst, ExecTest, ExecConst, ReturnFalse
<1>2. RM!Current = Current
  BY <1>1, CurrentIsCompiled DEF RM!Current
<1>3. Current.target \in Registers(cert, Owner)
  BY <1>1, BodyInstruction, CurrentIsCompiled DEF BodyVerified, Owner
<1>4. RM!Advance(instruction_pointer + 1)
  BY <1>1 DEF RM!Advance
<1>5. CASE ExecAddConst
  <2>1. Current.source \in Registers(cert, Owner)
    BY <1>5, BodyInstruction, CurrentIsCompiled
       DEF ExecAddConst, BodyVerified, Owner
  <2>2. RM!Reg(Current.source) = Register(Current.source)
    BY <1>1, <2>1, BodyOperand
  <2>3. RM!Write(Current.target,
                 AddClamped(Register(Current.source), Current.constant))
    BY <1>1, <1>3, <1>5, BodyWrite DEF ExecAddConst
  <2>4. ASSUME NEW a, NEW c PROVE RM!AddClamped(a, c) = AddClamped(a, c)
    BY DEF RM!AddClamped, AddClamped, RM!WrapAdd, WrapAdd
  <2> QED BY <1>2, <1>4, <1>5, <2>2, <2>3, <2>4 DEF RM!AddConst, ExecAddConst
<1>6. CASE ExecTest
  <2>1. /\ Current.op1 \in Registers(cert, Owner)
        /\ Current.op2 \in Registers(cert, Owner)
    BY <1>6, BodyInstruction, CurrentIsCompiled
       DEF ExecTest, BodyVerified, Owner
  <2>2. /\ RM!Reg(Current.op1) = Register(Current.op1)
        /\ RM!Reg(Current.op2) = Register(Current.op2)
    BY <1>1, <2>1, BodyOperand
  <2>3. RM!Write(Current.target,
                 IF Register(Current.op1) = Register(Current.op2)
                   THEN 0 ELSE 1)
    BY <1>1, <1>3, <1>6, BodyWrite DEF ExecTest
  <2> QED BY <1>2, <1>4, <1>6, <2>2, <2>3 DEF RM!TestEqual, ExecTest
<1>7. CASE ExecConst
  <2>1. RM!Write(Current.target, Current.constant)
    BY <1>1, <1>3, <1>7, BodyWrite DEF ExecConst
  <2> QED BY <1>2, <1>4, <1>7, <2>1 DEF RM!Load, ExecConst
<1> QED BY <1>5, <1>6, <1>7

LEMMA JumpRefines ==
  ASSUME IInv, ExecJmp \/ ExecJmpC  PROVE RM!Jump \/ RM!JumpIfZero
<1>1. Current.op \in {"JMP", "JMPC"} /\ UNCHANGED <<program, data, stack>>
  BY DEF ExecJmp, ExecJmpC, ReturnFalse
<1>2. RM!Current = Current
  BY <1>1, CurrentIsCompiled DEF RM!Current
<1>3. Frames' = Frames
  BY <1>1, SameFrames
<1>4. CASE ExecJmp
  BY <1>1, <1>2, <1>3, <1>4 DEF ExecJmp, RM!Jump, RM!Advance
<1>5. CASE ExecJmpC
  <2>1. Current.source \in Registers(cert, Owner)
    BY <1>5, BodyInstruction, CurrentIsCompiled
       DEF ExecJmpC, BodyVerified, Owner
  <2>2. RM!Reg(Current.source) = Register(Current.source)
    BY <1>1, <2>1, BodyOperand
  <2> QED BY <1>1, <1>2, <1>3, <1>5, <2>2
          DEF ExecJmpC, RM!JumpIfZero, RM!Advance
<1> QED BY <1>4, <1>5

LEMMA BreakRefines ==
  ASSUME IInv, ExecPotentialBreak \/ ExecBreak  PROVE RM!Skip
<1>1. Current.op \in {"POTENTIAL_BREAK", "BREAK"}
      /\ UNCHANGED <<program, data, stack>>
      /\ instruction_pointer' = instruction_pointer + 1
  BY DEF ExecPotentialBreak, ExecBreak, ReturnTrue, ReturnFalse
<1>2. RM!Current.op = "POTENTIAL_BREAK"
  BY <1>1, CurrentIsCompiled DEF RM!Current, PotentialBreak
<1>3. Frames' = Frames
  BY <1>1, SameFrames
<1> QED BY <1>1, <1>2, <1>3 DEF RM!Skip, RM!Advance

-----------------------------------------------------------------------------
(* Calls *)

LEMMA ArgRefines ==
  ASSUME IInv, ExecArg  PROVE RM!PassArgument
<1> DEFINE n == Len(stack)
<1>1. /\ Current.op = "ARG" /\ UNCHANGED program /\ UNCHANGED stack
      /\ instruction_pointer' = instruction_pointer + 1
      /\ Store(Cell(Back, Current.target), data[Cell(Caller, Current.source)])
  BY DEF ExecArg, ReturnFalse
<1>2. RM!Current = Current
  BY <1>1, CallInstruction DEF RM!Current
<1>3. /\ n \in DOMAIN stack /\ n - 1 \in DOMAIN stack
      /\ Current.source \in Registers(cert, stack[n - 1].debug_info)
      /\ Current.target \in Registers(cert, stack[n].debug_info)
  BY <1>1, CallInstruction DEF CallVerified, Owner, Callee, Back, Caller
<1>4. /\ Len(Frames) = n
      /\ Frames[n - 1].regs[Current.source] = data[Cell(Caller, Current.source)]
  BY <1>3, FrameRegister DEF Caller
<1>5. Frames' = [Frames EXCEPT ![n].regs[Current.target] =
                   data[Cell(Caller, Current.source)]]
  BY <1>1, <1>3, StoredFrames DEF Back
<1> QED BY <1>1, <1>2, <1>4, <1>5
        DEF RM!PassArgument, RM!Write, RM!Last, RM!Advance

LEMMA ExecRefines ==
  ASSUME IInv, ExecExec  PROVE RM!Enter
<1> DEFINE n == Len(stack)
           ra == instruction_pointer + 1
<1>1. /\ Current.op = "EXEC" /\ UNCHANGED <<program, data>>
      /\ instruction_pointer' = Current.entry
      /\ stack' = [stack EXCEPT ![n].ret_addr = ra]
  BY DEF ExecExec, ReturnFalse
<1>2. RM!Current = Current
  BY <1>1, CallInstruction DEF RM!Current
<1>3. n \in Nat /\ DOMAIN stack = 1 .. n /\ n \in 1 .. n
      /\ stack \in Seq(ActivationType)
  BY <1>1, CallInstruction, LenProperties DEF IInv, TypeOK
<1>4. Len(stack') = n /\ \A k \in 1 .. n :
        stack'[k] = IF k = n THEN [stack[n] EXCEPT !.ret_addr = ra] ELSE stack[k]
  BY <1>1, <1>3
<1>5. \A k \in 1 .. n : FrameOf(data, stack'[k]) =
        IF k = n THEN [FrameOf(data, stack[n]) EXCEPT !.ret_addr = ra]
                 ELSE FrameOf(data, stack[k])
  <2>1. \A k \in 1 .. n : stack[k] \in ActivationType
    BY <1>3, ElementOfSeq
  <2>2. FrameOf(data, [stack[n] EXCEPT !.ret_addr = ra])
          = [FrameOf(data, stack[n]) EXCEPT !.ret_addr = ra]
    <3> DEFINE a == stack[n]
               b == [a EXCEPT !.ret_addr = ra]
    <3>1. /\ b.seg_size = a.seg_size /\ b.data_start = a.data_start
          /\ b.ret_target = a.ret_target /\ b.debug_info = a.debug_info
          /\ b.ret_addr = ra
      BY <1>3, <2>1 DEF ActivationType
    <3> HIDE DEF a, b
    <3>2. [r \in 0 .. (b.seg_size - 1) |-> data[Cell(b, r)]]
            = [r \in 0 .. (a.seg_size - 1) |-> data[Cell(a, r)]]
      BY <3>1 DEF Cell
    <3> DEFINE regs == [r \in 0 .. (a.seg_size - 1) |-> data[Cell(a, r)]]
    <3>3. FrameOf(data, b) =
            [regs |-> regs, ret_target |-> a.ret_target, ret_addr |-> ra,
             debug_info |-> a.debug_info]
      BY <3>1, <3>2 DEF FrameOf
    <3>4. FrameOf(data, a) =
            [regs |-> regs, ret_target |-> a.ret_target,
             ret_addr |-> a.ret_addr, debug_info |-> a.debug_info]
      BY DEF FrameOf
    <3> HIDE DEF regs, ra
    <3>5. FrameOf(data, b) = [FrameOf(data, a) EXCEPT !.ret_addr = ra]
      BY <3>3, <3>4
    <3> QED BY <3>5 DEF a, b
  <2> QED BY <1>4, <2>2
<1>6. Frames' = [k \in 1 .. n |-> FrameOf(data, stack'[k])]
  BY <1>1, <1>4 DEF Frames
<1>7. Frames = [k \in 1 .. n |-> FrameOf(data, stack[k])] /\ Len(Frames) = n
  BY <1>3 DEF Frames
<1>8. Frames' = [Frames EXCEPT ![n].ret_addr = ra]
  <2> HIDE DEF Frames, FrameOf
  <2> QED BY <1>3, <1>5, <1>6, <1>7
<1> QED BY <1>1, <1>2, <1>7, <1>8 DEF RM!Enter, RM!Last, RM!Advance

LEMMA PrepareRefines ==
  ASSUME IInv, ExecPrepareExec  PROVE RM!Prepare
<1> DEFINE n == Len(stack)
           count == Current.count
           zeroes == [k \in 1 .. count |-> 0]
           a == Activation(Len(data), count, Current.target, -1, Current.index)
           frame == [regs |-> [r \in 0 .. (count - 1) |-> 0],
                     ret_target |-> Current.target, ret_addr |-> -1,
                     debug_info |-> Current.index]
<1>1. /\ Current.op = "PREPARE_EXEC" /\ UNCHANGED program
      /\ instruction_pointer' = instruction_pointer + 1
      /\ data' = data \o zeroes
      /\ stack' = Append(stack, a)
  BY DEF ExecPrepareExec, ReturnFalse
<1>2. RM!Current = Current /\ count \in Nat
  BY <1>1, CurrentIsCompiled DEF RM!Current, Instruction
<1>3. /\ n \in Nat /\ stack \in Seq(ActivationType) /\ DOMAIN stack = 1 .. n
      /\ data \in Seq(NatWord) /\ Len(data) \in Nat
  BY LenProperties DEF IInv, TypeOK
<1>4. /\ \A i \in 1 .. Len(data) : data'[i] = data[i]
      /\ \A i \in 1 .. count : data'[Len(data) + i] = 0
  <2>1. zeroes \in Seq(NatWord)
    BY <1>2, MaxWordAssumption, SeqDef DEF NatWord
  <2>2. Len(zeroes) = count
    BY <1>2
  <2>3. \A i \in 1 .. Len(data) + count : (data \o zeroes)[i] =
          IF i <= Len(data) THEN data[i] ELSE zeroes[i - Len(data)]
    <3>1. data \in Seq(NatWord)
      BY <1>3
    <3> HIDE DEF zeroes
    <3> QED BY <2>1, <2>2, <3>1, ConcatProperties
  <2>4. ASSUME NEW i \in 1 .. Len(data)  PROVE data'[i] = data[i]
    BY <1>1, <1>2, <1>3, <2>3
  <2>5. ASSUME NEW i \in 1 .. count  PROVE data'[Len(data) + i] = 0
    <3>1. /\ Len(data) + i \in 1 .. Len(data) + count
          /\ ~ Len(data) + i <= Len(data)
          /\ (Len(data) + i) - Len(data) = i
      BY <1>2, <1>3
    <3>2. zeroes[i] = 0
      OBVIOUS
    <3> HIDE DEF zeroes
    <3> QED BY <1>1, <2>3, <3>1, <3>2
  <2> QED BY <2>4, <2>5
<1>5. ASSUME NEW k \in 1 .. n
      PROVE  FrameOf(data', stack[k]) = FrameOf(data, stack[k])
  <2> DEFINE Q == 0 .. (stack[k].seg_size - 1)
  <2>1. \A q \in Q : Cell(stack[k], q) \in 1 .. Len(data)
    BY <1>3, ActivationFacts DEF Cell
  <2>2. [q \in Q |-> data'[Cell(stack[k], q)]]
          = [q \in Q |-> data[Cell(stack[k], q)]]
    BY <1>4, <2>1
  <2> QED BY <2>2 DEF FrameOf
<1>6. FrameOf(data', a) = frame
  <2>1. /\ a.data_start = Len(data) /\ a.seg_size = count
        /\ a.ret_target = Current.target /\ a.ret_addr = -1
        /\ a.debug_info = Current.index
    BY DEF Activation
  <2>2. \A q \in 0 .. (count - 1) : data'[Cell(a, q)] = 0
    <3>1. ASSUME NEW q \in 0 .. (count - 1)
          PROVE  q + 1 \in 1 .. count /\ Cell(a, q) = Len(data) + (q + 1)
      <4>1. q + 1 \in 1 .. count
        BY <1>2
      <4>2. Cell(a, q) = Len(data) + q + 1
        BY <2>1 DEF Cell
      <4> QED BY <1>3, <4>1, <4>2
    <3> QED BY <1>4, <3>1
  <2> HIDE DEF a
  <2> QED BY <2>1, <2>2 DEF FrameOf
<1>7. /\ Len(stack') = n + 1 /\ stack'[n + 1] = a
      /\ \A k \in 1 .. n : stack'[k] = stack[k]
  <2> HIDE DEF a
  <2> QED BY <1>1, <1>3
<1>8. Frames' = Append(Frames, frame)
  <2>1. Frames' = [k \in 1 .. (n + 1) |-> FrameOf(data', stack'[k])]
    BY <1>7 DEF Frames
  <2>2. Frames = [k \in 1 .. n |-> FrameOf(data, stack[k])]
    BY DEF Frames
  <2>3. Append(Frames, frame) =
          [k \in 1 .. (n + 1) |-> IF k = n + 1 THEN frame ELSE Frames[k]]
    <3>1. Len(Frames) = n
      BY <1>3 DEF Frames
    <3> DEFINE S == {Frames[k] : k \in 1 .. n} \cup {frame}
    <3>2. Frames \in Seq(S)
      BY <1>3, <2>2, SeqDef
    <3>3. frame \in S
      OBVIOUS
    <3> HIDE DEF frame, Frames, S
    <3>4. /\ Append(Frames, frame) \in Seq(S)
          /\ Len(Append(Frames, frame)) = n + 1
          /\ \A k \in 1 .. n : Append(Frames, frame)[k] = Frames[k]
          /\ Append(Frames, frame)[n + 1] = frame
      BY <3>1, <3>2, <3>3, AppendProperties
    <3>5. Append(Frames, frame) \in [1 .. (n + 1) -> S]
      BY <3>4, LenProperties
    <3>6. ASSUME NEW k \in 1 .. (n + 1)
          PROVE  Append(Frames, frame)[k] =
                   IF k = n + 1 THEN frame ELSE Frames[k]
      BY <1>3, <3>4
    <3> QED BY <3>5, <3>6
  <2>4. ASSUME NEW k \in 1 .. (n + 1)
        PROVE  FrameOf(data', stack'[k])
                 = IF k = n + 1 THEN frame ELSE Frames[k]
    <3>1. CASE k = n + 1
      BY <1>6, <1>7, <3>1
    <3>2. CASE k # n + 1
      <4>1. k \in 1 .. n
        BY <1>3, <3>2
      <4> HIDE DEF FrameOf
      <4> QED BY <1>5, <1>7, <2>2, <3>2, <4>1
    <3> QED BY <3>1, <3>2
  <2> HIDE DEF Frames, FrameOf, frame
  <2> QED BY <2>1, <2>3, <2>4
<1> QED BY <1>1, <1>2, <1>8 DEF RM!Prepare, RM!Advance

LEMMA RetRefines ==
  ASSUME IInv, ExecRet  PROVE RM!Return
<1> DEFINE n == Len(stack)
           v == Register(Current.source)
           r == Back.ret_target
<1>1. /\ Current.op = "RET" /\ UNCHANGED program
      /\ instruction_pointer' = Back.ret_addr
      /\ stack' = SubSeq(stack, 1, n - 1)
      /\ Store(Cell(Caller, r), v)
  BY DEF ExecRet, ReturnFalse
<1>2. RM!Current = Current
  BY <1>1, CurrentIsCompiled DEF RM!Current
<1>3. /\ n \in Nat /\ n >= 2 /\ DOMAIN stack = 1 .. n
      /\ stack \in Seq(ActivationType)
      /\ n \in DOMAIN stack /\ n - 1 \in DOMAIN stack
      /\ Current.source \in Registers(cert, stack[n].debug_info)
      /\ r \in Registers(cert, stack[n - 1].debug_info)
  BY <1>1, RetInstruction DEF Back, Caller, IInv, TypeOK
<1>4. /\ Len(Frames) = n
      /\ Frames[n].regs[Current.source] = v
      /\ Frames[n].ret_addr = Back.ret_addr
      /\ Frames[n].ret_target = r
  BY <1>3, FrameRegister DEF Register, Back
<1>5. Len(stack') = n - 1 /\ \A k \in 1 .. (n - 1) : stack'[k] = stack[k]
  <2>1. \A k \in 1 .. (n - 1) : stack[k] \in ActivationType
    BY <1>3, ElementOfSeq
  <2> QED BY <1>1, <1>3, <2>1, SubSeqProperties
<1>6. \A k \in 1 .. (n - 1) : FrameOf(data', stack[k]) =
        IF k = n - 1 THEN [FrameOf(data, stack[k]) EXCEPT !.regs[r] = v]
                     ELSE FrameOf(data, stack[k])
  <2>1. \A k \in 1 .. (n - 1) : k \in DOMAIN stack
    BY <1>3
  <2> HIDE DEF v, r
  <2> QED BY <1>1, <1>3, <2>1, StoredFrame DEF Caller
<1>7. Frames' = [k \in 1 .. (n - 1) |-> FrameOf(data', stack[k])]
  BY <1>5 DEF Frames
<1>8. SubSeq(Frames, 1, n - 1) = [k \in 1 .. (n - 1) |-> FrameOf(data, stack[k])]
  <2>1. Frames = [k \in 1 .. n |-> FrameOf(data, stack[k])]
    BY DEF Frames
  <2>2. SubSeq(Frames, 1, n - 1) = [k \in 1 .. (n - 1) |-> Frames[k]]
    BY <1>3, <1>4
  <2>3. \A k \in 1 .. (n - 1) : Frames[k] = FrameOf(data, stack[k])
    BY <1>3, <2>1
  <2> QED BY <2>2, <2>3
<1>9. Frames' = [SubSeq(Frames, 1, n - 1) EXCEPT ![n - 1].regs[r] = v]
  <2> HIDE DEF Frames, FrameOf, v, r
  <2> QED BY <1>3, <1>6, <1>7, <1>8
<1> QED BY <1>1, <1>2, <1>4, <1>9
        DEF RM!Return, RM!Last, RM!Reg, RM!Advance

-----------------------------------------------------------------------------
(* The refinement *)

LEMMA InitRefines == Init => RM!Init
<1> SUFFICES ASSUME Init PROVE RM!Init
  OBVIOUS
<1>1. Frames = <<>>
  BY DEF Init, Frames
<1> QED BY <1>1 DEF Init, RM!Init

LEMMA StepRefines == IInv /\ [Next]_vars => [RM!Next]_(RM!vars)
<1> SUFFICES ASSUME IInv, [Next]_vars PROVE RM!Next \/ UNCHANGED RM!vars
  OBVIOUS
<1>1. CASE executeSingle /\ ~ ExecHalt
  BY <1>1, BreakRefines, ArithmeticRefines, JumpRefines, PrepareRefines,
     ArgRefines, ExecRefines, RetRefines DEF executeSingle, RM!Next
<1>2. CASE reset
  <2>1. Frames' = <<>>
    BY <1>2 DEF reset, Frames
  <2> QED BY <1>2, <2>1 DEF reset, RM!Restart, RM!Next
<1>3. CASE UNCHANGED <<program, machine>>
  BY <1>3, SameFrames DEF machine, RM!vars
<1> QED
  BY <1>1, <1>2, <1>3
     DEF Next, Client, vars, ExecHalt, ReturnTrue, execute, setSteppingMode,
         setBreakPoint, clearBreakpoints

\* The machine with one shared vector of words and patched code computes what
\* the register machine computes.
THEOREM Refinement == Spec => RefinesRegisterMachine
BY InitRefines, StepRefines, Invariant, PTL DEF Spec, RefinesRegisterMachine,
   RM!Spec

-----------------------------------------------------------------------------
(* Under the debugger *)

\* The inductive invariant.  That execute() never returns in the middle of a
\* call being set up is what the prompt relies on.
DInv ==
  /\ IInv
  /\ command \in {"none", "s", "q"}
  /\ SteppingEndsWithItsStep
  /\ executing \/ Callee = NoFrame

LEMMA InitDInv == DebugInit => DInv
<1> SUFFICES ASSUME DebugInit PROVE DInv
  OBVIOUS
<1>1. Init /\ command = "none" /\ ~ stepping_mode_enabled
  BY DEF DebugInit, Init
<1>2. IInv
  BY <1>1, InitEstablishesInvariant
<1>3. Verified(program, cert)
  BY <1>2, ProgramVerified DEF IInv, TypeOK
<1>4. Callee = NoFrame
  BY <1>1, <1>3 DEF Init, Verified, CertificateShape, Callee
<1> QED BY <1>1, <1>2, <1>4 DEF DInv, SteppingEndsWithItsStep

-----------------------------------------------------------------------------
(* What a command is for the machine *)

\* All commands but 's' are what any client of a VM may do.
LEMMA CommandIsStep ==
  ASSUME DebugNext, ~ CmdStep  PROVE [Next]_vars
BY DEF DebugNext, Running, CmdExecute, StepDone, CmdReset, CmdBreak, CmdClear,
       CmdQuit, Next, Client

\* And 's' changes neither the machine nor its code.
LEMMA CmdStepKeepsInvariant ==
  ASSUME IInv, CmdStep  PROVE IInv'
<1>1. /\ UNCHANGED <<program, instruction_pointer, data, stack, halted_on, code,
                    enabled_breakpoints>>
      /\ stepping_mode_enabled' \in BOOLEAN /\ executing' \in BOOLEAN
  BY DEF CmdStep, machine
<1>2. CodeIsPatched'
  BY <1>1 DEF IInv, CodeIsPatched, EnabledLocations
<1> QED BY <1>1, <1>2, SettingsStep DEF IInv, TypeOK

LEMMA MachineInvariant == IInv /\ [DebugNext]_dvars => IInv'
<1> SUFFICES ASSUME IInv, [DebugNext]_dvars PROVE IInv'
  OBVIOUS
<1>1. CASE CmdStep
  BY <1>1, CmdStepKeepsInvariant
<1>2. CASE DebugNext /\ ~ CmdStep
  BY <1>2, CommandIsStep, StepKeepsInvariant
<1>3. CASE UNCHANGED dvars
  BY <1>3, StepKeepsInvariant DEF dvars
<1> QED BY <1>1, <1>2, <1>3

\* Where execute() returns, no call is being set up.
LEMMA ReturnsOutsideOfCalls ==
  ASSUME IInv, executing, executeSingle
  PROVE  executing' \/ Callee' = NoFrame
<1>1. CASE ExecPotentialBreak \/ ExecBreak
  <2>1. Current.op \in {"POTENTIAL_BREAK", "BREAK"} /\ UNCHANGED program
        /\ instruction_pointer' = instruction_pointer + 1
    BY <1>1 DEF ExecPotentialBreak, ExecBreak, ReturnTrue, ReturnFalse
  <2>2. InBody(program, cert, Owner, instruction_pointer + 1)
    BY <2>1, BodyInstruction, CurrentIsCompiled
       DEF BodyVerified, Owner, PotentialBreak
  <2> QED BY <2>1, <2>2 DEF InBody, Callee, cert
<1>2. CASE ExecHalt
  <2>1. Current.op = "HALT" /\ UNCHANGED <<program, instruction_pointer>>
    BY <1>2 DEF ExecHalt, ReturnTrue, machine
  <2> QED BY <2>1, BodyInstruction DEF Callee, cert
<1>3. CASE ~ (ExecPotentialBreak \/ ExecBreak \/ ExecHalt)
  BY <1>3 DEF executeSingle, ExecAddConst, ExecTest, ExecConst, ExecJmp, ExecJmpC,
              ExecPrepareExec, ExecArg, ExecExec, ExecRet, ReturnFalse
<1> QED BY <1>1, <1>2, <1>3

LEMMA StepDInv == DInv /\ [DebugNext]_dvars => DInv'
<1> SUFFICES ASSUME DInv, [DebugNext]_dvars PROVE DInv'
  OBVIOUS
<1>1. IInv'
  BY MachineInvariant DEF DInv
<1>2. CASE Running
  <2>1. UNCHANGED <<command, stepping_mode_enabled>>
    BY <1>2 DEF Running, executeSingle, ExecPotentialBreak, ExecBreak, ExecHalt,
                ExecAddConst, ExecTest, ExecConst, ExecJmp, ExecJmpC,
                ExecPrepareExec, ExecArg, ExecExec, ExecRet,
                ReturnTrue, ReturnFalse, settings
  <2>2. executing' \/ Callee' = NoFrame
    BY <1>2, ReturnsOutsideOfCalls DEF Running, DInv
  <2> QED BY <1>1, <2>1, <2>2 DEF DInv, SteppingEndsWithItsStep
<1>3. CASE CmdStep
  BY <1>1, <1>3 DEF DInv, SteppingEndsWithItsStep, CmdStep
<1>4. CASE CmdReset
  <2>1. /\ UNCHANGED <<program, command>> /\ stepping_mode_enabled' = FALSE
        /\ instruction_pointer' = 0
    BY <1>4 DEF CmdReset, reset
  <2>2. Verified(program, cert)
    BY ProgramVerified DEF DInv, IInv, TypeOK
  <2>3. Callee' = NoFrame
    BY <2>1, <2>2 DEF Verified, CertificateShape, Callee, cert
  <2> QED BY <1>1, <2>1, <2>3 DEF DInv, SteppingEndsWithItsStep
<1>5. CASE \/ CmdExecute \/ StepDone \/ CmdClear \/ CmdQuit \/ UNCHANGED dvars
           \/ \E bp \in getAvailableBreakpoints, mode \in BOOLEAN : CmdBreak(bp, mode)
  <2>1. /\ UNCHANGED <<program, instruction_pointer>>
        /\ command' \in {command, "none", "q"}
        /\ executing' \/ UNCHANGED executing
        /\ stepping_mode_enabled' => stepping_mode_enabled /\ command' \in {command, "q"}
        /\ command' = "q" => command = "none" \/ command = "q"
    BY <1>5
    DEF CmdExecute, execute, StepDone, setSteppingMode, CmdClear, clearBreakpoints,
        CmdQuit, AtPrompt, CmdBreak, setBreakPoint, dvars, vars, machine, settings
  <2>2. Callee' = Callee
    BY <2>1 DEF Callee, cert
  <2> QED BY <1>1, <2>1, <2>2 DEF DInv, SteppingEndsWithItsStep
<1> QED BY <1>2, <1>3, <1>4, <1>5 DEF DebugNext

-----------------------------------------------------------------------------

\* Whatever is typed, the machine keeps its invariant, in which a step with 's'
\* is two calls of the interface and a command in a running program is none.
THEOREM DebuggerInvariant == DebugSpec => []DInv
BY InitDInv, StepDInv, PTL DEF DebugSpec

\* Stepping mode never outlives the step it was switched on for, also if the
\* step ended at a breakpoint or at the end of the program (cli.cpp:108-112).
THEOREM SteppingEnds == DebugSpec => []SteppingEndsWithItsStep
<1>1. DInv => SteppingEndsWithItsStep
  BY DEF DInv
<1> QED BY <1>1, DebuggerInvariant, PTL

\* What 'm' shows are complete activations, for any program and any order of
\* commands (vm.cpp:163-165, 178-183, cli.cpp:96-107).
THEOREM WholeActivations == DebugSpec => []PromptSeesWholeActivations
<1>1. DInv => PromptSeesWholeActivations
  <2> SUFFICES ASSUME DInv, AtPrompt PROVE
          /\ Callee = NoFrame
          /\ \A k \in 2 .. Len(stack) : stack[k].ret_addr # -1
    BY DEF PromptSeesWholeActivations
  <2>1. Callee = NoFrame
    BY DEF DInv, AtPrompt
  <2>2. Verified(program, cert)
    BY ProgramVerified DEF DInv, IInv, TypeOK
  <2>3. \A i \in DOMAIN program.code : i \in Nat
    BY <2>2 DEF Verified, CertificateShape
  <2>4. ASSUME NEW k \in 2 .. Len(stack) PROVE stack[k].ret_addr # -1
    <3>1. InBody(program, cert, stack[k - 1].debug_info, stack[k].ret_addr)
      BY <2>1 DEF DInv, IInv, CallsLinked
    <3>2. stack[k].ret_addr \in DOMAIN program.code
      BY <3>1 DEF InBody
    <3> QED BY <2>3, <3>2
  <2> QED BY <2>1, <2>4
<1> QED BY <1>1, DebuggerInvariant, PTL

\* A program that is debugged computes what it computes by itself: breakpoints,
\* steps, looking and quitting leave the register machine as it is, and only a
\* reset takes it back to its start (cli.cpp:85-137).
THEOREM DebuggingRefines == DebugSpec => RefinesRegisterMachine
<1>1. DebugInit => RM!Init
  BY InitRefines DEF DebugInit
<1>2. DInv /\ [DebugNext]_dvars => [RM!Next]_(RM!vars)
  <2> SUFFICES ASSUME DInv, [DebugNext]_dvars PROVE [RM!Next]_(RM!vars)
    OBVIOUS
  <2>1. CASE CmdStep
    <3>1. UNCHANGED <<program, instruction_pointer, data, stack>>
      BY <2>1 DEF CmdStep, machine
    <3> QED BY <3>1, SameFrames DEF RM!vars
  <2>2. CASE DebugNext /\ ~ CmdStep
    BY <2>2, CommandIsStep, StepRefines DEF DInv
  <2>3. CASE UNCHANGED dvars
    BY <2>3, StepRefines DEF DInv, dvars
  <2> QED BY <2>1, <2>2, <2>3
<1> QED BY <1>1, <1>2, DebuggerInvariant, PTL
        DEF DebugSpec, RefinesRegisterMachine, RM!Spec

=============================================================================
