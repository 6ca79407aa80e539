------------------------------- MODULE CodeGen -------------------------------
(***************************************************************************)
(* The code generator of libTheoC (Compiler/src/gen.cpp): one traversal of *)
(* the tree that emits code, allocates registers, keeps breakpoint tables  *)
(* and collects errors, followed by backpatching.                          *)
(*                                                                         *)
(* gs is the GenState of the code.  The C++ call stack is work: the calls  *)
(* still to be made, and of each function that has called another one,     *)
(* what it does when that returns.  A call with a null pointer returns at  *)
(* once and is never entered in work.  Vectors are sequences; positions in *)
(* them count from 0 as in the code.                                       *)
(***************************************************************************)
EXTENDS Bytecode, Syntax, SequencesExt

CONSTANTS
  Sources,      \* the source texts that may be compiled
  Parsed,       \* of each source, the AST parse() returns for it
  Spine,        \* of each source, the nodes that have a PROGRAM below them
  BodyNodes     \* of each source, all other nodes of its tree

\* How parse.cpp builds the trees of texts it finds no error in: definitions
\* come before the statements of a text and nowhere else (S, P), the tok of a
\* NUMBER is a number, and arguments are a list (VARGS, MVARGS).  What stands
\* below a node is not assumed to be of the right type.
ASSUME ShapeAssumption ==
  \A s \in Sources :
    LET Body == BodyNodes[s] \cup {Null}
        Top  == Spine[s] \cup Body
    IN  /\ Parsed[s].parsed_correctly => Parsed[s].root \in Top
        /\ \A n \in Spine[s] :
             \/ n.t = "SPLIT" /\ n.left \in Top /\ n.right \in Top
             \/ /\ n.t = "PROGRAM" /\ n.right \in Body
                /\ n.left.right # Null => n.left.right.left \in Body
        /\ \A n \in BodyNodes[s] :
             /\ n.t \notin {"PROGRAM", "NULL"}
             /\ n.left \in Body /\ n.right \in Body
             /\ n.t = "NUMBER" => n.tok \in Nat
             /\ n.t = "IF" => n.left # Null
             /\ n.t = "CALL" /\ n.right # Null =>
                  n.right.t = "SPLIT" /\ n.right.left.t # "SPLIT"

VARIABLES
  source,
  gs,           \* GenState
  work,         \* the call stack of the traversal
  outcome,      \* "running"; "returned" from gen(); "crashed"
  bodies        \* history: where each stack map's program lies in the code,
                \* and the registers it had

vars == <<source, gs, work, outcome, bodies>>

-----------------------------------------------------------------------------
(* Errors and positions *)

\* A std::map after map[key] = value.
Bound(map, key, value) ==
  [k \in DOMAIN map \cup {key} |-> IF k = key THEN value ELSE map[k]]

Error(g, t) == [t |-> t, file |-> g.fs.name, line |-> g.fs.line]

Errors(g, t, count) ==
  [g EXCEPT !.errors = @ \o [k \in 1 .. count |-> Error(g, t)]]

Err(g, t) == Errors(g, t, 1)

NextPos(g) == Len(g.code)

Emit(g, instruction) == [g EXCEPT !.code = Append(@, instruction)]

OnPotentialBreak(g) == Last(g.code) = PotentialBreak

\* A mark in front of a line is set in front of the line's breakpoint.
MarkPos(g) == IF OnPotentialBreak(g) THEN NextPos(g) - 1 ELSE NextPos(g)

Breakpoint(g) ==
  LET bp    == [file |-> g.fs.name, line |-> g.fs.line]
      known == IF bp \in DOMAIN g.potential_breaks
                 THEN g.potential_breaks[bp] ELSE {}
  IN  Emit([g EXCEPT
              !.line_info = Bound(@, NextPos(g), bp),
              !.potential_breaks = Bound(@, bp, known \cup {NextPos(g)})],
           PotentialBreak)

\* Mutant of RemoveTopPotBreak: line_info keeps the position.
RemoveTopKeepsLine(g) ==
  IF ~ OnPotentialBreak(g) THEN g
  ELSE LET top == NextPos(g) - 1
       IN  [g EXCEPT
              !.potential_breaks = [bp \in DOMAIN @ \ {g.line_info[top]} |-> @[bp]],
              !.code = Front(@)]

RemoveTopPotBreak(g) ==
  IF ~ OnPotentialBreak(g) THEN g
  ELSE LET top == NextPos(g) - 1
       IN  [g EXCEPT
              !.potential_breaks = [bp \in DOMAIN @ \ {g.line_info[top]} |-> @[bp]],
              !.line_info = [i \in DOMAIN @ \ {top} |-> @[i]],
              !.code = Front(@)]

\* Mutant of AdvanceLine: no breakpoint where another file begins.
AdvanceLineInFile(g, n) ==
  LET here == [name |-> n.file, line |-> n.line]
  IN  CASE n.file = "__standards__" \/ here = g.fs -> g
        [] n.file = g.fs.name -> Breakpoint([g EXCEPT !.fs = here])
        [] OTHER -> [g EXCEPT !.fs = here]

\* Code for another line than before starts with a breakpoint, unless it
\* stems from the built-in macros.
AdvanceLine(g, n) ==
  LET here == [name |-> n.file, line |-> n.line]
  IN  IF n.file = "__standards__" \/ here = g.fs THEN g
      ELSE Breakpoint([g EXCEPT !.fs = here])

-----------------------------------------------------------------------------
(* Labels *)

CreateLabel(g) == [g EXCEPT !.labels = Append(@, -1)]
NewLabel(g)    == Len(g.labels)      \* what createLabel() returns

SetLabel(g, label, i) == [g EXCEPT !.labels[label + 1] = i]

\* Mutant of EmitBackpatched: the position is taken before the jump is emitted.
EmitBackpatchedLate(g, instruction) ==
  [Emit(g, instruction) EXCEPT
     !.backpatching_todo = Append(@, NextPos(g) - 1)]

EmitBackpatched(g, instruction) ==
  [Emit(g, instruction) EXCEPT !.backpatching_todo = Append(@, NextPos(g))]

\* A jump's offset holds its label until all labels are set.
Backpatch(g) ==
  LET todo        == g.backpatching_todo
      Target(loc) == g.labels[g.code[loc + 1].offset + 1]
      unknown     == {k \in DOMAIN todo : Target(todo[k]) = -1}
      patched     == {loc + 1 : loc \in Range(todo)}
  IN  [Errors(g, "UNKNOWN_MARK", Cardinality(unknown)) EXCEPT
         !.code = [k \in DOMAIN @ |->
                     IF k \in patched
                       THEN [@[k] EXCEPT !.offset = Target(k - 1) - (k - 1)]
                       ELSE @[k]],
         !.backpatching_todo = <<>>]

-----------------------------------------------------------------------------
(* Symbols: the registers and marks of the program being compiled *)

VReg(in_use, is_temp, name) ==
  [in_use |-> in_use, is_temp |-> is_temp, name |-> name]

\* Names of registers are tuples, so that those of loop counters are apart.
Variable(name)        == <<name>>
LoopVariable(fs, nth) == <<"Loop Variable", fs.name, fs.line, nth>>

PushSymbols(g, name) ==
  [g EXCEPT !.symbols = Append(@, [name |-> name, register_state |-> <<>>,
                                   argnum |-> 0, marks |-> <<>>])]

Symbols(g)   == Last(g.symbols)
RegStates(g) == Symbols(g).register_state

WithSymbols(g, symbols) == [g EXCEPT !.symbols[Len(g.symbols)] = symbols]

AddRegister(g, vreg) ==
  WithSymbols(g, [Symbols(g) EXCEPT !.register_state = Append(@, vreg)])

SetInUse(g, regs, in_use) ==
  WithSymbols(g, [Symbols(g) EXCEPT !.register_state =
    [k \in DOMAIN @ |-> IF k - 1 \in regs /\ @[k].is_temp
                          THEN [@[k] EXCEPT !.in_use = in_use] ELSE @[k]]])

\* The register fetchTemporary() returns, and the state it leaves.
Temporary(g) ==
  LET free == {k \in DOMAIN RegStates(g) :
                 RegStates(g)[k].is_temp /\ ~ RegStates(g)[k].in_use}
  IN  IF free = {} THEN Len(RegStates(g)) ELSE Min(free) - 1

\* Mutant of FetchTemporary: a register used again is not marked as in use.
FetchTemporaryUnmarked(g) ==
  IF Temporary(g) = Len(RegStates(g))
    THEN AddRegister(g, VReg(TRUE, TRUE, Variable("Temporary Variable")))
    ELSE g

FetchTemporary(g) ==
  IF Temporary(g) = Len(RegStates(g))
    THEN AddRegister(g, VReg(TRUE, TRUE, Variable("Temporary Variable")))
    ELSE SetInUse(g, {Temporary(g)}, TRUE)

ReleaseTemporaries(g, regs) == SetInUse(g, regs, FALSE)

\* The register fetchVariableRegister(name) returns, and the state it leaves.
VariableRegister(g, name) ==
  LET named == {k \in DOMAIN RegStates(g) : RegStates(g)[k].name = name}
  IN  IF named = {} THEN Len(RegStates(g)) ELSE Min(named) - 1

FetchVariableRegister(g, name) ==
  IF VariableRegister(g, name) = Len(RegStates(g))
    THEN AddRegister(g, VReg(TRUE, FALSE, name)) ELSE g

\* The label of a mark is created by whatever names it first.
WithMark(g, name) ==
  IF name \in DOMAIN Symbols(g).marks THEN g
  ELSE WithSymbols(CreateLabel(g),
                   [Symbols(g) EXCEPT !.marks = Bound(@, name, NewLabel(g))])

LabelOf(g, name) == Symbols(g).marks[name]

\* Mutant of PopSymbols: the temporaries are not counted.
PopSymbolsWithoutTemps(g, addr) ==
  LET s       == Symbols(g)
      unknown == {name \in DOMAIN s.marks : g.labels[s.marks[name] + 1] = -1}
      named   == {r \in 0 .. Len(s.register_state) - 1 :
                    ~ s.register_state[r + 1].is_temp}
      map     == [r \in named |-> s.register_state[r + 1].name]
      prog    == [ind |-> addr, mi |-> Len(g.stack_maps), argnum |-> s.argnum,
                  stack_size |-> Cardinality(named)]
  IN  [Errors(g, "UNKNOWN_MARK", Cardinality(unknown)) EXCEPT
         !.stack_maps = Append(@, [func_name |-> s.name, map |-> map]),
         !.funcAddrs = Bound(@, s.name, prog),
         !.symbols = Front(@)]

\* A finished program: its stack map, and its entry for the calls to come.
PopSymbols(g, addr) ==
  LET s       == Symbols(g)
      unknown == {name \in DOMAIN s.marks : g.labels[s.marks[name] + 1] = -1}
      named   == {r \in 0 .. Len(s.register_state) - 1 :
                    ~ s.register_state[r + 1].is_temp}
      map     == [r \in named |-> s.register_state[r + 1].name]
      prog    == [ind |-> addr, mi |-> Len(g.stack_maps), argnum |-> s.argnum,
                  stack_size |-> Len(s.register_state)]
  IN  [Errors(g, "UNKNOWN_MARK", Cardinality(unknown)) EXCEPT
         !.stack_maps = Append(@, [func_name |-> s.name, map |-> map]),
         !.funcAddrs = Bound(@, s.name, prog),
         !.symbols = Front(@)]

-----------------------------------------------------------------------------
(* gen(), up to the traversal *)

EmptyState ==
  [code |-> <<>>, stack_maps |-> <<>>, potential_breaks |-> <<>>,
   line_info |-> <<>>, errors |-> <<>>, symbols |-> <<>>, funcAddrs |-> <<>>,
   labels |-> <<>>, backpatching_todo |-> <<>>, loops |-> 0,
   fs |-> [name |-> "#root_file_context", line |-> 0]]

ast == Parsed[source]

\* A call of each function, as a sequence: with a null pointer it is none.
DispatchVoid(n) ==
  IF n = Null THEN <<>> ELSE <<[call |-> "void", node |-> n]>>
DispatchValue(n, tgt) ==
  IF n = Null THEN <<>> ELSE <<[call |-> "value", node |-> n, tgt |-> tgt]>>
DispatchArgs(n) ==
  IF n = Null THEN <<>> ELSE <<[call |-> "args", node |-> n]>>
DispatchCallArgs(n) ==
  IF n = Null THEN <<>> ELSE <<[call |-> "callargs", node |-> n]>>

Init ==
  /\ source \in Sources
  /\ gs = LET g == PushSymbols(Emit(EmptyState, PrepareExec(-1, -1, 0)), "#root")
          IN  IF ast.parsed_correctly THEN g
              ELSE [g EXCEPT !.errors = ast.errors]
  /\ work = IF ast.parsed_correctly THEN DispatchVoid(ast.root) ELSE <<>>
  /\ outcome = "running"
  /\ bodies = <<>>

-----------------------------------------------------------------------------
(* Steps of the traversal.  On(call, t) holds while the innermost call is a *)
(* call of that function for a node of type t.                             *)

Task == Head(work)
node == Task.node

Running(call) == outcome = "running" /\ work # <<>> /\ Task.call = call

On(call, t) == Running(call) /\ node.t = t

\* The innermost call goes on with tasks.
Then(tasks) ==
  /\ work' = tasks \o Tail(work)
  /\ UNCHANGED <<source, outcome>>

Return == Then(<<>>)

\* dispatchVoid and dispatchValue note the line first.
AtLine == AdvanceLine(gs, node)

VoidSplit ==
  /\ On("void", "SPLIT")
  /\ gs' = AtLine
  /\ Then(DispatchVoid(node.left) \o DispatchVoid(node.right))
  /\ UNCHANGED bodies

Stmt(g, tasks) == gs' = g /\ Then(tasks) /\ UNCHANGED bodies

VoidAssign ==
  /\ On("void", "ASSIGN")
  /\ LET target == Variable(node.left.tok)
     IN  Stmt(FetchVariableRegister(AtLine, target),
              DispatchValue(node.right, VariableRegister(AtLine, target)))

VoidStop == On("void", "STOP") /\ Stmt(Emit(AtLine, Halt), <<>>)

VoidMark ==
  /\ On("void", "MARK")
  /\ LET g == WithMark(AtLine, node.left.tok)
     IN  Stmt(SetLabel(g, LabelOf(g, node.left.tok), MarkPos(g)), <<>>)

VoidGoto ==
  /\ On("void", "GOTO")
  /\ LET g == WithMark(AtLine, node.left.tok)
     IN  Stmt(EmitBackpatched(g, Jmp(LabelOf(g, node.left.tok))), <<>>)

VoidIf ==
  /\ On("void", "IF")
  /\ LET g1 == FetchTemporary(AtLine)
         g2 == FetchTemporary(g1)
         rest == [call |-> "if", node |-> node, cond |-> Temporary(AtLine),
                  op1 |-> Temporary(g1), op2 |-> Temporary(g2)]
     IN  Stmt(FetchTemporary(g2),
              DispatchValue(node.left.left, rest.op1)
                \o DispatchValue(node.left.right, rest.op2) \o <<rest>>)

IfTest ==
  /\ Running("if")
  /\ LET name == node.right.left.tok
         g == WithMark(Emit(gs, Test(Task.cond, Task.op1, Task.op2)), name)
     IN  Stmt(ReleaseTemporaries(
                EmitBackpatched(g, JmpC(LabelOf(g, name), Task.cond)),
                {Task.cond, Task.op1, Task.op2}), <<>>)

VoidWhile ==
  /\ On("void", "WHILE")
  /\ LET start == NewLabel(AtLine)
         g == FetchTemporary(CreateLabel(CreateLabel(AtLine)))
         rest == [call |-> "while", node |-> node, cond |-> Temporary(AtLine),
                  start |-> start, end |-> start + 1]
     IN  Stmt(SetLabel(g, start, NextPos(g)),
              DispatchValue(node.left, rest.cond) \o <<rest>>)

WhileBody ==
  /\ Running("while")
  /\ Stmt(EmitBackpatched(gs, JmpC(Task.end, Task.cond)),
          DispatchVoid(node.right) \o <<[Task EXCEPT !.call = "endwhile"]>>)

WhileEnd ==
  /\ Running("endwhile")
  /\ LET g == EmitBackpatched(gs, Jmp(Task.start))
     IN  Stmt(ReleaseTemporaries(SetLabel(g, Task.end, NextPos(g)),
                                 {Task.cond}), <<>>)

VoidLoop ==
  /\ On("void", "LOOP")
  /\ LET g == [AtLine EXCEPT !.loops = @ + 1]
         name == LoopVariable(g.fs, g.loops)
         counter == VariableRegister(g, name)
     IN  Stmt(FetchVariableRegister(g, name),
              DispatchValue(node.left, counter)
                \o <<[call |-> "loop", node |-> node, counter |-> counter]>>)

LoopBody ==
  /\ Running("loop")
  /\ LET start == NewLabel(gs)
         g == SetLabel(CreateLabel(CreateLabel(gs)), start, NextPos(gs))
     IN  Stmt(EmitBackpatched(g, JmpC(start + 1, Task.counter)),
              DispatchVoid(node.right)
                \o <<[call |-> "endloop", node |-> node, counter |-> Task.counter,
                      start |-> start, end |-> start + 1]>>)

LoopEnd ==
  /\ Running("endloop")
  /\ LET g == EmitBackpatched(Emit(gs, Add(Task.counter, Task.counter, -1)),
                              Jmp(Task.start))
     IN  Stmt(SetLabel(g, Task.end, NextPos(g)), <<>>)

VoidMalformed ==
  /\ Running("void")
  /\ node.t \notin {"SPLIT", "PROGRAM", "ASSIGN", "LOOP", "WHILE", "MARK",
                    "GOTO", "IF", "STOP"}
  /\ Stmt(Err(AtLine, "MALFORMED_AST"), <<>>)

-----------------------------------------------------------------------------
(* Program definitions *)

VoidProgram ==
  /\ On("void", "PROGRAM")
  /\ LET g == RemoveTopPotBreak(AtLine)
         after == NewLabel(g)
         jumping == EmitBackpatched(CreateLabel(g), Jmp(after))
         ports == node.left.right
     IN  \/ /\ ports # Null
            /\ Stmt(PushSymbols(jumping, node.left.left.tok),
                    DispatchArgs(ports.left)
                      \o <<[call |-> "program", node |-> node, after |-> after]>>)
         \/ /\ ports = Null      \* c->left->right->left of a null pointer
            /\ gs' = jumping
            /\ outcome' = "crashed"
            /\ UNCHANGED <<source, work, bodies>>

ArgsSplit ==
  /\ On("args", "SPLIT")
  /\ Stmt(gs, DispatchArgs(node.left) \o DispatchArgs(node.right))

ArgsName ==
  /\ Running("args")
  /\ node.t # "SPLIT"
  /\ LET g == WithSymbols(gs, [Symbols(gs) EXCEPT !.argnum = @ + 1])
     IN  Stmt(FetchVariableRegister(g, Variable(node.tok)), <<>>)

ProgramBody ==
  /\ Running("program")
  /\ Stmt(gs, DispatchVoid(node.right)
                \o <<[call |-> "endprogram", node |-> node, after |-> Task.after,
                      ind |-> NextPos(gs)]>>)

ProgramEnd ==
  /\ Running("endprogram")
  /\ LET out == node.left.right.right
         out_name == Variable(IF out = Null THEN "x0" ELSE out.tok)
         g == Emit(FetchVariableRegister(gs, out_name),
                   Ret(VariableRegister(gs, out_name)))
     IN  /\ gs' = SetLabel(PopSymbols(g, Task.ind), Task.after, NextPos(g))
         /\ bodies' = Append(bodies, [ind |-> Task.ind, end |-> NextPos(g),
                                      size |-> Len(RegStates(g))])
  /\ Return

-----------------------------------------------------------------------------
(* Values *)

\* strtol, and its long put into an int.
StrToInt(n) ==
  ((n.tok + MaxWord + 1) % (2 * (MaxWord + 1))) - (MaxWord + 1)

ValueName ==
  /\ On("value", "NAME")
  /\ LET src == Variable(node.tok)
     IN  Stmt(Emit(FetchVariableRegister(AtLine, src),
                   Add(Task.tgt, VariableRegister(AtLine, src), 0)), <<>>)

ValueNumber ==
  /\ On("value", "NUMBER")
  /\ LET g == IF node.tok >= MaxWord THEN Err(AtLine, "INTERNAL_ERROR")
                                     ELSE AtLine
     IN  Stmt(Emit(g, LoadConstant(Task.tgt, StrToInt(node))), <<>>)

ValueCall ==
  /\ On("value", "CALL")
  /\ Stmt(AtLine, DispatchCallArgs(node.right)
                    \o <<[call |-> "call", node |-> node, tgt |-> Task.tgt,
                          arglocs |-> <<>>]>>)

ValueMalformed ==
  /\ Running("value")
  /\ node.t \notin {"NAME", "NUMBER", "CALL"}
  /\ Stmt(Err(AtLine, "MALFORMED_AST"), <<>>)

CallArgsSplit ==
  /\ On("callargs", "SPLIT")
  /\ Stmt(gs, DispatchCallArgs(node.left) \o DispatchCallArgs(node.right))

\* The CALL whose arguments are being dispatched; its vector arglocs is a
\* parameter of dispatchCallArgs.
Caller == Min({k \in DOMAIN work : work[k].call = "call"})

\* The value is computed into tmp before tmp is added to arglocs; nothing
\* reads arglocs in between.
CallArgsValue ==
  /\ Running("callargs")
  /\ node.t # "SPLIT"
  /\ LET tmp == Temporary(gs)
         calling == [work EXCEPT ![Caller].arglocs = Append(@, tmp)]
     IN  work' = DispatchValue(node, tmp) \o Tail(calling)
  /\ gs' = FetchTemporary(gs)
  /\ UNCHANGED <<source, outcome, bodies>>

CallReturn(g) == Stmt(g, <<>>)

Args     == Task.arglocs
FuncName == node.left.tok

IsInbuilt ==
  /\ FuncName \in {"__INC__", "__DEC__"}
  /\ Len(Args) = 2
  /\ node.right.left.t = "NAME"
  /\ node.right.right.left.t = "NUMBER"

\* The two temporaries are not released.
CallInbuilt ==
  /\ Running("call")
  /\ IsInbuilt
  /\ LET cs == StrToInt(node.right.right.left)
     IN  CallReturn(Emit(gs, Add(Task.tgt, Args[1],
                                 IF FuncName = "__INC__" THEN cs
                                                         ELSE WrapAdd(0, -cs))))

CallUnknown ==
  /\ Running("call")
  /\ ~ IsInbuilt
  /\ FuncName \notin DOMAIN gs.funcAddrs
  /\ CallReturn(Err(gs, "UNKNOWN_PROGRAM_NAME"))

CallMismatch ==
  /\ Running("call")
  /\ ~ IsInbuilt
  /\ FuncName \in DOMAIN gs.funcAddrs
  /\ gs.funcAddrs[FuncName].argnum # Len(Args)
  /\ CallReturn(Err(gs, "ARGSIZE_MISMATCH"))

\* Mutant of PassArguments: the last argument goes to the first register.
PassReversed(args) ==
  [k \in DOMAIN args |-> Arg(Len(args) - k, args[k])]

PassArguments(args) == [k \in DOMAIN args |-> Arg(k - 1, args[k])]

\* Mutant of CallSequence: the number of arguments is not compared.
CallUnchecked ==
  /\ Running("call")
  /\ ~ IsInbuilt
  /\ FuncName \in DOMAIN gs.funcAddrs
  /\ LET p == gs.funcAddrs[FuncName]
     IN  CallReturn(ReleaseTemporaries(
           [gs EXCEPT !.code =
              @ \o <<PrepareExec(p.stack_size, p.mi, Task.tgt)>>
                \o PassArguments(Args)
                \o <<Exec(p.ind)>>],
           Range(Args)))

CallSequence ==
  /\ Running("call")
  /\ ~ IsInbuilt
  /\ FuncName \in DOMAIN gs.funcAddrs
  /\ LET p == gs.funcAddrs[FuncName]
     IN  /\ p.argnum = Len(Args)
         /\ CallReturn(ReleaseTemporaries(
              [gs EXCEPT !.code =
                 @ \o <<PrepareExec(p.stack_size, p.mi, Task.tgt)>>
                   \o PassArguments(Args)
                   \o <<Exec(p.ind)>>],
              Range(Args)))

-----------------------------------------------------------------------------
(* gen(), after the traversal *)

Finish ==
  /\ outcome = "running" /\ work = <<>>
  /\ LET g == PopSymbols(gs, 0)
         p == g.funcAddrs["#root"]
         entry == [g.code[1] EXCEPT !.count = p.stack_size, !.index = p.mi]
     IN  gs' = Backpatch(Emit([g EXCEPT !.code[1] = entry], Halt))
  /\ bodies' = Append(bodies, [ind |-> 1, end |-> NextPos(gs) + 1,
                               size |-> Len(RegStates(gs))])
  /\ outcome' = "returned"
  /\ UNCHANGED <<source, work>>

Idle == outcome # "running" /\ UNCHANGED vars

Next ==
  \/ VoidSplit \/ VoidAssign \/ VoidStop \/ VoidMark \/ VoidGoto
  \/ VoidIf \/ IfTest
  \/ VoidWhile \/ WhileBody \/ WhileEnd
  \/ VoidLoop \/ LoopBody \/ LoopEnd
  \/ VoidMalformed
  \/ VoidProgram \/ ArgsSplit \/ ArgsName \/ ProgramBody \/ ProgramEnd
  \/ ValueName \/ ValueNumber \/ ValueCall \/ ValueMalformed
  \/ CallArgsSplit \/ CallArgsValue
  \/ CallInbuilt \/ CallUnknown \/ CallMismatch \/ CallSequence
  \/ Finish \/ Idle

Spec == Init /\ [][Next]_vars

-----------------------------------------------------------------------------
(* What gen() returns, and the certificate of its code *)

Vector(seq) == [i \in 0 .. Len(seq) - 1 |-> seq[i + 1]]

Output ==
  [code |-> Vector(gs.code), stack_maps |-> Vector(gs.stack_maps),
   potential_breaks |-> gs.potential_breaks, line_info |-> gs.line_info]

Succeeded == outcome = "returned" /\ gs.errors = <<>>

\* The root program's code surrounds the code of the others.
OwnerOf(i) ==
  IF i = 0 THEN NoFrame
  ELSE Min({k \in DOMAIN bodies : bodies[k].ind <= i /\ i < bodies[k].end}) - 1

CalleeOf(i) ==
  IF Output.code[i].op \in {"ARG", "EXEC"}
    THEN Output.code[Max({j \in 0 .. i : Output.code[j].op = "PREPARE_EXEC"})].index
    ELSE NoFrame

OutputCertificate ==
  [root |-> Len(bodies) - 1,
   size |-> Vector([k \in DOMAIN bodies |-> bodies[k].size]),
   owner |-> [i \in DOMAIN Output.code |-> OwnerOf(i)],
   callee |-> [i \in DOMAIN Output.code |-> CalleeOf(i)]]

-----------------------------------------------------------------------------
(* Properties *)

\* Every part of GenState has its type; labels are set to positions in the
\* code, jumps wait in it for labels that exist.
TypeOK ==
  /\ source \in Sources
  /\ outcome \in {"running", "returned", "crashed"}
  /\ \A k \in DOMAIN gs.code :
       \/ gs.code[k] \in Instruction
       \/ k = 1 /\ gs.code[k].op = "PREPARE_EXEC"
  /\ \A l \in DOMAIN gs.labels : gs.labels[l] \in -1 .. NextPos(gs)
  /\ \A k \in DOMAIN gs.backpatching_todo :
       LET loc == gs.backpatching_todo[k]
       IN  /\ gs.code[loc + 1].op \in {"JMP", "JMPC"}
           /\ gs.code[loc + 1].offset \in 0 .. Len(gs.labels) - 1
  /\ \A s \in Range(gs.symbols) :
       \A r \in Range(s.register_state) : r.in_use \/ r.is_temp
  /\ Len(gs.symbols) = IF outcome = "returned" THEN 0
                       ELSE IF \E k \in DOMAIN work :
                                 work[k].call \in {"program", "endprogram"}
                         THEN 2 ELSE 1

\* The registers that a pending statement or call goes on to use.
Held(task) ==
  CASE task.call = "if"                  -> <<task.cond, task.op1, task.op2>>
    [] task.call \in {"while", "endwhile"} -> <<task.cond>>
    [] task.call \in {"loop", "endloop"}   -> <<task.counter>>
    [] task.call = "call"                -> task.arglocs
    [] OTHER                             -> <<>>

\* No register serves two purposes at a time: what a condition, a loop counter
\* or an argument already computed is kept in is given to nothing else before
\* it has been used, however calls, loops and conditions are nested
\* (gen.cpp:31-46, 227-322, 370-383, 452-458).
RegistersApart ==
  \A k, l \in DOMAIN work :
    \A i \in DOMAIN Held(work[k]), j \in DOMAIN Held(work[l]) :
      /\ RegStates(gs)[Held(work[k])[i] + 1].in_use
      /\ Held(work[k])[i] = Held(work[l])[j] => k = l /\ i = j

\* At any time line_info has the POTENTIAL_BREAKs of the code and nothing else,
\* and a breakpoint names only positions of its own line (gen.cpp:110-127).
BreakTablesAgree ==
  /\ DOMAIN gs.line_info = {i \in 0 .. NextPos(gs) - 1 :
                              gs.code[i + 1] = PotentialBreak}
  /\ \A bp \in DOMAIN gs.potential_breaks :
       \A i \in gs.potential_breaks[bp] :
         i \in DOMAIN gs.line_info /\ gs.line_info[i] = bp

\* Code generated without an error can be run: every jump stays in its
\* program, every register lies in the activation it is used in, every call
\* opens an activation of the size its program was compiled to, passes
\* arguments to its registers and enters its code, and calls never recurse
\* (what vm.cpp relies on without checking it).
OutputRuns ==
  Succeeded => /\ Verified(Output, OutputCertificate)
               /\ CallsDescend(Output, OutputCertificate)
               /\ BreaksSound(Output)

\* "dispatch args so that they occupy the first regs" (gen.cpp:351): when the
\* body is about to be compiled, the argnum registers that calls pass
\* arguments to are those of the parameters.
ArgsOccupyFirstRegisters ==
  Running("program") => Len(RegStates(gs)) = Symbols(gs).argnum

\* The parameters of a program have different names.  names gives, of each list
\* of parameters in the tree of s, the names in it.
ParametersDiffer(s, names) ==
  /\ \A n \in Spine[s] : n.t = "PROGRAM" /\ n.left.right # Null =>
       n.left.right.left \in DOMAIN names
  /\ \A n \in DOMAIN names :
       \/ n = Null /\ names[n] = {}
       \/ /\ n.t = "SPLIT" /\ {n.left, n.right} \subseteq DOMAIN names
          /\ names[n] = names[n.left] \cup names[n.right]
          /\ names[n.left] \cap names[n.right] = {}
       \/ n # Null /\ n.t # "SPLIT" /\ names[n] = {n.tok}

\* A program definition without ports is a program ("PORTS ->" in the grammar,
\* parse.cpp:42): gen() returns for it as for any other.
GenReturns == outcome # "crashed"

\* potential_breaks maps a line to the "bytecode position of potential
\* breakpoint" and line_info maps it back (program.hpp:28-33).
EveryBreakIsAvailable == Succeeded => BreaksComplete(Output)
=============================================================================
