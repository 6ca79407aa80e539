# libtheo in TLA+

libtheo compiles and runs the LOOP / WHILE / GOTO language *Theo*. Source files
are scanned, macros are extracted and applied, the token stream is parsed, a
tree walk generates bytecode, and a register machine executes that bytecode
under a debugger.

This directory models the whole pipeline behind the lexer: the scanner driver with
its stack of files, the extraction and application of macros with the LR parser
generator they rest on, the recursive-descent parser with its error recovery, the
code generator, the virtual machine, and the command line.

All line numbers below are of the files under `src/`.

## 1. Inventory

| part | code | state it keeps | operations | talks to |
|---|---|---|---|---|
| VM | `VM/src/vm.cpp`, `VM/include/vm.hpp` | the program, its own patched copy of the code, instruction pointer, `data`, `stack` of activations, stepping mode, enabled breakpoints | `executeSingle`, `execute`, `reset`, `setSteppingMode`, `setBreakPoint`, `clearBreakpoints`, queries | gets a `Program` once; its client calls it |
| Program format | `VM/{include,src}/{instr,program}.*` | none, a value | constructors, `disassemble` | from code generator to VM |
| Code generator | `Compiler/src/gen.cpp`, `include/gen.hpp` | `GenState`: code, labels, backpatching list, symbol stack with registers and marks, finished programs, breakpoint tables, last line seen, errors | `gen` and one dispatch function per syntactic class | gets an `AST`, returns a `Program` or errors |
| AST | `Compiler/src/ast.cpp`, `include/ast.hpp` | arena of nodes | constructors, `clear`, printing | from parser to code generator |
| Parser | `Compiler/src/parse.cpp` | tokens with a position, errors | one function per nonterminal; error recovery that skips to a token; inserts the standard macros | scanner and macros, returns the AST |
| Scanner driver | `Compiler/src/scan.cpp` | stack of open files, tokens, errors | `scan`: replaces `include` by the file's tokens | lexer |
| Macro extraction | `Compiler/src/macro.cpp` | position in the tokens, macros found, errors | `S D MD A` | scanner to macro application |
| Macro application | `Compiler/src/macro.cpp` | tokens, pass counter, detectors | `apply_macros` | an LR parser per macro |
| LR generator, parser | `Compiler/src/ParserGenerator/*`, `include/ParserGenerator/*` | element sets, tables, parse stacks | first sets, hull, jump, table construction, `parse` | macro application |
| Facade | `Compiler/src/compiler.cpp` | none | `compile` | everything |
| Lexer | `Compiler/src/lexer.l` (and the flex output) | flex's buffers | `yylex` | scanner |
| Command line | `CLI/cli.cpp` | a `VM`, the loop's flag | `main`; commands `e s r b d c l m i a o q` | compiler, VM |

The code has one thread. What interleaves is the *client* of the VM with the VM:
`executeSingle` gives the client a turn after every instruction, also in the
middle of a call sequence, and breakpoints, stepping, clearing and resetting may
happen at each of these points. What is hard otherwise is order and staleness
inside long traversals, recovery from errors, and rewriting that need not end.
PROJECT.json lists each such place under `hazards`, with the properties that watch
it or the reason that none does.

What makes each part correct:

* VM: no index outside `data` or `stack` (nothing is checked at run time);
  calls cannot see each other's registers; nothing a debugger does changes what
  is computed; breakpoints stop exactly where they were asked to; `reset` leaves
  nothing behind.
* Code generator: refuses exactly the illegal programs; what it emits satisfies
  everything the VM relies on and computes what the source says; registers are not
  handed out twice; breakpoint tables and code agree.
* Command line: every command comes back; every terminating program can be
  brought to its end from the prompt.
* Scanner driver: includes terminate; each token comes once per inclusion, in
  its place, with its position.
* Macro extraction: an error exactly where a text is no sequence of definitions and
  tokens; what is kept can be applied without a check; the end-of-file token stays.
* LR generator and parser: without a reported conflict, exactly the language of the
  grammar, with the values of a derivation; conflicts are reported exactly when
  there are any; every parse ends.
* Macro application: ends; ends in a text no macro applies to or reports the limit;
  replaces the most urgent match; generated names are new.
* Parser: ends on every token sequence; reports an error for exactly those that are
  no programs, whatever it recovers from; otherwise builds the tree of the program.

## 2. Modules

| module | what it is | code |
|---|---|---|
| `Bytecode` | instructions, `Program`, and when a program is *verified*: may be run by a machine that checks nothing | `instr.hpp`, `instr.cpp`, `program.hpp` |
| `RegisterMachine` | abstract specification: every running program has its own registers, there are no breakpoints and there is no data segment | what `vm.hpp` promises |
| `TheoVM` | the VM, and its refinement of `RegisterMachine` | `vm.cpp`, `vm.hpp` |
| `Debugger` | the command loop; composes with `TheoVM` (shares its state, each command conjoins its actions) | `cli.cpp:76-147` |
| `Syntax` | the trees the parser builds, one operator per construct | `ast.hpp`, the tree-building parts of `parse.cpp` |
| `CodeGen` | the code generator | `gen.cpp`, `gen.hpp` |
| `Main` | the command line without `-d`: composes `CodeGen` with `RegisterMachine`, which runs its output | `compiler.cpp`, `cli.cpp:204-229` |
| `StaticSemantics` | reference: which trees are legal, and which lines must be able to stop, by recursion over the tree alone | none: `CodeGen` is compared with it |
| `Meaning` | reference: what a program computes, by recursion over its tree | none: `Main` is compared with it |
| `Scan` | the scanner driver | `scan.cpp` |
| `Inclusion` | reference: what a text with includes stands for, by recursion over the files | none: `Scan` is compared with it |
| `Tokens`, `Macros` | token types, tokens, `strToInt`; macro definitions and when an insertion resolves | `scan.hpp`, `macro.hpp`, `macro.cpp` |
| `MacroExtract` | macro extraction | `macro.cpp:42-274` |
| `MacroGrammar` | reference: the grammar in the comments of `macro.cpp`, and what a text's macros are, by recursion | none: `MacroExtract` is compared with it |
| `Grammar`, `LRTables` | grammars and first sets; elements, hull, jump, the exploration of states and the placement of actions with its conflicts | `ParserGenerator/*` |
| `LRParser`, `LRMachine` | the table-driven parser as a function from one configuration to the next, and as a machine | `lrparser.hpp:184-266` |
| `Derivations` | reference: words, derivation trees and the LR(1) condition by derivations alone, without elements | none: `LRMachine` is compared with it |
| `MacroDetector` | the grammar and the semantic values of a macro's parser, over `LRParser` | `macro.cpp:276-399` |
| `MacroApply` | `apply_macros`; a rule's parser is a parameter | `macro.cpp:401-546` |
| `Parser` | the recursive-descent parser | `parse.cpp:14-326` |
| `Sentences` | reference: the grammar in the comment of `parse.cpp`, and the trees of a sentence, by recursion | none: `Parser` is compared with it |
| `FrontEnd` | composes `MacroExtract` and `MacroApply` (whose state it shares) and `Parser`, one after the other | `parse.cpp:328-388` |
| `MCTheoVM`, `MCDebugger`, `MCCodeGen`, `MCMain`, `MCScan`, `MCLRParser`, `MCFrontEnd` | instances for TLC | `instr_test.cpp`, `lrparser_test.cpp`, `elements_test.cpp` for some of them |
| `Vectors` | lemmas about sequences whose elements are not known, `FlattenSeq` among them: what the proofs need of `std::vector` | |
| `TheoVMProofs` | the VM's invariants and action properties; that it implements the register machine; the same under the debugger | |
| `CodeGenProofs` | the generator's state is typed, registers are apart, breakpoint tables and code agree | |
| `OutputProofs` | what the generator emits can be run by a machine that checks nothing | |
| `ScanProofs` | the stack of open files | |
| `MacroProofs` | what extraction leaves can be applied; what application leaves is a normal form; the end of the stream; generated names | |
| `ParserProofs` | every construction finds its parts; the position in the stream | |
| `FrontEndProofs` | the last two in `parse()`, where application gets what extraction leaves and the parser what application leaves | |

### How TheoVM corresponds to vm.cpp

The variables have the members' names. `data[i + 1]` is word `i` of the vector;
`code` is a function on `0 .. n-1` so that a `ProgramIndex` is the same number in
both. Each `case` of `executeSingle` (`vm.cpp:88-197`) is an action
`Exec<Opcode>`, each public method an action of its name. `execute()` (`vm.cpp:199`) is a
loop around `executeSingle` without a turn for its caller: `executing` says that it
is on the C++ stack, and while it is, only `executeSingle` may step. `halted_on`
is what the last `executeSingle` returned, and why. Queries are state functions.

`executeSingle` may be called after a `HALT`, which stays where it is, as the
code does.

Arithmetic is that of `int` with `INT_MAX = MaxWord`: an overflow in
`vm.cpp:116-117` is undefined behaviour in C++ and is modelled as wrapping
around, the outcome of the two's-complement add the compilers in the build
matrix emit; `AddClamped` clamps a negative sum at 0 afterwards, as the code
does.

`Programs` and `Certificate` are constants. A certificate gives, for each
location, whose code it is (`owner`), which activation is being built there
(`callee`), and for each stack map the size of its activations. It is not part
of the code: it is the evidence that a program is `Verified`, used like
the types of a bytecode verifier. `CodeGen` shows where it comes from: its
property `OutputRuns` says that every program the generator emits without an
error has one, and is proved for all trees without a parameter named twice (theorem
`DifferingParametersRun`, section 4). So the
assumption of the VM's proofs is the code generator's guarantee.

### How CodeGen and Main correspond to gen.cpp, compiler.cpp and main

`gs` is `GenState` (field by field, under its names). The C++ call stack is the
sequence `work`: calls still to be made and continuations of the functions that
made a call. Each function with a recursive call in its middle is cut there, and
nowhere else: `dispatchIf` up to its two values is `VoidIf`, the rest is
`IfTest`; a loop has three parts. A `nullptr` child is `Null`, and a call on it is
dropped, as each dispatch function's first line does. Where the code follows a
pointer that the parser may leave null, the ports of a definition, the action
ends in the outcome `crashed`.

A call of a built-in or of a program keeps the registers of the arguments evaluated
so far in a field of its own continuation, as the code does in a local vector.

`Sources`, the trees, are a constant. `ShapeAssumption` says what the proofs need to know of
them, which is what the parser's grammar gives: definitions stand at the
`Spine` of a tree, before statements and nowhere inside of them; the other nodes, `BodyNodes`,
have their children among themselves; an `if` has a condition, a number's token is
a number, and arguments are a list. TLC evaluates it for the trees of `MCCodeGen`.

`bodies` is a history variable: where each finished program's code lies. It is
needed for the certificate and changes nothing else.

Names are model values or strings compared as a whole, a loop's counter is named
by a tuple (file, line, number) instead of the concatenated text; error messages
are reduced to their kind and place.

`Main` goes on where `CodeGen` ends: with errors they are printed; without, a
machine gets the program, runs it to its `HALT` and the variables are printed. The
machine is `RegisterMachine`, since `TheoVM` implements it for every verified
program (theorem `Refinement`), and the output is verified (`OutputRuns`). At the
end the frames are compared with `Meaning`, an interpreter of trees that knows
neither code nor registers. What it makes of the cases no document settles is what
the code does: of two marks with one name the last one counts; a loop that is
jumped into goes on as it was left, and with no iteration if it never began; a
program called is the last one of its name that was defined before the caller.

### How Scan corresponds to scan.cpp

`lex_stack`, `res` and `errors` are the local variables of `scan`; an element of
the stack is a file and how many of its lexemes `yylex` has returned. One action
per way through the body of the loop, two for what follows the loop: it takes
`res.back()`, which of an empty vector is undefined behaviour. That outcome is a
state of its own, `undefined`, in which nothing more is said of the program.

### How MacroExtract and MacroApply correspond to macro.cpp

The functions `S`, `D`, `MD` and `A` call each other and themselves at their end, but for
one thing: after `A` returns, `D` or `MD` may pop the macro that was being read. So
their call stack is `at`, the function that runs, and `drop`, whether the macro goes
when `A` returns. Each branch of each function is an action; `CheckInsertions` is
what follows `S` in `extract_macros`. Numbers go through `long` into `int` as
`strToInt` does it (`ToInt`, with `INT_MAX = IntMax`), once with and once without
an error.

In `MacroApply` the loops are cut at each detector that is built, each bin, each
detector that is run and each comparison of `std::min_element`; the pass counter,
`changed` and the order of the bins are the code's. The comparison is the code's
too, with its two branches that contradict each other (finding 6): a linear scan from the
first element is what `std::min_element` does with it. What a rule's
parser answers is the parameter `Parse`, and whether its tables can be built is
`Linear`. `MacroDetector` gives both from the modelled LR generator, and `MCFrontEnd`
puts it in; the proofs hold for any.

### How the LR modules correspond to ParserGenerator

A symbol is a pair of a kind and a number, a grammar its alternatives per
nonterminal in the order they were added. First sets are the least fixpoint that the
code iterates to; `hull` and `jump` are its sets of elements, the states are explored
with the same work list and numbered the same way (from 1), and `place` reports a
conflict where the code does. The parser's loop body is `Shifted`, `Reduced`,
`Accepted` or `Rejected`, used by `LRMachine` as its actions and by `MacroDetector`
through `Run`. A jump that is missing is -1, as in the code, where it would be
used as an index.

### How Parser corresponds to parse.cpp

`work` is the C++ stack: calls of the nonterminals' functions, of `match` and `matchmk`,
and constructions of nodes; `nodes` are the results and local variables these
take their parts from. A function is replaced by its body when it is called, and
the order of evaluation is the code's. `match` with its skipping to `;` or the end of
file is one action for a match and one for a recovery. `VALUE` returns a null pointer after an error, which
`VARGS` follows: the state `crashed`.

### How Debugger corresponds to debug_mode

Commands that print are left out: what they print are `TheoVM`'s state
functions. `s` is three calls (stepping on, `execute`, stepping off) and is the only
command with state between them: `command = "s"`.

### How FrontEnd corresponds to parse()

`FrontEnd` extends `MacroExtract` and `MacroApply`, so that it shares their state, and
instantiates `Parser`. Each of its actions is one of theirs with the rest
unchanged, or hands the result of a phase to the next one. The errors are put together in the
order of `parse.cpp:378-384`. The two standard macros stand at the beginning of each
stream, as tokens of `__standards__`.

## 3. Runs

| run | expected | shows |
|---|---|---|
| `vm_safety` (`TheoVM_safety.cfg`) | pass | a client that uses every method, between any two instructions: no invalid index, activations disjoint, calls linked, patched code and enabled breakpoints agree, stops exactly where asked, reset restores, refinement of `RegisterMachine`, and at the end the values of the source program whatever was interrupted |
| `debugger_commands` (`Debugger_commands.cfg`) | pass | at the prompt only complete activations are visible; stepping mode never survives its step; every command comes back; whoever goes on with `e`/`s` reaches the end |
| `codegen_programs` (`CodeGen_programs.cfg`) | pass | 6764 trees: errors are reported exactly for the illegal ones (against `StaticSemantics`); registers of pending conditions, counters and arguments are apart; breakpoint tables agree with the code at every moment; the output is verified, so the VM can run it; each line with a statement can be stopped at; when it is run, it ends with the values that `Meaning` gives the tree |
| `scan_files` (`Scan_files.cfg`) | pass | 52098 choices of files and main file: at every moment the tokens and errors so far, followed by the meaning of what is left of the open files, are the meaning of the whole text; the depth of the stack; termination |
| `lr_grammars` (`LRParser_grammars.cfg`) | pass | 19 grammars with and without `accept_prefix`: a conflict is reported only for a grammar that is not LR(1) by its derivations; without one, exactly the words of the grammar are accepted, and the value is a derivation of the input; the stacks never lack what a reduction takes; every parse ends |
| `front_end` (`FrontEnd_texts.cfg`) | pass | about 1070 texts from tokens to the result of `parse()`: the macros found and the errors reported are those of the grammar; every insertion resolves; each replacement is the most urgent; generated names are new; what the parser gets has no match left or the limit is reported; there is always one end-of-file token, at the end; the parser reports an error for exactly the texts that are no programs and otherwise builds their tree; a null pointer is followed only behind an error; `parse()` ends |
| `macro_longest` | violation | the shorter of two matches at one place |
| `scan_empty` | violation | no token at all, see findings |
| `debugger_hold` | violation | `getCurrentBreak` against its comment, see findings |
| `codegen_params` | violation | a parameter named twice |
| `codegen_ports` | violation | a definition without `IN` |
| `codegen_breaks` | violation | a breakpoint lost from `potential_breaks` |

A run's deadlock check is off for the debugger, where `q` leaves the loop, for
`Scan`, which returns (that it does nothing less is `Terminates`), and for
`LRMachine`, which stops with its result (again, `Terminates`). In `CodeGen`, `Main` and
`FrontEnd` the finished states have a step of their own, so that one that gets stuck
anywhere else is a deadlock and would be reported; with the fact that each step of
`CodeGen` consumes a call of a finite tree, that is what the model says about the
termination of `gen`.

### Instances and bounds

* `MaxWord = 7` for the VM: an `int` of four bits. The arithmetic knows three cases, clamped
  at zero, in range and overflowing; programs reach all of them (`Revisit` adds
  `MaxWord` to 2). The generated programs run with `MaxWord = 15`, and in `Meaning`
  as in the machine.
* `MaxData = 22`: words the process can allocate. `PREPARE_EXEC` is disabled
  beyond it. In the code a failed allocation throws out of `execute`, which
  nothing catches, so nothing follows it. The words needed depend on the program
  alone, since `reset` empties `data`; the four programs need at most 13, so the bound never
  takes effect (if it did, `ReachesEnd` would fail).
* Four programs (`MCTheoVM`): nested calls in a loop (`Product`, the program of
  `instr_test.cpp` with 2 * 2); a definition with a breakpoint on each line
  (`Increment`); two locations on one breakpoint, a backward jump and an
  overflow (`Revisit`); `STOP` inside a call, which leaves activations on the stack
  (`StopInCall`). Between them all opcodes, calls of depth three, one
  breakpoint at several places and all ways to stop occur. All subsets of the
  breakpoints and all orders of commands are explored.
* Source texts (`MCCodeGen`): five sets of definitions (none, one, two where the
  second calls the first within a loop and jumps, one that calls itself, one name
  twice) x two layouts (a line per statement, or all on one) x a first statement
  that is plain, in a loop, in a while or in two loops x kinds of
  first and of second statement (among them calls with the right and the wrong number
  of arguments, nested calls, built-in calls and calls that only look
  built-in, numbers that are too large, jumps to marks that exist or do not, marks set
  twice). Definitions are in an included file. Plus trees `gen` has to refuse or fail
  on. Every pair of adjacent constructs that shares temporaries, labels or the
  line counter occurs, and each of the actions fires.
* `Limit = 60` steps of `Meaning`: a program that goes on for longer counts as one
  that does not terminate, and its values are not compared; the others are compared
  at their end.
* Files (`MCScan`): a main file and `a` with up to two pieces each and `b` with one, or a
  main file alone; a piece is a token, a quotation, an include with nothing behind it, or
  an include of one of the three or of a missing file. Each lexeme is on its own
  line, so a wrong position shows. This gives all cycles among three files, includes
  in the middle and at the end, a file included twice, and errors behind errors.
* Grammars (`MCLRParser`): among them those of the repository's tests, left and right
  recursion, empty alternatives, a hidden left recursion, LR(1) but not LALR, ambiguous
  ones, and ones with a conflict; inputs are all sequences of up to five tokens.
  `Derivations` compares words of up to five terminals and sentential forms of up to seven symbols.
* Texts (`MCFrontEnd`): definitions put together from eight lexemes, texts in which
  macros compete (by priority, place, order of definition), nest, expand into themselves,
  insert programs, values, arguments and temporaries, and clash; programs with each construct of the
  grammar; each of these programs with one lexeme left out, replaced or put in; each
  lexeme by itself. `Passes = 3` replaces `THEO_MACRO_PASSES = 1024` (`parse.hpp:9`): three passes
  are enough to reach the limit, to stop one short of it, and to reach the normal form with
  the last one. `IntMax = 2000000` is above the priority of the standard macros and
  makes numbers beyond it short. Two assumptions of the theorems are evaluated there too:
  that no match takes the end of file, for each rule of the run and each end of one of its
  programs, and that generated names are new.

### Fairness

`FairSpec` of `Scan` is weak fairness of its next-state relation: it is one loop
that nothing interrupts (`scan.cpp:51`). So is that of `LRMachine` of a step of the
parser (`lrparser.hpp:216`), and that of `FrontEnd` of all of `parse()`; there weak
fairness is written out, `[]<> ~Running \/ []<><<TRUE>>_fvars`, as TLC is slow to
find out whether a long disjunction is enabled. That `Running` means that it is
is the absence of deadlocks. Of the VM only `FairDebugSpec` has any: weak
fairness of `Running` (the loop in `execute`, `vm.cpp:199`) and of `StepDone`
(the statement after the call in `cli.cpp`). All of this is plain sequential code that
nothing can interrupt. The user is not assumed
to do anything: `PromptReturns` needs no command, `ReachesEnd` assumes of the
user, in the formula itself, that `e` or `s` is typed again and again and `r` is
not.

The programs of the VM's runs terminate; a Theo program that does not makes `execute`
not return, and that is right.

### Mutants

Each property of a passing run has a mutant in PROJECT.json: a plausible bug
in one definition (a return address one off, temporaries not marked, the wrong
activation read, a breakpoint set emptied before the code is restored, an insertion
point one too many, a loop over the bins that goes on, ...) under
which TLC finds that property violated with the run's own configuration. The mutants
stand next to what they replace.

## 4. Theorems

All for every value of the constants that satisfies the assumptions
`MaxWordAssumption` (`MaxWord` is a natural number at least 1),
`MaxDataAssumption` (a natural number) and `ProgramsAssumption` (each program is
`Verified` with its certificate and its breakpoints are sound, which is what
`DifferingParametersRun` proves of the generator); `FilesAssumption` (a map of files is finite and
each content has a length); `IntMaxAssumption`, `PassesAssumption` (numbers) and
`StreamsAssumption` (a stream consists of tokens with texts of some numeric value,
and ends in its only end-of-file token, which is what `scan` returns);
`ShapeAssumption` (the trees are shaped as the grammar of `parse.cpp` has it, see section 2).
Two theorems about the front end and one about the generator name hypotheses of their own,
discussed there.

**TheoVMProofs.** The inductive invariant is

    IInv == TypeOK /\ ActivationsDisjoint /\ StackMatchesLocation
              /\ CallsLinked /\ CodeIsPatched

None of its parts is inductive alone. Where the data of two calls lies
(`ActivationsDisjoint`) depends on sizes that only `CallsLinked` ties to the
certificate; an operand is inside its segment because the instruction is
verified for the program whose activation is on top (`StackMatchesLocation`);
that survives `RET` because the return address of each activation is in the body of the
one below it (`CallsLinked`); and all of it speaks of the compiler's code, whereas
the machine executes its patched copy, which differs only in breakpoints
(`CodeIsPatched`).

| theorem | says |
|---|---|
| `Invariant` | `Spec => []IInv` |
| `TypeCorrect`, `Isolation`, `StackShape`, `Linkage`, `Transparency` | its five parts, each of them a checked property |
| `MemorySafety` | `Spec => []OperandsInSegment`: no index of `executeSingle` leaves its activation |
| `BoundedDepth` | without recursion in the program the stack is bounded; that compiled programs have none is the `CallsDescend` in `OutputRuns` (`DifferingParametersRun`) |
| `Stops` | `StopsWhereAsked` |
| `ResetIsFresh` | `ResetRestoresInitialState` |

`Refinement`, in the same module, is `Spec => RefinesRegisterMachine`. The
refinement mapping cuts each activation's segment out of `data` (`FrameOf`). Inside a
segment a store is a store to the abstract register; stores to other segments
leave it alone by `ActivationsDisjoint`; `PREPARE_EXEC` appends zeroes, so old frames
keep their words; `RET` drops a frame but not its words, which are unreachable.
Breakpoint and stepping methods change neither frames nor the instruction
pointer and map to stutters, and `POTENTIAL_BREAK` and `BREAK` both to `Skip`, by
`CodeIsPatched`; `reset` maps to `Restart`.

Under the debugger (the last part of the module), the invariant `DInv` adds to `IInv` what the machine is doing when
`execute` has returned: it returns behind a (potential) break or at a `HALT`, neither of which
the verifier allows between `PREPARE_EXEC` and `EXEC`, so that no activation is half
built when a prompt is shown (`WholeActivations`), although the VM's other clients may
see one. `SteppingEnds` is the other property of the prompt, and
`DebuggingRefines` carries the refinement over: debugging a program does not change what it
computes.

**ScanProofs.** The inductive invariant adds to `TypeOK` that no file
is on the stack twice (`NoFileInsideItself`), which `exists_scanner` establishes when a
file is pushed and which survives reading on, as that changes no name.
`OpenFilesBounded` (`Spec => []DepthBounded`) then is the pigeonhole principle:
more open files than there are files would share a name. `StackType` is
`Spec => []TypeOK`: no file is read beyond its end.

**MacroProofs**, extraction. `ExtractInv` says that a macro exists wherever one is added to
(`at \in {"D", "MD", "A"}`): the pop of a macro that ended too early
happens only when `A` has returned. It also says that the indices a macro records are those of symbols of its
rule, and where the end-of-file token is. So `ExtractionResolves`: after the
check of insertion points `get_replacement` needs none (`macro.cpp:454`), whatever
numbers overflow; and `ExtractionLeavesStream`: what extraction leaves still ends in its
only end-of-file token.

**MacroProofs**, application. The proofs hold for any parsers of the rules: `Linear`, `Parse`
and `Generated` are never expanded. `ApplyInv` says what the loops know: the bins
that were tried have no match in the current stream; of the bin that is run, the matches of the detectors up to
`k` have been found (`FoundUpTo`); and the best of those compared so far is not to the right of
any of them. The last needs only the first branch of the comparison, so it survives that the
comparison is no order. Hence `MostUrgentReplaced`, and `NormalForm`: a pass that
changes nothing has tried all bins. That a bin of highest priority exists as long as one is left
is a lemma by well-founded induction.

**CodeGenProofs.** For every set of trees of the parser's shape and every word size.
The inductive invariant is

    Inv == Good(gs) /\ Depth /\ Traversal(work, gs, source) /\ ...

while `gen` runs (and less when it has returned), where `Good` speaks of `GenState` alone, `Depth` of the number
of symbol tables, and `Traversal` of every call on the C++ stack, given the state
that it will find. Each operation of `gen.cpp` on `GenState` has a lemma that it keeps
a state `Good` and says what it leaves alone; each step of the traversal then replaces the innermost
call, and has to show that what takes its place still fits what waits
behind it. What makes it inductive:

* A breakpoint may be taken back (`removeTopPotBreak`) only if no label is behind it.
  That fails in one place, after the labels of a `while` are set, and there the next
  call never takes one back (`Loose`).
* A definition is compiled while no other one is: definitions wait below all
  statements (`DefsLast`), which the shape of the trees gives. So the symbol table that a statement
  waits for is still the top one when it goes on.
* A waiting call holds registers: the counter of a loop, the value of a condition, the arguments evaluated so
  far. All of them are in use (`Reserved`) and no two are the same
  (`Distinct`). As `fetchTemporary` hands out only registers that are not in use, nested calls cannot take
  one of them, and `RegistersApart` follows.
* A value that is evaluated for a call belongs to the call right behind it (`Collect`), and a
  built-in that reads a second argument has one (`FewArgs`).

`TypesHold`, `RegistersStayApart` and `BreakTablesStayInStep` are the three properties of
the run `codegen_programs`. `Good` contains
`BreakTablesAgree` for any state: it is kept by adding a breakpoint, by removing
one and by backpatching, which changes jumps only.

**OutputProofs.** `OutputCanRun` is

    Spec /\ []ArgsOccupyFirstRegisters => []OutputRuns

for every set of trees of the parser's shape: what the generator emits without an error
is `Verified`, its calls only go to programs finished before (so no recursion:
`CallsDescend`, from which `BoundedDepth` follows), and its breakpoints name potential
breaks (`BreaksSound`). The hypothesis is the comment in `gen.cpp:351`. It is needed: of a parameter
named twice (finding 2), a call passes more arguments than the program may have
registers. That nothing else can break it is shown next: `DifferingParametersRun` is

    Spec /\ (\E names : ParametersDiffer(source, names)) => []OutputRuns

where the hypothesis is about the text alone, that no program in it has two parameters of the
same name. The parameters of a program are a tree; what they are called would be said by recursion,
and is said by `names` instead, which gives each list of that tree the names in it. TLC evaluates the
hypothesis for all texts of `codegen_programs` (`ParametersOfTexts` in `MCCodeGen`, with names computed by
recursion). By `ParametersHaveRegisters` such a text fulfils the hypothesis of
`OutputCanRun`. The invariant is `PortsApart`: while the ports of a definition are dispatched, nothing
stands before the definition in `work` but lists of its parameters, whose names differ
from each other and from those of all registers so far, and there are as many registers as
arguments counted. So each name is given a register of its own.

`OutputRuns` speaks of the finished output, where a body's end is known and jumps have their
offsets. While the code is written neither is, so the
invariant, `Lays`, says there are *owners*: functions `own` of code positions and `lo` of labels to
programs, numbered in the order they are finished, the root program being 0. They exist in
the proof alone. What is yet to be written or created belongs to the program
that is being compiled (`Owned`); hence to emit an instruction or to create a label changes no
owner, and only two steps do, `VoidProgram` and `ProgramEnd`, which hand over
everything from the end of the code on (`HandOver`). Given owners:

* Every instruction but the first is `Sound`: control goes on behind it in the same program and, inside
  of a call, to the next argument or the `EXEC` (`Flows`); a jump waits to be
  patched and its label is one of its own program (`Leads`); the registers it names
  are fewer than its program has so far (`Touches`), which stays true as tables only grow; a
  call names a finished program and that program's size and entry (`Calls`).
* A finished program owns exactly what lies between its entry and its end, as no definition is
  inside another (`BodiesLaid`, by `DefsLast` of `Inv`). Labels lie in the program they belong to and
  never inside of a call (`LabelsLaid`), marks have labels of
  their own program (`MarksLaid`), and an entry of `funcAddrs` is that of a finished program
  whose parameters lie within its registers (`FunctionsLaid`, where the hypothesis is used).
* A call that waits on the C++ stack keeps what it will need: the labels it will jump
  to are its program's (`WorkLaid`).

What a step adds to the code is proved once for each way to add (`Emit`, `EmitBackpatched`, a call's sequence)
and passed on from state to state (`Built`, which is transitive), so that the lemma of an action only
strings together what it calls. `Backpatch` then turns label owners into the fact that each
jump's target is in its own program (`GenCompletes`, `JumpInBody`), and the
certificate that `CodeGen` computes from `bodies` is shown to be the owners (`OwnersAgree`,
`CalleesAgree`): the smallest body around a position is its owner's. From there each of
the verifier's conditions is one lemma (`BodyIsVerified`, `PrepareIsVerified`, `CallIsVerified`,
`RootIsVerified`, `HaltIsVerified`). `Lays` quantifies over functions on all natural
numbers, which TLC cannot do; what it is for, `OutputRuns`, TLC checks.

**ParserProofs.** For every token stream. A null result is normal in this parser,
so the question is which ones may be followed. As long as there is no error, each item on
the stack of calls has what it needs: `StackInv` holds a chain of what is known of the node
stack, its height and which nodes on it are none of the null pointers,
before each item that is left. A call is replaced by its
body, whose own chain has to lead to where the call's would have led; one lemma per
nonterminal gives that chain. After an error nothing is claimed, as recovery may leave
anything. `PosInv` is that the stream ends in its only end-of-file token and the
position is in it: `match` skips to that token and not beyond.
`ParserInvariance` has both, for the parser by itself.

**FrontEndProofs.** What is proved of the phases holds of `parse()`: a step of it is one
of a phase or leaves that phase alone; what application assumes
of the macros it is called with (their priorities are numbers, `Prioritized`) is part of `ExtractInv`,
and what the parser assumes of its stream is part of `StreamInv`.
`InsertionsAlwaysResolve`, `ParserGetsNormalForm`, `MostUrgentIsReplaced` and `NoCrashWithoutError` are
properties of the run `front_end`, for all streams and any parsers of the rules. Two more need to know
something about those:

* `StreamKept` (`Spec => []StreamEndsInEOF`) assumes `MatchesStopBeforeEOF`: a parser
  without conflicts, generated for a rule without the end of file, matches fewer tokens than there are,
  and gives each symbol of the rule tokens in front of the last. No grammar of a
  detector has that token as a terminal (`macro.cpp:291-387`), and a generated parser shifts only terminals
  of its grammar. To prove this of `MacroDetector` would be to reason about `LRParser`, which
  is out of reach (below); `DetectorsStopBeforeEOF` in `MCFrontEnd` evaluates it.
  `StreamInv` is the invariant: every macro in use is `Sound`, which extraction has established
  (no end of file in its rule or replacement, every insertion resolves), so a
  replacement is made of parts of the match and of the macro and has no end of file either, and
  `Spliced` leaves the one at the end where it is.
* `TemporariesAreOwn` (`Spec => NamesAreFresh`) assumes `GeneratedAreNew` as well: no token read from a file has
  a generated name, and the names of two passes differ. Such a name starts with `#` and ends in
  `_(M`, the pass and `)` (`macro.cpp:459-461`), and no lexeme of `lexer.l` does;
  `NamesAreNew` evaluates it. Then a text in the stream is one
  from a file or was generated in an earlier pass (`TextsKnown`), also when it came there
  by a match that was inserted elsewhere, and the pass counter is incremented with every
  replacement.

### Only model-checked

* Liveness (`ReachesEnd`, `PromptReturns`, `Terminates`, `Returns`): liveness and
  `ENABLED` are outside of what the installed provers do.
* `FinalValues`: about four given programs.
* What is compared with a recursive reference, since that is outside of it as well:
  `StreamIsExpansion`, `ErrorsAreDeserved`, `LinesCanStop`, `ComputesMeaning`,
  `ExtractionIsParsing`, `SentencesExactly`, `AcceptsExactly`, `ValuesDeriveTheInput`,
  `ConflictsAreDeserved`.
* `StacksAgree`: the generation of the tables is recursive (`HullFrom`, `Explore`).

## 5. Findings

Each has a run in which TLC produces it.

1. `VM::getCurrentBreak` (`vm.cpp:40`) answers from the instruction before
   the instruction pointer. Its comment (`vm.hpp:60-63`) says it has a line only
   while the VM is halted on a breakpoint. After a program has run to a `HALT` that follows a
   `POTENTIAL_BREAK`, or was stopped by its caller after any such instruction, it
   reports a breakpoint that nobody set. *Run `debugger_hold`.*
2. `dispatchArgs` (`gen.cpp:334`) counts a parameter that is named twice twice, but
   gives it one register. Calls then pass an argument to a register that is not
   a parameter's. *Run `codegen_params`.*
3. A definition without `IN` parses (`PORTS ->` in `parse.cpp:42`), and
   `dispatchProgram` (`gen.cpp:345`) then follows the null pointer. *Run `codegen_ports`.*
4. `removeTopPotBreak` (`gen.cpp:115`) is meant to take back the last
   breakpoint, and erases all positions of its line. *Run `codegen_breaks`.*
5. `scan` (`scan.cpp:98-99`) gives the end-of-file token the position of the last token, and
   there is none if the main file is missing. `compile` promises error
   messages for that (`compiler.hpp:13`). *Run `scan_empty`.*
6. The comparison of matches (`macro.cpp:522`) says of two of different length at one place
   that each is before the other, so `std::min_element` gives the last one in the order of
   definition; the comment above it (`macro.cpp:513`) says the longest. *Run `macro_longest`.*

`codegen_programs` leaves out the sources of 2 and 4, and has that of 3, where it ends.

Seen while reading, and covered by the properties named:

* `RUN f WITH a, END` makes `MVARGS` follow a null pointer (`parse.cpp:325`), but only
  behind an error (`NullOnlyAfterError`, `SentencesExactly`).
* A define directly inside a define leads to an empty rule, which `D` refuses and `MD` accepts
  (`macro.cpp:174`); `macro_extraction_test.cpp` expects it, and the reference grammar
  has it (`ExtractionIsParsing`). The detector it gets would read the first token of the rule
  if its tables had a conflict (`macro.cpp:397`); they have none (`EmptyRuleIsLinear` in `MCFrontEnd`,
  evaluated by its runs).
* With `accept_prefix`, a word that is followed by a terminal beyond the width of the table is
  rejected (`lrparser.hpp:228`); `AcceptsExactly` says so.
* The limit is also reported when its last replacement was the last one that was
  needed (`NormalFormOrError` allows it).
* The temporaries of `__INC__` are never released. Calls open activations of the size that results
  (`OutputRuns`); that the size is limited is no property here, as nothing says how large it may be.
* A mark set twice is accepted, the last one counts (no document says otherwise, `ComputesMeaning`).
* `debug_mode` does not leave its loop at the end of input.

## 6. Not modelled, and why

* The lexer: regular expressions over characters, generated by flex; its output is a third of the
  repository's lines. A model of tokens could add nothing to it.
* `disassemble`, `visualize`, `recover_from_tokens`, error texts, the printing commands:
  output only.
* The list of missing files that `scan` and `compile` hand back: a by-product of the
  errors that are modelled.
* `AST::clear` and ownership; writes through the references that `getActivations` and
  `getEnabledBreakPoints` return.
* Argument parsing and file reading of the command line, and the end of its input.
* In one specification: from the tree that `Parser` builds to `CodeGen`. `front_end` compares the former
  with the trees of `Sentences`, and `codegen_programs` starts from the same shapes, by
  `Syntax`; composing them would multiply the states and not the interactions, as
  the tree is all that is handed over.

## 7. Plan

1. *(done)* `Bytecode`, `RegisterMachine`, `TheoVM`, `Debugger`; invariants, memory
   safety and refinement proved, for the debugger too; one finding.
2. *(done)* `Syntax`, `CodeGen` against `StaticSemantics`; three findings.
3. *(done)* `Scan` against `Inclusion`; depth of the stack proved; one finding.
4. *(done)* `MacroExtract` against `MacroGrammar`, `MacroApply` over any detector and over
   the generated ones; normal form, urgency and insertions proved; one finding.
5. *(done)* `Grammar`, `LRTables`, `LRParser` against `Derivations`.
6. *(done)* `Parser` against `Sentences`; `FrontEnd`, with the composition proved.
7. *(done)* `Main` against `Meaning`.
8. *(done)* Proofs about `CodeGen` (types, registers, breakpoint tables), `Parser` (null
   pointers) and the stream in `FrontEnd` (its end, generated names).
9. *(done)* `OutputRuns`, with the ownership of code, wherever parameters differ.
10. Left: the stacks of `LRMachine`, with tables whose generation is written without recursion;
    the end of the debugger's input.

## 8. Running

    tlc -workers 2 -config TheoVM_safety.cfg MCTheoVM
    tlc -workers 2 -config Debugger_commands.cfg MCDebugger
    tlc -workers 2 -config Debugger_hold.cfg MCDebugger
    tlc -workers 2 -config CodeGen_programs.cfg MCMain
    tlc -workers 2 -config CodeGen_params.cfg MCCodeGen      (also _ports, _breaks)
    tlc -workers 2 -config Scan_files.cfg MCScan             (also Scan_empty)
    tlc -workers 2 -config LRParser_grammars.cfg MCLRParser
    tlc -workers 2 -config FrontEnd_texts.cfg MCFrontEnd     (also FrontEnd_longest)

    tlapm Vectors.tla               tlapm ScanProofs.tla
    tlapm TheoVMProofs.tla          tlapm MacroProofs.tla
    tlapm CodeGenProofs.tla         tlapm ParserProofs.tla
    tlapm OutputProofs.tla          tlapm FrontEndProofs.tla

PROJECT.json maps every definition that models code to its lines.
