---------------------------- MODULE CodeGenProofs ----------------------------
(***************************************************************************)
(* Proofs about CodeGen, for every set of trees of the shape the parser    *)
(* gives them and every word size: the state of the generator stays typed, *)
(* no register serves two purposes at a time, and the tables of            *)
(* breakpoints agree with the code.                                        *)
(*                                                                         *)
(* All three follow from Inv, which says of GenState that it is Good and   *)
(* of the call stack that it is a Traversal.  Each operation of gen.cpp    *)
(* on GenState has a lemma that it keeps a state Good; each step of the    *)
(* traversal replaces the innermost call, and the lemmas Goes... say what  *)
(* the calls that take its place have to satisfy.                          *)
(***************************************************************************)
EXTENDS CodeGen, FiniteSetTheorems, Vectors

-----------------------------------------------------------------------------
(* The state of the generator, and the operations on code *)

\* The members of GenState.
Fields == {"code", "stack_maps", "potential_breaks", "line_info", "errors",
           "symbols", "funcAddrs", "labels", "backpatching_todo", "loops", "fs"}

\* The vectors of GenState are sequences.
Shape(g) ==
  /\ DOMAIN g = Fields
  /\ IsSeq(g.code) /\ IsSeq(g.stack_maps)
  /\ IsSeq(g.symbols) /\ IsSeq(g.labels) /\ IsSeq(g.backpatching_todo)
  /\ g.loops \in Nat

\* All code but the placeholder for the call of the root program is typed.
CodeTyped(g) ==
  /\ Len(g.code) >= 1
  /\ g.code[1] \in [op : {"PREPARE_EXEC"}, count : Int, index : Int, target : Nat]
  /\ \A k \in 2 .. Len(g.code) : g.code[k] \in Instruction

\* Labels are unset, or set to positions in the code or right behind it.
LabelsSet(g) ==
  \A l \in 1 .. Len(g.labels) : g.labels[l] \in -1 .. Len(g.code)

\* A jump that still has to be patched holds a label.
IsJump(i, g) == i.op \in {"JMP", "JMPC"} /\ i.offset \in 0 .. Len(g.labels) - 1

\* What waits to be patched are jumps in the code.
JumpsWait(g) ==
  \A k \in 1 .. Len(g.backpatching_todo) :
    /\ g.backpatching_todo[k] \in 1 .. Len(g.code) - 1
    /\ IsJump(g.code[g.backpatching_todo[k] + 1], g)

\* BreakTablesAgree of any state of the generator.
Breaks(g) ==
  /\ DOMAIN g.line_info = {i \in 0 .. NextPos(g) - 1 :
                              g.code[i + 1] = PotentialBreak}
  /\ \A bp \in DOMAIN g.potential_breaks :
       \A i \in g.potential_breaks[bp] :
         i \in DOMAIN g.line_info /\ g.line_info[i] = bp

\* A register in no use is a temporary.  Only the names of loop counters
\* have four parts; the last is the number of a loop there has been.
IsRegister(v, loops) ==
  /\ DOMAIN v = {"in_use", "is_temp", "name"}
  /\ v.in_use \in BOOLEAN /\ v.is_temp \in BOOLEAN
  /\ v.in_use \/ v.is_temp
  /\ Len(v.name) = 4 => v.name[4] \in 1 .. loops

\* The symbol table of a program: marks have labels.
IsTable(s, g) ==
  /\ DOMAIN s = {"name", "register_state", "argnum", "marks"}
  /\ IsSeq(s.register_state)
  /\ s.argnum \in Nat
  /\ \A k \in 1 .. Len(s.register_state) : IsRegister(s.register_state[k], g.loops)
  /\ IsFiniteSet(DOMAIN s.marks)
  /\ \A name \in DOMAIN s.marks : s.marks[name] \in 0 .. Len(g.labels) - 1

\* Of each program being compiled.
Tables(g) == \A k \in 1 .. Len(g.symbols) : IsTable(g.symbols[k], g)

\* What calls have to know of a finished program.
FunctionsTyped(g) ==
  \A name \in DOMAIN g.funcAddrs :
    LET p == g.funcAddrs[name]
    IN  p.ind \in Nat /\ p.mi \in Nat /\ p.argnum \in Nat /\ p.stack_size \in Nat

\* The part of the invariant about GenState alone.
Good(g) ==
  /\ Shape(g) /\ CodeTyped(g) /\ LabelsSet(g) /\ JumpsWait(g) /\ Breaks(g)
  /\ Tables(g) /\ FunctionsTyped(g)

\* h differs from g in the fields F at most.
Keeps(g, h, F) == \A f \in Fields \ F : h[f] = g[f]

\* A label is set behind a breakpoint.
Loose(g) ==
  OnPotentialBreak(g) /\ \E l \in 1 .. Len(g.labels) : g.labels[l] = NextPos(g)

\* The registers of the program being compiled.
Regs(g) == 0 .. Len(RegStates(g)) - 1
\* The labels created so far.
Labels(g) == 0 .. Len(g.labels) - 1

\* h has what g has, and perhaps more registers and labels.
Wider(g, h) ==
  /\ Len(h.symbols) = Len(g.symbols)
  /\ \A k \in 1 .. Len(g.symbols) : h.symbols[k].name = g.symbols[k].name
  /\ Len(g.labels) <= Len(h.labels)
  /\ Len(RegStates(g)) <= Len(RegStates(h))

\* And no register has been released.
Grows(g, h) ==
  /\ Wider(g, h)
  /\ \A r \in Regs(g) : RegStates(g)[r + 1].in_use => RegStates(h)[r + 1].in_use

\* Some program is being compiled.
Open(g) == Len(g.symbols) >= 1

-----------------------------------------------------------------------------
\* emit() appends to the code and changes nothing else.
LEMMA EmitEffect ==
  ASSUME NEW g, Shape(g), NEW i
  PROVE  /\ Shape(Emit(g, i))
         /\ Emit(g, i).code = Append(g.code, i)
         /\ Keeps(g, Emit(g, i), {"code"})
  BY AppendIs DEF Emit, Shape, Fields, Keeps

\* The code after an instruction has been appended.
LEMMA Appended ==
  ASSUME NEW g, Shape(g), NEW h, NEW i, h.code = Append(g.code, i)
  PROVE  /\ Len(g.code) \in Nat /\ Len(h.code) = Len(g.code) + 1
         /\ \A k \in 1 .. Len(g.code) : h.code[k] = g.code[k]
         /\ h.code[Len(g.code) + 1] = i
         /\ Last(h.code) = i
<1>1. IsSeq(g.code)
  BY DEF Shape
<1> QED  BY <1>1, AppendIs, SeqFacts

\* One more instruction leaves code, labels and jumps in order.
LEMMA AppendedTyped ==
  ASSUME NEW g, Good(g), NEW h, NEW i \in Instruction,
         h.code = Append(g.code, i), h.labels = g.labels,
         h.backpatching_todo = g.backpatching_todo
  PROVE  CodeTyped(h) /\ LabelsSet(h) /\ JumpsWait(h)
<1>1. /\ Len(g.code) \in Nat /\ Len(h.code) = Len(g.code) + 1
      /\ \A k \in 1 .. Len(g.code) : h.code[k] = g.code[k]
      /\ h.code[Len(g.code) + 1] = i
  BY Appended DEF Good
<1>2. CodeTyped(h)
  <2>1. Len(g.code) >= 1 /\ h.code[1] = g.code[1]
    BY <1>1 DEF Good, CodeTyped
  <2>2. ASSUME NEW k \in 2 .. Len(h.code)  PROVE h.code[k] \in Instruction
    <3>1. CASE k = Len(g.code) + 1
      BY <1>1, <3>1
    <3>2. CASE k # Len(g.code) + 1
      <4>1. k \in 2 .. Len(g.code) /\ h.code[k] = g.code[k]
        BY <1>1, <3>2
      <4> QED  BY <4>1 DEF Good, CodeTyped
    <3> QED  BY <3>1, <3>2
  <2> QED  BY <1>1, <2>1, <2>2 DEF Good, CodeTyped
<1>3. LabelsSet(h)
  BY <1>1 DEF LabelsSet, Good
<1>4. ASSUME NEW k \in 1 .. Len(h.backpatching_todo)
      PROVE  /\ h.backpatching_todo[k] \in 1 .. Len(h.code) - 1
             /\ IsJump(h.code[h.backpatching_todo[k] + 1], h)
  <2> DEFINE loc == g.backpatching_todo[k]
  <2>1. loc \in 1 .. Len(g.code) - 1 /\ IsJump(g.code[loc + 1], g)
    BY <1>4 DEF Good, JumpsWait
  <2>2. h.code[loc + 1] = g.code[loc + 1]
    BY <1>1, <2>1
  <2> QED  BY <1>1, <2>1, <2>2 DEF IsJump
<1> QED  BY <1>2, <1>3, <1>4 DEF JumpsWait

\* emit() of anything but a breakpoint.
LEMMA EmitGood ==
  ASSUME NEW g, Good(g), NEW i \in Instruction, i # PotentialBreak
  PROVE  /\ Good(Emit(g, i)) /\ Grows(g, Emit(g, i))
         /\ ~ Loose(Emit(g, i))
<1> DEFINE h == Emit(g, i)
<1>0. Shape(g)
  BY DEF Good
<1>1. /\ Shape(h) /\ h.code = Append(g.code, i) /\ Keeps(g, h, {"code"})
  BY EmitEffect DEF Good
<1>2. /\ Len(g.code) \in Nat /\ Len(h.code) = Len(g.code) + 1
      /\ \A k \in 1 .. Len(g.code) : h.code[k] = g.code[k]
      /\ h.code[Len(g.code) + 1] = i
      /\ Last(h.code) = i
  <2> HIDE DEF h
  <2>1. h.code = Append(g.code, i)
    BY <1>1
  <2>2. IsSeq(g.code)
    BY <1>0 DEF Shape
  <2> QED  BY <2>1, <2>2, AppendIs, SeqFacts
<1> HIDE DEF h
<1>3. /\ h.stack_maps = g.stack_maps /\ h.potential_breaks = g.potential_breaks
      /\ h.line_info = g.line_info /\ h.errors = g.errors
      /\ h.symbols = g.symbols /\ h.funcAddrs = g.funcAddrs
      /\ h.labels = g.labels /\ h.backpatching_todo = g.backpatching_todo
      /\ h.loops = g.loops
  BY <1>1 DEF Keeps, Fields
<1>4. CodeTyped(h) /\ LabelsSet(h) /\ JumpsWait(h)
  BY <1>1, <1>3, AppendedTyped
<1>7. Breaks(h)
  BY <1>2, <1>3 DEF Breaks, Good, NextPos
<1>8. Tables(h) /\ FunctionsTyped(h)
  BY <1>3 DEF Tables, IsTable, FunctionsTyped, Good
<1>9. ~ Loose(h)
  BY <1>2 DEF Loose, OnPotentialBreak
<1>10. Grows(g, h)
  BY <1>3, SeqFacts DEF Grows, Wider, RegStates, Symbols, Good, Shape
<1> QED  BY <1>1, <1>4, <1>7, <1>8, <1>9, <1>10 DEF Good, h

\* What addPotentialBreak() changes.
LEMMA BreakpointEffect ==
  ASSUME NEW g, Shape(g)
  PROVE  /\ Shape(Breakpoint(g))
         /\ Breakpoint(g).code = Append(g.code, PotentialBreak)
         /\ Keeps(g, Breakpoint(g), {"code", "line_info", "potential_breaks"})
  BY AppendIs DEF Breakpoint, Emit, Shape, Fields, Keeps

\* It enters the position into both tables.
LEMMA BreakpointKeepsBreaks ==
  ASSUME NEW g, Shape(g), Breaks(g)
  PROVE  Breaks(Breakpoint(g))
<1> DEFINE bp == [file |-> g.fs.name, line |-> g.fs.line]
           h == Breakpoint(g)
           n == NextPos(g)
           known == IF bp \in DOMAIN g.potential_breaks
                      THEN g.potential_breaks[bp] ELSE {}
<1>1. /\ h.line_info = Bound(g.line_info, n, bp)
      /\ h.potential_breaks = Bound(g.potential_breaks, bp, known \cup {n})
      /\ h.code = Append(g.code, PotentialBreak)
  BY BreakpointEffect DEF Breakpoint, Emit, Shape, Fields
<1>2. /\ NextPos(h) = n + 1 /\ n \in Nat
      /\ \A i \in 0 .. n - 1 : h.code[i + 1] = g.code[i + 1]
      /\ h.code[n + 1] = PotentialBreak
  BY <1>1, AppendIs, SeqFacts DEF NextPos, Shape
<1> HIDE DEF h
<1>3. DOMAIN h.line_info = DOMAIN g.line_info \cup {n}
  BY <1>1 DEF Bound
<1>4. n \notin DOMAIN g.line_info
  BY <1>2 DEF Breaks
<1>5. DOMAIN h.line_info = {i \in 0 .. NextPos(h) - 1 : h.code[i + 1] = PotentialBreak}
  BY <1>2, <1>3 DEF Breaks
<1>6. /\ \A i \in DOMAIN g.line_info : h.line_info[i] = g.line_info[i]
      /\ h.line_info[n] = bp
  BY <1>1, <1>4 DEF Bound
<1>7. ASSUME NEW b \in DOMAIN h.potential_breaks, NEW i \in h.potential_breaks[b]
      PROVE  i \in DOMAIN h.line_info /\ h.line_info[i] = b
  <2>1. CASE b = bp
    <3>1. i \in known \/ i = n
      BY <1>1, <2>1, <1>7 DEF Bound
    <3>2. known \subseteq {j \in DOMAIN g.line_info : g.line_info[j] = bp}
      BY DEF Breaks
    <3> QED  BY <3>1, <3>2, <1>3, <1>6, <2>1
  <2>2. CASE b # bp
    <3>1. b \in DOMAIN g.potential_breaks /\ i \in g.potential_breaks[b]
      BY <1>1, <2>2, <1>7 DEF Bound
    <3> QED  BY <3>1, <1>3, <1>6 DEF Breaks
  <2> QED  BY <2>1, <2>2
<1> QED  BY <1>5, <1>7 DEF Breaks, h

\* No label is set behind a new breakpoint.
LEMMA BreakpointGood ==
  ASSUME NEW g, Good(g)
  PROVE  /\ Good(Breakpoint(g)) /\ Grows(g, Breakpoint(g))
         /\ ~ Loose(Breakpoint(g))
<1> DEFINE h == Breakpoint(g)
<1>1. /\ Shape(h) /\ h.code = Append(g.code, PotentialBreak)
      /\ Keeps(g, h, {"code", "line_info", "potential_breaks"})
  BY BreakpointEffect DEF Good
<1>2. /\ Len(g.code) \in Nat /\ Len(h.code) = Len(g.code) + 1
      /\ \A k \in 1 .. Len(g.code) : h.code[k] = g.code[k]
      /\ h.code[Len(g.code) + 1] = PotentialBreak
  BY <1>1, Appended DEF Good
<1>7. Breaks(h)
  BY BreakpointKeepsBreaks DEF Good
<1> HIDE DEF h
<1>3. /\ h.symbols = g.symbols /\ h.funcAddrs = g.funcAddrs
      /\ h.labels = g.labels /\ h.backpatching_todo = g.backpatching_todo
      /\ h.loops = g.loops
  BY <1>1 DEF Keeps, Fields
<1>4a. PotentialBreak \in Instruction
  BY DEF PotentialBreak, Instruction
<1>4. CodeTyped(h) /\ LabelsSet(h) /\ JumpsWait(h)
  BY <1>1, <1>3, <1>4a, AppendedTyped
<1>8. Tables(h) /\ FunctionsTyped(h)
  BY <1>3 DEF Tables, IsTable, FunctionsTyped, Good
<1>9. ~ Loose(h)
  BY <1>2, <1>3 DEF Loose, NextPos, Good, LabelsSet
<1>10. Grows(g, h)
  BY <1>3, SeqFacts DEF Grows, Wider, RegStates, Symbols, Good, Shape
<1> QED  BY <1>1, <1>4, <1>7, <1>8, <1>9, <1>10 DEF Good, h

\* advanceLine() adds a breakpoint or nothing.
LEMMA AdvanceLineGood ==
  ASSUME NEW g, Good(g), NEW n
  PROVE  /\ Good(AdvanceLine(g, n)) /\ Grows(g, AdvanceLine(g, n))
         /\ Loose(AdvanceLine(g, n)) => Loose(g)
         /\ Keeps(g, AdvanceLine(g, n),
                  {"code", "line_info", "potential_breaks", "fs"})
         /\ \/ AdvanceLine(g, n).code = g.code
            \/ AdvanceLine(g, n).code = Append(g.code, PotentialBreak)
<1> DEFINE here == [name |-> n.file, line |-> n.line]
           f == [g EXCEPT !.fs = here]
<1>1. CASE n.file = "__standards__" \/ here = g.fs
  BY <1>1, SeqFacts DEF AdvanceLine, Keeps, Grows, Wider, Good, Shape, Regs
<1>2. CASE ~ (n.file = "__standards__" \/ here = g.fs)
  <2>1. AdvanceLine(g, n) = Breakpoint(f)
    BY <1>2 DEF AdvanceLine
  <2>2. Shape(f) /\ Keeps(g, f, {"fs"})
    BY DEF Keeps, Shape, Fields, Good
  <2> HIDE DEF f
  <2>2a. /\ f.code = g.code /\ f.labels = g.labels /\ f.symbols = g.symbols
         /\ f.line_info = g.line_info /\ f.potential_breaks = g.potential_breaks
         /\ f.funcAddrs = g.funcAddrs /\ f.loops = g.loops
         /\ f.backpatching_todo = g.backpatching_todo
    BY <2>2 DEF Keeps, Fields
  <2>3. Good(f)
    BY <2>2, <2>2a DEF Good, CodeTyped, LabelsSet, JumpsWait, IsJump, Breaks,
         NextPos, Tables, IsTable, FunctionsTyped
  <2>4. Good(Breakpoint(f)) /\ Grows(f, Breakpoint(f)) /\ ~ Loose(Breakpoint(f))
    BY <2>3, BreakpointGood
  <2>5. Grows(g, Breakpoint(f))
    BY <2>4, <2>2a DEF Grows, Wider, RegStates, Symbols, Regs
  <2>6. /\ Keeps(f, Breakpoint(f), {"code", "line_info", "potential_breaks"})
        /\ Breakpoint(f).code = Append(f.code, PotentialBreak)
    BY <2>2, BreakpointEffect
  <2> QED  BY <2>1, <2>2, <2>2a, <2>4, <2>5, <2>6 DEF Keeps
<1> QED  BY <1>1, <1>2

-----------------------------------------------------------------------------
(* Labels, jumps and errors *)

\* removeTopPotBreak() takes both entries back.  No label may be set behind
\* the breakpoint: it would then point behind the code.
LEMMA RemoveTopGood ==
  ASSUME NEW g, Good(g), ~ Loose(g)
  PROVE  Good(RemoveTopPotBreak(g)) /\ Grows(g, RemoveTopPotBreak(g))
<1> DEFINE top == NextPos(g) - 1
           h == RemoveTopPotBreak(g)
<1>1. CASE ~ OnPotentialBreak(g)
  BY <1>1, SeqFacts DEF RemoveTopPotBreak, Grows, Wider, Regs, Good, Shape
<1>2. CASE OnPotentialBreak(g)
  <2>1. /\ Shape(h)
        /\ Keeps(g, h, {"code", "line_info", "potential_breaks"})
        /\ h.code = Front(g.code)
        /\ h.line_info = [i \in DOMAIN g.line_info \ {top} |-> g.line_info[i]]
        /\ h.potential_breaks =
             [bp \in DOMAIN g.potential_breaks \ {g.line_info[top]} |->
                g.potential_breaks[bp]]
    <3>1. IsSeq(g.code) /\ g.code # <<>>
      BY EmptySeq DEF Good, Shape, CodeTyped
    <3>2. IsSeq(Front(g.code))
      BY <3>1, FrontIs
    <3> QED  BY <1>2, <3>2 DEF RemoveTopPotBreak, Shape, Good, Keeps, Fields
  <2> HIDE DEF h
  <2>2. /\ Len(g.code) \in Nat /\ Len(h.code) = Len(g.code) - 1 /\ Len(h.code) \in Nat
        /\ \A k \in 1 .. Len(g.code) - 1 : h.code[k] = g.code[k]
        /\ g.code[Len(g.code)] = PotentialBreak
        /\ Len(g.code) >= 1
    <3>1. IsSeq(g.code) /\ Len(g.code) >= 1
      BY DEF Good, Shape, CodeTyped
    <3>2. g.code # <<>> /\ Len(g.code) \in Nat
      BY <3>1, EmptySeq, SeqFacts
    <3>3. h.code = Front(g.code)
      BY <2>1
    <3>4. Last(g.code) = PotentialBreak
      BY <1>2 DEF OnPotentialBreak
    <3> QED  BY <3>1, <3>2, <3>3, <3>4, FrontIs
  <2>3. /\ h.symbols = g.symbols /\ h.funcAddrs = g.funcAddrs
        /\ h.labels = g.labels /\ h.backpatching_todo = g.backpatching_todo
        /\ h.loops = g.loops
    BY <2>1 DEF Keeps, Fields
  <2>4. Len(g.code) >= 2
    <3>1. g.code[1].op = "PREPARE_EXEC"
      BY DEF Good, CodeTyped
    <3> QED  BY <3>1, <2>2 DEF PotentialBreak
  <2>5. CodeTyped(h)
    <3>1. Len(h.code) >= 1 /\ h.code[1] = g.code[1]
      BY <2>2, <2>4
    <3>2. ASSUME NEW k \in 2 .. Len(h.code)  PROVE h.code[k] \in Instruction
      <4>1. k \in 2 .. Len(g.code) /\ h.code[k] = g.code[k]
        BY <2>2
      <4> QED  BY <4>1 DEF Good, CodeTyped
    <3> QED  BY <3>1, <3>2 DEF Good, CodeTyped
  <2>6. LabelsSet(h)
    <3>1. ASSUME NEW l \in 1 .. Len(g.labels)
          PROVE  g.labels[l] \in -1 .. Len(g.code) - 1
      <4>1. g.labels[l] # Len(g.code)
        BY <1>2 DEF Loose, NextPos
      <4>2. g.labels[l] \in -1 .. Len(g.code)
        BY DEF Good, LabelsSet
      <4> QED  BY <4>1, <4>2, <2>2
    <3> QED  BY <3>1, <2>2, <2>3 DEF LabelsSet
  <2>7. JumpsWait(h)
    <3>1. ASSUME NEW k \in 1 .. Len(h.backpatching_todo)
          PROVE  /\ h.backpatching_todo[k] \in 1 .. Len(h.code) - 1
                 /\ IsJump(h.code[h.backpatching_todo[k] + 1], h)
      <4> DEFINE loc == g.backpatching_todo[k]
      <4>1. loc \in 1 .. Len(g.code) - 1 /\ IsJump(g.code[loc + 1], g)
        BY <2>3, <3>1 DEF Good, JumpsWait
      <4>2. loc + 1 # Len(g.code)
        BY <4>1, <2>2 DEF IsJump, PotentialBreak
      <4> HIDE DEF loc
      <4>3. loc + 1 \in 1 .. Len(g.code) - 1 /\ loc \in 1 .. Len(h.code) - 1
        BY <4>1, <4>2, <2>2
      <4>4. h.code[loc + 1] = g.code[loc + 1]
        BY <4>3, <2>2
      <4> QED  BY <4>1, <4>3, <4>4, <2>3 DEF IsJump, loc
    <3> QED  BY <3>1 DEF JumpsWait
  <2>8. Breaks(h)
    <3>1. top \in DOMAIN g.line_info /\ NextPos(h) = top
      BY <2>2, <2>4 DEF Good, Breaks, NextPos
    <3>2. DOMAIN h.line_info = {i \in 0 .. NextPos(h) - 1 : h.code[i + 1] = PotentialBreak}
      BY <2>1, <2>2, <3>1, SMTT(20) DEF Good, Breaks, NextPos
    <3>3. ASSUME NEW bp \in DOMAIN h.potential_breaks, NEW i \in h.potential_breaks[bp]
          PROVE  i \in DOMAIN h.line_info /\ h.line_info[i] = bp
      <4>1. /\ bp \in DOMAIN g.potential_breaks /\ bp # g.line_info[top]
            /\ i \in g.potential_breaks[bp]
        BY <2>1, <3>3
      <4>2. i \in DOMAIN g.line_info /\ g.line_info[i] = bp
        BY <4>1 DEF Good, Breaks
      <4> QED  BY <4>1, <4>2, <2>1
    <3> QED  BY <3>2, <3>3 DEF Breaks
  <2>9. Tables(h) /\ FunctionsTyped(h)
    BY <2>3 DEF Tables, IsTable, FunctionsTyped, Good
  <2>10. Grows(g, h)
    BY <2>3, SeqFacts DEF Grows, Wider, RegStates, Symbols, Good, Shape
  <2> QED  BY <2>1, <2>5, <2>6, <2>7, <2>8, <2>9, <2>10 DEF Good, h
<1> QED  BY <1>1, <1>2

\* createLabel().
LEMMA CreateLabelGood ==
  ASSUME NEW g, Good(g)
  PROVE  /\ Good(CreateLabel(g)) /\ Grows(g, CreateLabel(g))
         /\ Loose(CreateLabel(g)) => Loose(g)
         /\ Keeps(g, CreateLabel(g), {"labels"})
         /\ Len(CreateLabel(g).labels) = Len(g.labels) + 1
         /\ NewLabel(g) \in Labels(CreateLabel(g))
<1> DEFINE h == CreateLabel(g)
<1>0. IsSeq(g.labels) /\ Len(g.labels) \in Nat
  BY SeqFacts DEF Good, Shape
<1>1. Shape(h) /\ Keeps(g, h, {"labels"}) /\ h.labels = Append(g.labels, -1)
  BY AppendIs DEF CreateLabel, Good, Shape, Keeps, Fields
<1> HIDE DEF h
<1>2. /\ Len(h.labels) = Len(g.labels) + 1
      /\ \A k \in 1 .. Len(g.labels) : h.labels[k] = g.labels[k]
      /\ h.labels[Len(g.labels) + 1] = -1
  BY <1>0, <1>1, AppendIs
<1>3. /\ h.code = g.code /\ h.symbols = g.symbols /\ h.funcAddrs = g.funcAddrs
      /\ h.line_info = g.line_info /\ h.potential_breaks = g.potential_breaks
      /\ h.backpatching_todo = g.backpatching_todo /\ h.loops = g.loops
  BY <1>1 DEF Keeps, Fields
<1>4. ASSUME NEW l \in 1 .. Len(h.labels)
      PROVE  /\ h.labels[l] \in -1 .. Len(h.code)
             /\ h.labels[l] = NextPos(h) => l \in 1 .. Len(g.labels) /\ g.labels[l] = NextPos(g)
  <2>1. Len(g.code) \in Nat
    BY SeqFacts DEF Good, Shape
  <2>2. CASE l = Len(g.labels) + 1
    BY <1>2, <1>3, <2>1, <2>2 DEF NextPos
  <2>3. CASE l # Len(g.labels) + 1
    <3>1. l \in 1 .. Len(g.labels)
      BY <1>0, <1>2, <2>3
    <3> QED  BY <1>2, <1>3, <3>1 DEF NextPos, Good, LabelsSet
  <2> QED  BY <2>2, <2>3
<1>5. LabelsSet(h)
  BY <1>4 DEF LabelsSet
<1>6. Loose(h) => Loose(g)
  BY <1>3, <1>4 DEF Loose, OnPotentialBreak
<1>7. CodeTyped(h) /\ Breaks(h) /\ FunctionsTyped(h)
  BY <1>3 DEF Good, CodeTyped, Breaks, NextPos, FunctionsTyped
<1>8. JumpsWait(h)
  <2>1. \A i : IsJump(i, g) => IsJump(i, h)
    BY <1>0, <1>2 DEF IsJump
  <2> QED  BY <2>1, <1>3 DEF JumpsWait, Good
<1>9. Tables(h)
  BY <1>0, <1>2, <1>3 DEF Tables, IsTable, Good
<1>10. Grows(g, h)
  BY <1>0, <1>2, <1>3, SeqFacts DEF Grows, Wider, RegStates, Symbols, Good, Shape
<1>11. NewLabel(g) \in Labels(h)
  BY <1>0, <1>2 DEF NewLabel, Labels
<1> QED  BY <1>1, <1>2, <1>5, <1>6, <1>7, <1>8, <1>9, <1>10, <1>11 DEF Good, h

\* A label may be set to any position up to the end of the code.
LEMMA SetLabelGood ==
  ASSUME NEW g, Good(g), NEW l \in Labels(g), NEW p \in 0 .. NextPos(g)
  PROVE  /\ Good(SetLabel(g, l, p)) /\ Grows(g, SetLabel(g, l, p))
         /\ Loose(SetLabel(g, l, p)) => Loose(g) \/ (p = NextPos(g) /\ OnPotentialBreak(g))
         /\ Keeps(g, SetLabel(g, l, p), {"labels"})
         /\ Len(SetLabel(g, l, p).labels) = Len(g.labels)
<1> DEFINE h == SetLabel(g, l, p)
<1>0. IsSeq(g.labels) /\ Len(g.labels) \in Nat /\ Len(g.code) \in Nat
  BY SeqFacts DEF Good, Shape
<1>1. Shape(h) /\ Keeps(g, h, {"labels"}) /\ h.labels = [g.labels EXCEPT ![l + 1] = p]
  BY ExceptIs DEF SetLabel, Good, Shape, Keeps, Fields
<1> HIDE DEF h
<1>2. /\ Len(h.labels) = Len(g.labels)
      /\ \A k \in 1 .. Len(g.labels) : k # l + 1 => h.labels[k] = g.labels[k]
      /\ h.labels[l + 1] = p
  <2>1. l + 1 \in 1 .. Len(g.labels)
    BY <1>0 DEF Labels
  <2> QED  BY <1>0, <1>1, <2>1, ExceptIs
<1>3. /\ h.code = g.code /\ h.symbols = g.symbols /\ h.funcAddrs = g.funcAddrs
      /\ h.line_info = g.line_info /\ h.potential_breaks = g.potential_breaks
      /\ h.backpatching_todo = g.backpatching_todo /\ h.loops = g.loops
  BY <1>1 DEF Keeps, Fields
<1>4. ASSUME NEW k \in 1 .. Len(h.labels)
      PROVE  /\ h.labels[k] \in -1 .. Len(h.code)
             /\ h.labels[k] = NextPos(h) => p = NextPos(g) \/ g.labels[k] = NextPos(g)
  <2>2. CASE k = l + 1
    BY <1>0, <1>2, <1>3, <2>2 DEF NextPos
  <2>3. CASE k # l + 1
    BY <1>2, <1>3, <2>3 DEF NextPos, Good, LabelsSet
  <2> QED  BY <2>2, <2>3
<1>5. LabelsSet(h)
  BY <1>4 DEF LabelsSet
<1>6. Loose(h) => Loose(g) \/ (p = NextPos(g) /\ OnPotentialBreak(g))
  BY <1>2, <1>3, <1>4 DEF Loose, OnPotentialBreak
<1>7. CodeTyped(h) /\ Breaks(h) /\ FunctionsTyped(h)
  BY <1>3 DEF Good, CodeTyped, Breaks, NextPos, FunctionsTyped
<1>8. JumpsWait(h)
  BY <1>0, <1>2, <1>3 DEF JumpsWait, IsJump, Good
<1>9. Tables(h)
  BY <1>0, <1>2, <1>3 DEF Tables, IsTable, Good
<1>10. Grows(g, h)
  BY <1>0, <1>2, <1>3, SeqFacts DEF Grows, Wider, RegStates, Symbols, Good, Shape
<1> QED  BY <1>1, <1>2, <1>5, <1>6, <1>7, <1>8, <1>9, <1>10 DEF Good, h

\* A jump to a label that exists is left to backpatching.
LEMMA EmitBackpatchedGood ==
  ASSUME NEW g, Good(g), NEW i \in Instruction, IsJump(i, g)
  PROVE  /\ Good(EmitBackpatched(g, i)) /\ Grows(g, EmitBackpatched(g, i))
         /\ ~ Loose(EmitBackpatched(g, i)) /\ ~ OnPotentialBreak(EmitBackpatched(g, i))
         /\ Keeps(g, EmitBackpatched(g, i), {"code", "backpatching_todo"})
         /\ EmitBackpatched(g, i).code = Append(g.code, i)
<1> DEFINE f == Emit(g, i)
           h == EmitBackpatched(g, i)
<1>1. Good(f) /\ Grows(g, f) /\ ~ Loose(f)
  <2>1. i # PotentialBreak
    BY DEF IsJump, PotentialBreak
  <2> QED  BY <2>1, EmitGood
<1>2. Keeps(g, f, {"code"}) /\ f.code = Append(g.code, i)
  BY EmitEffect DEF Good
<1> HIDE DEF f
<1>3. /\ Shape(h) /\ Keeps(f, h, {"backpatching_todo"})
      /\ h.backpatching_todo = Append(f.backpatching_todo, NextPos(g))
  BY <1>1, AppendIs DEF EmitBackpatched, f, Good, Shape, Keeps, Fields
<1> HIDE DEF h
<1>4. /\ h.code = f.code /\ h.symbols = f.symbols /\ h.funcAddrs = f.funcAddrs
      /\ h.line_info = f.line_info /\ h.potential_breaks = f.potential_breaks
      /\ h.labels = f.labels /\ h.loops = f.loops
  BY <1>3 DEF Keeps, Fields
<1>5. /\ Len(g.code) \in Nat /\ Len(g.code) >= 1 /\ Len(f.code) = Len(g.code) + 1
      /\ f.code[Len(g.code) + 1] = i /\ Last(f.code) = i
  <2>1. IsSeq(g.code) /\ Len(g.code) >= 1
    BY DEF Good, Shape, CodeTyped
  <2>2. f.code = Append(g.code, i)
    BY <1>2
  <2> QED  BY <2>1, <2>2, AppendIs, SeqFacts
<1>6. JumpsWait(h)
  <2>1. /\ Len(h.backpatching_todo) = Len(f.backpatching_todo) + 1
        /\ \A k \in 1 .. Len(f.backpatching_todo) :
             h.backpatching_todo[k] = f.backpatching_todo[k]
        /\ h.backpatching_todo[Len(f.backpatching_todo) + 1] = NextPos(g)
        /\ Len(f.backpatching_todo) \in Nat
    <3>1. IsSeq(f.backpatching_todo)
      BY <1>1 DEF Good, Shape
    <3>2. h.backpatching_todo = Append(f.backpatching_todo, NextPos(g))
      BY <1>3
    <3> QED  BY <3>1, <3>2, AppendIs, SeqFacts
  <2>2. ASSUME NEW k \in 1 .. Len(h.backpatching_todo)
        PROVE  /\ h.backpatching_todo[k] \in 1 .. Len(h.code) - 1
               /\ IsJump(h.code[h.backpatching_todo[k] + 1], h)
    <3>1. CASE k = Len(f.backpatching_todo) + 1
      <4>1. f.labels = g.labels
        BY <1>2 DEF Keeps, Fields
      <4>2. h.backpatching_todo[k] = Len(g.code)
        BY <2>1, <3>1 DEF NextPos
      <4>3. Len(g.code) \in 1 .. Len(h.code) - 1 /\ h.code[Len(g.code) + 1] = i
        BY <1>4, <1>5
      <4>4. IsJump(i, h)
        BY <1>4, <4>1 DEF IsJump
      <4> QED  BY <4>2, <4>3, <4>4
    <3>2. CASE k # Len(f.backpatching_todo) + 1
      <4>1. k \in 1 .. Len(f.backpatching_todo)
        BY <2>1, <3>2
      <4>2. f.backpatching_todo[k] \in 1 .. Len(f.code) - 1 /\ IsJump(f.code[f.backpatching_todo[k] + 1], f)
        BY <4>1, <1>1 DEF Good, JumpsWait
      <4> QED  BY <4>1, <4>2, <2>1, <1>4 DEF IsJump
    <3> QED  BY <3>1, <3>2
  <2> QED  BY <2>2 DEF JumpsWait
<1>7. CodeTyped(h) /\ Breaks(h) /\ FunctionsTyped(h) /\ LabelsSet(h)
  BY <1>1, <1>4 DEF Good, CodeTyped, Breaks, NextPos, FunctionsTyped, LabelsSet
<1>9. Tables(h)
  BY <1>1, <1>4 DEF Tables, IsTable, Good
<1>10. Grows(g, h)
  BY <1>1, <1>4 DEF Grows, Wider, RegStates, Symbols
<1>11. ~ OnPotentialBreak(h) /\ ~ Loose(h)
  BY <1>4, <1>5 DEF Loose, OnPotentialBreak, IsJump, PotentialBreak
<1>12. Keeps(g, h, {"code", "backpatching_todo"}) /\ h.code = Append(g.code, i)
  BY <1>2, <1>3, <1>4 DEF Keeps
<1> QED  BY <1>3, <1>6, <1>7, <1>9, <1>10, <1>11, <1>12 DEF Good, h

\* Errors change nothing else.
LEMMA ErrorsGood ==
  ASSUME NEW g, Good(g), NEW t, NEW n \in Nat
  PROVE  /\ Good(Errors(g, t, n)) /\ Grows(g, Errors(g, t, n))
         /\ Loose(Errors(g, t, n)) => Loose(g)
         /\ Keeps(g, Errors(g, t, n), {"errors"})
<1> DEFINE h == Errors(g, t, n)
           more == [k \in 1 .. n |-> Error(g, t)]
<1>1. IsSeq(more)
  <2>1. more = [k \in 1 .. n |-> more[k]]
    OBVIOUS
  <2> HIDE DEF more
  <2> QED  BY <2>1, FunctionIs
<1> HIDE DEF more
<1>2. Shape(h) /\ Keeps(g, h, {"errors"})
  BY <1>1, ConcatIs DEF Errors, more, Good, Shape, Keeps, Fields
<1> HIDE DEF h
<1>4. /\ h.code = g.code /\ h.symbols = g.symbols /\ h.funcAddrs = g.funcAddrs
      /\ h.line_info = g.line_info /\ h.potential_breaks = g.potential_breaks
      /\ h.backpatching_todo = g.backpatching_todo
      /\ h.labels = g.labels /\ h.loops = g.loops
  BY <1>2 DEF Keeps, Fields
<1>7. CodeTyped(h) /\ Breaks(h) /\ FunctionsTyped(h) /\ LabelsSet(h) /\ JumpsWait(h)
  BY <1>4 DEF Good, CodeTyped, Breaks, NextPos, FunctionsTyped, LabelsSet, JumpsWait, IsJump
<1>9. Tables(h) /\ (Loose(h) => Loose(g))
  BY <1>4 DEF Tables, IsTable, Good, Loose, OnPotentialBreak, NextPos
<1>10. Grows(g, h)
  BY <1>4, SeqFacts DEF Grows, Wider, RegStates, Symbols, Good, Shape
<1> QED  BY <1>2, <1>7, <1>9, <1>10 DEF Good, h

-----------------------------------------------------------------------------
(* Symbols and registers *)

\* The symbol table on top.
LEMMA SymbolsFacts ==
  ASSUME NEW g, Good(g), Open(g)
  PROVE  /\ IsTable(Symbols(g), g)
         /\ IsSeq(RegStates(g)) /\ Len(RegStates(g)) \in Nat
         /\ DOMAIN RegStates(g) = 1 .. Len(RegStates(g))
         /\ \A k \in 1 .. Len(RegStates(g)) : IsRegister(RegStates(g)[k], g.loops)
         /\ Symbols(g) = g.symbols[Len(g.symbols)] /\ Len(g.symbols) \in Nat
<1>1. IsSeq(g.symbols) /\ Len(g.symbols) \in Nat
  BY SeqFacts DEF Good, Shape
<1>2. Symbols(g) = g.symbols[Len(g.symbols)]
  BY DEF Symbols, Last
<1>3. IsTable(Symbols(g), g)
  BY <1>1, <1>2 DEF Good, Tables, Open
<1> QED  BY <1>1, <1>2, <1>3, SeqFacts DEF IsTable, RegStates

\* Another table on top may have more registers.
LEMMA WithSymbolsGood ==
  ASSUME NEW g, Good(g), Open(g), NEW s, IsTable(s, g),
         s.name = Symbols(g).name,
         Len(RegStates(g)) <= Len(s.register_state)
  PROVE  /\ Good(WithSymbols(g, s)) /\ Wider(g, WithSymbols(g, s))
         /\ Open(WithSymbols(g, s))
         /\ Loose(WithSymbols(g, s)) => Loose(g)
         /\ Keeps(g, WithSymbols(g, s), {"symbols"})
         /\ Symbols(WithSymbols(g, s)) = s
         /\ RegStates(WithSymbols(g, s)) = s.register_state
         /\ \A k \in 1 .. Len(g.symbols) - 1 : WithSymbols(g, s).symbols[k] = g.symbols[k]
<1> DEFINE h == WithSymbols(g, s)
           n == Len(g.symbols)
<1>1. IsSeq(g.symbols) /\ n \in Nat /\ n >= 1
  BY SeqFacts DEF Good, Shape, Open
<1>2. Shape(h) /\ Keeps(g, h, {"symbols"}) /\ h.symbols = [g.symbols EXCEPT ![n] = s]
  BY ExceptIs DEF WithSymbols, Good, Shape, Keeps, Fields
<1> HIDE DEF h
<1>3. /\ Len(h.symbols) = n /\ h.symbols[n] = s
      /\ \A k \in 1 .. n : k # n => h.symbols[k] = g.symbols[k]
  BY <1>1, <1>2, ExceptIs
<1>4. /\ h.code = g.code /\ h.funcAddrs = g.funcAddrs
      /\ h.line_info = g.line_info /\ h.potential_breaks = g.potential_breaks
      /\ h.backpatching_todo = g.backpatching_todo
      /\ h.labels = g.labels /\ h.loops = g.loops
  BY <1>2 DEF Keeps, Fields
<1>5. Symbols(h) = s /\ RegStates(h) = s.register_state
  BY <1>3 DEF Symbols, Last, RegStates
<1>7. CodeTyped(h) /\ Breaks(h) /\ FunctionsTyped(h) /\ LabelsSet(h) /\ JumpsWait(h)
  BY <1>4 DEF Good, CodeTyped, Breaks, NextPos, FunctionsTyped, LabelsSet, JumpsWait, IsJump
<1>8. Tables(h)
  <2>1. ASSUME NEW k \in 1 .. n  PROVE IsTable(h.symbols[k], g)
    BY <1>3 DEF Good, Tables
  <2> QED  BY <2>1, <1>3, <1>4 DEF Tables, IsTable
<1>9. Loose(h) => Loose(g)
  BY <1>4 DEF Loose, OnPotentialBreak, NextPos
<1>10. Wider(g, h) /\ Open(h)
  <2>1. g.symbols[n] = Symbols(g)
    BY DEF Symbols, Last
  <2>2. Len(g.labels) \in Nat
    BY SeqFacts DEF Good, Shape
  <2>3. \A k \in 1 .. n : h.symbols[k].name = g.symbols[k].name
    BY <2>1, <1>3
  <2> QED  BY <2>2, <2>3, <1>1, <1>3, <1>4, <1>5 DEF Wider, Open
<1>11. \A k \in 1 .. n - 1 : h.symbols[k] = g.symbols[k]
  BY <1>1, <1>3
<1> QED  BY <1>2, <1>5, <1>7, <1>8, <1>9, <1>10, <1>11 DEF Good, h

\* A register is added behind the others.
LEMMA AddRegisterGood ==
  ASSUME NEW g, Good(g), Open(g), NEW v, IsRegister(v, g.loops)
  PROVE  /\ Good(AddRegister(g, v)) /\ Grows(g, AddRegister(g, v))
         /\ Open(AddRegister(g, v))
         /\ Loose(AddRegister(g, v)) => Loose(g)
         /\ Keeps(g, AddRegister(g, v), {"symbols"})
         /\ RegStates(AddRegister(g, v)) = Append(RegStates(g), v)
         /\ Len(RegStates(AddRegister(g, v))) = Len(RegStates(g)) + 1
         /\ \A k \in 1 .. Len(RegStates(g)) : RegStates(AddRegister(g, v))[k] = RegStates(g)[k]
         /\ RegStates(AddRegister(g, v))[Len(RegStates(g)) + 1] = v
         /\ Symbols(AddRegister(g, v)) = [Symbols(g) EXCEPT !.register_state = Append(@, v)]
<1> DEFINE s == [Symbols(g) EXCEPT !.register_state = Append(@, v)]
           rs == Append(RegStates(g), v)
<1>1. /\ IsTable(Symbols(g), g) /\ IsSeq(RegStates(g)) /\ Len(RegStates(g)) \in Nat
      /\ \A k \in 1 .. Len(RegStates(g)) : IsRegister(RegStates(g)[k], g.loops)
  BY SymbolsFacts
<1>2. /\ s.register_state = rs /\ s.name = Symbols(g).name
      /\ s.argnum = Symbols(g).argnum /\ s.marks = Symbols(g).marks
      /\ DOMAIN s = {"name", "register_state", "argnum", "marks"}
  BY <1>1 DEF IsTable, RegStates
<1>3. /\ IsSeq(rs) /\ Len(rs) = Len(RegStates(g)) + 1 /\ rs[Len(RegStates(g)) + 1] = v
      /\ \A k \in 1 .. Len(RegStates(g)) : rs[k] = RegStates(g)[k]
  BY <1>1, AppendIs
<1> HIDE DEF s, rs
<1>4. IsTable(s, g)
  <2>1. ASSUME NEW k \in 1 .. Len(rs)  PROVE IsRegister(rs[k], g.loops)
    BY <1>1, <1>3
  <2> QED  BY <2>1, <1>1, <1>2, <1>3 DEF IsTable
<1>5. AddRegister(g, v) = WithSymbols(g, s)
  BY DEF AddRegister, s
<1> HIDE DEF s
<1> DEFINE h == WithSymbols(g, s)
<1>6. /\ Good(h) /\ Wider(g, h) /\ Open(h) /\ (Loose(h) => Loose(g))
      /\ Keeps(g, h, {"symbols"}) /\ Symbols(h) = s /\ RegStates(h) = rs
  BY <1>1, <1>2, <1>3, <1>4, WithSymbolsGood
<1> HIDE DEF h
<1>7. Grows(g, h)
  BY <1>1, <1>3, <1>6 DEF Grows, Regs
<1> QED  BY <1>3, <1>5, <1>6, <1>7 DEF h, rs, s

\* Temporaries are taken or given back; variables are not.
LEMMA SetInUseGood ==
  ASSUME NEW g, Good(g), Open(g), NEW regs, NEW b \in BOOLEAN
  PROVE  /\ Good(SetInUse(g, regs, b)) /\ Wider(g, SetInUse(g, regs, b))
         /\ Open(SetInUse(g, regs, b))
         /\ Loose(SetInUse(g, regs, b)) => Loose(g)
         /\ Keeps(g, SetInUse(g, regs, b), {"symbols"})
         /\ Len(RegStates(SetInUse(g, regs, b))) = Len(RegStates(g))
         /\ \A k \in 1 .. Len(RegStates(g)) :
              RegStates(SetInUse(g, regs, b))[k] =
                IF k - 1 \in regs /\ RegStates(g)[k].is_temp
                  THEN [RegStates(g)[k] EXCEPT !.in_use = b] ELSE RegStates(g)[k]
         /\ Symbols(SetInUse(g, regs, b)).marks = Symbols(g).marks
         /\ Symbols(SetInUse(g, regs, b)).argnum = Symbols(g).argnum
<1> DEFINE new(rs) == [k \in DOMAIN rs |-> IF k - 1 \in regs /\ rs[k].is_temp
                          THEN [rs[k] EXCEPT !.in_use = b] ELSE rs[k]]
           s == [Symbols(g) EXCEPT !.register_state = new(@)]
           rs1 == new(RegStates(g))
<1>1. /\ IsTable(Symbols(g), g) /\ IsSeq(RegStates(g)) /\ Len(RegStates(g)) \in Nat
      /\ \A k \in 1 .. Len(RegStates(g)) : IsRegister(RegStates(g)[k], g.loops)
      /\ DOMAIN RegStates(g) = 1 .. Len(RegStates(g))
  BY SymbolsFacts
<1>2. /\ s.register_state = rs1 /\ s.name = Symbols(g).name
      /\ s.argnum = Symbols(g).argnum /\ s.marks = Symbols(g).marks
      /\ DOMAIN s = {"name", "register_state", "argnum", "marks"}
  BY <1>1 DEF IsTable, RegStates
<1>3. \A k \in 1 .. Len(RegStates(g)) :
         rs1[k] = IF k - 1 \in regs /\ RegStates(g)[k].is_temp
                  THEN [RegStates(g)[k] EXCEPT !.in_use = b] ELSE RegStates(g)[k]
  BY <1>1
<1>3a. rs1 = [k \in 1 .. Len(RegStates(g)) |-> rs1[k]]
  BY <1>1
<1>3b. SetInUse(g, regs, b) = WithSymbols(g, s)
  BY DEF SetInUse
<1> HIDE DEF s, rs1, new
<1>3c. IsSeq(rs1) /\ Len(rs1) = Len(RegStates(g))
  BY <1>1, <1>3a, FunctionIs
<1>4. IsTable(s, g)
  <2>1. ASSUME NEW k \in 1 .. Len(rs1)  PROVE IsRegister(rs1[k], g.loops)
    <3>1. IsRegister(RegStates(g)[k], g.loops) /\ k \in 1 .. Len(RegStates(g))
      BY <1>1, <1>3c
    <3>2. CASE k - 1 \in regs /\ RegStates(g)[k].is_temp
      BY <1>3, <3>1, <3>2 DEF IsRegister
    <3>3. CASE ~ (k - 1 \in regs /\ RegStates(g)[k].is_temp)
      BY <1>3, <3>1, <3>3
    <3> QED  BY <3>2, <3>3
  <2> QED  BY <2>1, <1>1, <1>2, <1>3c DEF IsTable
<1> DEFINE h == WithSymbols(g, s)
<1>6. /\ Good(h) /\ Wider(g, h) /\ Open(h) /\ (Loose(h) => Loose(g))
      /\ Keeps(g, h, {"symbols"}) /\ Symbols(h) = s /\ RegStates(h) = rs1
  BY <1>1, <1>2, <1>3c, <1>4, WithSymbolsGood
<1> HIDE DEF h
<1> QED  BY <1>2, <1>3, <1>3b, <1>3c, <1>6 DEF h

-----------------------------------------------------------------------------
(* Fetching registers and marks *)

\* A register that is not in use.
Fresh(r, g) == \A q \in Regs(g) : RegStates(g)[q + 1].in_use => q # r

\* fetchTemporary() returns a register that is in no use: a free temporary,
\* or one it adds.
LEMMA TemporaryIs ==
  ASSUME NEW g, Good(g), Open(g)
  PROVE  \/ Temporary(g) = Len(RegStates(g))
         \/ /\ Temporary(g) \in Regs(g)
            /\ RegStates(g)[Temporary(g) + 1].is_temp
            /\ ~ RegStates(g)[Temporary(g) + 1].in_use
<1> DEFINE free == {k \in DOMAIN RegStates(g) :
                      RegStates(g)[k].is_temp /\ ~ RegStates(g)[k].in_use}
<1>1. Len(RegStates(g)) \in Nat /\ DOMAIN RegStates(g) = 1 .. Len(RegStates(g))
  BY SymbolsFacts
<1>2. CASE free = {}
  BY <1>2 DEF Temporary
<1>3. CASE free # {}
  <2>1. free \subseteq Nat
    BY <1>1
  <2>2. Min(free) \in free
    BY <1>3, <2>1, MinNatural
  <2>3. Temporary(g) = Min(free) - 1
    BY <1>3 DEF Temporary
  <2> QED  BY <1>1, <2>2, <2>3 DEF Regs
<1> QED  BY <1>2, <1>3

\* And marks it as in use.
LEMMA FetchTemporaryGood ==
  ASSUME NEW g, Good(g), Open(g)
  PROVE  /\ Good(FetchTemporary(g)) /\ Grows(g, FetchTemporary(g))
         /\ Open(FetchTemporary(g))
         /\ Loose(FetchTemporary(g)) => Loose(g)
         /\ Keeps(g, FetchTemporary(g), {"symbols"})
         /\ Temporary(g) \in Regs(FetchTemporary(g))
         /\ RegStates(FetchTemporary(g))[Temporary(g) + 1].in_use
         /\ Fresh(Temporary(g), g)
<1> DEFINE r == Temporary(g)
           h == FetchTemporary(g)
           v == VReg(TRUE, TRUE, Variable("Temporary Variable"))
<1>1. /\ Len(RegStates(g)) \in Nat
      /\ \A k \in 1 .. Len(RegStates(g)) : IsRegister(RegStates(g)[k], g.loops)
  BY SymbolsFacts
<1>2. CASE r = Len(RegStates(g))
  <2>1. h = AddRegister(g, v)
    BY <1>2 DEF FetchTemporary
  <2>2. IsRegister(v, g.loops)
    BY DEF IsRegister, VReg, Variable
  <2>3. v.in_use
    BY DEF VReg
  <2> HIDE DEF h, v
  <2>4. /\ Good(h) /\ Grows(g, h) /\ Open(h) /\ (Loose(h) => Loose(g))
        /\ Keeps(g, h, {"symbols"})
        /\ Len(RegStates(h)) = Len(RegStates(g)) + 1
        /\ RegStates(h)[Len(RegStates(g)) + 1] = v
    BY <2>1, <2>2, AddRegisterGood
  <2>5. r \in Regs(h) /\ RegStates(h)[r + 1].in_use /\ Fresh(r, g)
    BY <1>1, <1>2, <2>3, <2>4 DEF Regs, Fresh
  <2> QED  BY <2>4, <2>5 DEF h
<1>3. CASE r # Len(RegStates(g))
  <2>1. h = SetInUse(g, {r}, TRUE)
    BY <1>3 DEF FetchTemporary
  <2>2. r \in Regs(g) /\ RegStates(g)[r + 1].is_temp /\ ~ RegStates(g)[r + 1].in_use
    BY <1>3, TemporaryIs
  <2> HIDE DEF h, r
  <2>3. /\ Good(h) /\ Wider(g, h) /\ Open(h) /\ (Loose(h) => Loose(g))
        /\ Keeps(g, h, {"symbols"})
        /\ Len(RegStates(h)) = Len(RegStates(g))
        /\ \A k \in 1 .. Len(RegStates(g)) :
              RegStates(h)[k] = IF k - 1 \in {r} /\ RegStates(g)[k].is_temp
                  THEN [RegStates(g)[k] EXCEPT !.in_use = TRUE] ELSE RegStates(g)[k]
    BY <2>1, SetInUseGood
  <2>4. ASSUME NEW q \in Regs(g), RegStates(g)[q + 1].in_use \/ q = r
        PROVE  RegStates(h)[q + 1].in_use
    <3>1. PICK k \in 1 .. Len(RegStates(g)) : k = q + 1 /\ k - 1 = q
      BY <1>1 DEF Regs
    <3>2. DOMAIN RegStates(g)[k] = {"in_use", "is_temp", "name"}
      BY <1>1, <3>1 DEF IsRegister
    <3>3. CASE q = r
      <4>1. RegStates(h)[k] = [RegStates(g)[k] EXCEPT !.in_use = TRUE]
        BY <2>2, <2>3, <3>1, <3>3
      <4> QED  BY <4>1, <3>1, <3>2
    <3>4. CASE q # r
      <4>1. RegStates(h)[k] = RegStates(g)[k]
        BY <2>3, <3>1, <3>4
      <4> QED  BY <4>1, <2>4, <3>1, <3>4
    <3> QED  BY <3>3, <3>4
  <2>5. Grows(g, h)
    BY <2>3, <2>4 DEF Grows
  <2>6. r \in Regs(h) /\ RegStates(h)[r + 1].in_use
    BY <2>2, <2>3, <2>4 DEF Regs
  <2>7. Fresh(r, g)
    BY <2>2 DEF Fresh
  <2> QED  BY <2>3, <2>5, <2>6, <2>7 DEF h, r
<1> QED  BY <1>2, <1>3

\* fetchVariableRegister() returns a register of that name, or the next one.
LEMMA VariableRegisterIs ==
  ASSUME NEW g, Good(g), Open(g), NEW name
  PROVE  \/ /\ VariableRegister(g, name) = Len(RegStates(g))
            /\ \A k \in 1 .. Len(RegStates(g)) : RegStates(g)[k].name # name
         \/ /\ VariableRegister(g, name) \in Regs(g)
            /\ RegStates(g)[VariableRegister(g, name) + 1].name = name
<1> DEFINE named == {k \in DOMAIN RegStates(g) : RegStates(g)[k].name = name}
<1>1. Len(RegStates(g)) \in Nat /\ DOMAIN RegStates(g) = 1 .. Len(RegStates(g))
  BY SymbolsFacts
<1>2. CASE named = {}
  BY <1>1, <1>2 DEF VariableRegister
<1>3. CASE named # {}
  <2>1. named \subseteq Nat
    BY <1>1
  <2>2. Min(named) \in named
    BY <1>3, <2>1, MinNatural
  <2>3. VariableRegister(g, name) = Min(named) - 1
    BY <1>3 DEF VariableRegister
  <2> QED  BY <1>1, <2>2, <2>3 DEF Regs
<1> QED  BY <1>2, <1>3

\* And adds it when there is none.
LEMMA FetchVariableRegisterGood ==
  ASSUME NEW g, Good(g), Open(g), NEW name, Len(name) = 4 => name[4] \in 1 .. g.loops
  PROVE  /\ Good(FetchVariableRegister(g, name))
         /\ Grows(g, FetchVariableRegister(g, name))
         /\ Open(FetchVariableRegister(g, name))
         /\ Loose(FetchVariableRegister(g, name)) => Loose(g)
         /\ Keeps(g, FetchVariableRegister(g, name), {"symbols"})
         /\ VariableRegister(g, name) \in Regs(FetchVariableRegister(g, name))
         /\ (\A k \in 1 .. Len(RegStates(g)) : RegStates(g)[k].name # name) =>
              /\ RegStates(FetchVariableRegister(g, name))
                   [VariableRegister(g, name) + 1].in_use
              /\ Fresh(VariableRegister(g, name), g)
<1> DEFINE r == VariableRegister(g, name)
           h == FetchVariableRegister(g, name)
           v == VReg(TRUE, FALSE, name)
<1>1. Len(RegStates(g)) \in Nat
  BY SymbolsFacts
<1>2. CASE r = Len(RegStates(g))
  <2>1. h = AddRegister(g, v)
    BY <1>2 DEF FetchVariableRegister
  <2>2. IsRegister(v, g.loops)
    BY DEF IsRegister, VReg
  <2>3. v.in_use
    BY DEF VReg
  <2> HIDE DEF h, v
  <2>4. /\ Good(h) /\ Grows(g, h) /\ Open(h) /\ (Loose(h) => Loose(g))
        /\ Keeps(g, h, {"symbols"})
        /\ Len(RegStates(h)) = Len(RegStates(g)) + 1
        /\ RegStates(h)[Len(RegStates(g)) + 1] = v
    BY <2>1, <2>2, AddRegisterGood
  <2>5. r \in Regs(h) /\ RegStates(h)[r + 1].in_use /\ Fresh(r, g)
    BY <1>1, <1>2, <2>3, <2>4 DEF Regs, Fresh
  <2> QED  BY <2>4, <2>5 DEF h
<1>3. CASE r # Len(RegStates(g))
  <2>1. h = g
    BY <1>3 DEF FetchVariableRegister
  <2>2. r \in Regs(g) /\ RegStates(g)[r + 1].name = name
    BY <1>3, VariableRegisterIs
  <2>3. Grows(g, g) /\ Keeps(g, g, {"symbols"})
    BY <1>1, SeqFacts DEF Grows, Wider, Keeps, Good, Shape
  <2>4. r + 1 \in 1 .. Len(RegStates(g))
    BY <1>1, <2>2 DEF Regs
  <2> QED  BY <2>1, <2>2, <2>3, <2>4
<1> QED  BY <1>2, <1>3

\* Registers that are released stay where they are.
LEMMA ReleaseGood ==
  ASSUME NEW g, Good(g), Open(g), NEW regs
  PROVE  /\ Good(ReleaseTemporaries(g, regs)) /\ Wider(g, ReleaseTemporaries(g, regs))
         /\ Open(ReleaseTemporaries(g, regs))
         /\ Loose(ReleaseTemporaries(g, regs)) => Loose(g)
         /\ Keeps(g, ReleaseTemporaries(g, regs), {"symbols"})
         /\ \A r \in Regs(g) \ regs :
              RegStates(ReleaseTemporaries(g, regs))[r + 1] = RegStates(g)[r + 1]
<1> DEFINE h == ReleaseTemporaries(g, regs)
<1>1. Len(RegStates(g)) \in Nat
  BY SymbolsFacts
<1>2. h = SetInUse(g, regs, FALSE)
  BY DEF ReleaseTemporaries
<1> HIDE DEF h
<1>3. /\ Good(h) /\ Wider(g, h) /\ Open(h) /\ (Loose(h) => Loose(g))
      /\ Keeps(g, h, {"symbols"})
      /\ \A k \in 1 .. Len(RegStates(g)) :
              RegStates(h)[k] = IF k - 1 \in regs /\ RegStates(g)[k].is_temp
                  THEN [RegStates(g)[k] EXCEPT !.in_use = FALSE] ELSE RegStates(g)[k]
  BY <1>2, SetInUseGood
<1>4. ASSUME NEW r \in Regs(g) \ regs  PROVE RegStates(h)[r + 1] = RegStates(g)[r + 1]
  <2>1. PICK k \in 1 .. Len(RegStates(g)) : k = r + 1 /\ k - 1 = r
    BY <1>1 DEF Regs
  <2>2. RegStates(h)[k] = RegStates(g)[k]
    BY <1>3, <2>1
  <2> QED  BY <2>1, <2>2
<1> QED  BY <1>3, <1>4 DEF h

\* A mark has a label once it has been named.
LEMMA WithMarkGood ==
  ASSUME NEW g, Good(g), Open(g), NEW name
  PROVE  /\ Good(WithMark(g, name)) /\ Grows(g, WithMark(g, name))
         /\ Open(WithMark(g, name))
         /\ Loose(WithMark(g, name)) => Loose(g)
         /\ Keeps(g, WithMark(g, name), {"symbols", "labels"})
         /\ LabelOf(WithMark(g, name), name) \in Labels(WithMark(g, name))
         /\ RegStates(WithMark(g, name)) = RegStates(g)
<1> DEFINE h == WithMark(g, name)
           m == Symbols(g).marks
<1>0. Len(g.labels) \in Nat /\ Len(RegStates(g)) \in Nat /\ IsTable(Symbols(g), g)
  BY SymbolsFacts, SeqFacts DEF Good, Shape
<1>1. CASE name \in DOMAIN m
  <2>1. h = g
    BY <1>1 DEF WithMark
  <2>2. LabelOf(g, name) \in Labels(g)
    BY <1>0, <1>1 DEF IsTable, LabelOf, Labels
  <2>3. Grows(g, g) /\ Keeps(g, g, {"symbols", "labels"})
    BY <1>0 DEF Grows, Wider, Keeps
  <2> QED  BY <2>1, <2>2, <2>3
<1>2. CASE name \notin DOMAIN m
  <2> DEFINE f == CreateLabel(g)
             s == [Symbols(g) EXCEPT !.marks = Bound(@, name, NewLabel(g))]
  <2>1. h = WithSymbols(f, s)
    BY <1>2 DEF WithMark
  <2>2. /\ Good(f) /\ Grows(g, f) /\ (Loose(f) => Loose(g))
        /\ Keeps(g, f, {"labels"})
        /\ Len(f.labels) = Len(g.labels) + 1
        /\ NewLabel(g) \in Labels(f)
    BY CreateLabelGood
  <2> HIDE DEF f
  <2>3. f.symbols = g.symbols /\ f.loops = g.loops
    BY <2>2 DEF Keeps, Fields
  <2>4. Symbols(f) = Symbols(g) /\ RegStates(f) = RegStates(g) /\ Open(f)
    BY <2>3 DEF Symbols, RegStates, Open
  <2>5. /\ s.register_state = RegStates(f) /\ s.name = Symbols(f).name
        /\ s.argnum = Symbols(g).argnum /\ s.marks = Bound(m, name, NewLabel(g))
        /\ DOMAIN s = {"name", "register_state", "argnum", "marks"}
    BY <1>0, <2>4 DEF IsTable, RegStates
  <2> HIDE DEF s
  <2>6. IsTable(s, f)
    <3>1. ASSUME NEW x \in DOMAIN s.marks  PROVE s.marks[x] \in 0 .. Len(f.labels) - 1
      <4>1. CASE x = name
        BY <2>2, <2>5, <4>1 DEF Bound, Labels
      <4>2. CASE x # name
        <5>1. x \in DOMAIN m /\ s.marks[x] = m[x]
          BY <2>5, <3>1, <4>2 DEF Bound
        <5>2. m[x] \in 0 .. Len(g.labels) - 1
          BY <5>1, <1>0 DEF IsTable
        <5> QED  BY <5>1, <5>2, <2>2, <1>0
      <4> QED  BY <4>1, <4>2
    <3>2. IsTable(Symbols(f), f)
      BY <2>2, <2>4, SymbolsFacts
    <3>3. IsFiniteSet(DOMAIN s.marks)
      <4>1. DOMAIN s.marks = DOMAIN m \cup {name} /\ IsFiniteSet(DOMAIN m)
        BY <1>0, <2>5 DEF Bound, IsTable
      <4> QED  BY <4>1, FS_AddElement
    <3> QED  BY <3>1, <3>2, <3>3, <2>4, <2>5 DEF IsTable, RegStates
  <2>7. /\ Good(h) /\ Wider(f, h) /\ Open(h) /\ (Loose(h) => Loose(f))
        /\ Keeps(f, h, {"symbols"})
        /\ Symbols(h) = s /\ RegStates(h) = s.register_state
    <3> HIDE DEF h
    <3>1. Len(RegStates(f)) <= Len(s.register_state)
      BY <1>0, <2>4, <2>5
    <3> QED  BY <2>1, <2>2, <2>4, <2>5, <2>6, <3>1, WithSymbolsGood
  <2> HIDE DEF h
  <2>8. Grows(g, h)
    BY <1>0, <2>2, <2>3, <2>4, <2>5, <2>7 DEF Grows, Wider
  <2>9. LabelOf(h, name) \in Labels(h)
    <3>1. h.labels = f.labels
      BY <2>7 DEF Keeps, Fields
    <3>2. LabelOf(h, name) = NewLabel(g)
      BY <2>5, <2>7 DEF LabelOf, Bound
    <3> QED  BY <3>1, <3>2, <2>2 DEF Labels
  <2>10. Keeps(g, h, {"symbols", "labels"})
    BY <2>2, <2>7 DEF Keeps
  <2> QED  BY <2>2, <2>4, <2>5, <2>7, <2>8, <2>9, <2>10 DEF h
<1> QED  BY <1>1, <1>2

-----------------------------------------------------------------------------
(* Programs *)

\* argnum is counted up.
LEMMA CountArgGood ==
  ASSUME NEW g, Good(g), Open(g), NEW h,
         h = WithSymbols(g, [Symbols(g) EXCEPT !.argnum = @ + 1])
  PROVE  /\ Good(h) /\ Grows(g, h) /\ Open(h) /\ (Loose(h) => Loose(g))
         /\ Keeps(g, h, {"symbols"})
         /\ RegStates(h) = RegStates(g)
<1> DEFINE s == [Symbols(g) EXCEPT !.argnum = @ + 1]
<1>1. IsTable(Symbols(g), g) /\ Len(RegStates(g)) \in Nat
  BY SymbolsFacts
<1>2. /\ s.register_state = RegStates(g) /\ s.name = Symbols(g).name
      /\ s.argnum = Symbols(g).argnum + 1 /\ s.marks = Symbols(g).marks
      /\ DOMAIN s = {"name", "register_state", "argnum", "marks"}
  BY <1>1 DEF IsTable, RegStates
<1>3. h = WithSymbols(g, s)
  OBVIOUS
<1> HIDE DEF s
<1>4. IsTable(s, g)
  BY <1>1, <1>2 DEF IsTable, RegStates
<1>5. /\ Good(h) /\ Wider(g, h) /\ Open(h) /\ (Loose(h) => Loose(g))
      /\ Keeps(g, h, {"symbols"}) /\ RegStates(h) = RegStates(g)
  BY <1>1, <1>2, <1>3, <1>4, WithSymbolsGood
<1> QED  BY <1>5 DEF Grows

\* loops is counted up.
LEMMA NextLoopGood ==
  ASSUME NEW g, Good(g), NEW h, h = [g EXCEPT !.loops = @ + 1]
  PROVE  /\ Good(h) /\ Grows(g, h) /\ (Loose(h) => Loose(g))
         /\ Keeps(g, h, {"loops"}) /\ h.loops = g.loops + 1
<1>1. Shape(h) /\ Keeps(g, h, {"loops"}) /\ h.loops = g.loops + 1 /\ g.loops \in Nat
  BY DEF Good, Shape, Keeps, Fields
<1>4. /\ h.code = g.code /\ h.symbols = g.symbols /\ h.funcAddrs = g.funcAddrs
      /\ h.line_info = g.line_info /\ h.potential_breaks = g.potential_breaks
      /\ h.backpatching_todo = g.backpatching_todo /\ h.labels = g.labels
  BY <1>1 DEF Keeps, Fields
<1>7. CodeTyped(h) /\ Breaks(h) /\ FunctionsTyped(h) /\ LabelsSet(h) /\ JumpsWait(h)
  BY <1>4 DEF Good, CodeTyped, Breaks, NextPos, FunctionsTyped, LabelsSet, JumpsWait, IsJump
<1>8. Loose(h) => Loose(g)
  BY <1>4 DEF Loose, OnPotentialBreak, NextPos
<1>9. Tables(h)
  <2>1. ASSUME NEW v, IsRegister(v, g.loops)
        PROVE  IsRegister(v, h.loops)
    BY <1>1, <2>1 DEF IsRegister
  <2> QED  BY <2>1, <1>1, <1>4 DEF Tables, IsTable, Good
<1>10. Grows(g, h)
  BY <1>4, SeqFacts DEF Grows, Wider, RegStates, Symbols, Good, Shape
<1> QED  BY <1>1, <1>7, <1>8, <1>9, <1>10 DEF Good

\* The table of a program that begins is empty.
LEMMA PushSymbolsGood ==
  ASSUME NEW g, Good(g), NEW name
  PROVE  /\ Good(PushSymbols(g, name)) /\ Open(PushSymbols(g, name))
         /\ Loose(PushSymbols(g, name)) => Loose(g)
         /\ Keeps(g, PushSymbols(g, name), {"symbols"})
         /\ Len(PushSymbols(g, name).symbols) = Len(g.symbols) + 1
         /\ \A k \in 1 .. Len(g.symbols) : PushSymbols(g, name).symbols[k] = g.symbols[k]
         /\ Symbols(PushSymbols(g, name)) =
              [name |-> name, register_state |-> <<>>, argnum |-> 0, marks |-> <<>>]
<1> DEFINE h == PushSymbols(g, name)
           s == [name |-> name, register_state |-> <<>>, argnum |-> 0, marks |-> <<>>]
<1>1. IsSeq(g.symbols) /\ Len(g.symbols) \in Nat
  BY SeqFacts DEF Good, Shape
<1>2. Shape(h) /\ Keeps(g, h, {"symbols"}) /\ h.symbols = Append(g.symbols, s)
  BY AppendIs DEF PushSymbols, Good, Shape, Keeps, Fields
<1> HIDE DEF h
<1>4. /\ h.code = g.code /\ h.funcAddrs = g.funcAddrs
      /\ h.line_info = g.line_info /\ h.potential_breaks = g.potential_breaks
      /\ h.backpatching_todo = g.backpatching_todo
      /\ h.labels = g.labels /\ h.loops = g.loops
  BY <1>2 DEF Keeps, Fields
<1>5. IsTable(s, g)
  <2>1. <<>> \in Seq({}) /\ Len(<<>>) = 0 /\ DOMAIN <<>> = {}
    OBVIOUS
  <2>2. IsSeq(<<>>)
    BY <2>1, SeqIs
  <2>3. IsFiniteSet(DOMAIN <<>>)
    BY <2>1, FS_EmptySet
  <2> QED  BY <2>1, <2>2, <2>3 DEF IsTable
<1> HIDE DEF s
<1>3. /\ Len(h.symbols) = Len(g.symbols) + 1
      /\ \A k \in 1 .. Len(g.symbols) : h.symbols[k] = g.symbols[k]
      /\ h.symbols[Len(g.symbols) + 1] = s /\ Last(h.symbols) = s
  BY <1>1, <1>2, AppendIs
<1>7. CodeTyped(h) /\ Breaks(h) /\ FunctionsTyped(h) /\ LabelsSet(h) /\ JumpsWait(h)
  BY <1>4 DEF Good, CodeTyped, Breaks, NextPos, FunctionsTyped, LabelsSet, JumpsWait, IsJump
<1>8. Loose(h) => Loose(g)
  BY <1>4 DEF Loose, OnPotentialBreak, NextPos
<1>9. Tables(h)
  <2>1. ASSUME NEW k \in 1 .. Len(h.symbols)  PROVE IsTable(h.symbols[k], g)
    <3>1. CASE k = Len(g.symbols) + 1
      BY <1>3, <1>5, <3>1
    <3>2. CASE k # Len(g.symbols) + 1
      BY <1>1, <1>3, <3>2 DEF Good, Tables
    <3> QED  BY <3>1, <3>2
  <2> QED  BY <2>1, <1>4 DEF Tables, IsTable
<1>10. Open(h)
  BY <1>1, <1>3 DEF Open
<1> QED  BY <1>2, <1>3, <1>7, <1>8, <1>9, <1>10 DEF Good, Symbols, h, s

\* What a finished program leaves behind.
Prog(g, addr) ==
  [ind |-> addr, mi |-> Len(g.stack_maps), argnum |-> Symbols(g).argnum,
   stack_size |-> Len(RegStates(g))]

\* The table on top is given up; its program can be called.
LEMMA PopSymbolsGood ==
  ASSUME NEW g, Good(g), Open(g), NEW addr \in Nat
  PROVE  /\ Good(PopSymbols(g, addr))
         /\ Loose(PopSymbols(g, addr)) => Loose(g)
         /\ Keeps(g, PopSymbols(g, addr), {"errors", "stack_maps", "funcAddrs", "symbols"})
         /\ Len(PopSymbols(g, addr).symbols) = Len(g.symbols) - 1
         /\ \A k \in 1 .. Len(g.symbols) - 1 : PopSymbols(g, addr).symbols[k] = g.symbols[k]
         /\ PopSymbols(g, addr).funcAddrs =
              Bound(g.funcAddrs, Symbols(g).name, Prog(g, addr))
         /\ \E m : PopSymbols(g, addr).stack_maps = Append(g.stack_maps, m)
<1> DEFINE h == PopSymbols(g, addr)
           s == Symbols(g)
           unknown == {name \in DOMAIN s.marks : g.labels[s.marks[name] + 1] = -1}
           f == Errors(g, "UNKNOWN_MARK", Cardinality(unknown))
           named == {r \in 0 .. Len(s.register_state) - 1 :
                       ~ s.register_state[r + 1].is_temp}
           m == [func_name |-> s.name,
                 map |-> [r \in named |-> s.register_state[r + 1].name]]
<1>1. /\ IsSeq(g.symbols) /\ Len(g.symbols) \in Nat /\ g.symbols # <<>>
      /\ IsTable(s, g) /\ Len(RegStates(g)) \in Nat /\ Len(g.stack_maps) \in Nat
      /\ IsSeq(g.stack_maps)
  <2>1. IsSeq(g.symbols) /\ IsSeq(g.stack_maps)
    BY DEF Good, Shape
  <2>2. g.symbols # <<>>
    BY DEF Open
  <2> QED  BY <2>1, <2>2, SymbolsFacts, SeqFacts
<1>2. Cardinality(unknown) \in Nat
  BY <1>1, FS_Subset, FS_CardinalityType DEF IsTable
<1> HIDE DEF unknown
<1>3. Good(f) /\ (Loose(f) => Loose(g)) /\ Keeps(g, f, {"errors"})
  BY <1>2, ErrorsGood
<1>4. h = [f EXCEPT !.stack_maps = Append(@, m),
                    !.funcAddrs = Bound(@, s.name, Prog(g, addr)),
                    !.symbols = Front(@)]
  BY DEF PopSymbols, unknown, Prog, RegStates
<1> HIDE DEF h, f, m, s
<1>5. /\ f.code = g.code /\ f.funcAddrs = g.funcAddrs /\ f.symbols = g.symbols
      /\ f.line_info = g.line_info /\ f.potential_breaks = g.potential_breaks
      /\ f.backpatching_todo = g.backpatching_todo /\ f.stack_maps = g.stack_maps
      /\ f.labels = g.labels /\ f.loops = g.loops
  BY <1>3 DEF Keeps, Fields
<1>6. /\ h.stack_maps = Append(g.stack_maps, m)
      /\ h.funcAddrs = Bound(g.funcAddrs, s.name, Prog(g, addr))
      /\ h.symbols = Front(g.symbols)
      /\ Keeps(f, h, {"stack_maps", "funcAddrs", "symbols"})
      /\ DOMAIN h = Fields
  BY <1>3, <1>4, <1>5 DEF Good, Shape, Fields, Keeps
<1>7. /\ h.code = g.code /\ h.errors = f.errors
      /\ h.line_info = g.line_info /\ h.potential_breaks = g.potential_breaks
      /\ h.backpatching_todo = g.backpatching_todo
      /\ h.labels = g.labels /\ h.loops = g.loops
  BY <1>5, <1>6 DEF Keeps, Fields
<1>8. /\ IsSeq(h.symbols) /\ Len(h.symbols) = Len(g.symbols) - 1
      /\ \A k \in 1 .. Len(g.symbols) - 1 : h.symbols[k] = g.symbols[k]
      /\ IsSeq(h.stack_maps)
  <2>1. h.symbols = Front(g.symbols) /\ h.stack_maps = Append(g.stack_maps, m)
    BY <1>6
  <2>2. IsSeq(h.stack_maps)
    BY <2>1, <1>1, AppendIs
  <2> QED  BY <2>1, <2>2, <1>1, FrontIs
<1>9. Shape(h)
  BY <1>3, <1>5, <1>6, <1>7, <1>8 DEF Shape, Good
<1>10. CodeTyped(h) /\ Breaks(h) /\ LabelsSet(h) /\ JumpsWait(h)
  BY <1>7 DEF Good, CodeTyped, Breaks, NextPos, LabelsSet, JumpsWait, IsJump
<1>11. Loose(h) => Loose(g)
  BY <1>7 DEF Loose, OnPotentialBreak, NextPos
<1>12. Tables(h)
  <2>1. ASSUME NEW k \in 1 .. Len(h.symbols)  PROVE IsTable(h.symbols[k], g)
    BY <1>1, <1>8 DEF Good, Tables
  <2> QED  BY <2>1, <1>7 DEF Tables, IsTable
<1>13. FunctionsTyped(h)
  <2>1. ASSUME NEW name \in DOMAIN h.funcAddrs
        PROVE  LET p == h.funcAddrs[name]
               IN  p.ind \in Nat /\ p.mi \in Nat /\ p.argnum \in Nat /\ p.stack_size \in Nat
    <3>1. CASE name = s.name
      <4>1. h.funcAddrs[name] = Prog(g, addr)
        BY <1>6, <3>1 DEF Bound
      <4>2. s.argnum \in Nat
        BY <1>1 DEF IsTable
      <4> QED  BY <4>1, <4>2, <1>1 DEF Prog, s
    <3>2. CASE name # s.name
      <4>1. name \in DOMAIN g.funcAddrs /\ h.funcAddrs[name] = g.funcAddrs[name]
        BY <1>6, <2>1, <3>2 DEF Bound
      <4> QED  BY <4>1 DEF Good, FunctionsTyped
    <3> QED  BY <3>1, <3>2
  <2> QED  BY <2>1 DEF FunctionsTyped
<1>14. Keeps(g, h, {"errors", "stack_maps", "funcAddrs", "symbols"})
  BY <1>3, <1>6 DEF Keeps
<1> QED  BY <1>6, <1>8, <1>9, <1>10, <1>11, <1>12, <1>13, <1>14 DEF Good, h, s

-----------------------------------------------------------------------------
(* Code that is added at once, and backpatching *)

\* g after the instructions t.
Join(g, t) == [g EXCEPT !.code = @ \o t]

\* Instructions that are no breakpoints are added.
LEMMA JoinGood ==
  ASSUME NEW g, Good(g), NEW t, IsSeq(t),
         \A k \in 1 .. Len(t) : t[k] \in Instruction /\ t[k] # PotentialBreak
  PROVE  /\ Good(Join(g, t)) /\ Grows(g, Join(g, t))
         /\ Loose(Join(g, t)) => Loose(g)
         /\ Keeps(g, Join(g, t), {"code"})
         /\ Join(g, t).code = g.code \o t
<1> DEFINE n == Len(g.code)
           m == Len(t)
           h == Join(g, t)
<1>1. /\ IsSeq(g.code) /\ n \in Nat /\ n >= 1 /\ m \in Nat
  BY SeqFacts DEF Good, Shape, CodeTyped
<1>2. h.code = g.code \o t /\ Keeps(g, h, {"code"}) /\ DOMAIN h = Fields
  BY DEF Join, Good, Shape, Fields, Keeps
<1> HIDE DEF h
<1>3. /\ IsSeq(h.code) /\ Len(h.code) = n + m
      /\ \A k \in 1 .. n : h.code[k] = g.code[k]
      /\ \A k \in n + 1 .. n + m : h.code[k] = t[k - n]
  BY <1>1, <1>2, ConcatIs
<1>4. /\ h.stack_maps = g.stack_maps /\ h.potential_breaks = g.potential_breaks
      /\ h.line_info = g.line_info /\ h.errors = g.errors
      /\ h.symbols = g.symbols /\ h.funcAddrs = g.funcAddrs
      /\ h.labels = g.labels /\ h.backpatching_todo = g.backpatching_todo
      /\ h.loops = g.loops
  BY <1>2 DEF Keeps, Fields
<1>5. Shape(h)
  BY <1>2, <1>3, <1>4 DEF Shape, Good
<1> HIDE DEF n, m
<1>6. \A k \in n + 1 .. n + m : h.code[k] \in Instruction /\ h.code[k] # PotentialBreak
  <2>1. ASSUME NEW k \in n + 1 .. n + m
        PROVE  h.code[k] \in Instruction /\ h.code[k] # PotentialBreak
    <3>1. PICK j \in 1 .. m : j = k - n
      BY <1>1
    <3>2. h.code[k] = t[j]
      BY <1>3, <3>1
    <3> QED  BY <3>2 DEF m
  <2> QED  BY <2>1
<1>7. CodeTyped(h)
  <2>1. ASSUME NEW k \in 2 .. Len(h.code)  PROVE h.code[k] \in Instruction
    <3>1. CASE k \in 1 .. n
      <4>1. h.code[k] = g.code[k] /\ k \in 2 .. n
        BY <1>3, <3>1
      <4> QED  BY <4>1 DEF Good, CodeTyped, n
    <3>2. CASE k \notin 1 .. n
      BY <1>1, <1>3, <1>6, <3>2
    <3> QED  BY <3>1, <3>2
  <2>2. h.code[1] = g.code[1] /\ Len(h.code) >= 1
    BY <1>1, <1>3
  <2> QED  BY <2>1, <2>2 DEF Good, CodeTyped
<1>8. LabelsSet(h)
  BY <1>1, <1>3, <1>4 DEF LabelsSet, Good, n
<1>9. JumpsWait(h)
  <2>1. ASSUME NEW k \in 1 .. Len(h.backpatching_todo)
        PROVE  /\ h.backpatching_todo[k] \in 1 .. Len(h.code) - 1
               /\ IsJump(h.code[h.backpatching_todo[k] + 1], h)
    <3>1. PICK loc \in 1 .. n - 1 : loc = g.backpatching_todo[k] /\ IsJump(g.code[loc + 1], g)
      BY <1>4 DEF Good, JumpsWait, n
    <3>2. PICK j \in 1 .. n : j = loc + 1 /\ loc \in 1 .. n + m - 1
      BY <1>1
    <3>3. h.code[j] = g.code[j]
      BY <1>3
    <3>4. h.backpatching_todo[k] = loc /\ h.code[loc + 1] = g.code[loc + 1]
      BY <1>4, <3>1, <3>2, <3>3
    <3>5. IsJump(h.code[loc + 1], h)
      BY <1>4, <3>1, <3>4 DEF IsJump
    <3>6. loc \in 1 .. Len(h.code) - 1
      BY <1>1, <1>3, <3>2
    <3> QED  BY <3>4, <3>5, <3>6, Zenon
  <2> QED  BY <2>1 DEF JumpsWait
<1>10. Breaks(h)
  <2>1. ASSUME NEW i \in 0 .. n + m - 1
        PROVE  h.code[i + 1] = PotentialBreak <=> i \in 0 .. n - 1 /\ g.code[i + 1] = PotentialBreak
    <3>1. CASE i \in 0 .. n - 1
      <4>1. PICK j \in 1 .. n : j = i + 1
        BY <1>1, <3>1
      <4> QED  BY <4>1, <1>3, <3>1
    <3>2. CASE i \notin 0 .. n - 1
      <4>1. PICK j \in n + 1 .. n + m : j = i + 1
        BY <1>1, <3>2
      <4> QED  BY <4>1, <1>6, <3>2
    <3> QED  BY <3>1, <3>2
  <2>2. {i \in 0 .. NextPos(h) - 1 : h.code[i + 1] = PotentialBreak}
          = {i \in 0 .. NextPos(g) - 1 : g.code[i + 1] = PotentialBreak}
    <3>1. NextPos(h) = n + m /\ NextPos(g) = n
      BY <1>3 DEF NextPos, n
    <3>2. \A i : i \in 0 .. n - 1 => i \in 0 .. n + m - 1
      BY <1>1
    <3>3. {i \in 0 .. n + m - 1 : h.code[i + 1] = PotentialBreak}
            = {i \in 0 .. n - 1 : g.code[i + 1] = PotentialBreak}
      BY <3>2, <2>1, Zenon
    <3>4. 0 .. NextPos(h) - 1 = 0 .. n + m - 1 /\ 0 .. NextPos(g) - 1 = 0 .. n - 1
      BY <1>1, <3>1
    <3> QED  BY <3>3, <3>4, Zenon
  <2>3. Breaks(g)
    BY DEF Good
  <2> QED  BY <2>2, <2>3, <1>4 DEF Breaks
<1>11. Tables(h) /\ FunctionsTyped(h)
  BY <1>4 DEF Tables, IsTable, FunctionsTyped, Good
<1>12. Grows(g, h)
  BY <1>4, SeqFacts DEF Grows, Wider, RegStates, Symbols, Good, Shape
<1>13. Loose(h) => Loose(g)
  <2>1. CASE m = 0
    BY <1>1, <1>3, <1>4, <2>1 DEF Loose, OnPotentialBreak, NextPos, Last, n
  <2>2. CASE m # 0
    <3>1. PICK j \in n + 1 .. n + m : j = n + m
      BY <1>1, <2>2
    <3>2. Last(h.code) = h.code[j]
      BY <1>3, <3>1 DEF Last
    <3> QED  BY <1>6, <3>2 DEF Loose, OnPotentialBreak
  <2> QED  BY <2>1, <2>2
<1> QED  BY <1>2, <1>5, <1>7, <1>8, <1>9, <1>10, <1>11, <1>12, <1>13 DEF Good, h

\* A patched jump is an instruction.
LEMMA JumpPatched ==
  ASSUME NEW i \in Instruction, i.op \in {"JMP", "JMPC"}, NEW z \in Int
  PROVE  /\ [i EXCEPT !.offset = z] \in Instruction
         /\ [i EXCEPT !.offset = z] # PotentialBreak
         /\ i # PotentialBreak
<1>1. CASE i \in [op : {"JMP"}, offset : Int]
  BY <1>1 DEF Instruction, PotentialBreak
<1>2. CASE i \in [op : {"JMPC"}, offset : Int, source : Nat]
  BY <1>2 DEF Instruction, PotentialBreak
<1>3. i \in [op : {"JMP"}, offset : Int] \/ i \in [op : {"JMPC"}, offset : Int, source : Nat]
  BY DEF Instruction
<1> QED  BY <1>1, <1>2, <1>3

\* Backpatching leaves instructions behind.
LEMMA BackpatchGood ==
  ASSUME NEW g, Good(g)
  PROVE  /\ Good(Backpatch(g))
         /\ Keeps(g, Backpatch(g), {"code", "errors", "backpatching_todo"})
         /\ Len(Backpatch(g).code) = Len(g.code)
<1> DEFINE todo        == g.backpatching_todo
           Target(loc) == g.labels[g.code[loc + 1].offset + 1]
           unknown     == {k \in DOMAIN todo : Target(todo[k]) = -1}
           patched     == {loc + 1 : loc \in Range(todo)}
           new(s)      == [k \in DOMAIN s |->
                             IF k \in patched
                               THEN [s[k] EXCEPT !.offset = Target(k - 1) - (k - 1)]
                               ELSE s[k]]
           code == new(g.code)
           f == Errors(g, "UNKNOWN_MARK", Cardinality(unknown))
           h == Backpatch(g)
<1>0. h = [f EXCEPT !.code = new(@), !.backpatching_todo = <<>>]
  BY DEF Backpatch
<1>1. IsSeq(todo) /\ IsSeq(g.code) /\ Len(g.code) \in Nat /\ Len(g.code) >= 1
       /\ DOMAIN todo = 1 .. Len(todo) /\ DOMAIN g.code = 1 .. Len(g.code)
       /\ Len(todo) \in Nat
  BY SeqFacts DEF Good, Shape, CodeTyped
<1>2. Cardinality(unknown) \in Nat
  <2>1. IsFiniteSet(1 .. Len(todo))
    BY <1>1, FS_Interval
  <2>2. unknown \subseteq 1 .. Len(todo)
    BY <1>1
  <2> HIDE DEF unknown, todo
  <2>3. IsFiniteSet(unknown)
    BY <2>1, <2>2, FS_Subset
  <2> QED  BY <2>3, FS_CardinalityType
<1>3. ASSUME NEW k \in patched
      PROVE  /\ k \in 2 .. Len(g.code) /\ IsJump(g.code[k], g)
             /\ Target(k - 1) - (k - 1) \in Int
  <2>1. PICK i \in 1 .. Len(todo) : k = todo[i] + 1
    BY <1>1, <1>3 DEF Range
  <2>2. todo[i] \in 1 .. Len(g.code) - 1 /\ IsJump(g.code[todo[i] + 1], g)
    BY <2>1 DEF Good, JumpsWait
  <2>3. k \in 2 .. Len(g.code) /\ IsJump(g.code[k], g) /\ k - 1 + 1 = k
    BY <2>1, <2>2, <1>1
  <2>4. PICK l \in 1 .. Len(g.labels) : l = g.code[k].offset + 1
    BY <2>3, SeqFacts, SMTT(20) DEF IsJump, Good, Shape
  <2>5. g.labels[l] \in Int
    BY SeqFacts, <1>1 DEF Good, LabelsSet
  <2> QED  BY <2>3, <2>4, <2>5
<1>4. /\ code = [k \in 1 .. Len(g.code) |-> code[k]]
      /\ \A k \in 1 .. Len(g.code) :
           /\ k \notin patched => code[k] = g.code[k]
           /\ k \in patched =>
                code[k] = [g.code[k] EXCEPT !.offset = Target(k - 1) - (k - 1)]
  BY <1>1
<1> HIDE DEF unknown
<1>5. Good(f) /\ (Loose(f) => Loose(g)) /\ Keeps(g, f, {"errors"})
  BY <1>2, ErrorsGood
<1>6. /\ f.code = g.code /\ f.funcAddrs = g.funcAddrs /\ f.symbols = g.symbols
      /\ f.line_info = g.line_info /\ f.potential_breaks = g.potential_breaks
      /\ f.backpatching_todo = g.backpatching_todo /\ f.stack_maps = g.stack_maps
      /\ f.labels = g.labels /\ f.loops = g.loops
  BY <1>5 DEF Keeps, Fields
<1>7. /\ h.code = code /\ h.backpatching_todo = <<>>
      /\ Keeps(f, h, {"code", "backpatching_todo"}) /\ DOMAIN h = Fields
  <2> HIDE DEF f, new
  <2> QED  BY <1>0, <1>5, <1>6 DEF Good, Shape, Fields, Keeps
<1> HIDE DEF h, f, code, new
<1>8. \A k \in 1 .. Len(g.code) : k \in patched =>
        /\ code[k] \in Instruction /\ code[k] # PotentialBreak
        /\ g.code[k] # PotentialBreak /\ k >= 2
  <2>1. ASSUME NEW k \in 1 .. Len(g.code), k \in patched
        PROVE  /\ code[k] \in Instruction /\ code[k] # PotentialBreak
               /\ g.code[k] # PotentialBreak /\ k >= 2
    <3> DEFINE z == Target(k - 1) - (k - 1)
    <3>1. k \in 2 .. Len(g.code) /\ IsJump(g.code[k], g) /\ z \in Int
      BY <1>3, <2>1
    <3>2. code[k] = [g.code[k] EXCEPT !.offset = z]
      BY <1>4, <2>1
    <3> HIDE DEF z
    <3>3. g.code[k] \in Instruction /\ g.code[k].op \in {"JMP", "JMPC"}
      BY <3>1 DEF Good, CodeTyped, IsJump
    <3> QED  BY <3>1, <3>2, <3>3, JumpPatched
  <2> QED  BY <2>1
<1>9. IsSeq(code) /\ Len(code) = Len(g.code)
  BY <1>1, <1>4, FunctionIs
<1>10. /\ h.funcAddrs = g.funcAddrs /\ h.symbols = g.symbols
      /\ h.line_info = g.line_info /\ h.potential_breaks = g.potential_breaks
      /\ h.stack_maps = g.stack_maps
      /\ h.labels = g.labels /\ h.loops = g.loops /\ h.errors = f.errors
  BY <1>6, <1>7 DEF Keeps, Fields
<1>11. Shape(h)
  <2>1. IsSeq(<<>>)
    <3>1. <<>> \in Seq({})
      OBVIOUS
    <3> QED  BY <3>1, SeqIs
  <2> QED  BY <2>1, <1>5, <1>6, <1>7, <1>9, <1>10 DEF Shape, Good
<1> HIDE DEF patched, Target
<1>12. CodeTyped(h)
  <2>1. ASSUME NEW k \in 2 .. Len(g.code)  PROVE code[k] \in Instruction
    <3>1. k \in 1 .. Len(g.code) /\ g.code[k] \in Instruction
      BY DEF Good, CodeTyped
    <3> QED  BY <3>1, <1>4, <1>8
  <2>2. code[1] = g.code[1]
    <3>1. 1 \in 1 .. Len(g.code) /\ ~ (1 >= 2)
      BY <1>1
    <3> QED  BY <3>1, <1>4, <1>8
  <2> QED  BY <2>1, <2>2, <1>1, <1>7, <1>9 DEF CodeTyped, Good
<1>13. LabelsSet(h)
  BY <1>7, <1>9, <1>10 DEF LabelsSet, Good
<1>14. JumpsWait(h)
  BY <1>7 DEF JumpsWait
<1>15. Breaks(h)
  <2>1. ASSUME NEW i \in 0 .. Len(g.code) - 1
        PROVE  code[i + 1] = PotentialBreak <=> g.code[i + 1] = PotentialBreak
    <3>1. PICK k \in 1 .. Len(g.code) : k = i + 1
      BY <1>1
    <3> QED  BY <3>1, <1>4, <1>8
  <2> QED  BY <2>1, <1>7, <1>9, <1>10 DEF Breaks, Good, NextPos
<1>16. Tables(h) /\ FunctionsTyped(h)
  BY <1>10 DEF Tables, IsTable, FunctionsTyped, Good
<1>17. Keeps(g, h, {"code", "errors", "backpatching_todo"})
  BY <1>5, <1>7 DEF Keeps
<1> QED  BY <1>7, <1>9, <1>11, <1>12, <1>13, <1>14, <1>15, <1>16, <1>17 DEF Good, h

-----------------------------------------------------------------------------
(* Numbers *)

\* A number put into an int is a word,
LEMMA StrToIntIs ==
  ASSUME NEW n, n.tok \in Nat
  PROVE  StrToInt(n) \in Word
<1>1. MaxWord \in Nat /\ MaxWord >= 1
  BY MaxWordAssumption
<1> DEFINE d == 2 * (MaxWord + 1)
           x == n.tok + MaxWord + 1
<1>2. d \in Nat /\ d >= 1 /\ x \in Int
  BY <1>1
<1>3. x % d \in 0 .. d - 1
  <2> HIDE DEF d, x
  <2> QED  BY <1>2
<1>4. StrToInt(n) = (x % d) - (MaxWord + 1)
  BY DEF StrToInt
<1>5. d - 1 - (MaxWord + 1) = MaxWord
  BY <1>1
<1> HIDE DEF x
<1> QED  BY <1>1, <1>3, <1>4, <1>5 DEF Word

\* and so is its negation in C's arithmetic.
LEMMA NegationIs ==
  ASSUME NEW c \in Word
  PROVE  WrapAdd(0, -c) \in Word
<1>1. MaxWord \in Nat /\ MaxWord >= 1
  BY MaxWordAssumption
<1>2. c \in Int /\ c >= -(MaxWord + 1) /\ c <= MaxWord
  BY <1>1 DEF Word
<1> QED  BY <1>1, <1>2 DEF Word, WrapAdd

-----------------------------------------------------------------------------
(* The call stack of the traversal *)

\* Nodes with no definition below them.
Body(s) == BodyNodes[s]

\* A call for a definition, or for a node that has one below it.
Outer(t, s) ==
  \/ t.call \in {"program", "endprogram"}
  \/ t.call = "void" /\ t.node \notin Body(s)

\* Waiting in dispatchVoid for the ports or the body of a definition.
Definition == {"program", "endprogram"}
\* Calls of the four functions that have yet to begin.
Dispatched == {"void", "value", "args", "callargs"}
Pending    == {"if", "while", "endwhile", "loop", "endloop"}

\* A call on the stack has a node that it is made for, registers and labels
\* that there are.
Fits(t, g, s) ==
  /\ t.call \in Dispatched \cup Pending \cup Definition \cup {"call"}
  /\ t.call = "void" => t.node \in Spine[s] \cup Body(s)
  /\ t.call \notin Definition \cup {"void"} => t.node \in Body(s)
  /\ t.call = "value" => t.tgt \in Regs(g)
  /\ t.call = "if" => /\ t.node.t = "IF" /\ t.cond \in Regs(g)
                      /\ t.op1 \in Regs(g) /\ t.op2 \in Regs(g)
  /\ t.call \in {"while", "endwhile"} =>
       /\ DOMAIN t = {"call", "node", "cond", "start", "end"}
       /\ t.cond \in Regs(g) /\ t.start \in Labels(g) /\ t.end \in Labels(g)
  /\ t.call \in {"loop", "endloop"} => t.counter \in Regs(g)
  /\ t.call = "endloop" => t.start \in Labels(g) /\ t.end \in Labels(g)
  /\ t.call \in Definition =>
       /\ t.node \in Spine[s] /\ t.node.t = "PROGRAM" /\ t.after \in Labels(g)
  /\ t.call = "endprogram" => t.ind \in Nat
  /\ t.call = "call" =>
       /\ DOMAIN t = {"call", "node", "tgt", "arglocs"}
       /\ t.node.t = "CALL" /\ t.tgt \in Regs(g)
       /\ IsSeq(t.arglocs)
       /\ \A i \in 1 .. Len(t.arglocs) : t.arglocs[i] \in Regs(g)

\* Behind a definition, or a node above one, only statements of the text are
\* left: definitions do not nest.
DefsLast(w, s) ==
  \A k \in 1 .. Len(w) : Outer(w[k], s) =>
    \A l \in k + 1 .. Len(w) : w[l].call = "void"

\* Arguments yet to be dispatched belong to a call right behind them.
Collect(w) ==
  \A j \in 1 .. Len(w) : w[j].call = "callargs" =>
    \E k \in j + 1 .. Len(w) : /\ w[k].call = "call"
                               /\ \A i \in j .. k - 1 : w[i].call = "callargs"

\* The k-th task of w is the next one of its call.
NoArgBefore(w, k) == k = 1 \/ w[k - 1].call # "callargs"

\* A call whose list of arguments is empty collects nothing; one whose list
\* has one element collects that one.
Few(w, k) ==
  LET c == w[k].node
      n == Len(w[k].arglocs)
  IN  /\ c.right = Null => n = 0 /\ NoArgBefore(w, k)
      /\ c.right # Null /\ c.right.right = Null =>
           \/ n \in {0, 1} /\ NoArgBefore(w, k)
           \/ /\ n = 0 /\ ~ NoArgBefore(w, k) /\ NoArgBefore(w, k - 1)
              /\ w[k - 1].node \in {c.right, c.right.left}

\* This is why __INC__ and __DEC__ with two arguments have a second one.
FewArgs(w) == \A k \in 1 .. Len(w) : w[k].call = "call" => Few(w, k)

\* Register r is in use.
InUse(r, g) == RegStates(g)[r + 1].in_use

\* What the tasks of w hold is in use.
Reserved(w, g) ==
  \A k \in 1 .. Len(w) : \A i \in DOMAIN Held(w[k]) : InUse(Held(w[k])[i], g)

\* The i-th register that x holds is the j-th that y holds.
Shared(x, y, i, j) ==
  i \in DOMAIN Held(x) /\ j \in DOMAIN Held(y) /\ Held(x)[i] = Held(y)[j]

\* No two of the tasks of w hold the same register.
Distinct(w) ==
  \A k, l \in 1 .. Len(w) : \A i, j : Shared(w[k], w[l], i, j) => k = l /\ i = j

\* Some call of w is of one of these kinds.
HasCall(w, calls) == \E k \in 1 .. Len(w) : w[k].call \in calls

\* The part of the invariant about the call stack.
Traversal(w, g, s) ==
  /\ IsSeq(w)
  /\ \A k \in 1 .. Len(w) : Fits(w[k], g, s)
  /\ DefsLast(w, s) /\ Collect(w) /\ FewArgs(w)
  /\ Reserved(w, g) /\ Distinct(w)
  /\ Loose(g) => HasCall(w, {"while"})
  /\ g.symbols[1].name = "#root"

\* v is w after its first task has been replaced by those of t.
Splice(v, t, w) == v = t \o Tail(w)

-----------------------------------------------------------------------------
\* The elements of v.
LEMMA Spliced ==
  ASSUME NEW w, IsSeq(w), w # <<>>, NEW t, IsSeq(t), NEW v, Splice(v, t, w)
  PROVE  /\ IsSeq(v) /\ Len(w) \in Nat /\ Len(w) >= 1 /\ Len(t) \in Nat
         /\ Len(v) = Len(t) + Len(w) - 1
         /\ \A k \in 1 .. Len(t) : k \in 1 .. Len(v) /\ v[k] = t[k]
         /\ \A j \in 2 .. Len(w) : Len(t) + j - 1 \in 1 .. Len(v)
                                   /\ v[Len(t) + j - 1] = w[j]
         /\ \A k \in 1 .. Len(v) :
              \/ k \in 1 .. Len(t) /\ v[k] = t[k]
              \/ \E j \in 2 .. Len(w) : k = Len(t) + j - 1 /\ v[k] = w[j]
<1>1. /\ IsSeq(Tail(w)) /\ Len(w) >= 1 /\ Len(Tail(w)) = Len(w) - 1
      /\ \A k \in 1 .. Len(w) - 1 : Tail(w)[k] = w[k + 1]
  BY TailIs
<1>2. /\ IsSeq(v) /\ Len(v) = Len(t) + Len(Tail(w))
      /\ \A k \in 1 .. Len(t) : v[k] = t[k]
      /\ \A k \in Len(t) + 1 .. Len(t) + Len(Tail(w)) : v[k] = Tail(w)[k - Len(t)]
  BY <1>1, ConcatIs DEF Splice
<1>3. Len(w) \in Nat /\ Len(t) \in Nat
  BY SeqFacts
<1>4. ASSUME NEW k \in 1 .. Len(v), k \notin 1 .. Len(t)
      PROVE  \E j \in 2 .. Len(w) : k = Len(t) + j - 1 /\ v[k] = w[j]
  <2> DEFINE i == k - Len(t)
             j == k - Len(t) + 1
  <2>1. /\ i \in 1 .. Len(w) - 1 /\ k \in Len(t) + 1 .. Len(t) + Len(Tail(w))
        /\ j \in 2 .. Len(w) /\ j = i + 1 /\ k = Len(t) + j - 1
    BY <1>1, <1>2, <1>3, <1>4
  <2>2. v[k] = Tail(w)[i]
    BY <1>2, <2>1
  <2> HIDE DEF i, j
  <2>3. v[k] = w[j]
    BY <1>1, <2>1, <2>2
  <2> QED  BY <2>1, <2>3
<1>5. ASSUME NEW j \in 2 .. Len(w)
      PROVE  Len(t) + j - 1 \in 1 .. Len(v) /\ v[Len(t) + j - 1] = w[j]
  <2> DEFINE k == Len(t) + j - 1
  <2>1. k \in 1 .. Len(v) /\ k \notin 1 .. Len(t)
    BY <1>1, <1>2, <1>3
  <2>2. PICK i \in 2 .. Len(w) : k = Len(t) + i - 1 /\ v[k] = w[i]
    BY <1>4, <2>1
  <2> QED  BY <1>3, <2>1, <2>2
<1> QED  BY <1>1, <1>2, <1>3, <1>4, <1>5

\* Nothing the first task is replaced by defines a program.
LEMMA DefsLastSplice ==
  ASSUME NEW s, NEW w, IsSeq(w), w # <<>>, DefsLast(w, s),
         NEW t, IsSeq(t), DefsLast(t, s),
         (\E k \in 1 .. Len(t) : Outer(t[k], s)) =>
            \A j \in 2 .. Len(w) : w[j].call = "void",
         NEW v, Splice(v, t, w)
  PROVE  DefsLast(v, s)
<1>a. \A k \in 1 .. Len(t) : k \in 1 .. Len(v) /\ v[k] = t[k]
  BY Spliced
<1>b. \A j \in 2 .. Len(w) : Len(t) + j - 1 \in 1 .. Len(v) /\ v[Len(t) + j - 1] = w[j]
  BY Spliced
<1>c. \A k \in 1 .. Len(v) :
        \/ k \in 1 .. Len(t) /\ v[k] = t[k]
        \/ \E j \in 2 .. Len(w) : k = Len(t) + j - 1 /\ v[k] = w[j]
  BY Spliced
<1>1. SUFFICES ASSUME NEW k \in 1 .. Len(v), Outer(v[k], s), NEW l \in k + 1 .. Len(v)
               PROVE  v[l].call = "void"
  BY DEF DefsLast
<1>2. l \in 1 .. Len(v) /\ k < l /\ Len(t) \in Nat /\ Len(w) \in Nat /\ l \in Nat /\ k \in Nat
  BY <1>1, Spliced
<1>3. CASE l \in 1 .. Len(t)
  <2>1. k \in 1 .. Len(t) /\ l \in k + 1 .. Len(t)
    BY <1>2, <1>3
  <2>2. v[k] = t[k] /\ v[l] = t[l]
    BY <1>3, <2>1, <1>a, <1>b, <1>c
  <2> QED  BY <1>1, <2>1, <2>2 DEF DefsLast
<1>4. CASE l \notin 1 .. Len(t)
  <2>1. PICK j \in 2 .. Len(w) : l = Len(t) + j - 1 /\ v[l] = w[j]
    BY <1>2, <1>4, <1>a, <1>b, <1>c
  <2>2. CASE k \in 1 .. Len(t)
    <3>1. v[k] = t[k]
      BY <2>2, <1>a, <1>b, <1>c
    <3> QED  BY <1>1, <2>1, <2>2, <3>1
  <2>3. CASE k \notin 1 .. Len(t)
    <3>1. PICK i \in 2 .. Len(w) : k = Len(t) + i - 1 /\ v[k] = w[i]
      BY <2>3, <1>a, <1>b, <1>c
    <3>2. i \in 1 .. Len(w) /\ j \in i + 1 .. Len(w)
      BY <1>2, <2>1, <3>1
    <3> QED  BY <1>1, <2>1, <3>1, <3>2 DEF DefsLast
  <2> QED  BY <2>2, <2>3
<1> QED  BY <1>3, <1>4

\* Arguments are replaced by arguments, calls bring their own.
LEMMA CollectSplice ==
  ASSUME NEW w, IsSeq(w), w # <<>>, Collect(w), NEW t, IsSeq(t), Collect(t),
         NEW v, Splice(v, t, w)
  PROVE  Collect(v)
<1>a. \A k \in 1 .. Len(t) : k \in 1 .. Len(v) /\ v[k] = t[k]
  BY Spliced
<1>b. \A j \in 2 .. Len(w) : Len(t) + j - 1 \in 1 .. Len(v) /\ v[Len(t) + j - 1] = w[j]
  BY Spliced
<1>c. \A k \in 1 .. Len(v) :
        \/ k \in 1 .. Len(t) /\ v[k] = t[k]
        \/ \E j \in 2 .. Len(w) : k = Len(t) + j - 1 /\ v[k] = w[j]
  BY Spliced
<1>1. SUFFICES ASSUME NEW j \in 1 .. Len(v), v[j].call = "callargs"
               PROVE  \E k \in j + 1 .. Len(v) :
                        /\ v[k].call = "call"
                        /\ \A i \in j .. k - 1 : v[i].call = "callargs"
  BY DEF Collect
<1>2. Len(t) \in Nat /\ Len(w) \in Nat /\ Len(v) = Len(t) + Len(w) - 1 /\ Len(w) >= 1
  BY Spliced
<1>3. CASE j \in 1 .. Len(t)
  <2>1. v[j] = t[j]
    BY <1>3, <1>a, <1>b, <1>c
  <2>2. PICK k \in j + 1 .. Len(t) :
          t[k].call = "call" /\ \A i \in j .. k - 1 : t[i].call = "callargs"
    BY <1>1, <1>3, <2>1 DEF Collect
  <2>3. k \in j + 1 .. Len(v) /\ k \in 1 .. Len(t)
    BY <1>2, <1>3
  <2>4. v[k] = t[k]
    BY <2>3, <1>a, <1>b, <1>c
  <2>5. ASSUME NEW i \in j .. k - 1  PROVE v[i].call = "callargs"
    <3>1. i \in 1 .. Len(t)
      BY <1>2, <1>3, <2>3
    <3>2. v[i] = t[i]
      BY <3>1, <1>a, <1>b, <1>c
    <3> QED  BY <2>2, <3>2
  <2> QED  BY <2>2, <2>3, <2>4, <2>5
<1>4. CASE j \notin 1 .. Len(t)
  <2>1. PICK q \in 2 .. Len(w) : j = Len(t) + q - 1 /\ v[j] = w[q]
    BY <1>4, <1>a, <1>b, <1>c
  <2>2. q \in 1 .. Len(w)
    BY <1>2
  <2>3. PICK p \in q + 1 .. Len(w) :
          w[p].call = "call" /\ \A i \in q .. p - 1 : w[i].call = "callargs"
    BY <1>1, <2>1, <2>2 DEF Collect
  <2>4. p \in 2 .. Len(w)
    BY <1>2, <2>2, <2>3
  <2> DEFINE k == Len(t) + p - 1
  <2>5. k \in 1 .. Len(v) /\ k = Len(t) + p - 1 /\ v[k] = w[p]
    BY <2>4, <1>a, <1>b, <1>c
  <2> HIDE DEF k
  <2>6. k \in j + 1 .. Len(v)
    BY <1>2, <2>1, <2>2, <2>3, <2>5
  <2>7. ASSUME NEW i \in j .. k - 1  PROVE v[i].call = "callargs"
    <3> DEFINE m == i - Len(t) + 1
    <3>1. m \in 2 .. Len(w) /\ i = Len(t) + m - 1 /\ m \in q .. p - 1
      BY <1>2, <2>1, <2>4, <2>5
    <3> HIDE DEF m
    <3>2. v[i] = w[m]
      BY <3>1, <1>a, <1>b, <1>c
    <3> QED  BY <2>3, <3>1, <3>2
  <2> QED  BY <2>3, <2>5, <2>6, <2>7
<1> QED  BY <1>3, <1>4

\* The lists of the calls behind are untouched.
LEMMA FewArgsSplice ==
  ASSUME NEW w, IsSeq(w), w # <<>>, FewArgs(w), w[1].call # "callargs",
         NEW t, IsSeq(t), FewArgs(t), Len(t) > 0 => t[Len(t)].call # "callargs",
         NEW v, Splice(v, t, w)
  PROVE  FewArgs(v)
<1>a. \A k \in 1 .. Len(t) : k \in 1 .. Len(v) /\ v[k] = t[k]
  BY Spliced
<1>b. \A j \in 2 .. Len(w) : Len(t) + j - 1 \in 1 .. Len(v) /\ v[Len(t) + j - 1] = w[j]
  BY Spliced
<1>c. \A k \in 1 .. Len(v) :
        \/ k \in 1 .. Len(t) /\ v[k] = t[k]
        \/ \E j \in 2 .. Len(w) : k = Len(t) + j - 1 /\ v[k] = w[j]
  BY Spliced
<1>1. Len(t) \in Nat /\ Len(w) \in Nat /\ Len(v) = Len(t) + Len(w) - 1 /\ Len(w) >= 1
  BY Spliced
<1>2. ASSUME NEW k \in 1 .. Len(t), t[k].call = "call"  PROVE Few(v, k)
  <2>1. v[k] = t[k] /\ Few(t, k)
    BY <1>2, <1>a, <1>b, <1>c DEF FewArgs
  <2>2. k # 1 => v[k - 1] = t[k - 1]
    <3>1. k # 1 => k - 1 \in 1 .. Len(t)
      BY <1>1
    <3> QED  BY <3>1, <1>a, <1>b, <1>c
  <2>3. k # 1 /\ k - 1 # 1 => v[k - 1 - 1] = t[k - 1 - 1]
    <3>1. k # 1 /\ k - 1 # 1 => k - 1 - 1 \in 1 .. Len(t)
      BY <1>1
    <3> QED  BY <3>1, <1>a, <1>b, <1>c
  <2>4. NoArgBefore(v, k) <=> NoArgBefore(t, k)
    BY <2>2 DEF NoArgBefore
  <2>5. k # 1 => (NoArgBefore(v, k - 1) <=> NoArgBefore(t, k - 1))
    BY <2>3 DEF NoArgBefore
  <2>6. ~ NoArgBefore(t, k) => k # 1
    BY DEF NoArgBefore
  <2> QED  BY <2>1, <2>2, <2>4, <2>5, <2>6 DEF Few
<1>3. ASSUME NEW j \in 2 .. Len(w), NEW k \in 1 .. Len(v), k = Len(t) + j - 1
      PROVE  NoArgBefore(v, k) <=> NoArgBefore(w, j)
  <2>1. CASE j = 2
    <3>1. NoArgBefore(w, j)
      BY <2>1 DEF NoArgBefore
    <3>2. CASE Len(t) = 0
      BY <1>1, <1>3, <2>1, <3>1, <3>2 DEF NoArgBefore
    <3>3. CASE Len(t) # 0
      <4>1. k - 1 = Len(t) /\ Len(t) \in 1 .. Len(t)
        BY <1>1, <1>3, <2>1, <3>3
      <4>2. v[Len(t)] = t[Len(t)] /\ t[Len(t)].call # "callargs"
        BY <1>1, <3>3, <4>1, <1>a, <1>b, <1>c
      <4> QED  BY <3>1, <4>1, <4>2 DEF NoArgBefore
    <3> QED  BY <3>2, <3>3
  <2>2. CASE j # 2
    <3>1. PICK i \in 2 .. Len(w) : i = j - 1 /\ k - 1 = Len(t) + i - 1 /\ k # 1
      BY <1>1, <1>3, <2>2
    <3>2. v[k - 1] = w[j - 1]
      BY <3>1, <1>a, <1>b, <1>c
    <3> QED  BY <3>1, <3>2, <1>1 DEF NoArgBefore
  <2> QED  BY <2>1, <2>2
<1>4. ASSUME NEW j \in 2 .. Len(w), NEW k \in 1 .. Len(v), k = Len(t) + j - 1,
             w[j].call = "call"
      PROVE  Few(v, k)
  <2>1. v[k] = w[j] /\ Few(w, j)
    BY <1>1, <1>4, <1>a, <1>b, <1>c DEF FewArgs
  <2>2. NoArgBefore(v, k) <=> NoArgBefore(w, j)
    BY <1>3, <1>4
  <2>3. CASE NoArgBefore(w, j)
    BY <2>1, <2>2, <2>3 DEF Few
  <2>4. CASE ~ NoArgBefore(w, j)
    <3>1. j # 2
      BY <2>4 DEF NoArgBefore
    <3>2. PICK i \in 2 .. Len(w) : i = j - 1 /\ k - 1 = Len(t) + i - 1 /\ k - 1 \in 1 .. Len(v)
      BY <1>1, <1>4, <3>1
    <3>3. v[k - 1] = w[j - 1]
      BY <3>2, <1>a, <1>b, <1>c
    <3>4. NoArgBefore(v, k - 1) <=> NoArgBefore(w, j - 1)
      BY <1>3, <3>2
    <3> QED  BY <2>1, <2>2, <2>4, <3>3, <3>4 DEF Few
  <2> QED  BY <2>3, <2>4
<1>5. ASSUME NEW k \in 1 .. Len(v), v[k].call = "call"  PROVE Few(v, k)
  <2>1. CASE k \in 1 .. Len(t)
    BY <1>2, <1>5, <2>1, <1>a, <1>b, <1>c
  <2>2. CASE k \notin 1 .. Len(t)
    <3>1. PICK j \in 2 .. Len(w) : k = Len(t) + j - 1 /\ v[k] = w[j]
      BY <2>2, <1>a, <1>b, <1>c
    <3> QED  BY <1>4, <1>5, <3>1
  <2> QED  BY <2>1, <2>2
<1> QED  BY <1>5 DEF FewArgs

\* What t and the rest hold is in use.
LEMMA ReservedSplice ==
  ASSUME NEW w, IsSeq(w), w # <<>>, NEW t, IsSeq(t), NEW h, Reserved(t, h),
         \A j \in 2 .. Len(w) : \A i \in DOMAIN Held(w[j]) : InUse(Held(w[j])[i], h),
         NEW v, Splice(v, t, w)
  PROVE  Reserved(v, h)
<1>1. \A k \in 1 .. Len(v) :
        \/ k \in 1 .. Len(t) /\ v[k] = t[k]
        \/ \E j \in 2 .. Len(w) : k = Len(t) + j - 1 /\ v[k] = w[j]
  BY Spliced
<1>2. SUFFICES ASSUME NEW k \in 1 .. Len(v), NEW i \in DOMAIN Held(v[k])
               PROVE  InUse(Held(v[k])[i], h)
  BY DEF Reserved
<1>3. CASE k \in 1 .. Len(t) /\ v[k] = t[k]
  BY <1>3 DEF Reserved
<1>4. CASE \E j \in 2 .. Len(w) : v[k] = w[j]
  BY <1>4
<1> QED  BY <1>1, <1>3, <1>4

\* What t holds is apart from what the rest holds.
LEMMA DistinctSplice ==
  ASSUME NEW w, IsSeq(w), w # <<>>, Distinct(w), NEW t, IsSeq(t), Distinct(t),
         \A k \in 1 .. Len(t), j \in 2 .. Len(w) :
           \A i, m : ~ Shared(t[k], w[j], i, m) /\ ~ Shared(w[j], t[k], m, i),
         NEW v, Splice(v, t, w)
  PROVE  Distinct(v)
<1>1. \A k \in 1 .. Len(v) :
        \/ k \in 1 .. Len(t) /\ v[k] = t[k]
        \/ \E j \in 2 .. Len(w) : k = Len(t) + j - 1 /\ v[k] = w[j]
  BY Spliced
<1>2. SUFFICES ASSUME NEW k \in 1 .. Len(v), NEW l \in 1 .. Len(v),
                      NEW i, NEW j, Shared(v[k], v[l], i, j)
               PROVE  k = l /\ i = j
  BY DEF Distinct
<1>3. CASE k \in 1 .. Len(t) /\ v[k] = t[k] /\ l \in 1 .. Len(t) /\ v[l] = t[l]
  <2>1. Shared(t[k], t[l], i, j)
    BY <1>2, <1>3
  <2> QED  BY <1>3, <2>1 DEF Distinct
<1>4. CASE \E p, q \in 2 .. Len(w) : /\ k = Len(t) + p - 1 /\ v[k] = w[p]
                                     /\ l = Len(t) + q - 1 /\ v[l] = w[q]
  <2>1. PICK p \in 2 .. Len(w), q \in 2 .. Len(w) :
          /\ k = Len(t) + p - 1 /\ v[k] = w[p]
          /\ l = Len(t) + q - 1 /\ v[l] = w[q]
    BY <1>4
  <2>2. p \in 1 .. Len(w) /\ q \in 1 .. Len(w)
    BY SeqFacts
  <2>3. Shared(w[p], w[q], i, j)
    BY <1>2, <2>1
  <2>4. p = q /\ i = j
    BY <2>2, <2>3 DEF Distinct
  <2> QED  BY <2>1, <2>4
<1>5. CASE k \in 1 .. Len(t) /\ v[k] = t[k] /\ \E q \in 2 .. Len(w) : v[l] = w[q]
  BY <1>2, <1>5
<1>6. CASE l \in 1 .. Len(t) /\ v[l] = t[l] /\ \E p \in 2 .. Len(w) : v[k] = w[p]
  BY <1>2, <1>6
<1> QED  BY <1>1, <1>3, <1>4, <1>5, <1>6

-----------------------------------------------------------------------------
(* What calls a function may make *)

\* Calls of the traversal below a statement, none of which waits for another.
Plain(a, h, s) ==
  /\ IsSeq(a)
  /\ \A k \in 1 .. Len(a) : /\ a[k].call \in {"void", "value", "args"}
                            /\ a[k].node \in Body(s)
                            /\ Fits(a[k], h, s)

\* The same, where the last one may wait for those before it.
Pushable(t, h, s) ==
  /\ IsSeq(t)
  /\ \A k \in 1 .. Len(t) :
       /\ t[k].call \in {"void", "value", "args"} \cup Pending
       /\ k # Len(t) => t[k].call \notin Pending
       /\ t[k].node \in Body(s)
       /\ Fits(t[k], h, s)

\* A waiting task only.
Waiting(r, h, s) == r.call \in Pending /\ r.node \in Body(s) /\ Fits(r, h, s)

\* t is a followed by r.
Followed(t, a, r) == t = a \o <<r>>

-----------------------------------------------------------------------------
\* Registers and labels are not lost.
LEMMA WiderRegs ==
  ASSUME NEW g, Good(g), Open(g), NEW h, Good(h), Wider(g, h)
  PROVE  Regs(g) \subseteq Regs(h) /\ Labels(g) \subseteq Labels(h) /\ Open(h)
<1>1. /\ Len(g.labels) \in Nat /\ Len(h.labels) \in Nat
      /\ Len(g.symbols) \in Nat /\ Len(h.symbols) \in Nat
  BY SeqFacts DEF Good, Shape
<1>2. Open(h)
  BY <1>1 DEF Open, Wider
<1>3. Len(RegStates(g)) \in Nat /\ Len(RegStates(h)) \in Nat
  BY <1>2, SymbolsFacts
<1> QED  BY <1>1, <1>2, <1>3 DEF Wider, Regs, Labels

\* What fitted still does.
LEMMA WiderFits ==
  ASSUME NEW g, Good(g), Open(g), NEW h, Good(h), Wider(g, h),
         NEW s, NEW t, Fits(t, g, s)
  PROVE  Fits(t, h, s)
<1>1. Regs(g) \subseteq Regs(h) /\ Labels(g) \subseteq Labels(h)
  BY WiderRegs
<1> QED  BY <1>1 DEF Fits

\* Calls that have yet to begin hold no register,
LEMMA HeldPlain ==
  ASSUME NEW t, t.call \in {"void", "value", "args", "callargs"} \cup Definition
  PROVE  Held(t) = <<>> /\ DOMAIN Held(t) = {}
<1>1. Held(t) = <<>>
  BY DEF Held, Definition
<1>2. DOMAIN <<>> = {}
  OBVIOUS
<1> QED  BY <1>1, <1>2

\* and those that wait hold registers of their program.
LEMMA HeldInRegs ==
  ASSUME NEW t, NEW g, NEW s, Fits(t, g, s)
  PROVE  \A i \in DOMAIN Held(t) : Held(t)[i] \in Regs(g)
<1>1. CASE t.call = "if"
  <2>1. Held(t) = <<t.cond, t.op1, t.op2>>
    BY <1>1 DEF Held
  <2> QED  BY <1>1, <2>1 DEF Fits
<1>2. CASE t.call \in {"while", "endwhile"}
  <2>1. Held(t) = <<t.cond>>
    BY <1>2 DEF Held
  <2> QED  BY <1>2, <2>1 DEF Fits
<1>3. CASE t.call \in {"loop", "endloop"}
  <2>1. Held(t) = <<t.counter>>
    BY <1>3 DEF Held
  <2> QED  BY <1>3, <2>1 DEF Fits
<1>4. CASE t.call = "call"
  <2>1. Held(t) = t.arglocs
    BY <1>4 DEF Held
  <2> QED  BY <1>4, <2>1, SeqFacts DEF Fits
<1>5. CASE t.call \in {"void", "value", "args", "callargs"} \cup Definition
  BY <1>5, HeldPlain
<1> QED  BY <1>1, <1>2, <1>3, <1>4, <1>5 DEF Fits, Dispatched, Pending

\* So do the two that share one.
LEMMA SharedFits ==
  ASSUME NEW x, NEW y, NEW i, NEW j, Shared(x, y, i, j)
  PROVE  x.call \notin {"void", "value", "args", "callargs"} \cup Definition
         /\ y.call \notin {"void", "value", "args", "callargs"} \cup Definition
         /\ Shared(y, x, j, i)
  BY HeldPlain DEF Shared

-----------------------------------------------------------------------------
\* A sequence of one.
LEMMA OneIs ==
  ASSUME NEW x
  PROVE  IsSeq(<<x>>) /\ Len(<<x>>) = 1 /\ <<x>>[1] = x
<1>1. <<x>> \in Seq({x}) /\ Len(<<x>>) = 1 /\ <<x>>[1] = x
  OBVIOUS
<1> QED  BY <1>1, SeqIs

\* dispatchVoid of a node of a body.
LEMMA PlainVoid ==
  ASSUME NEW s, NEW h, NEW n \in Body(s) \cup {Null}
  PROVE  Plain(DispatchVoid(n), h, s)
<1>1. CASE n = Null
  BY <1>1, SeqIs DEF Plain, DispatchVoid, IsSeq
<1>2. CASE n # Null
  <2> DEFINE t == [call |-> "void", node |-> n]
  <2>1. DispatchVoid(n) = <<t>>
    BY <1>2 DEF DispatchVoid
  <2>2. t.call = "void" /\ t.node = n
    OBVIOUS
  <2> HIDE DEF t
  <2>3. IsSeq(<<t>>) /\ Len(<<t>>) = 1 /\ <<t>>[1] = t
    BY OneIs
  <2>4. n \in Body(s)
    BY <1>2
  <2>5. Fits(t, h, s)
    BY <2>2, <2>4 DEF Fits, Dispatched, Pending, Definition
  <2> QED  BY <2>1, <2>2, <2>3, <2>4, <2>5 DEF Plain
<1> QED  BY <1>1, <1>2

\* dispatchValue of one, into a register there is.
LEMMA PlainValue ==
  ASSUME NEW s, NEW h, NEW n \in Body(s) \cup {Null}, NEW r \in Regs(h)
  PROVE  Plain(DispatchValue(n, r), h, s)
<1>1. CASE n = Null
  BY <1>1, SeqIs DEF Plain, DispatchValue, IsSeq
<1>2. CASE n # Null
  <2> DEFINE t == [call |-> "value", node |-> n, tgt |-> r]
  <2>1. DispatchValue(n, r) = <<t>>
    BY <1>2 DEF DispatchValue
  <2>2. t.call = "value" /\ t.node = n /\ t.tgt = r
    OBVIOUS
  <2> HIDE DEF t
  <2>3. IsSeq(<<t>>) /\ Len(<<t>>) = 1 /\ <<t>>[1] = t
    BY OneIs
  <2>4. n \in Body(s)
    BY <1>2
  <2>5. Fits(t, h, s)
    BY <2>2, <2>4 DEF Fits, Dispatched, Pending, Definition
  <2> QED  BY <2>1, <2>2, <2>3, <2>4, <2>5 DEF Plain
<1> QED  BY <1>1, <1>2

\* dispatchArgs of one.
LEMMA PlainArgs ==
  ASSUME NEW s, NEW h, NEW n \in Body(s) \cup {Null}
  PROVE  Plain(DispatchArgs(n), h, s)
<1>1. CASE n = Null
  BY <1>1, SeqIs DEF Plain, DispatchArgs, IsSeq
<1>2. CASE n # Null
  <2> DEFINE t == [call |-> "args", node |-> n]
  <2>1. DispatchArgs(n) = <<t>>
    BY <1>2 DEF DispatchArgs
  <2>2. t.call = "args" /\ t.node = n
    OBVIOUS
  <2> HIDE DEF t
  <2>3. IsSeq(<<t>>) /\ Len(<<t>>) = 1 /\ <<t>>[1] = t
    BY OneIs
  <2>4. n \in Body(s)
    BY <1>2
  <2>5. Fits(t, h, s)
    BY <2>2, <2>4 DEF Fits, Dispatched, Pending, Definition
  <2> QED  BY <2>1, <2>2, <2>3, <2>4, <2>5 DEF Plain
<1> QED  BY <1>1, <1>2

\* No call at all.
LEMMA PlainNone ==
  ASSUME NEW s, NEW h
  PROVE  Plain(<<>>, h, s) /\ Pushable(<<>>, h, s)
  BY SeqIs DEF Plain, Pushable, IsSeq

\* One call after another.
LEMMA PlainConcat ==
  ASSUME NEW s, NEW h, NEW a, Plain(a, h, s), NEW b, Plain(b, h, s)
  PROVE  Plain(a \o b, h, s)
<1>0. IsSeq(a) /\ IsSeq(b)
  BY DEF Plain
<1>1. /\ IsSeq(a \o b) /\ Len(a \o b) = Len(a) + Len(b)
      /\ \A k \in 1 .. Len(a) : (a \o b)[k] = a[k]
      /\ \A k \in Len(a) + 1 .. Len(a) + Len(b) : (a \o b)[k] = b[k - Len(a)]
      /\ Len(a) \in Nat /\ Len(b) \in Nat
  BY <1>0, ConcatIs, SeqFacts
<1> DEFINE c == a \o b
<1> HIDE DEF c
<1>2. ASSUME NEW k \in 1 .. Len(c)
      PROVE  /\ c[k].call \in {"void", "value", "args"} /\ c[k].node \in Body(s)
             /\ Fits(c[k], h, s)
  <2>1. CASE k \in 1 .. Len(a)
    <3>1. c[k] = a[k]
      BY <1>1, <2>1 DEF c
    <3> QED  BY <2>1, <3>1 DEF Plain
  <2>2. CASE k \notin 1 .. Len(a)
    <3>1. PICK j \in 1 .. Len(b) : j = k - Len(a) /\ k \in Len(a) + 1 .. Len(a) + Len(b)
      BY <1>1, <2>2 DEF c
    <3>2. c[k] = b[j]
      BY <1>1, <3>1 DEF c
    <3> QED  BY <3>2 DEF Plain
  <2> QED  BY <2>1, <2>2
<1> QED  BY <1>1, <1>2 DEF Plain, c

\* Calls only.
LEMMA PushPlain ==
  ASSUME NEW s, NEW h, NEW a, Plain(a, h, s)
  PROVE  Pushable(a, h, s) /\ \A k \in 1 .. Len(a) : Held(a[k]) = <<>> /\ DOMAIN Held(a[k]) = {}
<1>1. \A k \in 1 .. Len(a) : Held(a[k]) = <<>> /\ DOMAIN Held(a[k]) = {}
  BY HeldPlain DEF Plain
<1> QED  BY <1>1 DEF Plain, Pushable, Pending

\* Calls, and behind them what the caller does when they have returned.
LEMMA PushRest ==
  ASSUME NEW s, NEW h, NEW a, Plain(a, h, s), NEW r, Waiting(r, h, s),
         NEW t, Followed(t, a, r)
  PROVE  /\ Pushable(t, h, s) /\ Len(t) = Len(a) + 1 /\ Len(t) \in Nat
         /\ Len(t) \in 1 .. Len(t) /\ t[Len(t)] = r
         /\ \A k \in 1 .. Len(t) : k # Len(t) => DOMAIN Held(t[k]) = {}
<1>0. IsSeq(a) /\ IsSeq(<<r>>) /\ Len(<<r>>) = 1 /\ <<r>>[1] = r
  BY OneIs DEF Plain
<1>1. /\ IsSeq(t) /\ Len(t) = Len(a) + 1
      /\ \A k \in 1 .. Len(a) : t[k] = a[k]
      /\ t[Len(a) + 1] = r
      /\ Len(a) \in Nat
  <2>1. /\ IsSeq(t) /\ Len(t) = Len(a) + Len(<<r>>)
        /\ \A k \in 1 .. Len(a) : t[k] = a[k]
        /\ \A k \in Len(a) + 1 .. Len(a) + Len(<<r>>) : t[k] = <<r>>[k - Len(a)]
        /\ Len(a) \in Nat
    BY <1>0, ConcatIs, SeqFacts DEF Followed
  <2>2. Len(a) + 1 \in Len(a) + 1 .. Len(a) + Len(<<r>>) /\ Len(a) + 1 - Len(a) = 1
    BY <1>0, <2>1
  <2>3. t[Len(a) + 1] = <<r>>[Len(a) + 1 - Len(a)]
    BY <2>1, <2>2
  <2> QED  BY <1>0, <2>1, <2>2, <2>3
<1>2. ASSUME NEW k \in 1 .. Len(t), k # Len(t)
      PROVE  /\ t[k].call \in {"void", "value", "args"} /\ t[k].node \in Body(s)
             /\ Fits(t[k], h, s) /\ DOMAIN Held(t[k]) = {}
  <2>1. k \in 1 .. Len(a) /\ t[k] = a[k]
    BY <1>1, <1>2
  <2> QED  BY <2>1, HeldPlain DEF Plain
<1>3. ASSUME NEW k \in 1 .. Len(t)
      PROVE  /\ t[k].call \in {"void", "value", "args"} \cup Pending
             /\ k # Len(t) => t[k].call \notin Pending
             /\ t[k].node \in Body(s)
             /\ Fits(t[k], h, s)
  <2>1. CASE k = Len(t)
    BY <1>1, <2>1 DEF Waiting
  <2>2. CASE k # Len(t)
    BY <1>2, <2>2 DEF Pending
  <2> QED  BY <2>1, <2>2
<1> QED  BY <1>1, <1>2, <1>3 DEF Pushable

-----------------------------------------------------------------------------
(* Steps of the traversal *)

\* The tasks of w behind the first still hold registers in use.
Kept(w, h) ==
  \A j \in 2 .. Len(w) : \A i \in DOMAIN Held(w[j]) : InUse(Held(w[j])[i], h)

\* Nothing that x holds is held by a task of w behind the first.
Apart(x, w) ==
  \A j \in 2 .. Len(w) : \A i, m : ~ Shared(x, w[j], i, m)

\* A WHILE behind the first task of w has not started its body yet.
Waits(w) == \E j \in 2 .. Len(w) : w[j].call = "while"

\* All of v fits when t does.
LEMMA FitsSplice ==
  ASSUME NEW w, IsSeq(w), w # <<>>, NEW t, IsSeq(t), NEW h, NEW s,
         \A k \in 1 .. Len(t) : Fits(t[k], h, s),
         \A j \in 2 .. Len(w) : Fits(w[j], h, s),
         NEW v, Splice(v, t, w)
  PROVE  \A k \in 1 .. Len(v) : Fits(v[k], h, s)
<1>1. \A k \in 1 .. Len(v) :
        \/ k \in 1 .. Len(t) /\ v[k] = t[k]
        \/ \E j \in 2 .. Len(w) : k = Len(t) + j - 1 /\ v[k] = w[j]
  BY Spliced
<1> QED  BY <1>1

\* What v calls, t or the rest of w calls.
LEMMA HasCallSplice ==
  ASSUME NEW w, IsSeq(w), w # <<>>, NEW t, IsSeq(t), NEW calls,
         NEW v, Splice(v, t, w)
  PROVE  HasCall(v, calls) <=> \/ HasCall(t, calls)
                               \/ \E j \in 2 .. Len(w) : w[j].call \in calls
<1>1. /\ \A k \in 1 .. Len(t) : k \in 1 .. Len(v) /\ v[k] = t[k]
      /\ \A j \in 2 .. Len(w) : Len(t) + j - 1 \in 1 .. Len(v)
                                   /\ v[Len(t) + j - 1] = w[j]
      /\ \A k \in 1 .. Len(v) :
           \/ k \in 1 .. Len(t) /\ v[k] = t[k]
           \/ \E j \in 2 .. Len(w) : k = Len(t) + j - 1 /\ v[k] = w[j]
  BY Spliced
<1>2. HasCall(v, calls) => \/ HasCall(t, calls)
                           \/ \E j \in 2 .. Len(w) : w[j].call \in calls
  BY <1>1 DEF HasCall
<1>3. HasCall(t, calls) => HasCall(v, calls)
  BY <1>1 DEF HasCall
<1>4. (\E j \in 2 .. Len(w) : w[j].call \in calls) => HasCall(v, calls)
  BY <1>1 DEF HasCall
<1> QED  BY <1>2, <1>3, <1>4

\* Except for the first, w calls what the rest of it calls.
LEMMA HasCallIs ==
  ASSUME NEW w, IsSeq(w), w # <<>>, NEW calls
  PROVE  HasCall(w, calls) <=> \/ w[1].call \in calls
                               \/ \E j \in 2 .. Len(w) : w[j].call \in calls
<1>1. Len(w) \in Nat /\ Len(w) >= 1
  BY TailIs, SeqFacts
<1>2. 1 .. Len(w) = {1} \cup 2 .. Len(w)
  BY <1>1
<1> QED  BY <1>2 DEF HasCall

\* Calls that may take the place of the first task of a traversal.
Parts(t, h, s) ==
  /\ IsSeq(t) /\ \A k \in 1 .. Len(t) : Fits(t[k], h, s)
  /\ \A k \in 1 .. Len(t) : ~ Outer(t[k], s)
  /\ DefsLast(t, s) /\ Collect(t) /\ FewArgs(t)
  /\ ~ HasCall(t, Definition)
  /\ Len(t) > 0 => t[Len(t)].call # "callargs"

\* A pushable sequence may take the place of the first task.
LEMMA PushableParts ==
  ASSUME NEW t, NEW h, NEW s, Pushable(t, h, s)
  PROVE  /\ Parts(t, h, s)
         /\ \A k \in 1 .. Len(t) : k # Len(t) => DOMAIN Held(t[k]) = {}
<1>1. \A k \in 1 .. Len(t) : ~ Outer(t[k], s) /\ t[k].call \notin {"callargs", "call"} \cup Definition
  BY DEF Pushable, Outer, Pending, Definition
<1>2. Len(t) > 0 => Len(t) \in 1 .. Len(t)
  BY SeqFacts DEF Pushable
<1>3. \A k \in 1 .. Len(t) : k # Len(t) => DOMAIN Held(t[k]) = {}
  BY HeldPlain DEF Pushable
<1> QED  BY <1>1, <1>2, <1>3 DEF Pushable, Parts, DefsLast, Collect, FewArgs, HasCall

\* The invariant of the call stack after a step of one function.
LEMMA TraversalStep ==
  ASSUME NEW s, NEW g, Good(g), Open(g), NEW w, w # <<>>, Traversal(w, g, s),
         w[1].call \notin {"callargs"} \cup Definition,
         NEW h, Good(h), Wider(g, h), Kept(w, h),
         NEW t, Parts(t, h, s), Reserved(t, h), Distinct(t),
         \A k \in 1 .. Len(t) : Apart(t[k], w),
         Loose(h) => HasCall(t, {"while"}) \/ Waits(w),
         NEW v, Splice(v, t, w)
  PROVE  /\ Traversal(v, h, s)
         /\ HasCall(v, Definition) <=> HasCall(w, Definition)
<1>1. /\ IsSeq(w) /\ DefsLast(w, s) /\ Collect(w) /\ FewArgs(w) /\ Distinct(w)
      /\ \A k \in 1 .. Len(w) : Fits(w[k], g, s)
      /\ g.symbols[1].name = "#root"
  BY DEF Traversal
<1>2. /\ IsSeq(t) /\ \A k \in 1 .. Len(t) : Fits(t[k], h, s)
      /\ \A k \in 1 .. Len(t) : ~ Outer(t[k], s)
      /\ DefsLast(t, s) /\ Collect(t) /\ FewArgs(t)
      /\ ~ HasCall(t, Definition)
      /\ Len(t) > 0 => t[Len(t)].call # "callargs"
  BY DEF Parts
<1>3. IsSeq(v)
  BY <1>1, <1>2, Spliced
<1>4. \A k \in 1 .. Len(v) : Fits(v[k], h, s)
  <2>1. Len(w) \in Nat
    BY <1>1, SeqFacts
  <2>2. \A j \in 2 .. Len(w) : Fits(w[j], h, s)
    BY <1>1, <2>1, WiderFits
  <2> QED  BY <1>1, <1>2, <2>2, FitsSplice
<1>5. DefsLast(v, s)
  BY <1>1, <1>2, DefsLastSplice
<1>6. Collect(v)
  BY <1>1, <1>2, CollectSplice
<1>7. FewArgs(v)
  BY <1>1, <1>2, FewArgsSplice
<1>8. Reserved(v, h)
  BY <1>1, <1>2, ReservedSplice DEF Kept
<1>9. Distinct(v)
  <2>1. \A k \in 1 .. Len(t), j \in 2 .. Len(w) :
          \A i, m : ~ Shared(t[k], w[j], i, m) /\ ~ Shared(w[j], t[k], m, i)
    BY SharedFits, SMTT(20) DEF Apart
  <2> QED  BY <1>1, <1>2, <2>1, DistinctSplice
<1>10. Loose(h) => HasCall(v, {"while"})
  BY <1>1, <1>2, HasCallSplice DEF Waits
<1>11. HasCall(v, Definition) <=> HasCall(w, Definition)
  <2>1. HasCall(v, Definition) <=> \E j \in 2 .. Len(w) : w[j].call \in Definition
    BY <1>1, <1>2, HasCallSplice
  <2>2. HasCall(w, Definition) <=> \E j \in 2 .. Len(w) : w[j].call \in Definition
    BY <1>1, HasCallIs
  <2> QED  BY <2>1, <2>2
<1>12. h.symbols[1].name = "#root"
  <2>1. 1 \in 1 .. Len(g.symbols)
    BY SeqFacts DEF Open, Good, Shape
  <2> QED  BY <1>1, <2>1 DEF Wider
<1> QED  BY <1>3, <1>4, <1>5, <1>6, <1>7, <1>8, <1>9, <1>10, <1>11, <1>12 DEF Traversal

-----------------------------------------------------------------------------
\* Registers in use stay in use for the tasks that hold them.
LEMMA GrowsKept ==
  ASSUME NEW s, NEW g, NEW w, Traversal(w, g, s), NEW h, Grows(g, h)
  PROVE  Kept(w, h) /\ Reserved(w, h)
<1>1. Len(w) \in Nat
  BY SeqFacts DEF Traversal
<1>2. ASSUME NEW j \in 1 .. Len(w), NEW i \in DOMAIN Held(w[j])
      PROVE  InUse(Held(w[j])[i], h)
  <2>1. Held(w[j])[i] \in Regs(g)
    BY HeldInRegs DEF Traversal
  <2>2. InUse(Held(w[j])[i], g)
    BY DEF Traversal, Reserved
  <2> QED  BY <2>1, <2>2 DEF InUse, Grows
<1>3. \A j \in 2 .. Len(w) : j \in 1 .. Len(w)
  BY <1>1
<1> QED  BY <1>2, <1>3 DEF Kept, Reserved

\* Calls only hold nothing.
LEMMA NoneHeld ==
  ASSUME NEW t, \A k \in 1 .. Len(t) : DOMAIN Held(t[k]) = {}, NEW w, NEW h
  PROVE  /\ Reserved(t, h) /\ Distinct(t)
         /\ \A k \in 1 .. Len(t) : Apart(t[k], w)
  BY DEF Reserved, Distinct, Apart, Shared

\* A WHILE that waited behind the first task still does.
LEMMA StillWaits ==
  ASSUME NEW s, NEW g, NEW w, w # <<>>, Traversal(w, g, s), w[1].call # "while",
         NEW h, Loose(h) => Loose(g)
  PROVE  Loose(h) => Waits(w)
<1>1. Loose(h) => HasCall(w, {"while"})
  BY DEF Traversal
<1>2. HasCall(w, {"while"}) => Waits(w)
  BY HasCallIs DEF Traversal, Waits
<1> QED  BY <1>1, <1>2

\* A step that takes no register away and goes on with calls only.
LEMMA PlainStep ==
  ASSUME NEW s, NEW g, Good(g), Open(g), NEW w, w # <<>>, Traversal(w, g, s),
         w[1].call \notin {"callargs"} \cup Definition,
         NEW h, Good(h), Grows(g, h),
         NEW t, Plain(t, h, s),
         ~ Loose(h) \/ (w[1].call # "while" /\ (Loose(h) => Loose(g))),
         NEW v, Splice(v, t, w)
  PROVE  /\ Traversal(v, h, s)
         /\ HasCall(v, Definition) <=> HasCall(w, Definition)
<1>1. Wider(g, h) /\ Kept(w, h)
  BY GrowsKept DEF Grows
<1>2. Pushable(t, h, s) /\ \A k \in 1 .. Len(t) : DOMAIN Held(t[k]) = {}
  BY PushPlain
<1>3. /\ Reserved(t, h) /\ Distinct(t)
      /\ \A k \in 1 .. Len(t) : Apart(t[k], w)
  BY <1>2, NoneHeld
<1>4. Loose(h) => Waits(w)
  BY StillWaits
<1> QED  BY <1>1, <1>2, <1>3, <1>4, TraversalStep, PushableParts

\* What a task holds, on its own.
HeldOnce(r) == \A i, j : Shared(r, r, i, j) => i = j
HeldInUse(r, h) == \A i \in DOMAIN Held(r) : InUse(Held(r)[i], h)

\* A step that goes on with calls and then with r.
LEMMA RestStep ==
  ASSUME NEW s, NEW g, Good(g), Open(g), NEW w, w # <<>>, Traversal(w, g, s),
         w[1].call \notin {"callargs"} \cup Definition,
         NEW h, Good(h), Grows(g, h),
         NEW a, Plain(a, h, s), NEW r, Waiting(r, h, s),
         HeldOnce(r), HeldInUse(r, h), Apart(r, w),
         ~ Loose(h) \/ (w[1].call # "while" /\ (Loose(h) => Loose(g)))
           \/ r.call = "while",
         NEW v, Splice(v, a \o <<r>>, w)
  PROVE  /\ Traversal(v, h, s)
         /\ HasCall(v, Definition) <=> HasCall(w, Definition)
<1> DEFINE t == a \o <<r>>
<1> HIDE DEF t
<1>0. Splice(v, t, w) /\ Followed(t, a, r)
  BY DEF t, Followed
<1>1. Wider(g, h) /\ Kept(w, h)
  BY GrowsKept DEF Grows
<1>2. /\ Pushable(t, h, s) /\ Len(t) \in Nat
      /\ Len(t) \in 1 .. Len(t) /\ t[Len(t)] = r
      /\ \A k \in 1 .. Len(t) : k # Len(t) => DOMAIN Held(t[k]) = {}
  BY <1>0, PushRest
<1>3. Reserved(t, h)
  BY <1>2 DEF Reserved, HeldInUse
<1>4. Distinct(t)
  <2>1. SUFFICES ASSUME NEW k \in 1 .. Len(t), NEW l \in 1 .. Len(t), NEW i, NEW j,
                        Shared(t[k], t[l], i, j)
                 PROVE  k = l /\ i = j
    BY DEF Distinct
  <2>2. k = Len(t) /\ l = Len(t)
    BY <1>2, <2>1 DEF Shared
  <2>3. Shared(r, r, i, j)
    BY <1>2, <2>1, <2>2
  <2> QED  BY <2>2, <2>3 DEF HeldOnce
<1>5. ASSUME NEW k \in 1 .. Len(t)  PROVE Apart(t[k], w)
  <2>1. CASE k = Len(t)
    BY <1>2, <2>1
  <2>2. CASE k # Len(t)
    BY <1>2, <2>2 DEF Apart, Shared
  <2> QED  BY <2>1, <2>2
<1>6. Loose(h) => HasCall(t, {"while"}) \/ Waits(w)
  <2>1. CASE r.call = "while"
    BY <1>2, <2>1 DEF HasCall
  <2>2. CASE r.call # "while"
    BY <2>2, StillWaits
  <2> QED  BY <2>1, <2>2
<1> QED  BY <1>0, <1>1, <1>2, <1>3, <1>4, <1>5, <1>6, TraversalStep, PushableParts

\* A register fetched anew is held by no task.
LEMMA FreshApart ==
  ASSUME NEW s, NEW g, NEW w, Traversal(w, g, s), NEW r,
         \A i \in DOMAIN Held(r) : Fresh(Held(r)[i], g)
  PROVE  Apart(r, w)
<1>1. SUFFICES ASSUME NEW j \in 2 .. Len(w), NEW i, NEW m, Shared(r, w[j], i, m)
               PROVE  FALSE
  BY DEF Apart
<1>2. j \in 1 .. Len(w)
  BY SeqFacts DEF Traversal
<1>3. i \in DOMAIN Held(r) /\ m \in DOMAIN Held(w[j]) /\ Held(r)[i] = Held(w[j])[m]
  BY <1>1 DEF Shared
<1>4. Held(w[j])[m] \in Regs(g) /\ InUse(Held(w[j])[m], g)
  BY <1>2, <1>3, HeldInRegs DEF Traversal, Reserved
<1> QED  BY <1>3, <1>4 DEF Fresh, InUse

\* A task that goes on holding what the first task of w held.
LEMMA SameApart ==
  ASSUME NEW s, NEW g, NEW w, w # <<>>, Traversal(w, g, s), NEW r, Held(r) = Held(w[1])
  PROVE  Apart(r, w) /\ HeldOnce(r)
<1>1. IsSeq(w) /\ Len(w) \in Nat /\ Len(w) >= 1 /\ Distinct(w)
  BY SeqFacts, TailIs DEF Traversal
<1>2. \A j \in 2 .. Len(w) : j \in 1 .. Len(w) /\ j # 1
  BY <1>1
<1>3. 1 \in 1 .. Len(w)
  BY <1>1
<1>4. ASSUME NEW y, NEW i, NEW j, Shared(r, y, i, j)  PROVE Shared(w[1], y, i, j)
  BY <1>4 DEF Shared
<1>5. Apart(r, w)
  BY <1>1, <1>2, <1>3, <1>4 DEF Apart, Distinct
<1>6. ASSUME NEW i, NEW j, Shared(r, r, i, j)  PROVE i = j
  <2>1. Shared(w[1], w[1], i, j)
    BY <1>6 DEF Shared
  <2> QED  BY <1>1, <1>3, <2>1 DEF Distinct
<1> QED  BY <1>5, <1>6 DEF HeldOnce

\* The first task of w returns and gives the registers regs back.
LEMMA ReleaseStep ==
  ASSUME NEW s, NEW g, Good(g), Open(g), NEW w, w # <<>>, Traversal(w, g, s),
         w[1].call \notin {"callargs", "while"} \cup Definition,
         NEW f, Good(f), Grows(g, f), Loose(f) => Loose(g),
         NEW regs, \A q \in regs : \E i \in DOMAIN Held(w[1]) : Held(w[1])[i] = q,
         NEW v, Splice(v, <<>>, w)
  PROVE  /\ Traversal(v, ReleaseTemporaries(f, regs), s)
         /\ HasCall(v, Definition) <=> HasCall(w, Definition)
<1> DEFINE h == ReleaseTemporaries(f, regs)
<1>0. Open(f) /\ Regs(g) \subseteq Regs(f) /\ Wider(g, f)
  BY WiderRegs DEF Grows
<1>1. /\ Good(h) /\ Wider(f, h) /\ (Loose(h) => Loose(f))
      /\ \A r \in Regs(f) \ regs : RegStates(h)[r + 1] = RegStates(f)[r + 1]
  BY <1>0, ReleaseGood
<1> HIDE DEF h
<1>2. Wider(g, h)
  <2>1. /\ Len(g.labels) \in Nat /\ Len(h.labels) \in Nat /\ Len(f.labels) \in Nat
        /\ Len(g.symbols) \in Nat /\ Len(h.symbols) \in Nat /\ Len(f.symbols) \in Nat
    BY <1>1, SeqFacts DEF Good, Shape
  <2>1a. Open(h)
    BY <1>0, <1>1, WiderRegs
  <2>2. Len(RegStates(g)) \in Nat /\ Len(RegStates(h)) \in Nat /\ Len(RegStates(f)) \in Nat
    BY <1>0, <1>1, <2>1a, SymbolsFacts
  <2> QED  BY <1>0, <1>1, <2>1, <2>2 DEF Wider
<1>3. Kept(w, h)
  <2>1. SUFFICES ASSUME NEW j \in 2 .. Len(w), NEW m \in DOMAIN Held(w[j])
                 PROVE  InUse(Held(w[j])[m], h)
    BY DEF Kept
  <2>2. j \in 1 .. Len(w)
    BY SeqFacts DEF Traversal
  <2>3. Held(w[j])[m] \in Regs(g) /\ InUse(Held(w[j])[m], g)
    BY <2>2, HeldInRegs DEF Traversal, Reserved
  <2>4. InUse(Held(w[j])[m], f) /\ Held(w[j])[m] \in Regs(f)
    BY <1>0, <2>3 DEF Grows, InUse
  <2>5. Held(w[j])[m] \notin regs
    <3>1. SUFFICES ASSUME NEW i \in DOMAIN Held(w[1]), Held(w[1])[i] = Held(w[j])[m]
                   PROVE  FALSE
      OBVIOUS
    <3>2. Shared(w[1], w[j], i, m)
      BY <3>1 DEF Shared
    <3> QED  BY <3>2, SameApart DEF Apart
  <2> QED  BY <1>1, <2>4, <2>5 DEF InUse
<1>4. Pushable(<<>>, h, s) /\ \A k \in 1 .. Len(<<>>) : DOMAIN Held(<<>>[k]) = {}
  BY PlainNone
<1>5. /\ Reserved(<<>>, h) /\ Distinct(<<>>)
      /\ \A k \in 1 .. Len(<<>>) : Apart(<<>>[k], w)
  BY <1>4, NoneHeld
<1>6. Loose(h) => Waits(w)
  BY <1>1, StillWaits
<1>7. /\ Traversal(v, h, s)
      /\ HasCall(v, Definition) <=> HasCall(w, Definition)
  BY <1>1, <1>2, <1>3, <1>4, <1>5, <1>6, TraversalStep, PushableParts
<1> QED  BY <1>7 DEF h

-----------------------------------------------------------------------------
(* What is added to code, registers and labels *)

\* h is what g becomes by code, registers and labels that are added to it.
Onto(g, h) ==
  /\ Good(g) /\ Open(g) /\ Good(h) /\ Open(h)
  /\ Grows(g, h)
  /\ Loose(h) => Loose(g)

\* It is wider and takes nothing back.
LEMMA OntoGrows ==
  ASSUME NEW g, NEW h, Onto(g, h)
  PROVE  /\ Good(g) /\ Open(g) /\ Good(h) /\ Open(h) /\ Grows(g, h) /\ Wider(g, h)
         /\ Loose(h) => Loose(g)
         /\ Len(h.symbols) = Len(g.symbols)
         /\ Regs(g) \subseteq Regs(h) /\ Labels(g) \subseteq Labels(h)
<1>1. Good(g) /\ Open(g) /\ Good(h) /\ Open(h) /\ Grows(g, h) /\ Wider(g, h)
      /\ (Loose(h) => Loose(g))
  BY DEF Onto, Grows
<1>2. Regs(g) \subseteq Regs(h) /\ Labels(g) \subseteq Labels(h)
  BY <1>1, WiderRegs
<1> QED  BY <1>1, <1>2 DEF Wider

\* Step by step,
LEMMA GrowsTrans ==
  ASSUME NEW f, NEW g, NEW h, Good(f), Open(f), Good(g), Good(h), Grows(f, g), Grows(g, h)
  PROVE  Grows(f, h) /\ Open(h)
<1>0. Wider(f, g) /\ Wider(g, h) /\ Open(g) /\ Open(h) /\ Regs(f) \subseteq Regs(g)
  BY WiderRegs DEF Grows
<1>1. /\ Len(f.labels) \in Nat /\ Len(g.labels) \in Nat /\ Len(h.labels) \in Nat
      /\ Len(f.symbols) \in Nat /\ Len(g.symbols) \in Nat /\ Len(h.symbols) \in Nat
  BY SeqFacts DEF Good, Shape
<1>2. /\ Len(RegStates(f)) \in Nat /\ Len(RegStates(g)) \in Nat
      /\ Len(RegStates(h)) \in Nat
  BY <1>0, SymbolsFacts
<1>3. Wider(f, h)
  BY <1>0, <1>1, <1>2 DEF Wider
<1> QED  BY <1>0, <1>3 DEF Grows

\* one operation after another.
LEMMA OntoTrans ==
  ASSUME NEW f, NEW g, NEW h, Onto(f, g), Onto(g, h)
  PROVE  Onto(f, h)
<1>1. Grows(f, h)
  BY GrowsTrans DEF Onto
<1> QED  BY <1>1 DEF Onto

\* The program is still being compiled.
LEMMA GrowsOpen ==
  ASSUME NEW g, Good(g), Open(g), NEW h, Good(h), Grows(g, h), Loose(h) => Loose(g)
  PROVE  Onto(g, h)
  BY WiderRegs DEF Onto, Grows

-----------------------------------------------------------------------------
\* Each operation of GenState that only adds.
LEMMA AdvanceOnto ==
  ASSUME NEW g, Good(g), Open(g), NEW n
  PROVE  Onto(g, AdvanceLine(g, n))
  BY AdvanceLineGood, GrowsOpen

LEMMA EmitOnto ==
  ASSUME NEW g, Good(g), Open(g), NEW i \in Instruction, i # PotentialBreak
  PROVE  Onto(g, Emit(g, i)) /\ ~ Loose(Emit(g, i))
  BY EmitGood, GrowsOpen

LEMMA EmitBackpatchedOnto ==
  ASSUME NEW g, Good(g), Open(g), NEW i \in Instruction, IsJump(i, g)
  PROVE  /\ Onto(g, EmitBackpatched(g, i))
         /\ ~ Loose(EmitBackpatched(g, i)) /\ ~ OnPotentialBreak(EmitBackpatched(g, i))
  BY EmitBackpatchedGood, GrowsOpen

LEMMA CreateLabelOnto ==
  ASSUME NEW g, Good(g), Open(g)
  PROVE  /\ Onto(g, CreateLabel(g))
         /\ Len(CreateLabel(g).labels) = Len(g.labels) + 1
         /\ Len(g.labels) \in Nat
         /\ NewLabel(g) = Len(g.labels)
         /\ NewLabel(g) \in Labels(CreateLabel(g))
         /\ NextPos(CreateLabel(g)) = NextPos(g)
         /\ Symbols(CreateLabel(g)) = Symbols(g)
<1>1. CreateLabel(g).code = g.code /\ CreateLabel(g).symbols = g.symbols
  BY CreateLabelGood DEF Keeps, Fields
<1> QED  BY <1>1, CreateLabelGood, GrowsOpen, SeqFacts
            DEF NextPos, NewLabel, Good, Shape, Symbols

LEMMA SetLabelOnto ==
  ASSUME NEW g, Good(g), Open(g), NEW l \in Labels(g), NEW p \in 0 .. NextPos(g)
  PROVE  /\ Good(SetLabel(g, l, p)) /\ Grows(g, SetLabel(g, l, p))
         /\ (p = NextPos(g) /\ OnPotentialBreak(g)) \/ Onto(g, SetLabel(g, l, p))
         /\ Len(SetLabel(g, l, p).labels) = Len(g.labels)
  BY SetLabelGood, GrowsOpen

LEMMA ErrOnto ==
  ASSUME NEW g, Good(g), Open(g), NEW t
  PROVE  Onto(g, Err(g, t))
  BY ErrorsGood, GrowsOpen DEF Err

LEMMA FetchTemporaryOnto ==
  ASSUME NEW g, Good(g), Open(g)
  PROVE  /\ Onto(g, FetchTemporary(g))
         /\ Temporary(g) \in Regs(FetchTemporary(g))
         /\ InUse(Temporary(g), FetchTemporary(g))
         /\ Fresh(Temporary(g), g)
         /\ FetchTemporary(g).labels = g.labels
         /\ NextPos(FetchTemporary(g)) = NextPos(g)
  BY FetchTemporaryGood, GrowsOpen DEF InUse, Keeps, Fields, NextPos

LEMMA FetchVariableRegisterOnto ==
  ASSUME NEW g, Good(g), Open(g), NEW name, Len(name) = 4 => name[4] \in 1 .. g.loops
  PROVE  /\ Onto(g, FetchVariableRegister(g, name))
         /\ VariableRegister(g, name) \in Regs(FetchVariableRegister(g, name))
         /\ (\A k \in 1 .. Len(RegStates(g)) : RegStates(g)[k].name # name) =>
              /\ InUse(VariableRegister(g, name), FetchVariableRegister(g, name))
              /\ Fresh(VariableRegister(g, name), g)
  BY FetchVariableRegisterGood, GrowsOpen DEF InUse

LEMMA WithMarkOnto ==
  ASSUME NEW g, Good(g), Open(g), NEW name
  PROVE  /\ Onto(g, WithMark(g, name))
         /\ LabelOf(WithMark(g, name), name) \in Labels(WithMark(g, name))
  BY WithMarkGood, GrowsOpen

LEMMA JoinOnto ==
  ASSUME NEW g, Good(g), Open(g), NEW t, IsSeq(t),
         \A k \in 1 .. Len(t) : t[k] \in Instruction /\ t[k] # PotentialBreak
  PROVE  Onto(g, Join(g, t))
  BY JoinGood, GrowsOpen

-----------------------------------------------------------------------------
\* What dispatchVoid and dispatchValue emit are instructions,
LEMMA Instructions ==
  ASSUME NEW a \in Nat, NEW b \in Nat, NEW c \in Nat, NEW z \in Word
  PROVE  /\ Test(a, b, c) \in Instruction /\ Test(a, b, c) # PotentialBreak
         /\ Add(a, b, z) \in Instruction /\ Add(a, b, z) # PotentialBreak
         /\ LoadConstant(a, z) \in Instruction /\ LoadConstant(a, z) # PotentialBreak
         /\ PrepareExec(a, b, c) \in Instruction /\ PrepareExec(a, b, c) # PotentialBreak
         /\ Arg(a, b) \in Instruction /\ Arg(a, b) # PotentialBreak
         /\ Exec(a) \in Instruction /\ Exec(a) # PotentialBreak
         /\ Ret(a) \in Instruction /\ Ret(a) # PotentialBreak
         /\ Halt \in Instruction /\ Halt # PotentialBreak
         /\ Jmp(a) \in Instruction /\ Jmp(a).op = "JMP" /\ Jmp(a).offset = a
         /\ JmpC(a, b) \in Instruction /\ JmpC(a, b).op = "JMPC" /\ JmpC(a, b).offset = a
<1>1. a \in Int
  OBVIOUS
<1> QED  BY <1>1 DEF Test, Add, LoadConstant, PrepareExec, Arg, Exec, Ret, Halt, Jmp, JmpC,
         PotentialBreak, Instruction

\* so are the jumps, which hold labels,
LEMMA Jumps ==
  ASSUME NEW g, Good(g), Open(g), NEW l \in Labels(g), NEW r \in Regs(g)
  PROVE  JmpC(l, r) \in Instruction /\ IsJump(JmpC(l, r), g)
<1>1. l \in Nat /\ r \in Nat /\ 0 \in Word /\ 0 \in Nat
  BY MaxWordAssumption, SymbolsFacts, SeqFacts DEF Labels, Regs, Word, Good, Shape
<1>2. JmpC(l, r) \in Instruction /\ JmpC(l, r).op = "JMPC" /\ JmpC(l, r).offset = l
  BY <1>1, Instructions
<1> QED  BY <1>2 DEF IsJump, Labels

\* and the labels stay where they are as others are added.
LEMMA JumpsOn ==
  ASSUME NEW g, Good(g), Open(g), NEW l \in Labels(g)
  PROVE  Jmp(l) \in Instruction /\ IsJump(Jmp(l), g)
<1>1. l \in Nat /\ 0 \in Word
  BY MaxWordAssumption, SeqFacts DEF Labels, Word, Good, Shape
<1>2. Jmp(l) \in Instruction /\ Jmp(l).op = "JMP" /\ Jmp(l).offset = l
  BY <1>1, Instructions
<1> QED  BY <1>2 DEF IsJump, Labels

\* Registers are numbers.
LEMMA RegsNat ==
  ASSUME NEW g, Good(g), Open(g)
  PROVE  Regs(g) \subseteq Nat
  BY SymbolsFacts DEF Regs

\* Zero is a word.
LEMMA Zero ==
  0 \in Word /\ 0 \in Nat /\ -1 \in Word
  BY MaxWordAssumption DEF Word

-----------------------------------------------------------------------------
(* The inductive invariant *)

\* What is fresh later was fresh before.
LEMMA FreshBefore ==
  ASSUME NEW g, NEW h, Onto(g, h), NEW r, Fresh(r, h)
  PROVE  Fresh(r, g)
  BY OntoGrows DEF Fresh, Grows

\* What was in use still is.
LEMMA InUseAfter ==
  ASSUME NEW g, NEW h, Onto(g, h), NEW r \in Regs(g), InUse(r, g)
  PROVE  InUse(r, h)
  BY DEF Onto, Grows, InUse

\* A fresh register is another one than one in use.
LEMMA FreshDiffers ==
  ASSUME NEW g, NEW q \in Regs(g), InUse(q, g), NEW r, Fresh(r, g)
  PROVE  q # r
  BY DEF Fresh, InUse

-----------------------------------------------------------------------------
\* One symbol table of the root program, and one of the program defined.
Depth ==
  Len(gs.symbols) = IF outcome = "returned" THEN 0
                    ELSE IF HasCall(work, Definition) THEN 2 ELSE 1

\* While gen() traverses the tree the state is good and the call stack is one
\* of a traversal; a definition whose ports are null crashes above statements
\* only.
Inv ==
  /\ source \in Sources
  /\ outcome \in {"running", "returned", "crashed"}
  /\ Good(gs)
  /\ Depth
  /\ outcome = "running" => Traversal(work, gs, source)
  /\ outcome # "running" =>
       IsSeq(work) /\ \A k \in 1 .. Len(work) : work[k].call = "void"

\* What the invariant says of the innermost call.
LEMMA AtTask ==
  ASSUME Inv, outcome = "running", work # <<>>
  PROVE  /\ source \in Sources /\ Good(gs) /\ Open(gs)
         /\ Traversal(work, gs, source)
         /\ Task = work[1] /\ node = work[1].node /\ Fits(work[1], gs, source)
         /\ IsSeq(work) /\ Len(work) \in Nat /\ 1 \in 1 .. Len(work)
         /\ Len(work) >= 1
<1>1. /\ source \in Sources /\ Good(gs) /\ Traversal(work, gs, source)
      /\ Len(gs.symbols) \in {1, 2}
  BY DEF Inv, Depth
<1>2. IsSeq(work) /\ Task = work[1] /\ Len(work) \in Nat /\ Len(work) >= 1
  BY <1>1, TailIs, SeqFacts DEF Traversal, Task
<1>3. 1 \in 1 .. Len(work)
  BY <1>2
<1> QED  BY <1>1, <1>2, <1>3 DEF Open, Traversal, node

\* What the assumption says of nodes of a body,
LEMMA BodyNode ==
  ASSUME NEW s \in Sources, NEW n \in Body(s)
  PROVE  /\ n.t \notin {"PROGRAM", "NULL"} /\ n # Null
         /\ n.left \in Body(s) \cup {Null} /\ n.right \in Body(s) \cup {Null}
         /\ n.t = "NUMBER" => n.tok \in Nat
         /\ n.t = "IF" => n.left \in Body(s)
         /\ n.t = "CALL" /\ n.right # Null =>
                  n.right.t = "SPLIT" /\ n.right.left.t # "SPLIT" /\ n.right \in Body(s)
<1>1. Null.t = "NULL"
  BY DEF Null
<1>2. /\ n.t \notin {"PROGRAM", "NULL"}
      /\ n.left \in Body(s) \cup {Null} /\ n.right \in Body(s) \cup {Null}
      /\ n.t = "NUMBER" => n.tok \in Nat
      /\ n.t = "IF" => n.left # Null
      /\ n.t = "CALL" /\ n.right # Null =>
           n.right.t = "SPLIT" /\ n.right.left.t # "SPLIT"
  BY ShapeAssumption DEF Body
<1>3. n # Null
  BY <1>1, <1>2
<1> QED  BY <1>2, <1>3

\* and of the others.
LEMMA SpineNode ==
  ASSUME NEW s \in Sources, NEW n \in Spine[s]
  PROVE  \/ /\ n.t = "SPLIT"
            /\ n.left \in Spine[s] \cup Body(s) \cup {Null}
            /\ n.right \in Spine[s] \cup Body(s) \cup {Null}
         \/ /\ n.t = "PROGRAM" /\ n.right \in Body(s) \cup {Null}
            /\ n.left.right # Null => n.left.right.left \in Body(s) \cup {Null}
  BY ShapeAssumption DEF Body

\* A node of a statement's type is in the body of its program.
LEMMA StatementNode ==
  ASSUME Inv, outcome = "running", work # <<>>, Task.call = "void",
         node.t \notin {"SPLIT", "PROGRAM"}
  PROVE  node \in Body(source)
  BY AtTask, SpineNode DEF Fits

\* Only dispatchVoid and definitions are called for others.
LEMMA OtherNode ==
  ASSUME Inv, outcome = "running", work # <<>>,
         Task.call \notin {"void"} \cup Definition
  PROVE  node \in Body(source)
  BY AtTask DEF Fits

-----------------------------------------------------------------------------
\* What a step that goes on with the traversal has to show.
LEMMA Goes ==
  ASSUME Inv, outcome = "running", work # <<>>,
         source' = source, outcome' = outcome,
         Good(gs'), Len(gs'.symbols) = Len(gs.symbols),
         Traversal(work', gs', source),
         HasCall(work', Definition) <=> HasCall(work, Definition)
  PROVE  Inv'
<1>1. source' \in Sources /\ outcome' = "running"
  BY DEF Inv
<1>2. Depth'
  BY <1>1 DEF Inv, Depth, HasCall
<1>3. Traversal(work', gs', source')
  OBVIOUS
<1> QED  BY <1>1, <1>2, <1>3 DEF Inv

\* A step that adds code, registers and labels and goes on with calls.
LEMMA GoesPlain ==
  ASSUME Inv, outcome = "running", work # <<>>,
         Task.call \notin {"callargs", "while"} \cup Definition,
         NEW h, NEW t, Onto(gs, h), Plain(t, h, source),
         Stmt(h, t)
  PROVE  Inv'
<1>1. gs' = h /\ source' = source /\ outcome' = outcome /\ Splice(work', t, work)
  BY DEF Stmt, Then, Splice
<1>2. /\ Good(gs) /\ Open(gs) /\ Good(h) /\ Grows(gs, h) /\ (Loose(h) => Loose(gs))
      /\ Len(h.symbols) = Len(gs.symbols)
  BY OntoGrows
<1>3. Traversal(work, gs, source) /\ Task = work[1]
  BY AtTask
<1>4. Traversal(work', h, source) /\ (HasCall(work', Definition) <=> HasCall(work, Definition))
  BY <1>1, <1>2, <1>3, PlainStep
<1> QED  BY <1>1, <1>2, <1>4, Goes

\* A step that goes on with calls and then with r, which it makes of
\* registers fetched anew or held so far.
LEMMA GoesRest ==
  ASSUME Inv, outcome = "running", work # <<>>,
         Task.call \notin {"callargs"} \cup Definition,
         NEW h, Good(h), Grows(gs, h), NEW a, Plain(a, h, source),
         NEW r, Waiting(r, h, source), HeldOnce(r), HeldInUse(r, h), Apart(r, work),
         ~ Loose(h) \/ (Task.call # "while" /\ (Loose(h) => Loose(gs)))
           \/ r.call = "while",
         Stmt(h, a \o <<r>>)
  PROVE  Inv'
<1>1. gs' = h /\ source' = source /\ outcome' = outcome /\ Splice(work', a \o <<r>>, work)
  BY DEF Stmt, Then, Splice
<1>3. Traversal(work, gs, source) /\ Task = work[1] /\ Good(gs) /\ Open(gs)
  BY AtTask
<1>2. Len(h.symbols) = Len(gs.symbols)
  BY DEF Grows, Wider
<1>4. Traversal(work', h, source) /\ (HasCall(work', Definition) <=> HasCall(work, Definition))
  BY <1>1, <1>3, RestStep
<1> QED  BY <1>1, <1>2, <1>4, Goes

\* A step that returns and gives back what it held.
LEMMA GoesRelease ==
  ASSUME Inv, outcome = "running", work # <<>>,
         Task.call \notin {"callargs", "while"} \cup Definition,
         NEW f, Onto(gs, f),
         NEW regs, \A q \in regs : \E i \in DOMAIN Held(Task) : Held(Task)[i] = q,
         Stmt(ReleaseTemporaries(f, regs), <<>>)
  PROVE  Inv'
<1> DEFINE h == ReleaseTemporaries(f, regs)
<1>1. gs' = h /\ source' = source /\ outcome' = outcome /\ Splice(work', <<>>, work)
  BY DEF Stmt, Then, Splice
<1>2. /\ Good(gs) /\ Open(gs) /\ Good(f) /\ Open(f) /\ Grows(gs, f)
      /\ (Loose(f) => Loose(gs))
      /\ Len(f.symbols) = Len(gs.symbols)
  BY OntoGrows
<1>3. Traversal(work, gs, source) /\ Task = work[1]
  BY AtTask
<1>5. Good(h) /\ Len(h.symbols) = Len(gs.symbols)
  BY <1>2, ReleaseGood DEF Wider
<1>4. Traversal(work', h, source) /\ (HasCall(work', Definition) <=> HasCall(work, Definition))
  BY <1>1, <1>2, <1>3, ReleaseStep
<1> QED  BY <1>1, <1>5, <1>4, Goes

-----------------------------------------------------------------------------
(* Simple statements and values keep it *)

\* dispatchVoid and dispatchValue note the line first.
LEMMA AtLineOnto ==
  ASSUME Inv, outcome = "running", work # <<>>
  PROVE  Onto(gs, AtLine)
  BY AtTask, AdvanceOnto DEF AtLine

\* A function that returns after adding code.
LEMMA PlainlyOver ==
  ASSUME Inv, outcome = "running", work # <<>>,
         Task.call \notin {"callargs", "while"} \cup Definition,
         NEW h, Onto(gs, h), Stmt(h, <<>>)
  PROVE  Inv'
  BY GoesPlain, PlainNone

\* The name of a variable has one part.
LEMMA VariableName ==
  ASSUME NEW x
  PROVE  Len(Variable(x)) # 4
  BY DEF Variable

\* Each action keeps the invariant.
LEMMA KeepVoidAssign ==
  ASSUME Inv, VoidAssign
  PROVE  Inv'
<1> DEFINE g == AtLine
           target == Variable(node.left.tok)
           h == FetchVariableRegister(g, target)
           t == DispatchValue(node.right, VariableRegister(g, target))
<1>1. /\ outcome = "running" /\ work # <<>> /\ Task.call = "void" /\ node.t = "ASSIGN"
      /\ Stmt(h, t)
  BY DEF VoidAssign, On, Running
<1>2. Onto(gs, g) /\ source \in Sources /\ node \in Body(source)
  BY <1>1, AtLineOnto, StatementNode, AtTask
<1> HIDE DEF g
<1>3. Len(target) # 4
  BY VariableName
<1> HIDE DEF target
<1>4. Onto(g, h) /\ VariableRegister(g, target) \in Regs(h)
  BY <1>2, <1>3, OntoGrows, FetchVariableRegisterOnto
<1> HIDE DEF h
<1>5. Onto(gs, h)
  BY <1>2, <1>4, OntoTrans
<1>6. Plain(t, h, source)
  BY <1>2, <1>4, BodyNode, PlainValue
<1> HIDE DEF t
<1> QED  BY <1>1, <1>5, <1>6, GoesPlain DEF Definition

LEMMA KeepVoidStop ==
  ASSUME Inv, VoidStop
  PROVE  Inv'
<1>1. /\ outcome = "running" /\ work # <<>> /\ Task.call = "void"
      /\ Stmt(Emit(AtLine, Halt), <<>>)
  BY DEF VoidStop, On, Running
<1>2. Onto(gs, AtLine)
  BY <1>1, AtLineOnto
<1>3. Halt \in Instruction /\ Halt # PotentialBreak
  BY Zero, Instructions
<1>4. Onto(AtLine, Emit(AtLine, Halt))
  BY <1>2, <1>3, OntoGrows, EmitOnto
<1>5. Onto(gs, Emit(AtLine, Halt))
  BY <1>2, <1>4, OntoTrans
<1> QED  BY <1>1, <1>5, PlainlyOver DEF Definition

LEMMA KeepVoidMark ==
  ASSUME Inv, VoidMark
  PROVE  Inv'
<1> DEFINE name == node.left.tok
           g == WithMark(AtLine, name)
           h == SetLabel(g, LabelOf(g, name), MarkPos(g))
<1>1. /\ outcome = "running" /\ work # <<>> /\ Task.call = "void"
      /\ Stmt(h, <<>>)
  BY DEF VoidMark, On, Running
<1>2. Onto(gs, AtLine)
  BY <1>1, AtLineOnto
<1> HIDE DEF name
<1>3. Onto(AtLine, g) /\ LabelOf(g, name) \in Labels(g)
  BY <1>2, OntoGrows, WithMarkOnto
<1> HIDE DEF g
<1>4. /\ NextPos(g) \in Nat /\ NextPos(g) >= 1
      /\ Good(g) /\ Open(g)
  BY <1>3, OntoGrows, SeqFacts DEF Good, Shape, CodeTyped, NextPos
<1>5. /\ MarkPos(g) \in 0 .. NextPos(g)
      /\ ~ (MarkPos(g) = NextPos(g) /\ OnPotentialBreak(g))
  BY <1>4 DEF MarkPos
<1>6. Onto(g, h)
  BY <1>3, <1>4, <1>5, SetLabelOnto
<1> HIDE DEF h
<1>7. Onto(gs, h)
  BY <1>2, <1>3, <1>6, OntoTrans
<1> QED  BY <1>1, <1>7, PlainlyOver DEF Definition

LEMMA KeepVoidGoto ==
  ASSUME Inv, VoidGoto
  PROVE  Inv'
<1> DEFINE name == node.left.tok
           g == WithMark(AtLine, name)
           h == EmitBackpatched(g, Jmp(LabelOf(g, name)))
<1>1. /\ outcome = "running" /\ work # <<>> /\ Task.call = "void"
      /\ Stmt(h, <<>>)
  BY DEF VoidGoto, On, Running
<1>2. Onto(gs, AtLine)
  BY <1>1, AtLineOnto
<1> HIDE DEF name
<1>3. Onto(AtLine, g) /\ LabelOf(g, name) \in Labels(g)
  BY <1>2, OntoGrows, WithMarkOnto
<1> HIDE DEF g
<1>4. Good(g) /\ Open(g)
  BY <1>3, OntoGrows
<1>5. Onto(g, h)
  BY <1>3, <1>4, JumpsOn, EmitBackpatchedOnto
<1> HIDE DEF h
<1>6. Onto(gs, h)
  BY <1>2, <1>3, <1>5, OntoTrans
<1> QED  BY <1>1, <1>6, PlainlyOver DEF Definition

LEMMA KeepVoidMalformed ==
  ASSUME Inv, VoidMalformed
  PROVE  Inv'
<1>1. /\ outcome = "running" /\ work # <<>> /\ Task.call = "void"
      /\ Stmt(Err(AtLine, "MALFORMED_AST"), <<>>)
  BY DEF VoidMalformed, On, Running
<1>2. Onto(gs, AtLine)
  BY <1>1, AtLineOnto
<1>3. Onto(gs, Err(AtLine, "MALFORMED_AST"))
  BY <1>2, OntoGrows, ErrOnto, OntoTrans
<1> QED  BY <1>1, <1>3, PlainlyOver DEF Definition

LEMMA KeepValueMalformed ==
  ASSUME Inv, ValueMalformed
  PROVE  Inv'
<1>1. /\ outcome = "running" /\ work # <<>> /\ Task.call = "value"
      /\ Stmt(Err(AtLine, "MALFORMED_AST"), <<>>)
  BY DEF ValueMalformed, On, Running
<1>2. Onto(gs, AtLine)
  BY <1>1, AtLineOnto
<1>3. Onto(gs, Err(AtLine, "MALFORMED_AST"))
  BY <1>2, OntoGrows, ErrOnto, OntoTrans
<1> QED  BY <1>1, <1>3, PlainlyOver DEF Definition

LEMMA KeepValueName ==
  ASSUME Inv, ValueName
  PROVE  Inv'
<1> DEFINE g == AtLine
           src == Variable(node.tok)
           f == FetchVariableRegister(g, src)
           i == Add(Task.tgt, VariableRegister(g, src), 0)
           h == Emit(f, i)
<1>1. /\ outcome = "running" /\ work # <<>> /\ Task.call = "value" /\ Stmt(h, <<>>)
  BY DEF ValueName, On, Running
<1>2. Onto(gs, g) /\ Task.tgt \in Regs(gs)
  BY <1>1, AtLineOnto, AtTask DEF Fits
<1> HIDE DEF g
<1>3. Len(src) # 4
  BY VariableName
<1> HIDE DEF src
<1>4. Onto(g, f) /\ VariableRegister(g, src) \in Regs(f)
  BY <1>2, <1>3, OntoGrows, FetchVariableRegisterOnto
<1> HIDE DEF f
<1>5. Onto(gs, f)
  BY <1>2, <1>4, OntoTrans
<1>6. Task.tgt \in Nat /\ VariableRegister(g, src) \in Nat
  BY <1>2, <1>4, <1>5, OntoGrows, RegsNat
<1>7. i \in Instruction /\ i # PotentialBreak
  BY <1>6, Zero, Instructions
<1> HIDE DEF i
<1>8. Onto(f, h)
  BY <1>5, <1>7, OntoGrows, EmitOnto
<1> HIDE DEF h
<1>9. Onto(gs, h)
  BY <1>5, <1>8, OntoTrans
<1> QED  BY <1>1, <1>9, PlainlyOver DEF Definition

LEMMA KeepValueNumber ==
  ASSUME Inv, ValueNumber
  PROVE  Inv'
<1> DEFINE g == IF node.tok >= MaxWord THEN Err(AtLine, "INTERNAL_ERROR") ELSE AtLine
           i == LoadConstant(Task.tgt, StrToInt(node))
           h == Emit(g, i)
<1>1. /\ outcome = "running" /\ work # <<>> /\ Task.call = "value" /\ Stmt(h, <<>>)
      /\ node.t = "NUMBER"
  BY DEF ValueNumber, On, Running
<1>2. Onto(gs, AtLine) /\ Task.tgt \in Regs(gs) /\ node.tok \in Nat
      /\ Good(gs) /\ Open(gs)
  <2>1. source \in Sources /\ node \in Body(source)
    BY <1>1, AtTask, OtherNode DEF Definition
  <2> QED  BY <1>1, <2>1, AtLineOnto, AtTask, BodyNode DEF Fits
<1>3. Onto(gs, g)
  BY <1>2, OntoGrows, ErrOnto, OntoTrans
<1> HIDE DEF g
<1>4. Task.tgt \in Nat
  BY <1>2, RegsNat
<1>5. i \in Instruction /\ i # PotentialBreak
  BY <1>2, <1>4, StrToIntIs, Instructions
<1> HIDE DEF i
<1>6. Onto(g, h)
  BY <1>3, <1>5, OntoGrows, EmitOnto
<1> HIDE DEF h
<1>7. Onto(gs, h)
  BY <1>3, <1>6, OntoTrans
<1> QED  BY <1>1, <1>7, PlainlyOver DEF Definition

LEMMA KeepArgsSplit ==
  ASSUME Inv, ArgsSplit
  PROVE  Inv'
<1> DEFINE t == DispatchArgs(node.left) \o DispatchArgs(node.right)
<1>1. /\ outcome = "running" /\ work # <<>> /\ Task.call = "args" /\ Stmt(gs, t)
  BY DEF ArgsSplit, On, Running
<1>2. source \in Sources /\ node \in Body(source) /\ Good(gs) /\ Open(gs)
  BY <1>1, AtTask, OtherNode DEF Definition
<1>3. Plain(t, gs, source)
  BY <1>2, BodyNode, PlainArgs, PlainConcat
<1> HIDE DEF t
<1>4. Onto(gs, gs)
  BY <1>2, SymbolsFacts, SeqFacts DEF Onto, Grows, Wider, Good, Shape
<1> QED  BY <1>1, <1>3, <1>4, GoesPlain DEF Definition

LEMMA KeepArgsName ==
  ASSUME Inv, ArgsName
  PROVE  Inv'
<1> DEFINE g == WithSymbols(gs, [Symbols(gs) EXCEPT !.argnum = @ + 1])
           h == FetchVariableRegister(g, Variable(node.tok))
<1>1. /\ outcome = "running" /\ work # <<>> /\ Task.call = "args" /\ Stmt(h, <<>>)
  BY DEF ArgsName, Running
<1>2. Good(gs) /\ Open(gs)
  BY <1>1, AtTask
<1>3. Onto(gs, g)
  BY <1>2, CountArgGood, GrowsOpen
<1> HIDE DEF g
<1>4. Onto(g, h)
  BY <1>3, VariableName, OntoGrows, FetchVariableRegisterOnto
<1> HIDE DEF h
<1>5. Onto(gs, h)
  BY <1>3, <1>4, OntoTrans
<1> QED  BY <1>1, <1>5, PlainlyOver DEF Definition

-----------------------------------------------------------------------------
(* IF, WHILE and LOOP keep it *)

LEMMA KeepVoidIf ==
  ASSUME Inv, VoidIf
  PROVE  Inv'
<1> DEFINE g0 == AtLine
           g1 == FetchTemporary(g0)
           g2 == FetchTemporary(g1)
           h == FetchTemporary(g2)
           c == Temporary(g0)
           x == Temporary(g1)
           y == Temporary(g2)
           r == [call |-> "if", node |-> node, cond |-> c, op1 |-> x, op2 |-> y]
           a == DispatchValue(node.left.left, x) \o DispatchValue(node.left.right, y)
<1>1. /\ outcome = "running" /\ work # <<>> /\ Task.call = "void" /\ node.t = "IF"
      /\ h = FetchTemporary(g2)
  BY DEF VoidIf, On, Running
<1>1a. \/ Stmt(FetchTemporary(g2), a \o <<r>>)
       \/ Stmt(FetchTemporary(FetchTemporary(FetchTemporary(AtLine))), a \o <<r>>)
  BY DEF VoidIf
<1>2. Onto(gs, g0) /\ source \in Sources /\ node \in Body(source)
  BY <1>1, AtLineOnto, StatementNode, AtTask
<1>r. /\ r.call = "if" /\ r.node = node /\ r.cond = c /\ r.op1 = x /\ r.op2 = y
      /\ Held(r) = <<c, x, y>>
  BY DEF Held
<1> HIDE DEF g0, r
<1>3. Onto(g0, g1) /\ c \in Regs(g1) /\ InUse(c, g1) /\ Fresh(c, g0)
  BY <1>2, OntoGrows, FetchTemporaryOnto
<1> HIDE DEF g1, c
<1>4. Onto(g1, g2) /\ x \in Regs(g2) /\ InUse(x, g2) /\ Fresh(x, g1)
  BY <1>3, OntoGrows, FetchTemporaryOnto
<1> HIDE DEF g2, x
<1>5. Onto(g2, h) /\ y \in Regs(h) /\ InUse(y, h) /\ Fresh(y, g2)
  BY <1>4, OntoGrows, FetchTemporaryOnto
<1> HIDE DEF h, y
<1>6. Onto(gs, g1) /\ Onto(gs, g2) /\ Onto(gs, h) /\ Onto(g1, h)
  BY <1>2, <1>3, <1>4, <1>5, OntoTrans
<1>7. Fresh(c, gs) /\ Fresh(x, gs) /\ Fresh(y, gs) /\ Fresh(y, g1)
  BY <1>2, <1>3, <1>4, <1>5, <1>6, FreshBefore
<1>8. c \in Regs(g2) /\ InUse(c, g2) /\ c \in Regs(h) /\ InUse(c, h)
      /\ x \in Regs(h) /\ InUse(x, h)
  BY <1>3, <1>4, <1>5, InUseAfter, OntoGrows
<1>9. c # x /\ c # y /\ x # y
  BY <1>3, <1>4, <1>5, <1>7, <1>8, FreshDiffers
<1>10. node.left \in Body(source)
  BY <1>1, <1>2, BodyNode
<1>11. Plain(a, h, source)
  <2>1. /\ node.left.left \in Body(source) \cup {Null}
        /\ node.left.right \in Body(source) \cup {Null}
    BY <1>2, <1>10, BodyNode
  <2> QED  BY <2>1, <1>5, <1>8, PlainValue, PlainConcat
<1> HIDE DEF a
<1>12. Waiting(r, h, source)
  BY <1>r, <1>1, <1>2, <1>5, <1>8 DEF Waiting, Fits, Pending, Dispatched, Definition
<1>13. HeldOnce(r) /\ HeldInUse(r, h) /\ Apart(r, work)
  <2>1. /\ DOMAIN Held(r) = {1, 2, 3}
        /\ Held(r)[1] = c /\ Held(r)[2] = x /\ Held(r)[3] = y
    BY <1>r
  <2>2. HeldOnce(r)
    BY <2>1, <1>9 DEF HeldOnce, Shared
  <2>3. HeldInUse(r, h)
    BY <2>1, <1>5, <1>8 DEF HeldInUse
  <2>4. \A i \in DOMAIN Held(r) : Fresh(Held(r)[i], gs)
    BY <2>1, <1>7
  <2> QED  BY <1>1, <2>2, <2>3, <2>4, AtTask, FreshApart
<1>14. Good(h) /\ Grows(gs, h) /\ (Loose(h) => Loose(gs))
  BY <1>6, OntoGrows
<1>15. Stmt(h, a \o <<r>>)
  BY <1>1a DEF h, g2, g1, g0, a, r, c, x, y
<1> QED  BY <1>1, <1>11, <1>12, <1>13, <1>14, <1>15, GoesRest DEF Definition

LEMMA KeepIfTest ==
  ASSUME Inv, IfTest
  PROVE  Inv'
<1> DEFINE i == Test(Task.cond, Task.op1, Task.op2)
           name == node.right.left.tok
           g1 == Emit(gs, i)
           g2 == WithMark(g1, name)
           j == JmpC(LabelOf(g2, name), Task.cond)
           f == EmitBackpatched(g2, j)
           regs == {Task.cond, Task.op1, Task.op2}
<1>1. /\ outcome = "running" /\ work # <<>> /\ Task.call = "if"
      /\ Stmt(ReleaseTemporaries(f, regs), <<>>)
  BY DEF IfTest, Running
<1>2. /\ Good(gs) /\ Open(gs)
      /\ Task.cond \in Regs(gs) /\ Task.op1 \in Regs(gs) /\ Task.op2 \in Regs(gs)
  BY <1>1, AtTask DEF Fits
<1>3. Task.cond \in Nat /\ Task.op1 \in Nat /\ Task.op2 \in Nat
  BY <1>2, RegsNat
<1>4. i \in Instruction /\ i # PotentialBreak
  BY <1>3, Zero, Instructions
<1> HIDE DEF i, name
<1>5. Onto(gs, g1)
  BY <1>2, <1>4, EmitOnto
<1> HIDE DEF g1
<1>6. Onto(g1, g2) /\ LabelOf(g2, name) \in Labels(g2)
  BY <1>5, OntoGrows, WithMarkOnto
<1> HIDE DEF g2
<1>7. Onto(gs, g2)
  BY <1>5, <1>6, OntoTrans
<1>8. j \in Instruction /\ IsJump(j, g2)
  BY <1>2, <1>6, <1>7, OntoGrows, Jumps
<1> HIDE DEF j
<1>9. Onto(g2, f)
  BY <1>7, <1>8, OntoGrows, EmitBackpatchedOnto
<1> HIDE DEF f
<1>10. Onto(gs, f)
  BY <1>7, <1>9, OntoTrans
<1>11. \A q \in regs : \E k \in DOMAIN Held(Task) : Held(Task)[k] = q
  <2>1. Held(Task) = <<Task.cond, Task.op1, Task.op2>>
    BY <1>1 DEF Held
  <2>2. /\ DOMAIN Held(Task) = {1, 2, 3} /\ Held(Task)[1] = Task.cond
        /\ Held(Task)[2] = Task.op1 /\ Held(Task)[3] = Task.op2
    BY <2>1
  <2> QED  BY <2>2
<1> QED  BY <1>1, <1>10, <1>11, GoesRelease DEF Definition

\* A task that holds one register holds it once.
LEMMA OneHeld ==
  ASSUME NEW r, NEW x, Held(r) = <<x>>
  PROVE  /\ DOMAIN Held(r) = {1} /\ Held(r)[1] = x
         /\ HeldOnce(r)
         /\ \A g : InUse(x, g) => HeldInUse(r, g)
<1>1. DOMAIN Held(r) = {1} /\ Held(r)[1] = x
  OBVIOUS
<1> QED  BY <1>1 DEF HeldOnce, Shared, HeldInUse

\* What the first task holds is in use as long as nothing is released.
LEMMA FirstHeld ==
  ASSUME Inv, outcome = "running", work # <<>>, NEW x, Held(Task) = <<x>>,
         NEW h, Grows(gs, h)
  PROVE  InUse(x, h)
<1>1. /\ Traversal(work, gs, source) /\ 1 \in 1 .. Len(work)
      /\ Task = work[1]
  BY AtTask
<1>2. Reserved(work, h)
  BY <1>1, GrowsKept
<1>3. 1 \in DOMAIN Held(Task) /\ Held(Task)[1] = x
  BY OneHeld
<1> QED  BY <1>1, <1>2, <1>3 DEF Reserved

LEMMA KeepVoidWhile ==
  ASSUME Inv, VoidWhile
  PROVE  Inv'
<1> DEFINE g0 == AtLine
           start == NewLabel(g0)
           g1 == CreateLabel(g0)
           g2 == CreateLabel(g1)
           g == FetchTemporary(g2)
           c == Temporary(g0)
           h == SetLabel(g, start, NextPos(g))
           r == [call |-> "while", node |-> node, cond |-> c,
                 start |-> start, end |-> start + 1]
           a == DispatchValue(node.left, c)
<1>1. /\ outcome = "running" /\ work # <<>> /\ Task.call = "void" /\ node.t = "WHILE"
  BY DEF VoidWhile, On, Running
<1>1a. Stmt(h, a \o <<r>>)
  BY DEF VoidWhile
<1>2. Onto(gs, g0) /\ source \in Sources /\ node \in Body(source)
  BY <1>1, AtLineOnto, StatementNode, AtTask
<1>r. /\ r.call = "while" /\ r.node = node /\ r.cond = c /\ r.start = start
      /\ r.end = start + 1 /\ DOMAIN r = {"call", "node", "cond", "start", "end"}
      /\ Held(r) = <<c>>
  BY DEF Held
<1> HIDE DEF g0, r
<1>3. /\ Onto(g0, g1) /\ Len(g1.labels) = Len(g0.labels) + 1
      /\ Symbols(g1) = Symbols(g0) /\ start = Len(g0.labels) /\ Len(g0.labels) \in Nat
  BY <1>2, OntoGrows, CreateLabelOnto
<1> HIDE DEF g1
<1>4. Onto(g1, g2) /\ Len(g2.labels) = Len(g1.labels) + 1 /\ Symbols(g2) = Symbols(g1)
  BY <1>3, OntoGrows, CreateLabelOnto
<1> HIDE DEF g2
<1>5. c = Temporary(g2)
  BY <1>3, <1>4 DEF Temporary, RegStates
<1> HIDE DEF c
<1>6. Onto(g2, g) /\ c \in Regs(g) /\ InUse(c, g) /\ Fresh(c, g2) /\ g.labels = g2.labels
  BY <1>4, <1>5, OntoGrows, FetchTemporaryOnto
<1> HIDE DEF g
<1>7. Onto(gs, g2) /\ Onto(gs, g)
  BY <1>2, <1>3, <1>4, <1>6, OntoTrans
<1>8. start \in Labels(g) /\ start + 1 \in Labels(g) /\ Len(g.labels) = Len(g0.labels) + 2
  BY <1>3, <1>4, <1>6 DEF Labels
<1>9. NextPos(g) \in 0 .. NextPos(g) /\ Good(g) /\ Open(g)
  BY <1>6, OntoGrows, SeqFacts DEF Good, Shape, NextPos
<1>10. Good(h) /\ Grows(g, h) /\ Len(h.labels) = Len(g.labels)
  BY <1>8, <1>9, SetLabelOnto
<1> HIDE DEF h, start
<1>11. Good(h) /\ Grows(gs, h) /\ Wider(g, h)
  BY <1>7, <1>10, <1>9, OntoGrows, GrowsTrans DEF Grows
<1>12. c \in Regs(h) /\ InUse(c, h)
  BY <1>6, <1>9, <1>10, <1>11, WiderRegs DEF Grows, InUse
<1>13. start \in Labels(h) /\ start + 1 \in Labels(h)
  BY <1>8, <1>10 DEF Labels
<1>14. Plain(a, h, source)
  BY <1>2, <1>12, BodyNode, PlainValue
<1> HIDE DEF a
<1>15. Waiting(r, h, source)
  BY <1>r, <1>1, <1>2, <1>12, <1>13 DEF Waiting, Fits, Pending, Dispatched, Definition
<1>16. HeldOnce(r) /\ HeldInUse(r, h) /\ Apart(r, work)
  <2>1. DOMAIN Held(r) = {1} /\ Held(r)[1] = c /\ HeldOnce(r) /\ HeldInUse(r, h)
    BY <1>r, <1>12, OneHeld
  <2>2. Fresh(c, gs)
    BY <1>6, <1>7, FreshBefore
  <2>3. \A i \in DOMAIN Held(r) : Fresh(Held(r)[i], gs)
    BY <2>1, <2>2
  <2> QED  BY <1>1, <2>1, <2>3, AtTask, FreshApart
<1> QED  BY <1>1, <1>1a, <1>r, <1>11, <1>14, <1>15, <1>16, GoesRest DEF Definition

LEMMA KeepWhileBody ==
  ASSUME Inv, WhileBody
  PROVE  Inv'
<1> DEFINE h == EmitBackpatched(gs, JmpC(Task.end, Task.cond))
           r == [Task EXCEPT !.call = "endwhile"]
           a == DispatchVoid(node.right)
<1>1. /\ outcome = "running" /\ work # <<>> /\ Task.call = "while"
      /\ Stmt(h, a \o <<r>>)
  BY DEF WhileBody, Running
<1>2. /\ Good(gs) /\ Open(gs) /\ source \in Sources /\ node \in Body(source)
      /\ DOMAIN Task = {"call", "node", "cond", "start", "end"}
      /\ Task.cond \in Regs(gs) /\ Task.start \in Labels(gs) /\ Task.end \in Labels(gs)
      /\ node = Task.node
  BY <1>1, AtTask, OtherNode DEF Fits, Definition, node
<1>r. /\ r.call = "endwhile" /\ r.node = node /\ r.cond = Task.cond
      /\ r.start = Task.start /\ r.end = Task.end
      /\ DOMAIN r = {"call", "node", "cond", "start", "end"}
  BY <1>2
<1> HIDE DEF r
<1>3. Held(r) = <<Task.cond>> /\ Held(Task) = <<Task.cond>>
  BY <1>1, <1>r DEF Held
<1>4. Onto(gs, h) /\ ~ Loose(h)
  BY <1>2, Jumps, EmitBackpatchedOnto
<1> HIDE DEF h
<1>5. /\ Good(h) /\ Open(h) /\ Grows(gs, h)
      /\ Regs(gs) \subseteq Regs(h) /\ Labels(gs) \subseteq Labels(h)
  BY <1>4, OntoGrows
<1>6. Plain(a, h, source)
  BY <1>2, BodyNode, PlainVoid
<1> HIDE DEF a
<1>7. Waiting(r, h, source)
  BY <1>r, <1>2, <1>5 DEF Waiting, Fits, Pending, Dispatched, Definition
<1>8. HeldOnce(r) /\ Apart(r, work)
  BY <1>1, <1>3, AtTask, SameApart
<1>9. HeldInUse(r, h)
  <2>1. InUse(Task.cond, h)
    BY <1>1, <1>3, <1>5, FirstHeld
  <2> QED  BY <1>3, <2>1, OneHeld
<1> QED  BY <1>1, <1>4, <1>5, <1>6, <1>7, <1>8, <1>9, GoesRest DEF Definition

LEMMA KeepWhileEnd ==
  ASSUME Inv, WhileEnd
  PROVE  Inv'
<1> DEFINE g == EmitBackpatched(gs, Jmp(Task.start))
           f == SetLabel(g, Task.end, NextPos(g))
<1>1. /\ outcome = "running" /\ work # <<>> /\ Task.call = "endwhile"
      /\ Stmt(ReleaseTemporaries(f, {Task.cond}), <<>>)
  BY DEF WhileEnd, Running
<1>2. /\ Good(gs) /\ Open(gs) /\ Task.start \in Labels(gs) /\ Task.end \in Labels(gs)
  BY <1>1, AtTask DEF Fits
<1>3. Onto(gs, g) /\ ~ OnPotentialBreak(g)
  BY <1>2, JumpsOn, EmitBackpatchedOnto
<1> HIDE DEF g
<1>4. /\ Good(g) /\ Open(g) /\ Task.end \in Labels(g)
      /\ NextPos(g) \in 0 .. NextPos(g)
  <2>1. Good(g) /\ Open(g) /\ Task.end \in Labels(g)
    BY <1>2, <1>3, OntoGrows
  <2>2. Len(g.code) \in Nat /\ Len(g.code) >= 1
    BY <2>1, SeqFacts DEF Good, Shape, CodeTyped
  <2> QED  BY <2>1, <2>2 DEF NextPos
<1>5. Onto(g, f)
  BY <1>3, <1>4, SetLabelOnto
<1> HIDE DEF f
<1>6. Onto(gs, f)
  BY <1>3, <1>5, OntoTrans
<1>7. \A q \in {Task.cond} : \E k \in DOMAIN Held(Task) : Held(Task)[k] = q
  <2>1. Held(Task) = <<Task.cond>>
    BY <1>1 DEF Held
  <2> QED  BY <2>1, OneHeld
<1> QED  BY <1>1, <1>6, <1>7, GoesRelease DEF Definition

LEMMA KeepVoidLoop ==
  ASSUME Inv, VoidLoop
  PROVE  Inv'
<1> DEFINE g0 == AtLine
           g == [g0 EXCEPT !.loops = @ + 1]
           name == LoopVariable(g.fs, g.loops)
           counter == VariableRegister(g, name)
           h == FetchVariableRegister(g, name)
           r == [call |-> "loop", node |-> node, counter |-> counter]
           a == DispatchValue(node.left, counter)
<1>1. /\ outcome = "running" /\ work # <<>> /\ Task.call = "void" /\ node.t = "LOOP"
      /\ Stmt(h, a \o <<r>>)
  BY DEF VoidLoop, On, Running
<1>2. Onto(gs, g0) /\ source \in Sources /\ node \in Body(source)
  BY <1>1, AtLineOnto, StatementNode, AtTask
<1>r. r.call = "loop" /\ r.node = node /\ r.counter = counter /\ Held(r) = <<counter>>
  BY DEF Held
<1> HIDE DEF g0, r
<1>3. /\ Onto(g0, g) /\ Keeps(g0, g, {"loops"}) /\ g.loops = g0.loops + 1
  BY <1>2, OntoGrows, NextLoopGood, GrowsOpen
<1> HIDE DEF g
<1>4. g0.loops \in Nat /\ Len(name) = 4 /\ name[4] = g0.loops + 1 /\ name[4] \in 1 .. g.loops
  BY <1>2, <1>3, OntoGrows DEF Good, Shape, LoopVariable
<1> HIDE DEF name
<1>5. /\ Onto(g, h) /\ counter \in Regs(h)
      /\ (\A k \in 1 .. Len(RegStates(g)) : RegStates(g)[k].name # name) =>
           InUse(counter, h) /\ Fresh(counter, g)
  BY <1>3, <1>4, OntoGrows, FetchVariableRegisterOnto
<1> HIDE DEF h, counter
<1>6. \A k \in 1 .. Len(RegStates(g)) : RegStates(g)[k].name # name
  <2>1. RegStates(g) = RegStates(g0)
    BY <1>3 DEF Keeps, Fields, RegStates, Symbols
  <2>2. ASSUME NEW k \in 1 .. Len(RegStates(g0)) PROVE RegStates(g0)[k].name # name
    <3>1. IsRegister(RegStates(g0)[k], g0.loops)
      BY <1>2, OntoGrows, SymbolsFacts
    <3> QED  BY <1>4, <3>1 DEF IsRegister
  <2> QED  BY <2>1, <2>2
<1>7. Onto(gs, g) /\ Onto(gs, h)
  BY <1>2, <1>3, <1>5, OntoTrans
<1>8. Plain(a, h, source)
  BY <1>2, <1>5, BodyNode, PlainValue
<1> HIDE DEF a
<1>9. Waiting(r, h, source)
  BY <1>r, <1>2, <1>5 DEF Waiting, Fits, Pending, Dispatched, Definition
<1>10. HeldOnce(r) /\ HeldInUse(r, h) /\ Apart(r, work)
  <2>1. DOMAIN Held(r) = {1} /\ Held(r)[1] = counter /\ HeldOnce(r) /\ HeldInUse(r, h)
    BY <1>r, <1>5, <1>6, OneHeld
  <2>2. Fresh(counter, gs)
    BY <1>5, <1>6, <1>7, FreshBefore
  <2>3. \A i \in DOMAIN Held(r) : Fresh(Held(r)[i], gs)
    BY <2>1, <2>2
  <2> QED  BY <1>1, <2>1, <2>3, AtTask, FreshApart
<1> QED  BY <1>1, <1>7, <1>8, <1>9, <1>10, OntoGrows, GoesRest DEF Definition

LEMMA KeepLoopBody ==
  ASSUME Inv, LoopBody
  PROVE  Inv'
<1> DEFINE start == NewLabel(gs)
           g1 == CreateLabel(gs)
           g2 == CreateLabel(g1)
           g == SetLabel(g2, start, NextPos(gs))
           h == EmitBackpatched(g, JmpC(start + 1, Task.counter))
           r == [call |-> "endloop", node |-> node, counter |-> Task.counter,
                 start |-> start, end |-> start + 1]
           a == DispatchVoid(node.right)
<1>1. /\ outcome = "running" /\ work # <<>> /\ Task.call = "loop"
      /\ Stmt(h, a \o <<r>>)
  BY DEF LoopBody, Running
<1>2. /\ Good(gs) /\ Open(gs) /\ source \in Sources /\ node \in Body(source)
      /\ Task.counter \in Regs(gs)
  BY <1>1, AtTask, OtherNode DEF Fits, Definition
<1>r. /\ r.call = "endloop" /\ r.node = node /\ r.counter = Task.counter
      /\ r.start = start /\ r.end = start + 1
  OBVIOUS
<1> HIDE DEF r
<1>3. Held(r) = <<Task.counter>> /\ Held(Task) = <<Task.counter>>
  BY <1>1, <1>r DEF Held
<1>4. /\ Onto(gs, g1) /\ Len(g1.labels) = Len(gs.labels) + 1 /\ NextPos(g1) = NextPos(gs)
      /\ start = Len(gs.labels) /\ Len(gs.labels) \in Nat
  BY <1>2, CreateLabelOnto
<1> HIDE DEF g1
<1>5. Onto(g1, g2) /\ Len(g2.labels) = Len(g1.labels) + 1 /\ NextPos(g2) = NextPos(g1)
  BY <1>4, OntoGrows, CreateLabelOnto
<1> HIDE DEF g2
<1>6. /\ Onto(gs, g2) /\ Good(g2) /\ Open(g2)
      /\ start \in Labels(g2) /\ start + 1 \in Labels(g2)
      /\ NextPos(gs) \in 0 .. NextPos(g2)
  <2>1. Onto(gs, g2) /\ Good(g2) /\ Open(g2)
    BY <1>4, <1>5, OntoTrans, OntoGrows
  <2>2. start \in Labels(g2) /\ start + 1 \in Labels(g2)
    BY <1>4, <1>5 DEF Labels
  <2>3. NextPos(gs) \in Nat
    BY <1>2, SeqFacts DEF Good, Shape, NextPos
  <2> QED  BY <1>4, <1>5, <2>1, <2>2, <2>3
<1>7. Good(g) /\ Grows(g2, g) /\ Len(g.labels) = Len(g2.labels)
  BY <1>6, SetLabelOnto
<1> HIDE DEF g, start
<1>8. /\ Grows(gs, g) /\ Open(g) /\ start \in Labels(g) /\ start + 1 \in Labels(g)
      /\ Task.counter \in Regs(g)
  <2>1. Grows(gs, g) /\ Open(g)
    BY <1>2, <1>6, <1>7, OntoGrows, GrowsTrans
  <2>2. start \in Labels(g) /\ start + 1 \in Labels(g)
    BY <1>6, <1>7 DEF Labels
  <2> QED  BY <1>2, <1>7, <2>1, <2>2, WiderRegs DEF Grows
<1>9. Onto(g, h) /\ ~ Loose(h)
  BY <1>7, <1>8, Jumps, EmitBackpatchedOnto
<1> HIDE DEF h
<1>10. /\ Good(h) /\ Open(h) /\ Grows(gs, h) /\ Task.counter \in Regs(h)
       /\ start \in Labels(h) /\ start + 1 \in Labels(h)
  BY <1>2, <1>7, <1>8, <1>9, OntoGrows, GrowsTrans
<1>11. Plain(a, h, source)
  BY <1>2, BodyNode, PlainVoid
<1> HIDE DEF a
<1>12. Waiting(r, h, source)
  BY <1>r, <1>2, <1>10 DEF Waiting, Fits, Pending, Dispatched, Definition
<1>13. HeldOnce(r) /\ Apart(r, work)
  BY <1>1, <1>3, AtTask, SameApart
<1>14. HeldInUse(r, h)
  <2>1. InUse(Task.counter, h)
    BY <1>1, <1>3, <1>10, FirstHeld
  <2> QED  BY <1>3, <2>1, OneHeld
<1> QED  BY <1>1, <1>9, <1>10, <1>11, <1>12, <1>13, <1>14, GoesRest DEF Definition

LEMMA KeepLoopEnd ==
  ASSUME Inv, LoopEnd
  PROVE  Inv'
<1> DEFINE i == Add(Task.counter, Task.counter, -1)
           f == Emit(gs, i)
           g == EmitBackpatched(f, Jmp(Task.start))
           h == SetLabel(g, Task.end, NextPos(g))
<1>1. /\ outcome = "running" /\ work # <<>> /\ Task.call = "endloop"
      /\ Stmt(h, <<>>)
  BY DEF LoopEnd, Running
<1>2. /\ Good(gs) /\ Open(gs) /\ Task.start \in Labels(gs) /\ Task.end \in Labels(gs)
      /\ Task.counter \in Regs(gs)
  BY <1>1, AtTask DEF Fits
<1>3. i \in Instruction /\ i # PotentialBreak
  BY <1>2, RegsNat, Zero, Instructions
<1> HIDE DEF i
<1>4. Onto(gs, f)
  BY <1>2, <1>3, EmitOnto
<1> HIDE DEF f
<1>5. Onto(f, g) /\ ~ OnPotentialBreak(g)
  BY <1>2, <1>4, OntoGrows, JumpsOn, EmitBackpatchedOnto
<1> HIDE DEF g
<1>6. Onto(gs, g)
  BY <1>4, <1>5, OntoTrans
<1>7. /\ Good(g) /\ Open(g) /\ Task.end \in Labels(g)
      /\ NextPos(g) \in 0 .. NextPos(g)
  <2>1. Good(g) /\ Open(g) /\ Task.end \in Labels(g)
    BY <1>2, <1>6, OntoGrows
  <2>2. Len(g.code) \in Nat /\ Len(g.code) >= 1
    BY <2>1, SeqFacts DEF Good, Shape, CodeTyped
  <2> QED  BY <2>1, <2>2 DEF NextPos
<1>8. Onto(g, h)
  BY <1>5, <1>7, SetLabelOnto
<1> HIDE DEF h
<1>9. Onto(gs, h)
  BY <1>6, <1>8, OntoTrans
<1> QED  BY <1>1, <1>9, PlainlyOver DEF Definition

-----------------------------------------------------------------------------
(* What follows a call's arguments keeps it *)

\* The arguments of a call are computed into registers of its program.
LEMMA AtCall ==
  ASSUME Inv, outcome = "running", work # <<>>, Task.call = "call"
  PROVE  /\ source \in Sources /\ Good(gs) /\ Open(gs)
         /\ node \in Body(source) /\ node.t = "CALL"
         /\ Task.tgt \in Regs(gs) /\ Task.tgt \in Nat
         /\ IsSeq(Args) /\ Len(Args) \in Nat
         /\ \A i \in 1 .. Len(Args) : Args[i] \in Regs(gs) /\ Args[i] \in Nat
         /\ Held(Task) = Args /\ DOMAIN Args = 1 .. Len(Args)
<1>1. /\ source \in Sources /\ Good(gs) /\ Open(gs)
      /\ node \in Body(source) /\ node.t = "CALL"
      /\ Task.tgt \in Regs(gs)
      /\ IsSeq(Task.arglocs)
      /\ \A i \in 1 .. Len(Task.arglocs) : Task.arglocs[i] \in Regs(gs)
  BY AtTask, OtherNode DEF Fits, Definition
<1>2. Regs(gs) \subseteq Nat
  BY <1>1, RegsNat
<1>3. Held(Task) = Args
  BY DEF Held, Args
<1> QED  BY <1>1, <1>2, <1>3, SeqFacts DEF Args

LEMMA KeepCallUnknown ==
  ASSUME Inv, CallUnknown
  PROVE  Inv'
<1>1. /\ outcome = "running" /\ work # <<>> /\ Task.call = "call"
      /\ Stmt(Err(gs, "UNKNOWN_PROGRAM_NAME"), <<>>)
  BY DEF CallUnknown, CallReturn, Running
<1>2. Onto(gs, Err(gs, "UNKNOWN_PROGRAM_NAME"))
  BY <1>1, AtCall, ErrOnto
<1> QED  BY <1>1, <1>2, PlainlyOver DEF Definition

LEMMA KeepCallMismatch ==
  ASSUME Inv, CallMismatch
  PROVE  Inv'
<1>1. /\ outcome = "running" /\ work # <<>> /\ Task.call = "call"
      /\ Stmt(Err(gs, "ARGSIZE_MISMATCH"), <<>>)
  BY DEF CallMismatch, CallReturn, Running
<1>2. Onto(gs, Err(gs, "ARGSIZE_MISMATCH"))
  BY <1>1, AtCall, ErrOnto
<1> QED  BY <1>1, <1>2, PlainlyOver DEF Definition

\* A call with two arguments has a list of two: the second one is there.
LEMMA SecondArgument ==
  ASSUME Inv, outcome = "running", work # <<>>, Task.call = "call", IsInbuilt
  PROVE  node.right.right.left.tok \in Nat
<1>1. /\ source \in Sources /\ node \in Body(source) /\ node.t = "CALL"
  BY AtCall
<1>2. /\ Few(work, 1) /\ work[1].node = node /\ work[1].arglocs = Args
  <2>1. 1 \in 1 .. Len(work) /\ Traversal(work, gs, source) /\ Task = work[1]
        /\ node = work[1].node
    BY AtTask
  <2> QED  BY <2>1 DEF Traversal, FewArgs, Args
<1>3. Len(Args) = 2 /\ node.right.right.left.t = "NUMBER"
  BY DEF IsInbuilt
<1>4. node.right # Null /\ node.right.right # Null
  BY <1>2, <1>3 DEF Few
<1>5. node.right \in Body(source)
  BY <1>1, <1>4, BodyNode
<1>6. node.right.right \in Body(source)
  BY <1>1, <1>4, <1>5, BodyNode
<1>7. node.right.right.left \in Body(source) \cup {Null}
  BY <1>1, <1>6, BodyNode
<1>8. node.right.right.left \in Body(source)
  BY <1>3, <1>7 DEF Null
<1> QED  BY <1>1, <1>3, <1>8, BodyNode

LEMMA KeepCallInbuilt ==
  ASSUME Inv, CallInbuilt
  PROVE  Inv'
<1> DEFINE cs == StrToInt(node.right.right.left)
           z == IF FuncName = "__INC__" THEN cs ELSE WrapAdd(0, -cs)
           i == Add(Task.tgt, Args[1], z)
           h == Emit(gs, i)
<1>1. /\ outcome = "running" /\ work # <<>> /\ Task.call = "call" /\ IsInbuilt
      /\ Stmt(h, <<>>)
  BY DEF CallInbuilt, CallReturn, Running
<1>2. cs \in Word
  BY <1>1, SecondArgument, StrToIntIs
<1> HIDE DEF cs
<1>3. z \in Word
  BY <1>2, NegationIs
<1> HIDE DEF z
<1>4. Good(gs) /\ Open(gs) /\ Task.tgt \in Nat /\ Args[1] \in Nat
  <2>1. 1 \in 1 .. Len(Args)
    BY <1>1 DEF IsInbuilt
  <2> QED  BY <1>1, <2>1, AtCall
<1>5. i \in Instruction /\ i # PotentialBreak
  BY <1>3, <1>4, Zero, Instructions
<1> HIDE DEF i
<1>6. Onto(gs, h)
  BY <1>4, <1>5, EmitOnto
<1> HIDE DEF h
<1> QED  BY <1>1, <1>6, PlainlyOver DEF Definition

LEMMA KeepCallSequence ==
  ASSUME Inv, CallSequence
  PROVE  Inv'
<1> DEFINE p == gs.funcAddrs[FuncName]
           a == <<PrepareExec(p.stack_size, p.mi, Task.tgt)>>
           b == PassArguments(Args)
           c == <<Exec(p.ind)>>
           f == [gs EXCEPT !.code = @ \o a \o b \o c]
           h == Join(Join(Join(gs, a), b), c)
           regs == Range(Args)
<1>1. /\ outcome = "running" /\ work # <<>> /\ Task.call = "call"
      /\ FuncName \in DOMAIN gs.funcAddrs
  BY DEF CallSequence, Running
<1>1a. Stmt(ReleaseTemporaries(f, regs), <<>>)
  BY DEF CallSequence, CallReturn
<1>2. /\ Good(gs) /\ Open(gs) /\ Task.tgt \in Nat
      /\ IsSeq(Args) /\ Len(Args) \in Nat
      /\ \A i \in 1 .. Len(Args) : Args[i] \in Nat
      /\ Held(Task) = Args /\ DOMAIN Args = 1 .. Len(Args)
  BY <1>1, AtCall
<1>3. p.ind \in Nat /\ p.mi \in Nat /\ p.stack_size \in Nat
  BY <1>1, <1>2 DEF Good, FunctionsTyped
<1> HIDE DEF p
<1>4. /\ IsSeq(a) /\ \A k \in 1 .. Len(a) : a[k] \in Instruction /\ a[k] # PotentialBreak
  <2>1. LET i == PrepareExec(p.stack_size, p.mi, Task.tgt)
        IN  i \in Instruction /\ i # PotentialBreak
    BY <1>2, <1>3, Zero, Instructions
  <2> QED  BY <2>1, OneIs
<1>5. /\ IsSeq(c) /\ \A k \in 1 .. Len(c) : c[k] \in Instruction /\ c[k] # PotentialBreak
  <2>1. Exec(p.ind) \in Instruction /\ Exec(p.ind) # PotentialBreak
    BY <1>3, Zero, Instructions
  <2> QED  BY <2>1, OneIs
<1>6. /\ IsSeq(b) /\ \A k \in 1 .. Len(b) : b[k] \in Instruction /\ b[k] # PotentialBreak
  <2>1. b = [k \in 1 .. Len(Args) |-> Arg(k - 1, Args[k])]
    BY <1>2 DEF PassArguments
  <2>2. \A k \in 1 .. Len(Args) : /\ b[k] = Arg(k - 1, Args[k])
                                  /\ k - 1 \in Nat /\ Args[k] \in Nat
    BY <1>2, <2>1
  <2> HIDE DEF b
  <2>3. IsSeq(b) /\ Len(b) = Len(Args)
    <3>1. b = [k \in 1 .. Len(Args) |-> b[k]]
      BY <2>1
    <3> QED  BY <1>2, <3>1, FunctionIs
  <2> QED  BY <2>2, <2>3, Zero, Instructions
<1> HIDE DEF a, b, c
<1>7. f = h
  <2>1. DOMAIN gs = Fields
    BY <1>2 DEF Good, Shape
  <2> QED  BY <2>1 DEF Join, Fields
<1>8. Onto(gs, Join(gs, a))
  BY <1>2, <1>4, JoinOnto
<1>9. Onto(Join(gs, a), Join(Join(gs, a), b))
  BY <1>8, <1>6, OntoGrows, JoinOnto
<1>10. Onto(Join(Join(gs, a), b), h)
  BY <1>9, <1>5, OntoGrows, JoinOnto
<1>11. Onto(gs, h)
  BY <1>8, <1>9, <1>10, OntoTrans
<1> HIDE DEF f, h
<1>12. \A q \in regs : \E k \in DOMAIN Held(Task) : Held(Task)[k] = q
  BY <1>2 DEF Range
<1> HIDE DEF regs
<1>13. Stmt(ReleaseTemporaries(h, regs), <<>>)
  BY <1>1a, <1>7 DEF f, h, regs
<1> QED  BY <1>1, <1>11, <1>12, <1>13, GoesRelease DEF Definition

-----------------------------------------------------------------------------
(* Definitions *)

\* At a definition, or a statement above one, nothing but statements is left
\* to be dispatched: no WHILE has its breakpoint behind a label.
LEMMA AtOuter ==
  ASSUME NEW s, NEW g, NEW w, w # <<>>, Traversal(w, g, s), Outer(w[1], s)
  PROVE  /\ \A j \in 2 .. Len(w) : w[j].call = "void"
         /\ ~ Loose(g)
         /\ HasCall(w, Definition) <=> w[1].call \in Definition
<1>1. IsSeq(w) /\ Len(w) \in Nat /\ Len(w) >= 1
  BY TailIs, SeqFacts DEF Traversal
<1>2. \A j \in 2 .. Len(w) : w[j].call = "void"
  <2>1. 1 \in 1 .. Len(w) /\ 1 + 1 = 2
    BY <1>1
  <2> QED  BY <2>1 DEF Traversal, DefsLast
<1>3. ~ HasCall(w, {"while"})
  BY <1>1, <1>2, HasCallIs DEF Outer
<1>4. HasCall(w, Definition) <=> w[1].call \in Definition
  BY <1>1, <1>2, HasCallIs DEF Definition
<1> QED  BY <1>2, <1>3, <1>4 DEF Traversal

\* What takes the place of a definition, or a statement above one.
LEMMA OuterStep ==
  ASSUME NEW s, NEW g, NEW w, w # <<>>, Traversal(w, g, s), Outer(w[1], s),
         NEW h, ~ Loose(h), h.symbols[1].name = "#root",
         NEW t, IsSeq(t), DefsLast(t, s),
         \A k \in 1 .. Len(t) : /\ t[k].call \in {"void", "args"} \cup Definition
                                /\ Fits(t[k], h, s),
         NEW v, Splice(v, t, w)
  PROVE  /\ Traversal(v, h, s)
         /\ HasCall(v, Definition) <=> HasCall(t, Definition)
<1>1. /\ IsSeq(w) /\ DefsLast(w, s) /\ Collect(w) /\ FewArgs(w) /\ Distinct(w)
      /\ \A k \in 1 .. Len(w) : Fits(w[k], g, s)
      /\ Len(w) \in Nat
  BY SeqFacts DEF Traversal
<1>2. \A j \in 2 .. Len(w) : w[j].call = "void" /\ DOMAIN Held(w[j]) = {}
  BY AtOuter, HeldPlain
<1>3. \A k \in 1 .. Len(t) : DOMAIN Held(t[k]) = {}
  BY HeldPlain
<1>4. \A k \in 1 .. Len(v) : Fits(v[k], h, s)
  <2>1. \A j \in 2 .. Len(w) : Fits(w[j], h, s)
    <3>1. SUFFICES ASSUME NEW j \in 2 .. Len(w)  PROVE Fits(w[j], h, s)
      OBVIOUS
    <3>2. Fits(w[j], g, s) /\ w[j].call = "void"
      BY <1>1, <1>2
    <3> QED  BY <3>2 DEF Fits, Pending, Dispatched, Definition
  <2> QED  BY <1>1, <2>1, FitsSplice
<1>5. DefsLast(v, s)
  BY <1>1, <1>2, DefsLastSplice
<1>6. Collect(v)
  <2>1. Collect(t)
    BY DEF Collect, Definition
  <2> QED  BY <1>1, <2>1, CollectSplice
<1>7. FewArgs(v)
  <2>1. FewArgs(t)
    BY DEF FewArgs, Definition
  <2>2. w[1].call # "callargs"
    BY DEF Outer
  <2>3. Len(t) > 0 => t[Len(t)].call # "callargs"
    <3>1. Len(t) > 0 => Len(t) \in 1 .. Len(t)
      BY SeqFacts
    <3> QED  BY <3>1 DEF Definition
  <2> QED  BY <1>1, <2>1, <2>2, <2>3, FewArgsSplice
<1>8. Reserved(v, h)
  BY <1>1, <1>2, <1>3, ReservedSplice DEF Reserved
<1>9. Distinct(v)
  <2>1. /\ Distinct(t)
        /\ \A k \in 1 .. Len(t), j \in 2 .. Len(w) :
             \A i, m : ~ Shared(t[k], w[j], i, m) /\ ~ Shared(w[j], t[k], m, i)
    BY <1>3 DEF Distinct, Shared
  <2> QED  BY <1>1, <2>1, DistinctSplice
<1>10. HasCall(v, Definition) <=> HasCall(t, Definition)
  <2>1. ~ \E j \in 2 .. Len(w) : w[j].call \in Definition
    BY <1>2 DEF Definition
  <2> QED  BY <1>1, <2>1, HasCallSplice
<1>11. IsSeq(v)
  BY <1>1, Spliced
<1> QED  BY <1>4, <1>5, <1>6, <1>7, <1>8, <1>9, <1>10, <1>11 DEF Traversal

\* Calls, and behind them what a definition goes on with.
LEMMA DefinitionRest ==
  ASSUME NEW s, NEW h, NEW a, Plain(a, h, s), NEW r, r.call \in Definition, Fits(r, h, s),
         \A k \in 1 .. Len(a) : a[k].call \in {"void", "args"},
         NEW t, Followed(t, a, r)
  PROVE  /\ IsSeq(t) /\ DefsLast(t, s) /\ HasCall(t, Definition)
         /\ \A k \in 1 .. Len(t) : /\ t[k].call \in {"void", "args"} \cup Definition
                                   /\ Fits(t[k], h, s)
<1>0. IsSeq(a) /\ IsSeq(<<r>>) /\ Len(<<r>>) = 1 /\ <<r>>[1] = r
  BY OneIs DEF Plain
<1>1. /\ IsSeq(t) /\ Len(t) = Len(a) + 1 /\ Len(a) \in Nat
      /\ \A k \in 1 .. Len(a) : t[k] = a[k]
      /\ t[Len(a) + 1] = r
  <2>1. /\ IsSeq(t) /\ Len(t) = Len(a) + Len(<<r>>)
        /\ \A k \in 1 .. Len(a) : t[k] = a[k]
        /\ \A k \in Len(a) + 1 .. Len(a) + Len(<<r>>) : t[k] = <<r>>[k - Len(a)]
        /\ Len(a) \in Nat
    BY <1>0, ConcatIs, SeqFacts DEF Followed
  <2>2. Len(a) + 1 \in Len(a) + 1 .. Len(a) + Len(<<r>>) /\ Len(a) + 1 - Len(a) = 1
    BY <1>0, <2>1
  <2>3. t[Len(a) + 1] = <<r>>[Len(a) + 1 - Len(a)]
    BY <2>1, <2>2
  <2> QED  BY <1>0, <2>1, <2>2, <2>3
<1>2. \A k \in 1 .. Len(t) : k \in 1 .. Len(a) \/ k = Len(a) + 1
  BY <1>1
<1>3. \A k \in 1 .. Len(a) : ~ Outer(a[k], s)
  BY DEF Plain, Outer, Definition
<1>4. DefsLast(t, s)
  <2>1. SUFFICES ASSUME NEW k \in 1 .. Len(t), Outer(t[k], s), NEW l \in k + 1 .. Len(t)
                 PROVE  FALSE
    BY DEF DefsLast
  <2>2. k = Len(a) + 1
    BY <1>1, <1>2, <1>3, <2>1
  <2> QED  BY <1>1, <2>2
<1>5. HasCall(t, Definition)
  <2>1. Len(a) + 1 \in 1 .. Len(t)
    BY <1>1
  <2> QED  BY <1>1, <2>1 DEF HasCall
<1>6. \A k \in 1 .. Len(t) : /\ t[k].call \in {"void", "args"} \cup Definition
                             /\ Fits(t[k], h, s)
  BY <1>1, <1>2 DEF Plain
<1> QED  BY <1>1, <1>4, <1>5, <1>6

\* A step at a definition or above one.
LEMMA GoesOuter ==
  ASSUME Inv, outcome = "running", work # <<>>, Outer(Task, source),
         source' = source, outcome' = outcome,
         Good(gs'), ~ Loose(gs'), gs'.symbols[1].name = "#root",
         NEW t, IsSeq(t), DefsLast(t, source),
         \A k \in 1 .. Len(t) : /\ t[k].call \in {"void", "args"} \cup Definition
                                /\ Fits(t[k], gs', source),
         Splice(work', t, work),
         Len(gs'.symbols) = IF HasCall(t, Definition) THEN 2 ELSE 1
  PROVE  Inv'
<1>1. Traversal(work, gs, source) /\ Task = work[1]
  BY AtTask
<1>2. /\ Traversal(work', gs', source)
      /\ HasCall(work', Definition) <=> HasCall(t, Definition)
  BY <1>1, OuterStep
<1>3. source' \in Sources /\ outcome' = "running"
  BY DEF Inv
<1>4. Depth'
  BY <1>2, <1>3 DEF Depth, HasCall
<1>5. Traversal(work', gs', source')
  BY <1>2
<1> QED  BY <1>3, <1>4, <1>5 DEF Inv

-----------------------------------------------------------------------------
(* Definitions, lists of statements and the end of gen() keep it *)

\* At a definition or above one: the tables there are, and what is left.
LEMMA OuterDepth ==
  ASSUME Inv, outcome = "running", work # <<>>, Outer(Task, source)
  PROVE  /\ ~ Loose(gs) /\ gs.symbols[1].name = "#root"
         /\ Len(gs.symbols) = IF Task.call \in Definition THEN 2 ELSE 1
         /\ \A j \in 2 .. Len(work) : work[j].call = "void"
<1>1. Traversal(work, gs, source) /\ Task = work[1]
  BY AtTask
<1>2. /\ ~ Loose(gs) /\ (HasCall(work, Definition) <=> Task.call \in Definition)
      /\ \A j \in 2 .. Len(work) : work[j].call = "void"
  BY <1>1, AtOuter
<1> QED  BY <1>1, <1>2 DEF Traversal, Inv, Depth

\* The table of the root program stays the first.
LEMMA FirstName ==
  ASSUME NEW g, NEW h, Onto(g, h)
  PROVE  h.symbols[1].name = g.symbols[1].name
<1>1. 1 \in 1 .. Len(g.symbols)
  BY OntoGrows, SeqFacts DEF Open, Good, Shape
<1> QED  BY <1>1, OntoGrows DEF Wider

\* A call of dispatchVoid for any node of the tree.
LEMMA AnyVoid ==
  ASSUME NEW s, NEW h, NEW n \in Spine[s] \cup Body(s) \cup {Null}
  PROVE  /\ IsSeq(DispatchVoid(n))
         /\ \A k \in 1 .. Len(DispatchVoid(n)) :
              DispatchVoid(n)[k].call = "void" /\ Fits(DispatchVoid(n)[k], h, s)
<1>1. CASE n = Null
  BY <1>1, PlainNone DEF DispatchVoid, Plain
<1>2. CASE n # Null
  <2> DEFINE t == [call |-> "void", node |-> n]
  <2>1. DispatchVoid(n) = <<t>>
    BY <1>2 DEF DispatchVoid
  <2>2. t.call = "void" /\ t.node = n
    OBVIOUS
  <2> HIDE DEF t
  <2>3. Fits(t, h, s)
    BY <1>2, <2>2 DEF Fits, Dispatched, Pending, Definition
  <2> QED  BY <2>1, <2>2, <2>3, OneIs
<1> QED  BY <1>1, <1>2

\* One of them after another.
LEMMA VoidsConcat ==
  ASSUME NEW s, NEW h, NEW a, IsSeq(a), NEW b, IsSeq(b),
         \A k \in 1 .. Len(a) : a[k].call = "void" /\ Fits(a[k], h, s),
         \A k \in 1 .. Len(b) : b[k].call = "void" /\ Fits(b[k], h, s)
  PROVE  /\ IsSeq(a \o b)
         /\ \A k \in 1 .. Len(a \o b) : (a \o b)[k].call = "void" /\ Fits((a \o b)[k], h, s)
<1>1. /\ IsSeq(a \o b) /\ Len(a \o b) = Len(a) + Len(b)
      /\ \A k \in 1 .. Len(a) : (a \o b)[k] = a[k]
      /\ \A k \in Len(a) + 1 .. Len(a) + Len(b) : (a \o b)[k] = b[k - Len(a)]
      /\ Len(a) \in Nat /\ Len(b) \in Nat
  BY ConcatIs, SeqFacts
<1> DEFINE c == a \o b
<1> HIDE DEF c
<1>2. ASSUME NEW k \in 1 .. Len(c)
      PROVE  c[k].call = "void" /\ Fits(c[k], h, s)
  <2>1. CASE k \in 1 .. Len(a)
    <3>1. c[k] = a[k]
      BY <1>1, <2>1 DEF c
    <3> QED  BY <2>1, <3>1
  <2>2. CASE k \notin 1 .. Len(a)
    <3>1. PICK j \in 1 .. Len(b) : j = k - Len(a) /\ k \in Len(a) + 1 .. Len(a) + Len(b)
      BY <1>1, <2>2 DEF c
    <3>2. c[k] = b[j]
      BY <1>1, <3>1 DEF c
    <3> QED  BY <3>2
  <2> QED  BY <2>1, <2>2
<1> QED  BY <1>1, <1>2 DEF c

LEMMA KeepVoidSplit ==
  ASSUME Inv, VoidSplit
  PROVE  Inv'
<1> DEFINE t == DispatchVoid(node.left) \o DispatchVoid(node.right)
           h == AtLine
<1>1. /\ outcome = "running" /\ work # <<>> /\ Task.call = "void" /\ node.t = "SPLIT"
      /\ Stmt(h, t)
  BY DEF VoidSplit, On, Running, Stmt
<1>2. Onto(gs, h) /\ source \in Sources /\ node = Task.node
      /\ node \in Spine[source] \cup Body(source)
  BY <1>1, AtLineOnto, AtTask DEF Fits, node
<1> HIDE DEF h
<1>3. CASE node \in Body(source)
  <2>1. Plain(t, h, source)
    BY <1>2, <1>3, BodyNode, PlainVoid, PlainConcat
  <2> HIDE DEF t
  <2> QED  BY <1>1, <1>2, <2>1, GoesPlain DEF Definition
<1>4. CASE node \notin Body(source)
  <2>1. Outer(Task, source)
    BY <1>1, <1>2, <1>4 DEF Outer
  <2>2. /\ node.left \in Spine[source] \cup Body(source) \cup {Null}
        /\ node.right \in Spine[source] \cup Body(source) \cup {Null}
    BY <1>1, <1>2, <1>4, SpineNode
  <2>3. IsSeq(t) /\ \A k \in 1 .. Len(t) : t[k].call = "void" /\ Fits(t[k], h, source)
    BY <2>2, AnyVoid, VoidsConcat
  <2> HIDE DEF t
  <2>4. DefsLast(t, source) /\ ~ HasCall(t, Definition)
    <3>1. Len(t) \in Nat
      BY <2>3, SeqFacts
    <3>2. \A k \in 1 .. Len(t) : \A l \in k + 1 .. Len(t) : l \in 1 .. Len(t)
      BY <3>1
    <3> QED  BY <2>3, <3>2 DEF DefsLast, HasCall, Definition
  <2>5. /\ gs' = h /\ source' = source /\ outcome' = outcome /\ Splice(work', t, work)
    BY <1>1 DEF Stmt, Then, Splice
  <2>6. Good(h) /\ ~ Loose(h) /\ h.symbols[1].name = "#root" /\ Len(h.symbols) = 1
    BY <1>1, <1>2, <2>1, OuterDepth, OntoGrows, FirstName DEF Definition
  <2> QED  BY <1>1, <2>1, <2>3, <2>4, <2>5, <2>6, GoesOuter
<1> QED  BY <1>3, <1>4

\* What a definition's code begins with.
LEMMA KeepVoidProgram ==
  ASSUME Inv, VoidProgram
  PROVE  Inv'
<1> DEFINE g == RemoveTopPotBreak(AtLine)
           after == NewLabel(g)
           g1 == CreateLabel(g)
           jumping == EmitBackpatched(g1, Jmp(after))
           ports == node.left.right
           name == node.left.left.tok
           h == PushSymbols(jumping, name)
           a == DispatchArgs(ports.left)
           r == [call |-> "program", node |-> node, after |-> after]
<1>1. /\ outcome = "running" /\ work # <<>> /\ Task.call = "void" /\ node.t = "PROGRAM"
      /\ \/ /\ ports # Null
            /\ Stmt(h, a \o <<r>>)
         \/ /\ ports = Null
            /\ gs' = jumping
            /\ outcome' = "crashed"
            /\ UNCHANGED <<source, work, bodies>>
  BY DEF VoidProgram, On, Running
<1>2. /\ Onto(gs, AtLine) /\ source \in Sources /\ node = Task.node
      /\ node \in Spine[source] /\ node \notin Body(source)
      /\ Outer(Task, source)
      /\ ports # Null => ports.left \in Body(source) \cup {Null}
      /\ IsSeq(work) /\ Task = work[1]
  <2>1. Onto(gs, AtLine) /\ source \in Sources /\ node = Task.node
        /\ node \in Spine[source] \cup Body(source) /\ IsSeq(work) /\ Task = work[1]
    BY <1>1, AtLineOnto, AtTask DEF Fits, node
  <2>2. node \notin Body(source)
    BY <1>1, <2>1, BodyNode
  <2>3. ports # Null => ports.left \in Body(source) \cup {Null}
    BY <1>1, <2>1, <2>2, SpineNode
  <2> QED  BY <1>1, <2>1, <2>2, <2>3 DEF Outer
<1>r. r.call = "program" /\ r.node = node /\ r.after = after
  OBVIOUS
<1>3. /\ ~ Loose(gs) /\ gs.symbols[1].name = "#root" /\ Len(gs.symbols) = 1
      /\ \A j \in 2 .. Len(work) : work[j].call = "void"
  BY <1>1, <1>2, OuterDepth DEF Definition
<1>4. Good(g) /\ Open(g) /\ Grows(gs, g)
  <2>1. Good(AtLine) /\ Open(AtLine) /\ Grows(gs, AtLine) /\ ~ Loose(AtLine)
        /\ Good(gs) /\ Open(gs)
    BY <1>2, <1>3, OntoGrows
  <2>2. Good(g) /\ Grows(AtLine, g)
    BY <2>1, RemoveTopGood
  <2> QED  BY <2>1, <2>2, GrowsTrans
<1> HIDE DEF g, r
<1>5. Onto(g, g1) /\ after \in Labels(g1)
  BY <1>4, CreateLabelOnto
<1> HIDE DEF g1, after
<1>6. Onto(g1, jumping) /\ ~ Loose(jumping)
  BY <1>5, OntoGrows, JumpsOn, EmitBackpatchedOnto
<1> HIDE DEF jumping
<1>7. /\ Onto(g, jumping) /\ after \in Labels(jumping)
      /\ Good(jumping) /\ Grows(gs, jumping)
      /\ Len(jumping.symbols) = 1 /\ jumping.symbols[1].name = "#root"
  <2>1. Onto(g, jumping) /\ after \in Labels(jumping) /\ Good(jumping)
    BY <1>5, <1>6, OntoTrans, OntoGrows
  <2>2. Grows(gs, jumping)
    BY <1>2, <1>4, <2>1, OntoGrows, GrowsTrans
  <2>3. 1 \in 1 .. Len(gs.symbols)
    BY <1>3
  <2> QED  BY <1>3, <2>1, <2>2, <2>3 DEF Grows, Wider
<1>8. CASE ports # Null
  <2>1. /\ Good(h) /\ ~ Loose(h) /\ Len(h.symbols) = 2
        /\ h.symbols[1].name = "#root" /\ after \in Labels(h)
    <3>1. /\ Good(h) /\ ~ Loose(h) /\ Len(h.symbols) = Len(jumping.symbols) + 1
          /\ \A k \in 1 .. Len(jumping.symbols) : h.symbols[k] = jumping.symbols[k]
          /\ Keeps(jumping, h, {"symbols"})
      BY <1>6, <1>7, PushSymbolsGood
    <3>2. h.labels = jumping.labels
      BY <3>1 DEF Keeps, Fields
    <3>3. 1 \in 1 .. Len(jumping.symbols)
      BY <1>7
    <3> QED  BY <1>7, <3>1, <3>2, <3>3 DEF Labels
  <2> HIDE DEF h
  <2>2. Plain(a, h, source) /\ \A k \in 1 .. Len(a) : a[k].call \in {"void", "args"}
    <3>1. Plain(a, h, source)
      BY <1>2, <1>8, PlainArgs
    <3>2. \A k \in 1 .. Len(a) : a[k].call = "args"
      BY OneIs DEF DispatchArgs
    <3> QED  BY <3>1, <3>2
  <2> DEFINE t == a \o <<r>>
  <2>3. Followed(t, a, r) /\ Splice(work', t, work) /\ gs' = h
        /\ source' = source /\ outcome' = outcome
    BY <1>1, <1>8 DEF Followed, Stmt, Then, Splice
  <2> HIDE DEF a, t
  <2>4. r.call \in Definition /\ Fits(r, h, source)
    BY <1>r, <1>1, <1>2, <2>1 DEF Fits, Pending, Dispatched, Definition
  <2>5. /\ IsSeq(t) /\ DefsLast(t, source) /\ HasCall(t, Definition)
        /\ \A k \in 1 .. Len(t) : /\ t[k].call \in {"void", "args"} \cup Definition
                                  /\ Fits(t[k], h, source)
    BY <2>2, <2>3, <2>4, DefinitionRest
  <2> QED  BY <1>1, <1>2, <2>1, <2>3, <2>5, GoesOuter
<1>9. CASE ports = Null
  <2>1. gs' = jumping /\ outcome' = "crashed" /\ source' = source /\ work' = work
    BY <1>1, <1>9
  <2>2. \A k \in 1 .. Len(work) : work[k].call = "void"
    <3>1. Len(work) \in Nat /\ Len(work) >= 1
      BY <1>2, TailIs, SeqFacts, <1>1
    <3>2. \A k \in 1 .. Len(work) : k = 1 \/ k \in 2 .. Len(work)
      BY <3>1
    <3> QED  BY <1>1, <1>2, <1>3, <3>2
  <2>3. ~ HasCall(work, Definition)
    BY <2>2 DEF HasCall, Definition
  <2>4. Depth'
    BY <1>7, <2>1, <2>3 DEF Depth, HasCall
  <2> QED  BY <1>2, <1>7, <2>1, <2>2, <2>4 DEF Inv
<1> QED  BY <1>8, <1>9

LEMMA KeepProgramBody ==
  ASSUME Inv, ProgramBody
  PROVE  Inv'
<1> DEFINE r == [call |-> "endprogram", node |-> node, after |-> Task.after,
                 ind |-> NextPos(gs)]
           a == DispatchVoid(node.right)
           t == a \o <<r>>
<1>1. /\ outcome = "running" /\ work # <<>> /\ Task.call = "program" /\ Stmt(gs, t)
  BY DEF ProgramBody, Running
<1>2. /\ source \in Sources /\ Good(gs) /\ node = Task.node
      /\ node \in Spine[source] /\ node.t = "PROGRAM"
      /\ Task.after \in Labels(gs)
      /\ Outer(Task, source)
  BY <1>1, AtTask DEF Fits, node, Definition, Outer
<1>3. node.right \in Body(source) \cup {Null}
  BY <1>2, SpineNode
<1>r. r.call = "endprogram" /\ r.node = node /\ r.after = Task.after /\ r.ind = NextPos(gs)
  OBVIOUS
<1> HIDE DEF r
<1>4. NextPos(gs) \in Nat
  BY <1>2, SeqFacts DEF Good, Shape, NextPos
<1>5. r.call \in Definition /\ Fits(r, gs, source)
  BY <1>r, <1>2, <1>4 DEF Fits, Pending, Dispatched, Definition
<1>6. Plain(a, gs, source) /\ \A k \in 1 .. Len(a) : a[k].call \in {"void", "args"}
  <2>1. Plain(a, gs, source)
    BY <1>3, PlainVoid
  <2>2. \A k \in 1 .. Len(a) : a[k].call = "void"
    BY OneIs DEF DispatchVoid
  <2> QED  BY <2>1, <2>2
<1>7. Followed(t, a, r) /\ Splice(work', t, work) /\ gs' = gs
      /\ source' = source /\ outcome' = outcome
  BY <1>1 DEF Followed, Stmt, Then, Splice
<1> HIDE DEF a, t
<1>8. /\ IsSeq(t) /\ DefsLast(t, source) /\ HasCall(t, Definition)
      /\ \A k \in 1 .. Len(t) : /\ t[k].call \in {"void", "args"} \cup Definition
                                /\ Fits(t[k], gs, source)
  BY <1>5, <1>6, <1>7, DefinitionRest
<1>9. ~ Loose(gs) /\ gs.symbols[1].name = "#root" /\ Len(gs.symbols) = 2
  BY <1>1, <1>2, OuterDepth DEF Definition
<1> QED  BY <1>1, <1>2, <1>7, <1>8, <1>9, GoesOuter

\* Code that ends in anything but a breakpoint.
LEMMA EmittedIsNoBreak ==
  ASSUME NEW g, Good(g), NEW i, i # PotentialBreak
  PROVE  ~ OnPotentialBreak(Emit(g, i))
<1> DEFINE h == Emit(g, i)
<1>1. Shape(g) /\ h.code = Append(g.code, i)
  BY EmitEffect DEF Good
<1> HIDE DEF h
<1>2. Last(Append(g.code, i)) = i
  <2>1. IsSeq(g.code)
    BY <1>1 DEF Shape
  <2> QED  BY <2>1, AppendIs
<1> QED  BY <1>1, <1>2 DEF OnPotentialBreak, h

\* The placeholder's count and index are filled in.
LEMMA Renumbered ==
  ASSUME NEW r \in [op : {"PREPARE_EXEC"}, count : Int, index : Int, target : Nat],
         NEW a \in Nat, NEW b \in Nat
  PROVE  [r EXCEPT !.count = a, !.index = b]
           \in [op : {"PREPARE_EXEC"}, count : Int, index : Int, target : Nat]
<1> DEFINE q == [r EXCEPT !.count = a]
<1>1. q \in [op : {"PREPARE_EXEC"}, count : Int, index : Int, target : Nat]
  OBVIOUS
<1>2. [r EXCEPT !.count = a, !.index = b] = [q EXCEPT !.index = b]
  OBVIOUS
<1> HIDE DEF q
<1> QED  BY <1>1, <1>2

LEMMA KeepProgramEnd ==
  ASSUME Inv, ProgramEnd
  PROVE  Inv'
<1> DEFINE out == node.left.right.right
           out_name == Variable(IF out = Null THEN "x0" ELSE out.tok)
           f == FetchVariableRegister(gs, out_name)
           i == Ret(VariableRegister(gs, out_name))
           g == Emit(f, i)
           p == PopSymbols(g, Task.ind)
           h == SetLabel(p, Task.after, NextPos(g))
<1>1. /\ outcome = "running" /\ work # <<>> /\ Task.call = "endprogram"
      /\ gs' = h /\ source' = source /\ outcome' = outcome /\ Splice(work', <<>>, work)
  BY DEF ProgramEnd, Running, Return, Then, Splice
<1>2. /\ source \in Sources /\ Good(gs) /\ Open(gs)
      /\ Task.after \in Labels(gs) /\ Task.ind \in Nat
      /\ Outer(Task, source)
  BY <1>1, AtTask DEF Fits, Definition, Outer
<1>3. gs.symbols[1].name = "#root" /\ Len(gs.symbols) = 2
  BY <1>1, <1>2, OuterDepth DEF Definition
<1>4. Len(out_name) # 4
  BY VariableName
<1> HIDE DEF out_name
<1>5. Onto(gs, f) /\ VariableRegister(gs, out_name) \in Regs(f)
  BY <1>2, <1>4, FetchVariableRegisterOnto
<1> HIDE DEF f
<1>6. i \in Instruction /\ i # PotentialBreak
  <2>1. VariableRegister(gs, out_name) \in Nat
    BY <1>5, OntoGrows, RegsNat
  <2> QED  BY <2>1, Zero, Instructions
<1> HIDE DEF i
<1>7. /\ Onto(f, g) /\ ~ Loose(g) /\ ~ OnPotentialBreak(g)
  BY <1>5, <1>6, OntoGrows, EmitOnto, EmittedIsNoBreak
<1> HIDE DEF g
<1>8. /\ Onto(gs, g) /\ Good(g) /\ Open(g) /\ Task.after \in Labels(g)
      /\ Len(g.symbols) = 2 /\ g.symbols[1].name = "#root"
      /\ NextPos(g) \in 0 .. NextPos(g)
  <2>1. Onto(gs, g)
    BY <1>5, <1>7, OntoTrans
  <2>2. Good(g) /\ Open(g) /\ Task.after \in Labels(g) /\ Len(g.symbols) = 2
    BY <1>2, <1>3, <2>1, OntoGrows
  <2> QED  BY <1>3, <2>1, <2>2, FirstName, SeqFacts DEF Good, Shape, NextPos
<1>9. /\ Good(p) /\ ~ Loose(p) /\ ~ OnPotentialBreak(p) /\ Len(p.symbols) = 1
      /\ p.symbols[1].name = "#root" /\ Task.after \in Labels(p)
      /\ NextPos(p) = NextPos(g)
  <2>1. /\ Good(p) /\ (Loose(p) => Loose(g))
        /\ Keeps(g, p, {"errors", "stack_maps", "funcAddrs", "symbols"})
        /\ Len(p.symbols) = Len(g.symbols) - 1
        /\ \A k \in 1 .. Len(g.symbols) - 1 : p.symbols[k] = g.symbols[k]
    BY <1>2, <1>8, PopSymbolsGood
  <2>2. p.code = g.code /\ p.labels = g.labels
    BY <2>1 DEF Keeps, Fields
  <2>3. Len(p.symbols) = 1 /\ p.symbols[1] = g.symbols[1]
    BY <1>8, <2>1
  <2> QED  BY <1>7, <1>8, <2>1, <2>2, <2>3 DEF OnPotentialBreak, NextPos, Labels
<1> HIDE DEF p
<1>10. /\ Good(h) /\ ~ Loose(h) /\ Keeps(p, h, {"labels"})
  BY <1>8, <1>9, SetLabelGood
<1> HIDE DEF h
<1>11. Len(h.symbols) = 1 /\ h.symbols[1].name = "#root"
  BY <1>9, <1>10 DEF Keeps, Fields
<1>12. /\ IsSeq(<<>>) /\ Len(<<>>) = 0
       /\ DefsLast(<<>>, source) /\ ~ HasCall(<<>>, Definition)
  BY PlainNone DEF Plain, DefsLast, HasCall
<1> QED  BY <1>1, <1>2, <1>10, <1>11, <1>12, GoesOuter

\* The call of the root program when its size and its stack map are known.
Sized(call, size, mi) == [call EXCEPT !.count = size, !.index = mi]
Filled(g, size, mi) == [g EXCEPT !.code[1] = Sized(g.code[1], size, mi)]

\* The code keeps its shape when the placeholder is filled in.
LEMMA PlaceholderFilled ==
  ASSUME NEW g, Good(g), NEW a \in Nat, NEW b \in Nat, NEW f, f = Filled(g, a, b)
  PROVE  /\ Good(f) /\ Keeps(g, f, {"code"})
         /\ f.code = Assigned(g.code, 1, Sized(g.code[1], a, b))
<1> DEFINE entry == Sized(g.code[1], a, b)
<1>0. /\ DOMAIN g = Fields /\ IsSeq(g.code) /\ Len(g.code) >= 1
      /\ DOMAIN g.code = 1 .. Len(g.code) /\ Len(g.code) \in Nat
      /\ g.code[1] \in [op : {"PREPARE_EXEC"}, count : Int, index : Int, target : Nat]
  BY SeqFacts DEF Good, Shape, CodeTyped
<1>2. entry \in [op : {"PREPARE_EXEC"}, count : Int, index : Int, target : Nat]
  BY <1>0, Renumbered DEF Sized
<1>e. f = [g EXCEPT !.code[1] = entry] /\ entry = Sized(g.code[1], a, b)
  BY DEF Filled
<1> HIDE DEF entry
<1> DEFINE c == [g.code EXCEPT ![1] = entry]
<1>1. f = [g EXCEPT !.code = c]
  BY <1>0, <1>e DEF Fields
<1>3. c = Assigned(g.code, 1, entry)
  BY DEF Assigned
<1> HIDE DEF c
<1>4. /\ IsSeq(c) /\ Len(c) = Len(g.code) /\ c[1] = entry
      /\ \A k \in 1 .. Len(g.code) : k # 1 => c[k] = g.code[k]
  <2>1. 1 \in 1 .. Len(g.code) /\ IsSeq(g.code)
    BY <1>0
  <2> QED  BY <1>3, <2>1, AssignedIs
<1>5. /\ DOMAIN f = Fields /\ f.code = c
      /\ f.stack_maps = g.stack_maps /\ f.potential_breaks = g.potential_breaks
      /\ f.line_info = g.line_info /\ f.errors = g.errors
      /\ f.symbols = g.symbols /\ f.funcAddrs = g.funcAddrs
      /\ f.labels = g.labels /\ f.backpatching_todo = g.backpatching_todo
      /\ f.loops = g.loops
  BY <1>0, <1>1 DEF Fields
<1>12. Keeps(g, f, {"code"})
  BY <1>0, <1>1 DEF Fields, Keeps
<1>6. Shape(f)
  BY <1>4, <1>5 DEF Good, Shape
<1>7. CodeTyped(f)
  BY <1>0, <1>2, <1>4, <1>5 DEF Good, CodeTyped
<1>8. LabelsSet(f)
  BY <1>4, <1>5 DEF Good, LabelsSet
<1>9. JumpsWait(f)
  <2>1. SUFFICES ASSUME NEW k \in 1 .. Len(g.backpatching_todo)
                 PROVE  /\ f.backpatching_todo[k] \in 1 .. Len(f.code) - 1
                        /\ IsJump(f.code[f.backpatching_todo[k] + 1], f)
    BY <1>5 DEF JumpsWait
  <2>2. /\ g.backpatching_todo[k] \in 1 .. Len(g.code) - 1
        /\ IsJump(g.code[g.backpatching_todo[k] + 1], g)
    BY DEF Good, JumpsWait
  <2>3. g.backpatching_todo[k] + 1 \in 1 .. Len(g.code) /\ g.backpatching_todo[k] + 1 # 1
    <3>1. Len(g.code) \in Nat /\ g.backpatching_todo[k] \in 1 .. Len(g.code) - 1
      BY <1>0, <2>2
    <3> QED  BY <3>1
  <2>4. f.code[g.backpatching_todo[k] + 1] = g.code[g.backpatching_todo[k] + 1]
    BY <1>4, <1>5, <2>3
  <2>5. /\ f.backpatching_todo = g.backpatching_todo /\ f.labels = g.labels
        /\ Len(f.code) = Len(g.code)
    BY <1>4, <1>5
  <2> QED  BY <2>2, <2>4, <2>5 DEF IsJump
<1>10. Breaks(f)
  <2>1. entry # PotentialBreak /\ g.code[1] # PotentialBreak
    BY <1>0, <1>2 DEF PotentialBreak
  <2>2. ASSUME NEW k \in 0 .. Len(g.code) - 1
        PROVE  c[k + 1] = PotentialBreak <=> g.code[k + 1] = PotentialBreak
    <3>1. k + 1 \in 1 .. Len(g.code)
      BY <1>0
    <3>2. CASE k + 1 = 1
      BY <1>4, <2>1, <3>2
    <3>3. CASE k + 1 # 1
      BY <1>4, <3>1, <3>3
    <3> QED  BY <3>2, <3>3
  <2>3. NextPos(f) = NextPos(g) /\ NextPos(g) = Len(g.code)
    BY <1>4, <1>5 DEF NextPos
  <2>4. Breaks(g)
    BY DEF Good
  <2> QED  BY <1>5, <2>2, <2>3, <2>4 DEF Breaks
<1>11. Tables(f) /\ FunctionsTyped(f)
  BY <1>5 DEF Good, Tables, IsTable, FunctionsTyped
<1>13. Good(f)
  BY <1>5, <1>6, <1>7, <1>8, <1>9, <1>10, <1>11 DEF Good
<1> QED  BY <1>3, <1>5, <1>12, <1>13, <1>e

LEMMA KeepFinish ==
  ASSUME Inv, Finish
  PROVE  Inv'
<1> DEFINE g == PopSymbols(gs, 0)
           p == g.funcAddrs["#root"]
           entry == [g.code[1] EXCEPT !.count = p.stack_size, !.index = p.mi]
           f == [g EXCEPT !.code[1] = entry]
           e == Emit(f, Halt)
           h == Backpatch(e)
<1>1. /\ outcome = "running" /\ work = <<>> /\ gs' = h /\ outcome' = "returned"
      /\ source' = source /\ work' = work
  BY DEF Finish
<1>2. /\ source \in Sources /\ Good(gs) /\ Open(gs) /\ Len(gs.symbols) = 1
      /\ gs.symbols[1].name = "#root"
  <2>1. ~ HasCall(work, Definition)
    BY <1>1 DEF HasCall
  <2>2. Len(gs.symbols) = 1
    BY <1>1, <2>1 DEF Inv, Depth
  <2> QED  BY <1>1, <2>2 DEF Inv, Open, Traversal
<1>3. /\ Good(g) /\ Len(g.symbols) = 0 /\ p.stack_size \in Nat /\ p.mi \in Nat
  <2>1. /\ Good(g) /\ Len(g.symbols) = Len(gs.symbols) - 1
        /\ g.funcAddrs = Bound(gs.funcAddrs, Symbols(gs).name, Prog(gs, 0))
    BY <1>2, PopSymbolsGood
  <2>2. Symbols(gs).name = "#root"
    BY <1>2, SymbolsFacts
  <2>3. "#root" \in DOMAIN g.funcAddrs
    BY <2>1, <2>2 DEF Bound
  <2> QED  BY <1>2, <2>1, <2>3 DEF Good, FunctionsTyped
<1> HIDE DEF g
<1> HIDE DEF p
<1>4. Good(f) /\ f.symbols = g.symbols
  <2>1. f = Filled(g, p.stack_size, p.mi)
    BY DEF Filled, Sized
  <2> HIDE DEF entry, f
  <2>2. Good(f) /\ Keeps(g, f, {"code"})
    BY <1>3, <2>1, PlaceholderFilled
  <2> QED  BY <2>2 DEF Keeps, Fields
<1> HIDE DEF entry
<1> HIDE DEF f
<1>5. Good(e) /\ e.symbols = g.symbols
  <2>1. Halt \in Instruction /\ Halt # PotentialBreak
    BY Zero, Instructions
  <2>2. Good(e)
    BY <1>4, <2>1, EmitGood
  <2>3. Keeps(f, e, {"code"})
    BY <1>4, EmitEffect DEF Good
  <2> QED  BY <1>4, <2>2, <2>3 DEF Keeps, Fields
<1> HIDE DEF e
<1>6. Good(h) /\ h.symbols = g.symbols
  BY <1>5, BackpatchGood DEF Keeps, Fields
<1> HIDE DEF h
<1>7. Depth'
  BY <1>1, <1>3, <1>6 DEF Depth
<1>8. IsSeq(work') /\ \A k \in 1 .. Len(work') : work'[k].call = "void"
  BY <1>1, PlainNone DEF Plain
<1> QED  BY <1>1, <1>2, <1>6, <1>7, <1>8 DEF Inv

-----------------------------------------------------------------------------
(* A call begins *)

\* Sequences of two.
LEMMA Pairs ==
  ASSUME NEW x, NEW y
  PROVE  /\ <<>> \o <<x>> = <<x>>
         /\ IsSeq(<<y>> \o <<x>>) /\ Len(<<y>> \o <<x>>) = 2
         /\ (<<y>> \o <<x>>)[1] = y /\ (<<y>> \o <<x>>)[2] = x
<1>1. <<x>> \in Seq({x})
  OBVIOUS
<1>2. <<>> \o <<x>> = <<x>>
  BY <1>1, ConcatEmptySeq
<1>3. /\ IsSeq(<<x>>) /\ Len(<<x>>) = 1 /\ <<x>>[1] = x
      /\ IsSeq(<<y>>) /\ Len(<<y>>) = 1 /\ <<y>>[1] = y
  BY OneIs
<1>4. /\ IsSeq(<<y>> \o <<x>>) /\ Len(<<y>> \o <<x>>) = 1 + 1
      /\ \A k \in 1 .. 1 : (<<y>> \o <<x>>)[k] = <<y>>[k]
      /\ \A k \in 1 + 1 .. 1 + 1 : (<<y>> \o <<x>>)[k] = <<x>>[k - 1]
  BY <1>3, ConcatIs
<1>5. 1 \in 1 .. 1 /\ 2 \in 1 + 1 .. 1 + 1 /\ 2 - 1 = 1 /\ 1 + 1 = 2
  OBVIOUS
<1> QED  BY <1>2, <1>3, <1>4, <1>5

\* A CALL waits for its arguments, of which it has none so far.
LEMMA KeepValueCall ==
  ASSUME Inv, ValueCall
  PROVE  Inv'
<1> DEFINE h == AtLine
           c == [call |-> "callargs", node |-> node.right]
           r == [call |-> "call", node |-> node, tgt |-> Task.tgt, arglocs |-> <<>>]
           t == DispatchCallArgs(node.right) \o <<r>>
<1>1. /\ outcome = "running" /\ work # <<>> /\ Task.call = "value" /\ node.t = "CALL"
      /\ Stmt(h, t)
  BY DEF ValueCall, On, Running
<1>2. /\ Onto(gs, h) /\ source \in Sources /\ node \in Body(source)
      /\ Task.tgt \in Regs(h)
  <2>1. Onto(gs, h) /\ Task.tgt \in Regs(gs)
    BY <1>1, AtLineOnto, AtTask DEF Fits
  <2> QED  BY <1>1, <2>1, OntoGrows, AtTask, OtherNode DEF Definition
<1>3. node.right \in Body(source) \cup {Null}
  BY <1>2, BodyNode
<1>r. /\ r.call = "call" /\ r.node = node /\ r.tgt = Task.tgt /\ r.arglocs = <<>>
      /\ DOMAIN r = {"call", "node", "tgt", "arglocs"}
      /\ c.call = "callargs" /\ c.node = node.right
  OBVIOUS
<1>4. /\ node.right = Null => t = <<r>>
      /\ node.right # Null => t = <<c>> \o <<r>>
  <2>1. /\ node.right = Null => DispatchCallArgs(node.right) = <<>>
        /\ node.right # Null => DispatchCallArgs(node.right) = <<c>>
    BY DEF DispatchCallArgs
  <2> HIDE DEF c, r
  <2>2. <<>> \o <<r>> = <<r>>
    BY Pairs
  <2> QED  BY <2>1, <2>2
<1> HIDE DEF h, c, r, t
<1>5. Fits(r, h, source)
  <2>1. IsSeq(r.arglocs) /\ Len(r.arglocs) = 0
    BY <1>r, PlainNone DEF Plain
  <2> QED  BY <1>r, <1>1, <1>2, <2>1 DEF Fits, Pending, Dispatched, Definition
<1>6. node.right # Null => Fits(c, h, source)
  BY <1>r, <1>3 DEF Fits, Pending, Dispatched, Definition
<1>7. /\ node.right = Null => IsSeq(t) /\ Len(t) = 1 /\ t[1] = r
      /\ node.right # Null => IsSeq(t) /\ Len(t) = 2 /\ t[1] = c /\ t[2] = r
  <2>1. CASE node.right = Null
    BY <1>4, <2>1, OneIs
  <2>2. CASE node.right # Null
    <3>1. t = <<c>> \o <<r>>
      BY <1>4, <2>2
    <3> DEFINE x == <<c>> \o <<r>>
    <3>2. IsSeq(x) /\ Len(x) = 2 /\ x[1] = c /\ x[2] = r
      BY Pairs
    <3> HIDE DEF x
    <3>3. t = x
      BY <3>1 DEF x
    <3> QED  BY <2>2, <3>2, <3>3
  <2> QED  BY <2>1, <2>2
<1>8. /\ IsSeq(t) /\ Len(t) \in {1, 2} /\ Len(t) \in Nat
      /\ t[Len(t)] = r
      /\ \A k \in 1 .. Len(t) : k # Len(t) => t[k] = c /\ k = 1 /\ Len(t) = 2 /\ node.right # Null
  <2>1. CASE node.right = Null
    <3>0. Len(t) = 1
      BY <1>7, <2>1
    <3>1. \A k \in 1 .. Len(t) : k = Len(t)
      BY <3>0
    <3> QED  BY <1>7, <2>1, <3>1
  <2>2. CASE node.right # Null
    <3>0. Len(t) = 2
      BY <1>7, <2>2
    <3>1. \A k \in 1 .. Len(t) : k # Len(t) => k = 1
      BY <3>0
    <3> QED  BY <1>7, <2>2, <3>1
  <2> QED  BY <2>1, <2>2
<1>9. \A k \in 1 .. Len(t) : Fits(t[k], h, source) /\ t[k].call \in {"call", "callargs"}
  BY <1>5, <1>6, <1>8, <1>r
<1>10. Collect(t)
  <2>1. SUFFICES ASSUME NEW j \in 1 .. Len(t), t[j].call = "callargs"
                 PROVE  \E k \in j + 1 .. Len(t) :
                          /\ t[k].call = "call"
                          /\ \A i \in j .. k - 1 : t[i].call = "callargs"
    BY DEF Collect
  <2>2. j = 1 /\ Len(t) = 2 /\ t[2] = r
    BY <1>8, <1>r, <2>1
  <2>3. \A i \in j .. 2 - 1 : i = 1
    BY <2>2
  <2>4. 2 \in j + 1 .. Len(t)
    BY <2>2
  <2> QED  BY <1>r, <2>1, <2>2, <2>3, <2>4
<1>11. FewArgs(t)
  <2>1. SUFFICES ASSUME NEW k \in 1 .. Len(t), t[k].call = "call"
                 PROVE  Few(t, k)
    BY DEF FewArgs
  <2>2. k = Len(t) /\ t[k] = r /\ Len(r.arglocs) = 0
    BY <1>8, <1>r, <2>1
  <2>3. CASE node.right = Null
    <3>1. k = 1
      BY <1>7, <2>2, <2>3
    <3> QED  BY <1>r, <2>2, <2>3, <3>1 DEF Few, NoArgBefore
  <2>4. CASE node.right # Null
    <3>1. k = 2 /\ k - 1 = 1 /\ t[1] = c
      BY <1>7, <2>2, <2>4
    <3> QED  BY <1>r, <2>2, <2>4, <3>1 DEF Few, NoArgBefore
  <2> QED  BY <2>3, <2>4
<1>12. Parts(t, h, source)
  <2>1. \A k \in 1 .. Len(t) : ~ Outer(t[k], source) /\ t[k].call \notin Definition
    BY <1>9 DEF Outer, Definition
  <2> QED  BY <1>8, <1>9, <1>10, <1>11, <1>r, <2>1 DEF Parts, DefsLast, HasCall
<1>13. \A k \in 1 .. Len(t) : DOMAIN Held(t[k]) = {}
  <2>1. Held(r) = <<>> /\ Held(c) = <<>>
    BY <1>r DEF Held
  <2>2. DOMAIN <<>> = {}
    OBVIOUS
  <2> QED  BY <1>8, <2>1, <2>2
<1>14. /\ Reserved(t, h) /\ Distinct(t)
       /\ \A k \in 1 .. Len(t) : Apart(t[k], work)
  BY <1>13, NoneHeld
<1>15. /\ gs' = h /\ source' = source /\ outcome' = outcome /\ Splice(work', t, work)
  BY <1>1 DEF Stmt, Then, Splice
<1>16. /\ Good(h) /\ Wider(gs, h) /\ Grows(gs, h) /\ Kept(work, h)
       /\ Good(gs) /\ Open(gs) /\ Traversal(work, gs, source) /\ Task = work[1]
       /\ Len(h.symbols) = Len(gs.symbols)
       /\ Loose(h) => Loose(gs)
  BY <1>1, <1>2, OntoGrows, AtTask, GrowsKept
<1>17. Loose(h) => Waits(work)
  BY <1>1, <1>16, StillWaits
<1>18. /\ Traversal(work', h, source)
       /\ HasCall(work', Definition) <=> HasCall(work, Definition)
  BY <1>1, <1>12, <1>14, <1>15, <1>16, <1>17, TraversalStep DEF Definition
<1> QED  BY <1>1, <1>15, <1>16, <1>18, Goes

-----------------------------------------------------------------------------
\* The call whose arguments are being dispatched.
LEMMA CallerIs ==
  ASSUME Inv, outcome = "running", work # <<>>, Task.call = "callargs"
  PROVE  /\ Caller \in 2 .. Len(work) /\ work[Caller].call = "call"
         /\ \A i \in 1 .. Len(work) : i < Caller => work[i].call = "callargs"
<1>1. /\ IsSeq(work) /\ Len(work) \in Nat /\ 1 \in 1 .. Len(work) /\ Task = work[1]
      /\ Collect(work) /\ DOMAIN work = 1 .. Len(work)
  BY AtTask, SeqFacts DEF Traversal
<1>2. PICK k \in 1 + 1 .. Len(work) :
        /\ work[k].call = "call"
        /\ \A i \in 1 .. k - 1 : work[i].call = "callargs"
  BY <1>1 DEF Collect
<1> DEFINE S == {j \in DOMAIN work : work[j].call = "call"}
<1>3. S \subseteq Nat /\ k \in S
  BY <1>1, <1>2
<1>4. Caller \in S /\ \A j \in S : Caller <= j
  BY <1>3, MinNatural DEF Caller
<1>5. Caller \in 1 .. Len(work) /\ work[Caller].call = "call" /\ Caller <= k
  BY <1>1, <1>3, <1>4
<1>6. Caller = k
  BY <1>1, <1>2, <1>5
<1> QED  BY <1>1, <1>2, <1>6

-----------------------------------------------------------------------------
(* Lists of arguments *)

\* What dispatchCallArgs(n) is called with: n alone, if at all.
OneArg(a, n, h, s) ==
  /\ IsSeq(a) /\ Len(a) \in {0, 1}
  /\ n = Null => a = <<>>
  /\ \A k \in 1 .. Len(a) : /\ k = 1 /\ a[k].call = "callargs" /\ a[k].node = n
                            /\ Fits(a[k], h, s)

\* dispatchCallArgs of a node of a body.
LEMMA AnyCallArgs ==
  ASSUME NEW s, NEW h, NEW n \in Body(s) \cup {Null}
  PROVE  OneArg(DispatchCallArgs(n), n, h, s)
<1>1. CASE n = Null
  <2>1. DispatchCallArgs(n) = <<>>
    BY <1>1 DEF DispatchCallArgs
  <2>2. IsSeq(<<>>) /\ Len(<<>>) = 0
    BY PlainNone DEF Plain
  <2> QED  BY <2>1, <2>2 DEF OneArg
<1>2. CASE n # Null
  <2> DEFINE t == [call |-> "callargs", node |-> n]
  <2>1. DispatchCallArgs(n) = <<t>>
    BY <1>2 DEF DispatchCallArgs
  <2>2. t.call = "callargs" /\ t.node = n
    OBVIOUS
  <2> HIDE DEF t
  <2>3. Fits(t, h, s)
    BY <1>2, <2>2 DEF Fits, Dispatched, Pending, Definition
  <2>4. IsSeq(<<t>>) /\ Len(<<t>>) = 1 /\ <<t>>[1] = t
    BY OneIs
  <2>5. \A k \in 1 .. Len(<<t>>) : k = 1
    BY <2>4
  <2> QED  BY <1>2, <2>1, <2>2, <2>3, <2>4, <2>5 DEF OneArg
<1> QED  BY <1>1, <1>2

\* Arguments only, of which there is one at most when the list ends here.
ArgsOf(t, n, h, s) ==
  /\ IsSeq(t)
  /\ \A k \in 1 .. Len(t) : t[k].call = "callargs" /\ Fits(t[k], h, s)
  /\ n.right = Null =>
       /\ Len(t) \in {0, 1}
       /\ \A k \in 1 .. Len(t) : k = 1 /\ t[k].node = n.left

\* A SPLIT is replaced by its two parts.
LEMMA SplitArgs ==
  ASSUME NEW s, NEW h, NEW n, n.left \in Body(s) \cup {Null}, n.right \in Body(s) \cup {Null}
  PROVE  ArgsOf(DispatchCallArgs(n.left) \o DispatchCallArgs(n.right), n, h, s)
<1> DEFINE a == DispatchCallArgs(n.left)
           b == DispatchCallArgs(n.right)
           c == a \o b
<1>0. OneArg(a, n.left, h, s) /\ OneArg(b, n.right, h, s)
  BY AnyCallArgs
<1> HIDE DEF a, b
<1>1. /\ IsSeq(a) /\ Len(a) \in {0, 1}
      /\ \A k \in 1 .. Len(a) : k = 1 /\ a[k].call = "callargs" /\ a[k].node = n.left
                                /\ Fits(a[k], h, s)
  BY <1>0 DEF OneArg
<1>2. /\ IsSeq(b) /\ (n.right = Null => b = <<>>)
      /\ \A k \in 1 .. Len(b) : b[k].call = "callargs" /\ Fits(b[k], h, s)
  BY <1>0 DEF OneArg
<1>3. /\ IsSeq(c) /\ Len(c) = Len(a) + Len(b)
      /\ \A k \in 1 .. Len(a) : c[k] = a[k]
      /\ \A k \in Len(a) + 1 .. Len(a) + Len(b) : c[k] = b[k - Len(a)]
      /\ Len(a) \in Nat /\ Len(b) \in Nat
  BY <1>1, <1>2, ConcatIs, SeqFacts
<1> HIDE DEF c
<1>4. ASSUME NEW k \in 1 .. Len(c)
      PROVE  c[k].call = "callargs" /\ Fits(c[k], h, s)
  <2>1. CASE k \in 1 .. Len(a)
    <3>1. c[k] = a[k]
      BY <1>3, <2>1
    <3> QED  BY <1>1, <2>1, <3>1
  <2>2. CASE k \notin 1 .. Len(a)
    <3>1. PICK j \in 1 .. Len(b) : j = k - Len(a) /\ k \in Len(a) + 1 .. Len(a) + Len(b)
      BY <1>3, <2>2
    <3>2. c[k] = b[j]
      BY <1>3, <3>1
    <3> QED  BY <1>2, <3>2
  <2> QED  BY <2>1, <2>2
<1>5. ASSUME n.right = Null
      PROVE  /\ Len(c) \in {0, 1}
             /\ \A k \in 1 .. Len(c) : k = 1 /\ c[k].node = n.left
  <2>1. Len(b) = 0
    BY <1>2, <1>5
  <2>2. Len(c) = Len(a) /\ \A k \in 1 .. Len(c) : k \in 1 .. Len(a) /\ c[k] = a[k]
    BY <1>3, <2>1
  <2> QED  BY <1>1, <2>2
<1>6. IsSeq(c)
  BY <1>3
<1>7. ArgsOf(c, n, h, s)
  BY <1>4, <1>5, <1>6 DEF ArgsOf
<1> QED  BY <1>7 DEF a, b, c

\* The elements of a list: the second part is null when it has one.
LEMMA SplitFew ==
  ASSUME NEW s \in Sources, NEW h, NEW w, IsSeq(w), w # <<>>, FewArgs(w),
         w[1].call = "callargs", w[1].node.t = "SPLIT",
         \A k \in 1 .. Len(w) : w[k].call = "call" =>
           w[k].node \in Body(s) /\ w[k].node.t = "CALL",
         NEW t, ArgsOf(t, w[1].node, h, s),
         NEW v, Splice(v, t, w)
  PROVE  FewArgs(v)
<1>0. IsSeq(t) /\ \A k \in 1 .. Len(t) : t[k].call = "callargs"
  BY DEF ArgsOf
<1>a. \A k \in 1 .. Len(t) : k \in 1 .. Len(v) /\ v[k] = t[k]
  BY <1>0, Spliced
<1>b. \A j \in 2 .. Len(w) : Len(t) + j - 1 \in 1 .. Len(v) /\ v[Len(t) + j - 1] = w[j]
  BY <1>0, Spliced
<1>c. \A k \in 1 .. Len(v) :
        \/ k \in 1 .. Len(t) /\ v[k] = t[k]
        \/ \E j \in 2 .. Len(w) : k = Len(t) + j - 1 /\ v[k] = w[j]
  BY <1>0, Spliced
<1>1. Len(t) \in Nat /\ Len(w) \in Nat
  BY <1>0, Spliced
<1>2. SUFFICES ASSUME NEW k \in 1 .. Len(v), v[k].call = "call"
               PROVE  Few(v, k)
  BY DEF FewArgs
<1>3. PICK j \in 2 .. Len(w) : k = Len(t) + j - 1 /\ v[k] = w[j]
  BY <1>0, <1>2, <1>c
<1>4. Few(w, j) /\ w[j].node \in Body(s) /\ w[j].node.t = "CALL" /\ w[j].call = "call"
  <2>1. j \in 1 .. Len(w)
    BY <1>1
  <2> QED  BY <1>2, <1>3, <2>1 DEF FewArgs
<1> DEFINE c == w[j].node
           n == Len(w[j].arglocs)
<1>5. CASE j = 2
  <2>1. ~ NoArgBefore(w, j) /\ w[j - 1] = w[1]
    BY <1>5 DEF NoArgBefore
  <2>2. c.right # Null
    BY <1>4, <2>1 DEF Few
  <2>3. SUFFICES ASSUME c.right.right = Null
                 PROVE  \/ n \in {0, 1} /\ NoArgBefore(v, k)
                        \/ /\ n = 0 /\ ~ NoArgBefore(v, k) /\ NoArgBefore(v, k - 1)
                           /\ v[k - 1].node \in {c.right, c.right.left}
    BY <1>3, <2>2 DEF Few
  <2>4. n = 0 /\ w[1].node \in {c.right, c.right.left}
    BY <1>4, <2>1, <2>2, <2>3 DEF Few
  <2>5. c.right.left.t # "SPLIT"
    BY <1>4, <2>2, BodyNode
  <2>6. w[1].node = c.right
    BY <2>4, <2>5
  <2>7. Len(t) \in {0, 1} /\ \A q \in 1 .. Len(t) : q = 1 /\ t[q].node = c.right.left
    BY <2>3, <2>6 DEF ArgsOf
  <2>8. CASE Len(t) = 0
    <3>1. k = 1
      BY <1>3, <1>5, <2>8
    <3> QED  BY <2>4, <3>1 DEF NoArgBefore
  <2>9. CASE Len(t) = 1
    <3>1. k = 2 /\ k - 1 = 1 /\ 1 \in 1 .. Len(t)
      BY <1>3, <1>5, <2>9
    <3>2. v[1] = t[1] /\ t[1].call = "callargs" /\ t[1].node = c.right.left
      BY <1>0, <1>a, <2>7, <3>1
    <3> QED  BY <2>4, <3>1, <3>2 DEF NoArgBefore
  <2> QED  BY <2>7, <2>8, <2>9
<1>6. CASE j # 2
  <2>1. PICK i \in 2 .. Len(w) : i = j - 1 /\ k - 1 = Len(t) + i - 1 /\ k - 1 \in 1 .. Len(v)
    BY <1>1, <1>3, <1>6
  <2>2. v[k - 1] = w[i] /\ k # 1 /\ j # 1
    <3>1. v[k - 1] = w[i]
      BY <1>b, <2>1
    <3>2. k - 1 \in Int /\ k - 1 >= 1 /\ k = Len(t) + j - 1
      BY <1>1, <1>3, <2>1
    <3>3. k # 1 /\ j # 1
      BY <1>1, <3>2
    <3> QED  BY <3>1, <3>3
  <2>3. NoArgBefore(v, k) <=> NoArgBefore(w, j)
    BY <2>1, <2>2 DEF NoArgBefore
  <2>4. CASE i = 2
    <3>1. ~ NoArgBefore(w, j - 1)
      <4>1. j - 1 = 2 /\ 2 - 1 = 1 /\ 2 # 1
        BY <1>1, <2>1, <2>4
      <4>2. ~ NoArgBefore(w, 2)
        BY <4>1 DEF NoArgBefore
      <4> QED  BY <4>1, <4>2
    <3> QED  BY <1>3, <1>4, <2>2, <2>3, <3>1 DEF Few
  <2>5. CASE i # 2
    <3>1. PICK m \in 2 .. Len(w) : m = i - 1 /\ k - 1 - 1 = Len(t) + m - 1 /\ k - 1 # 1 /\ i # 1
      BY <1>1, <2>1, <2>5
    <3>2. v[k - 1 - 1] = w[m]
      BY <1>b, <3>1
    <3>3. NoArgBefore(v, k - 1) <=> NoArgBefore(w, j - 1)
      BY <2>1, <3>1, <3>2 DEF NoArgBefore
    <3> QED  BY <1>3, <1>4, <2>1, <2>2, <2>3, <3>3 DEF Few
  <2> QED  BY <2>4, <2>5
<1> QED  BY <1>5, <1>6

\* They are collected by the call that collects the list.
LEMMA SplitCollect ==
  ASSUME NEW w, IsSeq(w), w # <<>>, Collect(w), w[1].call = "callargs",
         NEW t, IsSeq(t), \A k \in 1 .. Len(t) : t[k].call = "callargs",
         NEW v, Splice(v, t, w)
  PROVE  Collect(v)
<1>a. \A k \in 1 .. Len(t) : k \in 1 .. Len(v) /\ v[k] = t[k]
  BY Spliced
<1>b. \A j \in 2 .. Len(w) : Len(t) + j - 1 \in 1 .. Len(v) /\ v[Len(t) + j - 1] = w[j]
  BY Spliced
<1>c. \A k \in 1 .. Len(v) :
        \/ k \in 1 .. Len(t) /\ v[k] = t[k]
        \/ \E j \in 2 .. Len(w) : k = Len(t) + j - 1 /\ v[k] = w[j]
  BY Spliced
<1>1. Len(t) \in Nat /\ Len(w) \in Nat /\ Len(v) = Len(t) + Len(w) - 1 /\ Len(w) >= 1
  BY Spliced
<1>2. SUFFICES ASSUME NEW j \in 1 .. Len(v), v[j].call = "callargs"
               PROVE  \E k \in j + 1 .. Len(v) :
                        /\ v[k].call = "call"
                        /\ \A i \in j .. k - 1 : v[i].call = "callargs"
  BY DEF Collect
<1>3. PICK q \in 1 .. Len(w) : /\ w[q].call = "callargs"
                               /\ \/ j \in 1 .. Len(t) /\ q = 1
                                  \/ j = Len(t) + q - 1 /\ q # 1
  <2>1. CASE j \in 1 .. Len(t)
    <3>1. 1 \in 1 .. Len(w)
      BY <1>1
    <3> QED  BY <2>1, <3>1
  <2>2. CASE j \notin 1 .. Len(t)
    <3>1. PICK m \in 2 .. Len(w) : j = Len(t) + m - 1 /\ v[j] = w[m]
      BY <1>c, <2>2
    <3>2. m \in 1 .. Len(w) /\ m # 1
      BY <1>1
    <3> QED  BY <1>2, <3>1, <3>2
  <2> QED  BY <2>1, <2>2
<1>4. PICK p \in q + 1 .. Len(w) :
        w[p].call = "call" /\ \A i \in q .. p - 1 : w[i].call = "callargs"
  BY <1>3 DEF Collect
<1>5. p \in 2 .. Len(w)
  BY <1>1, <1>4
<1> DEFINE k == Len(t) + p - 1
<1>6. k \in 1 .. Len(v) /\ v[k] = w[p] /\ k = Len(t) + p - 1
  BY <1>b, <1>5
<1> HIDE DEF k
<1>7. k \in j + 1 .. Len(v)
  BY <1>1, <1>3, <1>4, <1>5, <1>6
<1>8. ASSUME NEW i \in j .. k - 1  PROVE v[i].call = "callargs"
  <2>1. i \in 1 .. Len(v)
    BY <1>1, <1>6, <1>7
  <2>2. CASE i \in 1 .. Len(t)
    BY <1>a, <2>2
  <2>3. CASE i \notin 1 .. Len(t)
    <3>1. PICK m \in 2 .. Len(w) : i = Len(t) + m - 1 /\ v[i] = w[m]
      BY <1>c, <2>1, <2>3
    <3>2. m \in q .. p - 1
      <4>1. m <= p - 1
        BY <1>1, <1>5, <1>6, <3>1
      <4>2. q <= m
        BY <1>1, <1>3, <3>1
      <4> QED  BY <4>1, <4>2, <1>3, <3>1
    <3> QED  BY <1>4, <3>1, <3>2
  <2> QED  BY <2>2, <2>3
<1> QED  BY <1>4, <1>6, <1>7, <1>8

\* The parts of a list take its place.
LEMMA KeepCallArgsSplit ==
  ASSUME Inv, CallArgsSplit
  PROVE  Inv'
<1> DEFINE t == DispatchCallArgs(node.left) \o DispatchCallArgs(node.right)
<1>1. /\ outcome = "running" /\ work # <<>> /\ Task.call = "callargs" /\ node.t = "SPLIT"
      /\ gs' = gs /\ source' = source /\ outcome' = outcome /\ Splice(work', t, work)
  BY DEF CallArgsSplit, On, Running, Stmt, Then, Splice
<1>2. /\ source \in Sources /\ node \in Body(source) /\ node = work[1].node
      /\ Good(gs) /\ Open(gs) /\ Traversal(work, gs, source) /\ Task = work[1]
      /\ IsSeq(work) /\ Len(work) \in Nat
      /\ \A k \in 1 .. Len(work) : Fits(work[k], gs, source)
      /\ DefsLast(work, source) /\ Collect(work) /\ FewArgs(work)
      /\ Reserved(work, gs) /\ Distinct(work)
  BY <1>1, AtTask, OtherNode DEF Definition, Traversal
<1>3. ArgsOf(t, node, gs, source)
  BY <1>2, BodyNode, SplitArgs
<1> HIDE DEF t
<1>4. IsSeq(t) /\ \A k \in 1 .. Len(t) : t[k].call = "callargs" /\ Fits(t[k], gs, source)
  BY <1>3 DEF ArgsOf
<1>4a. \A j \in 2 .. Len(work) : j \in 1 .. Len(work)
  BY <1>2
<1>5. \A k \in 1 .. Len(work') : Fits(work'[k], gs, source)
  BY <1>1, <1>2, <1>4, <1>4a, FitsSplice
<1>6. DefsLast(work', source)
  <2>1. \A k \in 1 .. Len(t) : ~ Outer(t[k], source)
    BY <1>4 DEF Outer
  <2>2. DefsLast(t, source)
    BY <2>1 DEF DefsLast
  <2> QED  BY <1>1, <1>2, <1>4, <2>1, <2>2, DefsLastSplice
<1>7. Collect(work')
  BY <1>1, <1>2, <1>4, SplitCollect
<1>8. FewArgs(work')
  <2>1. \A k \in 1 .. Len(work) : work[k].call = "call" =>
           work[k].node \in Body(source) /\ work[k].node.t = "CALL"
    BY <1>2 DEF Fits, Definition
  <2>2. ArgsOf(t, work[1].node, gs, source)
    BY <1>2, <1>3
  <2> QED  BY <1>1, <1>2, <2>1, <2>2, SplitFew
<1>9. \A k \in 1 .. Len(t) : DOMAIN Held(t[k]) = {}
  BY <1>4, HeldPlain
<1>10. Reserved(work', gs)
  BY <1>1, <1>2, <1>4, <1>4a, <1>9, ReservedSplice DEF Reserved
<1>11. Distinct(work')
  <2>1. /\ Distinct(t)
        /\ \A k \in 1 .. Len(t), j \in 2 .. Len(work) :
             \A i, m : ~ Shared(t[k], work[j], i, m) /\ ~ Shared(work[j], t[k], m, i)
    BY <1>9 DEF Distinct, Shared
  <2> QED  BY <1>1, <1>2, <1>4, <2>1, DistinctSplice
<1>12. Loose(gs) => HasCall(work', {"while"})
  <2>1. Loose(gs) => Waits(work)
    BY <1>1, <1>2, StillWaits
  <2> QED  BY <1>1, <1>2, <1>4, <2>1, HasCallSplice DEF Waits
<1>13. HasCall(work', Definition) <=> HasCall(work, Definition)
  <2>1. ~ HasCall(t, Definition)
    BY <1>4 DEF HasCall, Definition
  <2>2. HasCall(work', Definition) <=> \E j \in 2 .. Len(work) : work[j].call \in Definition
    BY <1>1, <1>2, <1>4, <2>1, HasCallSplice
  <2>3. HasCall(work, Definition) <=> \E j \in 2 .. Len(work) : work[j].call \in Definition
    BY <1>1, <1>2, HasCallIs DEF Definition
  <2> QED  BY <2>2, <2>3
<1>14. IsSeq(work')
  BY <1>1, <1>2, <1>4, Spliced
<1>15. Traversal(work', gs, source)
  BY <1>2, <1>5, <1>6, <1>7, <1>8, <1>10, <1>11, <1>12, <1>14 DEF Traversal
<1> QED  BY <1>1, <1>2, <1>13, <1>15, Goes

-----------------------------------------------------------------------------
(* An argument *)

\* v is w with its first argument dispatched: x computes its value into tmp,
\* which the call c, the C-th of w, has collected.
Collected(v, w, x, C, c) ==
  /\ IsSeq(v) /\ Len(v) = Len(w) /\ Len(w) \in Nat /\ C \in 2 .. Len(w)
  /\ v[1] = x /\ v[C] = c
  /\ \A k \in 2 .. Len(w) : k # C => v[k] = w[k]
  /\ c.call = "call" /\ w[C].call = "call" /\ c.node = w[C].node
  /\ x.call = "value"
  /\ \A i \in 1 .. Len(w) : i < C => w[i].call = "callargs"

\* Both make the same calls but for the first.
LEMMA CollectedCalls ==
  ASSUME NEW v, NEW w, NEW x, NEW C, NEW c, Collected(v, w, x, C, c)
  PROVE  /\ \A k \in 2 .. Len(w) : v[k].call = w[k].call /\ v[k].node = w[k].node
         /\ \A k \in 1 .. Len(v) : k = 1 \/ k \in 2 .. Len(w)
         /\ \A k \in 2 .. Len(w) : k \in 1 .. Len(w) /\ k \in 1 .. Len(v)
         /\ 1 \in 1 .. Len(w) /\ 1 \in 1 .. Len(v)
  BY DEF Collected

\* The call has one argument more.
LEMMA CollectedFew ==
  ASSUME NEW v, NEW w, NEW x, NEW C, NEW c, Collected(v, w, x, C, c), FewArgs(w),
         Len(w[C].arglocs) \in Nat, Len(c.arglocs) = Len(w[C].arglocs) + 1
  PROVE  FewArgs(v)
<1>1. /\ Len(v) = Len(w) /\ Len(w) \in Nat /\ C \in 2 .. Len(w)
      /\ v[1] = x /\ v[C] = c
      /\ \A k \in 2 .. Len(w) : k # C => v[k] = w[k]
      /\ c.call = "call" /\ w[C].call = "call" /\ c.node = w[C].node
      /\ x.call = "value"
      /\ \A i \in 1 .. Len(w) : i < C => w[i].call = "callargs"
  BY DEF Collected
<1>2. /\ \A k \in 2 .. Len(w) : v[k].call = w[k].call /\ v[k].node = w[k].node
      /\ \A k \in 1 .. Len(v) : k = 1 \/ k \in 2 .. Len(w)
      /\ \A k \in 2 .. Len(w) : k \in 1 .. Len(w) /\ k \in 1 .. Len(v)
  BY CollectedCalls
<1>3. SUFFICES ASSUME NEW k \in 1 .. Len(v), v[k].call = "call"
               PROVE  Few(v, k)
  BY DEF FewArgs
<1>4. k \in 2 .. Len(w) /\ w[k].call = "call"
  BY <1>1, <1>2, <1>3
<1>5. Few(w, k)
  BY <1>2, <1>4 DEF FewArgs
<1>6. CASE k = C
  <2>1. C - 1 \in 1 .. Len(w) /\ C - 1 < C
    BY <1>1
  <2>2. ~ NoArgBefore(w, C)
    BY <1>1, <2>1 DEF NoArgBefore
  <2>3. c.node.right # Null
    BY <1>1, <1>5, <1>6, <2>2 DEF Few
  <2>4. SUFFICES ASSUME c.node.right.right = Null
                 PROVE  Len(c.arglocs) \in {0, 1} /\ NoArgBefore(v, C)
    BY <1>1, <1>6, <2>3 DEF Few
  <2>5. Len(w[C].arglocs) = 0 /\ NoArgBefore(w, C - 1)
    BY <1>1, <1>5, <1>6, <2>2, <2>3, <2>4 DEF Few
  <2>6. C = 2
    <3>1. SUFFICES ASSUME C # 2  PROVE FALSE
      OBVIOUS
    <3>2. C - 1 - 1 \in 1 .. Len(w) /\ C - 1 - 1 < C /\ C - 1 # 1
      BY <1>1, <3>1
    <3>3. w[C - 1 - 1].call = "callargs"
      BY <1>1, <3>2
    <3> QED  BY <2>5, <3>2, <3>3 DEF NoArgBefore
  <2>7. NoArgBefore(v, 2)
    <3>1. 2 - 1 = 1 /\ v[1].call = "value"
      BY <1>1
    <3> QED  BY <3>1 DEF NoArgBefore
  <2> QED  BY <2>5, <2>6, <2>7
<1>7. CASE k # C
  <2>1. k > 2 /\ k > C
    <3>1. k \in 1 .. Len(w) /\ ~ (k < C)
      BY <1>1, <1>2, <1>4
    <3> QED  BY <1>1, <1>4, <1>7, <3>1
  <2>2. v[k] = w[k]
    BY <1>1, <1>4, <1>7
  <2>3. k - 1 \in 2 .. Len(w) /\ k # 1 /\ k - 1 # 1
    BY <1>1, <1>4, <2>1
  <2>4. v[k - 1].call = w[k - 1].call /\ v[k - 1].node = w[k - 1].node
    BY <1>2, <2>3
  <2>5. NoArgBefore(v, k) <=> NoArgBefore(w, k)
    BY <2>3, <2>4 DEF NoArgBefore
  <2>6. CASE k - 1 = 2
    <3>1. ~ NoArgBefore(w, k - 1)
      <4>1. k - 1 - 1 = 1 /\ w[1].call = "callargs"
        BY <1>1, <2>6
      <4> QED  BY <2>3, <4>1 DEF NoArgBefore
    <3> QED  BY <1>5, <2>2, <2>5, <3>1 DEF Few
  <2>7. CASE k - 1 # 2
    <3>1. k - 1 - 1 \in 2 .. Len(w)
      BY <1>1, <2>3, <2>7
    <3>2. v[k - 1 - 1].call = w[k - 1 - 1].call
      BY <1>2, <3>1
    <3>3. NoArgBefore(v, k - 1) <=> NoArgBefore(w, k - 1)
      BY <2>3, <3>2 DEF NoArgBefore
    <3> QED  BY <1>5, <2>2, <2>4, <2>5, <3>3 DEF Few
  <2> QED  BY <2>6, <2>7
<1> QED  BY <1>6, <1>7

\* Definitions and calls stay in their order.
LEMMA CollectedOrder ==
  ASSUME NEW v, NEW w, NEW x, NEW C, NEW c, Collected(v, w, x, C, c), NEW s,
         DefsLast(w, s), Collect(w)
  PROVE  /\ DefsLast(v, s) /\ Collect(v)
         /\ \A calls : calls \cap {"callargs", "value"} = {} =>
              (HasCall(v, calls) <=> HasCall(w, calls))
<1>1. /\ Len(v) = Len(w) /\ Len(w) \in Nat /\ v[1].call = "value"
      /\ w[1].call = "callargs"
  <2>1. 1 \in 1 .. Len(w) /\ 1 < C
    BY DEF Collected
  <2> QED  BY <2>1 DEF Collected
<1>2. /\ \A k \in 2 .. Len(w) : v[k].call = w[k].call /\ v[k].node = w[k].node
      /\ \A k \in 1 .. Len(v) : k = 1 \/ k \in 2 .. Len(w)
      /\ \A k \in 2 .. Len(w) : k \in 1 .. Len(w) /\ k \in 1 .. Len(v)
      /\ 1 \in 1 .. Len(w) /\ 1 \in 1 .. Len(v)
  BY CollectedCalls
<1>3. DefsLast(v, s)
  <2>1. SUFFICES ASSUME NEW k \in 1 .. Len(v), Outer(v[k], s), NEW l \in k + 1 .. Len(v)
                 PROVE  v[l].call = "void"
    BY DEF DefsLast
  <2>2. k # 1
    BY <1>1, <2>1 DEF Outer
  <2>3. k \in 2 .. Len(w) /\ k \in 1 .. Len(w) /\ Outer(w[k], s)
    BY <1>2, <2>1, <2>2 DEF Outer
  <2>4. l \in 2 .. Len(w) /\ l \in k + 1 .. Len(w)
    BY <1>1, <2>3
  <2>5. w[l].call = "void"
    BY <2>3, <2>4 DEF DefsLast
  <2> QED  BY <1>2, <2>4, <2>5
<1>4. Collect(v)
  <2>1. SUFFICES ASSUME NEW j \in 1 .. Len(v), v[j].call = "callargs"
                 PROVE  \E k \in j + 1 .. Len(v) :
                          /\ v[k].call = "call"
                          /\ \A i \in j .. k - 1 : v[i].call = "callargs"
    BY DEF Collect
  <2>2. j \in 2 .. Len(w) /\ j \in 1 .. Len(w) /\ w[j].call = "callargs"
    BY <1>1, <1>2, <2>1
  <2>3. PICK k \in j + 1 .. Len(w) :
          /\ w[k].call = "call"
          /\ \A i \in j .. k - 1 : w[i].call = "callargs"
    BY <2>2 DEF Collect
  <2>4. k \in 2 .. Len(w) /\ k \in j + 1 .. Len(v)
    BY <1>1, <2>2
  <2>5. v[k].call = "call"
    BY <1>2, <2>3, <2>4
  <2>6. ASSUME NEW i \in j .. k - 1  PROVE v[i].call = "callargs"
    <3>1. i \in 2 .. Len(w)
      BY <1>1, <2>2, <2>4
    <3> QED  BY <1>2, <2>3, <3>1
  <2> QED  BY <2>4, <2>5, <2>6
<1>5. ASSUME NEW calls, calls \cap {"callargs", "value"} = {}
      PROVE  HasCall(v, calls) <=> HasCall(w, calls)
  <2>1. v[1].call \notin calls /\ w[1].call \notin calls
    BY <1>1, <1>5
  <2>2. ASSUME HasCall(v, calls)  PROVE HasCall(w, calls)
    <3>1. PICK k \in 1 .. Len(v) : v[k].call \in calls
      BY <2>2 DEF HasCall
    <3>2. k \in 2 .. Len(w)
      BY <1>2, <2>1, <3>1
    <3> QED  BY <1>2, <3>1, <3>2 DEF HasCall
  <2>3. ASSUME HasCall(w, calls)  PROVE HasCall(v, calls)
    <3>1. PICK k \in 1 .. Len(w) : w[k].call \in calls
      BY <2>3 DEF HasCall
    <3>2. k \in 2 .. Len(w)
      BY <1>1, <1>2, <2>1, <3>1
    <3> QED  BY <1>2, <3>1, <3>2 DEF HasCall
  <2> QED  BY <2>2, <2>3
<1> QED  BY <1>3, <1>4, <1>5

\* What the call has collected is in use and held by nothing else.
LEMMA CollectedHeld ==
  ASSUME NEW v, NEW w, NEW x, NEW C, NEW c, Collected(v, w, x, C, c),
         NEW g, NEW h, NEW s, \A k \in 1 .. Len(w) : Fits(w[k], g, s),
         Reserved(w, g), Reserved(w, h), Distinct(w),
         NEW tmp, Fresh(tmp, g), InUse(tmp, h),
         IsSeq(w[C].arglocs), c.arglocs = Append(w[C].arglocs, tmp)
  PROVE  Reserved(v, h) /\ Distinct(v)
<1>0. /\ C \in 1 .. Len(w) /\ v[C] = c /\ v[1] = x /\ x.call = "value"
      /\ c.call = "call" /\ w[C].call = "call"
      /\ \A k \in 2 .. Len(w) : k # C => v[k] = w[k]
  BY DEF Collected
<1>1. /\ \A k \in 1 .. Len(v) : k = 1 \/ k \in 2 .. Len(w)
      /\ \A k \in 2 .. Len(w) : k \in 1 .. Len(w) /\ k \in 1 .. Len(v)
  BY CollectedCalls
<1>2. /\ Held(c) = Append(w[C].arglocs, tmp) /\ Held(w[C]) = w[C].arglocs
      /\ DOMAIN Held(x) = {}
  BY <1>0, HeldPlain DEF Held
<1> DEFINE n == Len(w[C].arglocs)
<1>3. /\ n \in Nat /\ DOMAIN Held(w[C]) = 1 .. n /\ DOMAIN Held(c) = 1 .. n + 1
      /\ \A i \in 1 .. n : Held(c)[i] = Held(w[C])[i]
      /\ Held(c)[n + 1] = tmp
  BY <1>2, AppendIs, SeqFacts
<1> HIDE DEF n
\* tmp apart, what v holds w has held.
<1>4. ASSUME NEW k \in 1 .. Len(v), NEW i \in DOMAIN Held(v[k])
      PROVE  \/ /\ k \in 1 .. Len(w) /\ i \in DOMAIN Held(w[k])
                /\ Held(v[k])[i] = Held(w[k])[i]
             \/ k = C /\ i = n + 1 /\ Held(v[k])[i] = tmp
  <2>1. k # 1
    BY <1>0, <1>2, <1>4
  <2>2. k \in 2 .. Len(w) /\ k \in 1 .. Len(w)
    BY <1>1, <2>1
  <2>3. CASE k # C
    BY <1>0, <1>4, <2>2, <2>3
  <2>4. CASE k = C
    <3>1. Held(v[k]) = Held(c) /\ i \in 1 .. n + 1
      BY <1>0, <1>3, <1>4, <2>4
    <3>2. i \in 1 .. n \/ i = n + 1
      BY <1>3, <3>1
    <3> QED  BY <1>3, <2>2, <2>4, <3>1, <3>2
  <2> QED  BY <2>3, <2>4
<1>5. Reserved(v, h)
  <2>1. SUFFICES ASSUME NEW k \in 1 .. Len(v), NEW i \in DOMAIN Held(v[k])
                 PROVE  InUse(Held(v[k])[i], h)
    BY DEF Reserved
  <2> QED  BY <1>4 DEF Reserved
\* tmp is held by no task of w.
<1>6. ASSUME NEW k \in 1 .. Len(w), NEW i \in DOMAIN Held(w[k])
      PROVE  Held(w[k])[i] # tmp
  <2>1. InUse(Held(w[k])[i], g) /\ Held(w[k])[i] \in Regs(g)
    BY HeldInRegs DEF Reserved
  <2> QED  BY <2>1 DEF Fresh, InUse
<1>7. Distinct(v)
  <2>1. SUFFICES ASSUME NEW k \in 1 .. Len(v), NEW l \in 1 .. Len(v), NEW i, NEW j,
                        Shared(v[k], v[l], i, j)
                 PROVE  k = l /\ i = j
    BY DEF Distinct
  <2>2. i \in DOMAIN Held(v[k]) /\ j \in DOMAIN Held(v[l]) /\ Held(v[k])[i] = Held(v[l])[j]
    BY <2>1 DEF Shared
  <2>3. CASE Held(v[k])[i] = tmp
    <3>1. k = C /\ i = n + 1
      BY <1>4, <1>6, <2>2, <2>3
    <3>2. l = C /\ j = n + 1
      BY <1>4, <1>6, <2>2, <2>3
    <3> QED  BY <3>1, <3>2
  <2>4. CASE Held(v[k])[i] # tmp
    <3>1. /\ k \in 1 .. Len(w) /\ i \in DOMAIN Held(w[k])
          /\ Held(v[k])[i] = Held(w[k])[i]
          /\ l \in 1 .. Len(w) /\ j \in DOMAIN Held(w[l])
          /\ Held(v[l])[j] = Held(w[l])[j]
      BY <1>4, <2>2, <2>4
    <3>2. Shared(w[k], w[l], i, j)
      BY <2>2, <3>1 DEF Shared
    <3> QED  BY <3>1, <3>2 DEF Distinct
  <2> QED  BY <2>3, <2>4
<1> QED  BY <1>5, <1>7

\* An argument's register is fetched, its value yet to be computed.
LEMMA ArgCollected ==
  ASSUME Inv, CallArgsValue, NEW tmp, tmp = Temporary(gs), NEW C, C = Caller,
         NEW x, x = [call |-> "value", node |-> node, tgt |-> tmp],
         NEW c, c = [work[C] EXCEPT !.arglocs = Append(@, tmp)]
  PROVE  /\ Collected(work', work, x, C, c)
         /\ DOMAIN work[C] = {"call", "node", "tgt", "arglocs"}
         /\ work[C].node \in Body(source)
         /\ work[C].node.t = "CALL" /\ work[C].tgt \in Regs(gs)
         /\ IsSeq(work[C].arglocs)
         /\ \A i \in 1 .. Len(work[C].arglocs) : work[C].arglocs[i] \in Regs(gs)
         /\ c.call = "call" /\ c.node = work[C].node /\ c.tgt = work[C].tgt
         /\ c.arglocs = Append(work[C].arglocs, tmp)
         /\ DOMAIN c = {"call", "node", "tgt", "arglocs"}
<1> DEFINE calling == [work EXCEPT ![C] = c]
           v == work'
<1>1. /\ outcome = "running" /\ work # <<>> /\ Task.call = "callargs"
      /\ v = DispatchValue(node, tmp) \o Tail(calling)
  BY DEF CallArgsValue, Running
<1>2. /\ source \in Sources /\ node \in Body(source)
      /\ Good(gs) /\ Open(gs) /\ Traversal(work, gs, source) /\ Task = work[1]
      /\ IsSeq(work) /\ Len(work) \in Nat /\ Len(work) >= 1
      /\ \A k \in 1 .. Len(work) : Fits(work[k], gs, source)
      /\ DefsLast(work, source) /\ Collect(work) /\ FewArgs(work)
      /\ Reserved(work, gs) /\ Distinct(work)
  BY <1>1, AtTask, OtherNode DEF Definition, Traversal
<1>3. /\ C \in 2 .. Len(work) /\ work[C].call = "call" /\ C \in 1 .. Len(work)
      /\ \A i \in 1 .. Len(work) : i < C => work[i].call = "callargs"
  <2>1. /\ C \in 2 .. Len(work) /\ work[C].call = "call"
        /\ \A i \in 1 .. Len(work) : i < C => work[i].call = "callargs"
    BY <1>1, CallerIs
  <2> QED  BY <1>2, <2>1
<1>4. /\ DOMAIN work[C] = {"call", "node", "tgt", "arglocs"}
      /\ work[C].node \in Body(source)
      /\ work[C].node.t = "CALL" /\ work[C].tgt \in Regs(gs)
      /\ IsSeq(work[C].arglocs)
      /\ \A i \in 1 .. Len(work[C].arglocs) : work[C].arglocs[i] \in Regs(gs)
  BY <1>2, <1>3 DEF Fits, Definition
<1>5. /\ c.call = "call" /\ c.node = work[C].node /\ c.tgt = work[C].tgt
      /\ c.arglocs = Append(work[C].arglocs, tmp)
      /\ DOMAIN c = {"call", "node", "tgt", "arglocs"}
  BY <1>3, <1>4
<1>6. x.call = "value" /\ x.node = node /\ x.tgt = tmp
  OBVIOUS
<1>7. DispatchValue(node, tmp) = <<x>>
  BY <1>2, BodyNode DEF DispatchValue
<1>8. /\ IsSeq(calling) /\ Len(calling) = Len(work) /\ calling # <<>>
      /\ calling[C] = c /\ \A k \in 1 .. Len(work) : k # C => calling[k] = work[k]
  <2>0. IsSeq(work) /\ C \in 1 .. Len(work)
    BY <1>2, <1>3
  <2>1. /\ IsSeq(calling) /\ Len(calling) = Len(work)
        /\ calling[C] = c /\ \A k \in 1 .. Len(work) : k # C => calling[k] = work[k]
    <3>1. calling = Assigned(work, C, c)
      BY DEF Assigned
    <3> HIDE DEF calling
    <3> QED  BY <2>0, <3>1, AssignedIs
  <2>2. Len(calling) >= 1 /\ Len(<<>>) = 0
    BY <1>2, <2>1
  <2>3. calling # <<>>
    BY <2>2
  <2> QED  BY <2>1, <2>3
<1>9. Splice(v, <<x>>, calling)
  BY <1>1, <1>7 DEF Splice
<1> HIDE DEF calling, v
<1>10. Collected(v, work, x, C, c)
  <2>1. IsSeq(<<x>>) /\ Len(<<x>>) = 1 /\ <<x>>[1] = x /\ 1 \in 1 .. 1
    BY OneIs
  <2> DEFINE one == <<x>>
  <2>2. /\ IsSeq(v) /\ Len(v) = Len(one) + Len(calling) - 1
        /\ \A k \in 1 .. Len(one) : v[k] = one[k]
        /\ \A j \in 2 .. Len(calling) : v[Len(one) + j - 1] = calling[j]
    <3>1. IsSeq(one) /\ Splice(v, one, calling) /\ IsSeq(calling) /\ calling # <<>>
      BY <1>8, <1>9, <2>1
    <3> HIDE DEF one
    <3> QED  BY <3>1, Spliced
  <2>3. Len(v) = Len(work) /\ v[1] = x
    BY <1>2, <1>8, <2>1, <2>2
  <2>4. ASSUME NEW j \in 2 .. Len(work)  PROVE v[j] = calling[j]
    <3>1. Len(one) + j - 1 = j
      BY <2>1
    <3>2. v[Len(one) + j - 1] = calling[j]
      BY <1>8, <2>2
    <3> QED  BY <3>1, <3>2
  <2>5. \A k \in 2 .. Len(work) : k # C => v[k] = work[k]
    <3>1. \A k \in 2 .. Len(work) : k \in 1 .. Len(work)
      BY <1>2
    <3> QED  BY <1>8, <2>4, <3>1
  <2> QED  BY <1>2, <1>3, <1>5, <1>6, <1>8, <2>2, <2>3, <2>4, <2>5 DEF Collected
<1> QED  BY <1>4, <1>5, <1>10 DEF v

\* The argument is dispatched.
LEMMA KeepCallArgsValue ==
  ASSUME Inv, CallArgsValue
  PROVE  Inv'
<1> DEFINE tmp == Temporary(gs)
           h == FetchTemporary(gs)
           C == Caller
           c == [work[C] EXCEPT !.arglocs = Append(@, tmp)]
           x == [call |-> "value", node |-> node, tgt |-> tmp]
           v == work'
<1>1. /\ outcome = "running" /\ work # <<>> /\ Task.call = "callargs"
      /\ gs' = h /\ source' = source /\ outcome' = outcome
  BY DEF CallArgsValue, Running
<1>2. /\ source \in Sources /\ node \in Body(source)
      /\ Good(gs) /\ Open(gs) /\ Traversal(work, gs, source)
      /\ \A k \in 1 .. Len(work) : Fits(work[k], gs, source)
      /\ DefsLast(work, source) /\ Collect(work) /\ FewArgs(work)
      /\ Reserved(work, gs) /\ Distinct(work)
      /\ Len(work) \in Nat
  BY <1>1, AtTask, OtherNode DEF Definition, Traversal
<1>4. /\ Collected(v, work, x, C, c)
      /\ DOMAIN work[C] = {"call", "node", "tgt", "arglocs"}
      /\ work[C].node \in Body(source)
      /\ work[C].node.t = "CALL" /\ work[C].tgt \in Regs(gs)
      /\ IsSeq(work[C].arglocs)
      /\ \A i \in 1 .. Len(work[C].arglocs) : work[C].arglocs[i] \in Regs(gs)
      /\ c.call = "call" /\ c.node = work[C].node /\ c.tgt = work[C].tgt
      /\ c.arglocs = Append(work[C].arglocs, tmp)
      /\ DOMAIN c = {"call", "node", "tgt", "arglocs"}
  BY ArgCollected
<1>6. x.call = "value" /\ x.node = node /\ x.tgt = tmp
  OBVIOUS
<1> HIDE DEF c, x, C, v
<1>11. /\ Onto(gs, h) /\ tmp \in Regs(h) /\ InUse(tmp, h) /\ Fresh(tmp, gs)
  BY <1>2, FetchTemporaryOnto
<1> HIDE DEF h, tmp
<1>12. /\ Good(h) /\ Wider(gs, h) /\ Grows(gs, h) /\ (Loose(h) => Loose(gs))
       /\ Regs(gs) \subseteq Regs(h) /\ Len(h.symbols) = Len(gs.symbols)
       /\ h.symbols[1].name = gs.symbols[1].name
  BY <1>11, OntoGrows, FirstName
<1>13. /\ DefsLast(v, source) /\ Collect(v)
       /\ HasCall(v, Definition) <=> HasCall(work, Definition)
       /\ HasCall(v, {"while"}) <=> HasCall(work, {"while"})
  <2>1. Definition \cap {"callargs", "value"} = {} /\ {"while"} \cap {"callargs", "value"} = {}
    BY DEF Definition
  <2> QED  BY <1>2, <1>4, <2>1, CollectedOrder
<1>14. FewArgs(v)
  <2>1. Len(work[C].arglocs) \in Nat /\ Len(c.arglocs) = Len(work[C].arglocs) + 1
    BY <1>4, AppendIs, SeqFacts
  <2> QED  BY <1>2, <1>4, <2>1, CollectedFew
<1>15. Reserved(v, h) /\ Distinct(v)
  <2>1. Reserved(work, h)
    BY <1>2, <1>12, GrowsKept
  <2> QED  BY <1>2, <1>4, <1>11, <2>1, CollectedHeld
<1>16. \A k \in 1 .. Len(v) : Fits(v[k], h, source)
  <2>1. Fits(x, h, source)
    BY <1>2, <1>6, <1>11 DEF Fits, Dispatched, Pending, Definition
  <2>2. Fits(c, h, source)
    <3>1. IsSeq(c.arglocs) /\ \A i \in 1 .. Len(c.arglocs) : c.arglocs[i] \in Regs(h)
      <4>1. /\ IsSeq(c.arglocs) /\ Len(c.arglocs) = Len(work[C].arglocs) + 1
            /\ \A i \in 1 .. Len(work[C].arglocs) : c.arglocs[i] = work[C].arglocs[i]
            /\ c.arglocs[Len(work[C].arglocs) + 1] = tmp
            /\ Len(work[C].arglocs) \in Nat
        BY <1>4, AppendIs, SeqFacts
      <4>2. \A i \in 1 .. Len(c.arglocs) :
              i \in 1 .. Len(work[C].arglocs) \/ i = Len(work[C].arglocs) + 1
        BY <4>1
      <4>3. \A i \in 1 .. Len(work[C].arglocs) : work[C].arglocs[i] \in Regs(h)
        BY <1>4, <1>12
      <4> QED  BY <1>11, <4>1, <4>2, <4>3
    <3> QED  BY <1>4, <1>12, <3>1 DEF Fits, Dispatched, Pending, Definition
  <2>3. \A k \in 1 .. Len(work) : Fits(work[k], h, source)
    BY <1>2, <1>12, WiderFits
  <2>4. \A k \in 1 .. Len(v) : k = 1 \/ k \in 2 .. Len(work)
    BY <1>4, CollectedCalls
  <2>5. \A k \in 2 .. Len(work) : k \in 1 .. Len(work)
    BY <1>2
  <2> QED  BY <1>4, <2>1, <2>2, <2>3, <2>4, <2>5 DEF Collected
<1>17. Traversal(v, h, source)
  <2>1. IsSeq(v)
    BY <1>4 DEF Collected
  <2>2. Loose(h) => HasCall(v, {"while"})
    BY <1>2, <1>12, <1>13 DEF Traversal
  <2>3. h.symbols[1].name = "#root"
    BY <1>2, <1>12 DEF Traversal
  <2> QED  BY <1>13, <1>14, <1>15, <1>16, <2>1, <2>2, <2>3 DEF Traversal
<1>18. /\ Traversal(work', gs', source) /\ Good(gs')
       /\ Len(gs'.symbols) = Len(gs.symbols)
       /\ HasCall(work', Definition) <=> HasCall(work, Definition)
  BY <1>1, <1>12, <1>13, <1>17 DEF v
<1> QED  BY <1>1, <1>18, Goes

-----------------------------------------------------------------------------
(* The theorems *)

\* A returned or crashed gen() changes nothing.
LEMMA KeepIdle ==
  ASSUME Inv, UNCHANGED vars
  PROVE  Inv'
BY DEF vars, Inv, Depth

-----------------------------------------------------------------------------
\* The empty sequence.
LEMMA NoneIs ==
  /\ IsSeq(<<>>) /\ Len(<<>>) = 0 /\ DOMAIN <<>> = {}
  /\ \A k : k \notin 1 .. Len(<<>>)
<1>1. <<>> \in Seq({}) /\ Len(<<>>) = 0
  BY EmptySeq
<1>2. IsSeq(<<>>)
  BY <1>1, SeqIs
<1> QED  BY <1>1, <1>2, SeqFacts

\* The state that gen() starts with.
LEMMA StartGood ==
  ASSUME NEW e
  PROVE  LET g == PushSymbols(Emit(EmptyState, PrepareExec(-1, -1, 0)), "#root")
             h == [g EXCEPT !.errors = e]
         IN  \A f \in {g, h} :
               Good(f) /\ Len(f.symbols) = 1 /\ ~ Loose(f) /\ f.symbols[1].name = "#root"
<1> DEFINE i == PrepareExec(-1, -1, 0)
           t == [name |-> "#root", register_state |-> <<>>, argnum |-> 0, marks |-> <<>>]
           g == PushSymbols(Emit(EmptyState, i), "#root")
           h == [g EXCEPT !.errors = e]
<1>1. /\ IsSeq(<<i>>) /\ Len(<<i>>) = 1 /\ <<i>>[1] = i
      /\ IsSeq(<<t>>) /\ Len(<<t>>) = 1 /\ <<t>>[1] = t
  BY OneIs
<1>2. Append(<<>>, i) = <<i>> /\ Append(<<>>, t) = <<t>>
  OBVIOUS
<1>3. i \in [op : {"PREPARE_EXEC"}, count : Int, index : Int, target : Nat]
  BY DEF PrepareExec
<1>4. i.op = "PREPARE_EXEC" /\ i # PotentialBreak
  BY DEF PrepareExec, PotentialBreak
<1>5. IsTable(t, [labels |-> <<>>, loops |-> 0])
  BY NoneIs, FS_EmptySet DEF IsTable
<1> HIDE DEF i, t
<1>6. SUFFICES ASSUME NEW f, f = g \/ f = h
               PROVE  Good(f) /\ Len(f.symbols) = 1 /\ ~ Loose(f) /\ f.symbols[1].name = "#root"
  BY DEF i
<1>7. /\ DOMAIN f = Fields /\ f.code = <<i>> /\ f.stack_maps = <<>>
      /\ f.potential_breaks = <<>> /\ f.line_info = <<>> /\ f.symbols = <<t>>
      /\ f.funcAddrs = <<>> /\ f.labels = <<>> /\ f.backpatching_todo = <<>>
      /\ f.loops = 0
  BY <1>2, <1>6, ZenonT(40) DEF PushSymbols, Emit, EmptyState, Fields, t
<1>8. Shape(f)
  BY <1>1, <1>7, NoneIs DEF Shape
<1>9. CodeTyped(f)
  BY <1>1, <1>3, <1>7 DEF CodeTyped
<1>10. LabelsSet(f) /\ JumpsWait(f) /\ FunctionsTyped(f)
  BY <1>7, NoneIs DEF LabelsSet, JumpsWait, FunctionsTyped
<1>11. Breaks(f)
  BY <1>1, <1>4, <1>7, NoneIs DEF Breaks, NextPos
<1>12. Tables(f)
  BY <1>1, <1>5, <1>7 DEF Tables, IsTable
<1>13. ~ Loose(f)
  BY <1>7, NoneIs DEF Loose
<1>14. Len(f.symbols) = 1 /\ f.symbols[1].name = "#root"
  BY <1>1, <1>7 DEF t
<1> QED  BY <1>8, <1>9, <1>10, <1>11, <1>12, <1>13, <1>14 DEF Good

\* The invariant holds at first,
LEMMA InitInv == Init => Inv
<1>1. SUFFICES ASSUME Init  PROVE Inv
  OBVIOUS
<1>2. /\ source \in Sources /\ outcome = "running"
      /\ Good(gs) /\ Len(gs.symbols) = 1 /\ ~ Loose(gs) /\ gs.symbols[1].name = "#root"
  <2> DEFINE g == PushSymbols(Emit(EmptyState, PrepareExec(-1, -1, 0)), "#root")
             h == [g EXCEPT !.errors = ast.errors]
  <2>1. \A f \in {g, h} :
          Good(f) /\ Len(f.symbols) = 1 /\ ~ Loose(f) /\ f.symbols[1].name = "#root"
    BY StartGood
  <2>2. source \in Sources /\ outcome = "running" /\ gs \in {g, h}
    BY <1>1 DEF Init
  <2> HIDE DEF g, h
  <2> QED  BY <2>1, <2>2
<1>3. CASE work = <<>>
  <2>1. Traversal(work, gs, source) /\ ~ HasCall(work, Definition)
    BY <1>2, <1>3, NoneIs
       DEF Traversal, DefsLast, Collect, FewArgs, Reserved, Distinct, HasCall
  <2> QED  BY <1>2, <2>1 DEF Inv, Depth
<1>4. CASE work # <<>>
  <2> DEFINE x == [call |-> "void", node |-> ast.root]
  <2>1. ast.parsed_correctly /\ ast.root # Null /\ work = <<x>>
    BY <1>1, <1>4 DEF Init, DispatchVoid
  <2>2. ast.root \in Spine[source] \cup Body(source)
    BY <1>2, <2>1, ShapeAssumption DEF Body, ast
  <2>3. Fits(x, gs, source)
    BY <2>2 DEF Fits, Definition, Dispatched, Pending
  <2>4. x.call = "void" /\ DOMAIN Held(x) = {}
    BY HeldPlain
  <2> HIDE DEF x
  <2>5. IsSeq(work) /\ Len(work) = 1 /\ \A k \in 1 .. Len(work) : k = 1 /\ work[k] = x
    BY <2>1, OneIs
  <2>6. DefsLast(work, source) /\ Collect(work) /\ FewArgs(work)
    BY <2>4, <2>5 DEF DefsLast, Collect, FewArgs
  <2>7. Reserved(work, gs) /\ Distinct(work)
    BY <2>4, <2>5 DEF Reserved, Distinct, Shared
  <2>8. ~ HasCall(work, Definition)
    BY <2>4, <2>5 DEF HasCall, Definition
  <2> QED  BY <1>2, <2>3, <2>5, <2>6, <2>7, <2>8 DEF Inv, Depth, Traversal
<1> QED  BY <1>3, <1>4

\* every step keeps it,
LEMMA StepInv == Inv /\ [Next]_vars => Inv'
<1>1. SUFFICES ASSUME Inv, [Next]_vars  PROVE Inv'
  OBVIOUS
<1>2. CASE VoidSplit \/ VoidAssign \/ VoidStop \/ VoidMark \/ VoidGoto \/ VoidMalformed
  BY <1>1, <1>2, KeepVoidSplit, KeepVoidAssign, KeepVoidStop, KeepVoidMark,
     KeepVoidGoto, KeepVoidMalformed
<1>3. CASE VoidIf \/ IfTest
  BY <1>1, <1>3, KeepVoidIf, KeepIfTest
<1>4. CASE VoidWhile \/ WhileBody \/ WhileEnd
  BY <1>1, <1>4, KeepVoidWhile, KeepWhileBody, KeepWhileEnd
<1>5. CASE VoidLoop \/ LoopBody \/ LoopEnd
  BY <1>1, <1>5, KeepVoidLoop, KeepLoopBody, KeepLoopEnd
<1>6. CASE VoidProgram \/ ArgsSplit \/ ArgsName \/ ProgramBody \/ ProgramEnd
  BY <1>1, <1>6, KeepVoidProgram, KeepArgsSplit, KeepArgsName, KeepProgramBody,
     KeepProgramEnd
<1>7. CASE ValueName \/ ValueNumber \/ ValueCall \/ ValueMalformed
  BY <1>1, <1>7, KeepValueName, KeepValueNumber, KeepValueCall, KeepValueMalformed
<1>8. CASE CallArgsSplit \/ CallArgsValue
  BY <1>1, <1>8, KeepCallArgsSplit, KeepCallArgsValue
<1>9. CASE CallInbuilt \/ CallUnknown \/ CallMismatch \/ CallSequence
  BY <1>1, <1>9, KeepCallInbuilt, KeepCallUnknown, KeepCallMismatch, KeepCallSequence
<1>10. CASE Finish
  BY <1>1, <1>10, KeepFinish
<1>11. CASE Idle \/ UNCHANGED vars
  BY <1>1, <1>11, KeepIdle DEF Idle
<1> QED
  BY <1>1, <1>2, <1>3, <1>4, <1>5, <1>6, <1>7, <1>8, <1>9, <1>10, <1>11 DEF Next

\* so it always holds: gen() never gets into a state it cannot go on from in
\* order (gen.cpp).
THEOREM InvIsInvariant == Spec => []Inv
BY InitInv, StepInv, PTL DEF Spec

\* It implies the type invariant,
LEMMA InvTypes == Inv => TypeOK
<1>1. SUFFICES ASSUME Inv  PROVE TypeOK
  OBVIOUS
<1>2. Good(gs) /\ Shape(gs)
  BY <1>1 DEF Inv, Good
<1>3. /\ Len(gs.code) \in Nat /\ DOMAIN gs.code = 1 .. Len(gs.code)
      /\ DOMAIN gs.labels = 1 .. Len(gs.labels)
      /\ DOMAIN gs.backpatching_todo = 1 .. Len(gs.backpatching_todo)
      /\ DOMAIN gs.symbols = 1 .. Len(gs.symbols)
  BY <1>2, SeqFacts DEF Shape
<1>4. ASSUME NEW k \in DOMAIN gs.code
      PROVE  gs.code[k] \in Instruction \/ (k = 1 /\ gs.code[k].op = "PREPARE_EXEC")
  <2>1. k = 1 \/ k \in 2 .. Len(gs.code)
    BY <1>3
  <2> QED  BY <1>2, <2>1 DEF Good, CodeTyped
<1>5. \A l \in DOMAIN gs.labels : gs.labels[l] \in -1 .. NextPos(gs)
  BY <1>2, <1>3 DEF Good, LabelsSet, NextPos
<1>6. \A k \in DOMAIN gs.backpatching_todo :
        LET loc == gs.backpatching_todo[k]
        IN  /\ gs.code[loc + 1].op \in {"JMP", "JMPC"}
            /\ gs.code[loc + 1].offset \in 0 .. Len(gs.labels) - 1
  BY <1>2, <1>3 DEF Good, JumpsWait, IsJump
<1>7. ASSUME NEW s \in Range(gs.symbols), NEW r \in Range(s.register_state)
      PROVE  r.in_use \/ r.is_temp
  <2>1. PICK k \in 1 .. Len(gs.symbols) : s = gs.symbols[k]
    BY <1>3, <1>7 DEF Range
  <2>2. IsTable(s, gs)
    BY <1>2, <2>1 DEF Good, Tables
  <2>3. DOMAIN s.register_state = 1 .. Len(s.register_state)
    BY <2>2, SeqFacts DEF IsTable
  <2>4. PICK j \in 1 .. Len(s.register_state) : r = s.register_state[j]
    BY <1>7, <2>3 DEF Range
  <2> QED  BY <2>2, <2>4 DEF IsTable, IsRegister
<1>8. Len(gs.symbols) = IF outcome = "returned" THEN 0
                        ELSE IF \E k \in DOMAIN work :
                                  work[k].call \in {"program", "endprogram"}
                          THEN 2 ELSE 1
  <2>1. IsSeq(work)
    BY <1>1 DEF Inv, Traversal
  <2>2. DOMAIN work = 1 .. Len(work)
    BY <2>1, SeqFacts
  <2> QED  BY <1>1, <2>2 DEF Inv, Depth, HasCall, Definition
<1>9. source \in Sources /\ outcome \in {"running", "returned", "crashed"}
  BY <1>1 DEF Inv
<1> QED  BY <1>4, <1>5, <1>6, <1>7, <1>8, <1>9 DEF TypeOK

\* and that registers are apart.
LEMMA InvApart == Inv => RegistersApart
<1>1. SUFFICES ASSUME Inv,
                      NEW k \in DOMAIN work, NEW l \in DOMAIN work,
                      NEW i \in DOMAIN Held(work[k]), NEW j \in DOMAIN Held(work[l])
               PROVE  /\ RegStates(gs)[Held(work[k])[i] + 1].in_use
                      /\ Held(work[k])[i] = Held(work[l])[j] => k = l /\ i = j
  BY DEF RegistersApart
<1>2. IsSeq(work)
  BY <1>1 DEF Inv, Traversal
<1>3. k \in 1 .. Len(work) /\ l \in 1 .. Len(work)
  BY <1>1, <1>2, SeqFacts
<1>4. outcome = "running"
  <2>1. SUFFICES ASSUME outcome # "running"  PROVE FALSE
    OBVIOUS
  <2>2. work[k].call = "void"
    BY <1>1, <1>3, <2>1 DEF Inv
  <2> QED  BY <1>1, <2>2, HeldPlain
<1>5. Reserved(work, gs) /\ Distinct(work)
  BY <1>1, <1>4 DEF Inv, Traversal
<1>6. RegStates(gs)[Held(work[k])[i] + 1].in_use
  BY <1>1, <1>3, <1>5 DEF Reserved, InUse
<1>7. ASSUME Held(work[k])[i] = Held(work[l])[j]  PROVE k = l /\ i = j
  <2>1. Shared(work[k], work[l], i, j)
    BY <1>1, <1>7 DEF Shared
  <2> QED  BY <1>3, <1>5, <2>1 DEF Distinct
<1> QED  BY <1>6, <1>7

\* For every set of trees of the parser's shape and every word size, all that
\* gen() keeps stays typed: labels point into the code, jumps that wait have
\* labels, there is one symbol table for each program being compiled
\* (gen.cpp:8-108).
THEOREM TypesHold == Spec => []TypeOK
BY InvIsInvariant, InvTypes, PTL

\* However deep calls, loops, conditions and arguments are nested, no register
\* is given to a second purpose before the first is done with it
\* (gen.cpp:31-46, 227-322, 370-383, 452-458).
THEOREM RegistersStayApart == Spec => []RegistersApart
BY InvIsInvariant, InvApart, PTL

\* Whatever addPotentialBreak and removeTopPotBreak do in whichever order, the
\* tables line_info and potential_breaks name the code's breakpoints and
\* nothing else (gen.cpp:110-127).
THEOREM BreakTablesStayInStep == Spec => []BreakTablesAgree
<1>1. Inv => BreakTablesAgree
  BY DEF Inv, Good, Breaks, BreakTablesAgree
<1> QED  BY <1>1, InvIsInvariant, PTL
==============================================================================
