----------------------------- MODULE OutputProofs -----------------------------
(***************************************************************************)
(* The proof that code generated without an error can be run: OutputRuns   *)
(* of CodeGen.                                                             *)
(***************************************************************************)
EXTENDS CodeGenProofs

-----------------------------------------------------------------------------
(* What the code written so far promises *)

\* The number of the program being compiled.
Cur(g, bs) == IF Len(g.symbols) = 2 THEN Len(bs) + 1 ELSE 0

\* The registers of program m, so far.
SizeOf(g, bs, m) ==
  IF m \in 1 .. Len(bs) THEN bs[m].size
  ELSE Len(g.symbols[IF m = 0 THEN 1 ELSE 2].register_state)

\* The instruction at position i.
Ins(g, i) == g.code[i + 1]

\* Control may come to position i from anywhere but from within a call.
Entry(g, i) == i < NextPos(g) => Ins(g, i).op \notin {"ARG", "EXEC"}

\* Control goes on behind an instruction in the same program, and in the same
\* call from PREPARE_EXEC on until EXEC.
Flows(g, own, i) ==
  /\ Ins(g, i).op # "BREAK"
  /\ Ins(g, i).op \in {"POTENTIAL_BREAK", "ADD_CONST", "TEST", "CONST", "JMPC", "EXEC"} =>
       own[i + 1] = own[i] /\ Entry(g, i + 1)
  /\ Ins(g, i).op \in {"PREPARE_EXEC", "ARG"} =>
       /\ i + 1 < NextPos(g) /\ own[i + 1] = own[i]
       /\ Ins(g, i + 1).op \in {"ARG", "EXEC"}

\* A jump waits for a label of its program.
Leads(g, own, lo, i) ==
  Ins(g, i).op \in {"JMP", "JMPC"} =>
    /\ \E k \in 1 .. Len(g.backpatching_todo) : g.backpatching_todo[k] = i
    /\ lo[Ins(g, i).offset] = own[i]

\* The registers an instruction names are registers of its program.
Touches(g, bs, own, i) ==
  LET n    == Ins(g, i)
      size == SizeOf(g, bs, own[i])
  IN  /\ n.op \in {"ADD_CONST", "TEST", "CONST", "PREPARE_EXEC"} => n.target < size
      /\ n.op \in {"ADD_CONST", "JMPC", "RET", "ARG"} => n.source < size
      /\ n.op = "TEST" => n.op1 < size /\ n.op2 < size
      /\ n.op = "CONST" /\ g.errors = <<>> => n.constant >= 0
      /\ n.op = "RET" => own[i] # 0

\* PREPARE_EXEC at j begins the call that position i belongs to.
Opens(g, j, i) ==
  /\ Ins(g, j).op = "PREPARE_EXEC"
  /\ \A x \in j + 1 .. i - 1 : Ins(g, x).op = "ARG"

\* A call is a call of a program finished before: its registers are opened,
\* the first of them passed, and its code entered.
Calls(g, bs, own, i) ==
  LET n == Ins(g, i)
  IN  /\ n.op = "PREPARE_EXEC" =>
           /\ n.index + 1 \in 1 .. Len(bs)
           /\ own[i] = 0 \/ n.index + 1 < own[i]
           /\ n.count = bs[n.index + 1].size
      /\ n.op \in {"ARG", "EXEC"} =>
           \E j \in 1 .. i - 1 :
             /\ Opens(g, j, i)
             /\ n.op = "ARG" => n.target < bs[Ins(g, j).index + 1].size
             /\ n.op = "EXEC" => n.entry = bs[Ins(g, j).index + 1].ind

\* The instruction at position i can be run.
Sound(g, bs, own, lo, i) ==
  Flows(g, own, i) /\ Leads(g, own, lo, i) /\ Touches(g, bs, own, i)
    /\ Calls(g, bs, own, i)

\* All code but the call of the root program.
CodeLaid(g, bs, own, lo) == \A i \in 1 .. NextPos(g) - 1 : Sound(g, bs, own, lo, i)

\* Positions and labels have owners: program k is the k-th to be finished, the
\* root program is 0.  What is yet to be written or created belongs to the
\* program being compiled.
Owned(g, bs, own, lo) ==
  /\ own \in [Nat -> Nat] /\ lo \in [Nat -> Nat]
  /\ IsSeq(bs) /\ Len(bs) = Len(g.stack_maps)
  /\ Len(g.symbols) \in {1, 2}
  /\ \A i \in Nat : own[i] \in 0 .. Len(bs) \cup {Cur(g, bs)}
  /\ \A i \in Nat : i >= NextPos(g) => own[i] = Cur(g, bs)
  /\ \A l \in Nat : l >= Len(g.labels) => lo[l] = Cur(g, bs)

\* The body of a finished program is its own from its entry to its end.
BodyLaid(g, b, own, k) ==
  /\ b.ind \in Nat /\ b.end \in Nat /\ b.size \in Nat
  /\ 2 <= b.ind /\ b.ind < b.end /\ b.end <= NextPos(g)
  /\ Entry(g, b.ind)
  /\ \A i \in Nat : own[i] = k <=> b.ind <= i /\ i < b.end
  /\ DOMAIN g.stack_maps[k].map \subseteq 0 .. b.size - 1

BodiesLaid(g, bs, own) == \A k \in 1 .. Len(bs) : BodyLaid(g, bs[k], own, k)

\* A label that is set is set to a position of its program.
LabelsLaid(g, own, lo) ==
  \A l \in 0 .. Len(g.labels) - 1 : g.labels[l + 1] # -1 =>
    /\ g.labels[l + 1] \in 1 .. NextPos(g)
    /\ own[g.labels[l + 1]] = lo[l]
    /\ Entry(g, g.labels[l + 1])

\* Marks have labels of the program they stand in.
MarksLaid(g, bs, lo) ==
  \A k \in 1 .. Len(g.symbols) : \A x \in DOMAIN g.symbols[k].marks :
    lo[g.symbols[k].marks[x]] = IF k = 1 THEN 0 ELSE Len(bs) + 1

\* What calls know of a program is true of it.
FunctionsLaid(g, bs) ==
  \A name \in DOMAIN g.funcAddrs :
    LET p == g.funcAddrs[name]
    IN  /\ p.mi + 1 \in 1 .. Len(bs)
        /\ p.ind = bs[p.mi + 1].ind
        /\ p.stack_size = bs[p.mi + 1].size
        /\ p.argnum <= p.stack_size

\* The part of the invariant about GenState.
Laid(g, bs, own, lo) ==
  /\ Owned(g, bs, own, lo) /\ CodeLaid(g, bs, own, lo) /\ BodiesLaid(g, bs, own)
  /\ LabelsLaid(g, own, lo) /\ MarksLaid(g, bs, lo) /\ FunctionsLaid(g, bs)

\* h has the code, labels and registers of g, and perhaps more.
Extends(g, h) ==
  /\ Len(h.symbols) = Len(g.symbols)
  /\ \A k \in 1 .. Len(g.symbols) :
       Len(g.symbols[k].register_state) <= Len(h.symbols[k].register_state)
  /\ Len(g.labels) <= Len(h.labels)
  /\ NextPos(g) <= NextPos(h)
  /\ \A i \in 0 .. NextPos(g) : Entry(g, i) => Entry(h, i)

-----------------------------------------------------------------------------
\* Lengths are numbers.
LEMMA Lengths ==
  ASSUME NEW g, Good(g)
  PROVE  /\ Len(g.symbols) \in Nat /\ Len(g.labels) \in Nat /\ NextPos(g) \in Nat
         /\ NextPos(g) >= 1 /\ Len(g.backpatching_todo) \in Nat
         /\ \A k \in 1 .. Len(g.symbols) : Len(g.symbols[k].register_state) \in Nat
<1>1. Len(g.symbols) \in Nat /\ Len(g.labels) \in Nat /\ NextPos(g) \in Nat
      /\ Len(g.backpatching_todo) \in Nat
  BY SeqFacts DEF Good, Shape, NextPos
<1>2. NextPos(g) >= 1
  BY DEF Good, CodeTyped, NextPos
<1>3. ASSUME NEW k \in 1 .. Len(g.symbols)
      PROVE  Len(g.symbols[k].register_state) \in Nat
  <2>1. IsSeq(g.symbols[k].register_state)
    BY DEF Good, Tables, IsTable
  <2> QED  BY <2>1, SeqFacts
<1> QED  BY <1>1, <1>2, <1>3

\* There is a symbol table.
LEMMA OneOrTwo == ASSUME NEW n \in {1, 2}  PROVE 1 \in 1 .. n
  OBVIOUS

\* A program keeps its registers.
LEMMA SizeGrows ==
  ASSUME NEW g, Good(g), NEW h, Good(h), NEW bs, NEW own, NEW lo, Laid(g, bs, own, lo),
         Extends(g, h), NEW m \in 0 .. Len(bs) \cup {Cur(g, bs)}
  PROVE  /\ SizeOf(g, bs, m) \in Nat /\ SizeOf(h, bs, m) \in Nat
         /\ SizeOf(g, bs, m) <= SizeOf(h, bs, m)
<1>1. Owned(g, bs, own, lo) /\ BodiesLaid(g, bs, own)
  BY DEF Laid
<1>2. IsSeq(bs)
  BY <1>1 DEF Owned
<1>3. Len(bs) \in Nat /\ Len(g.symbols) \in {1, 2} /\ Len(h.symbols) = Len(g.symbols)
  BY <1>1, <1>2, SeqFacts DEF Owned, Extends
<1>4. CASE m \in 1 .. Len(bs)
  <2>1. bs[m].size \in Nat
    BY <1>1, <1>4 DEF BodiesLaid, BodyLaid
  <2> QED  BY <1>4, <2>1 DEF SizeOf
<1>5. CASE m \notin 1 .. Len(bs)
  <2>1. \A k \in 1 .. Len(g.symbols) :
          /\ Len(g.symbols[k].register_state) \in Nat
          /\ Len(h.symbols[k].register_state) \in Nat
          /\ Len(g.symbols[k].register_state) <= Len(h.symbols[k].register_state)
    BY <1>3, Lengths DEF Extends
  <2>2. CASE m = 0
    <3>1. 1 \in 1 .. Len(g.symbols)
      BY <1>3, OneOrTwo, Zenon
    <3> QED  BY <1>5, <2>1, <2>2, <3>1 DEF SizeOf
  <2>3. CASE m # 0
    <3>1. m = Cur(g, bs) /\ Len(g.symbols) = 2
      BY <1>3, <1>5, <2>3 DEF Cur
    <3>2. 2 \in 1 .. Len(g.symbols)
      BY <3>1
    <3> QED  BY <1>5, <2>1, <2>3, <3>2 DEF SizeOf
  <2> QED  BY <2>2, <2>3
<1> QED  BY <1>4, <1>5

\* An instruction stays as sound as it was.
LEMMA StaysSound ==
  ASSUME NEW g, Good(g), NEW h, Good(h), NEW bs, NEW own, NEW lo, Laid(g, bs, own, lo),
         Extends(g, h),
         \A i \in 0 .. NextPos(g) - 1 : Ins(h, i) = Ins(g, i),
         Len(g.backpatching_todo) <= Len(h.backpatching_todo),
         \A k \in 1 .. Len(g.backpatching_todo) :
           h.backpatching_todo[k] = g.backpatching_todo[k],
         h.errors = <<>> => g.errors = <<>>,
         NEW i \in 1 .. NextPos(g) - 1
  PROVE  Sound(h, bs, own, lo, i)
<1>1. Sound(g, bs, own, lo, i) /\ Owned(g, bs, own, lo)
  BY DEF Laid, CodeLaid
<1>2. NextPos(g) \in Nat /\ NextPos(h) \in Nat /\ NextPos(g) <= NextPos(h)
      /\ Len(g.backpatching_todo) \in Nat /\ Len(h.backpatching_todo) \in Nat
  BY Lengths DEF Extends
<1>3. Ins(h, i) = Ins(g, i)
  BY <1>2
<1>4. Flows(h, own, i)
  <2>1. Flows(g, own, i)
    BY <1>1 DEF Sound
  <2>2. Entry(g, i + 1) => Entry(h, i + 1)
    BY <1>2 DEF Extends
  <2>3. i + 1 < NextPos(g) => i + 1 < NextPos(h) /\ Ins(h, i + 1) = Ins(g, i + 1)
    BY <1>2
  <2> QED  BY <1>3, <2>1, <2>2, <2>3 DEF Flows
<1>5. Leads(h, own, lo, i)
  <2>1. Leads(g, own, lo, i)
    BY <1>1 DEF Sound
  <2>2. ASSUME NEW k \in 1 .. Len(g.backpatching_todo), g.backpatching_todo[k] = i
        PROVE  \E m \in 1 .. Len(h.backpatching_todo) : h.backpatching_todo[m] = i
    <3>1. k \in 1 .. Len(h.backpatching_todo) /\ h.backpatching_todo[k] = i
      BY <1>2, <2>2
    <3> QED  BY <3>1
  <2> QED  BY <1>3, <2>1, <2>2 DEF Leads
<1>6. Touches(h, bs, own, i)
  <2>1. Touches(g, bs, own, i)
    BY <1>1 DEF Sound
  <2>2. own[i] \in 0 .. Len(bs) \cup {Cur(g, bs)}
    BY <1>1, <1>2 DEF Owned
  <2>3. /\ SizeOf(g, bs, own[i]) \in Nat /\ SizeOf(h, bs, own[i]) \in Nat
        /\ SizeOf(g, bs, own[i]) <= SizeOf(h, bs, own[i])
    BY <2>2, SizeGrows
  <2>4. Ins(g, i) \in Instruction
    BY <1>2 DEF Good, CodeTyped, NextPos, Ins
  <2> HIDE DEF Ins, SizeOf
  <2>5. ASSUME NEW n, n \in Instruction, NEW a \in Nat, NEW b \in Nat, a <= b
        PROVE /\ n.op \in {"ADD_CONST", "TEST", "CONST", "PREPARE_EXEC"} /\ n.target < a => n.target < b
              /\ n.op \in {"ADD_CONST", "JMPC", "RET", "ARG"} /\ n.source < a => n.source < b
              /\ n.op = "TEST" /\ n.op1 < a /\ n.op2 < a => n.op1 < b /\ n.op2 < b
    BY <2>5 DEF Instruction
  <2> QED  BY <1>3, <2>1, <2>3, <2>4, <2>5 DEF Touches
<1>7. Calls(h, bs, own, i)
  <2>1. Calls(g, bs, own, i)
    BY <1>1 DEF Sound
  <2>2. ASSUME NEW j \in 1 .. i - 1
        PROVE  Ins(h, j) = Ins(g, j) /\ (Opens(g, j, i) => Opens(h, j, i))
    BY <1>2, SMTT(30) DEF Opens
  <2> QED  BY <1>3, <2>1, <2>2 DEF Calls
<1> QED  BY <1>4, <1>5, <1>6, <1>7 DEF Sound

\* Labels stay where they are set.
LEMMA LabelsStay ==
  ASSUME NEW g, Good(g), NEW h, Good(h), NEW own, NEW lo, LabelsLaid(g, own, lo),
         Extends(g, h), h.labels = g.labels
  PROVE  LabelsLaid(h, own, lo)
<1>1. NextPos(g) \in Nat /\ NextPos(h) \in Nat /\ NextPos(g) <= NextPos(h)
  BY Lengths DEF Extends
<1> SUFFICES ASSUME NEW l \in 0 .. Len(h.labels) - 1, h.labels[l + 1] # -1
             PROVE  /\ h.labels[l + 1] \in 1 .. NextPos(h)
                    /\ own[h.labels[l + 1]] = lo[l]
                    /\ Entry(h, h.labels[l + 1])
  BY DEF LabelsLaid
<1>2. /\ g.labels[l + 1] \in 1 .. NextPos(g)
      /\ own[g.labels[l + 1]] = lo[l]
      /\ Entry(g, g.labels[l + 1])
  BY DEF LabelsLaid
<1>3. g.labels[l + 1] \in 0 .. NextPos(g)
  BY <1>1, <1>2
<1> QED  BY <1>1, <1>2, <1>3 DEF Extends

\* What has been laid stays, when what is added to it can be run.
LEMMA StaysLaid ==
  ASSUME NEW g, Good(g), NEW h, Good(h), NEW bs, NEW own, NEW lo, Laid(g, bs, own, lo),
         Extends(g, h),
         \A i \in 0 .. NextPos(g) - 1 : Ins(h, i) = Ins(g, i),
         Len(g.backpatching_todo) <= Len(h.backpatching_todo),
         \A k \in 1 .. Len(g.backpatching_todo) :
           h.backpatching_todo[k] = g.backpatching_todo[k],
         h.errors = <<>> => g.errors = <<>>,
         h.stack_maps = g.stack_maps, h.funcAddrs = g.funcAddrs,
         \A i \in NextPos(g) .. NextPos(h) - 1 : Sound(h, bs, own, lo, i),
         LabelsLaid(h, own, lo), MarksLaid(h, bs, lo)
  PROVE  Laid(h, bs, own, lo)
<1>1. NextPos(g) \in Nat /\ NextPos(h) \in Nat /\ NextPos(g) <= NextPos(h) /\ NextPos(g) >= 1
      /\ Len(g.labels) \in Nat /\ Len(h.labels) \in Nat /\ Len(g.labels) <= Len(h.labels)
  BY Lengths DEF Extends
<1>2. CodeLaid(h, bs, own, lo)
  <2> SUFFICES ASSUME NEW i \in 1 .. NextPos(h) - 1  PROVE Sound(h, bs, own, lo, i)
    BY DEF CodeLaid
  <2>1. CASE i \in 1 .. NextPos(g) - 1
    BY <2>1, StaysSound
  <2>2. CASE i \in NextPos(g) .. NextPos(h) - 1
    BY <2>2
  <2> QED  BY <1>1, <2>1, <2>2
<1>3. Owned(h, bs, own, lo)
  <2>1. Cur(h, bs) = Cur(g, bs) /\ Len(h.symbols) = Len(g.symbols)
    BY DEF Cur, Extends
  <2>2. Owned(g, bs, own, lo)
    BY DEF Laid
  <2>3. ASSUME NEW i \in Nat, i >= NextPos(h)  PROVE own[i] = Cur(h, bs)
    <3>1. i >= NextPos(g)
      BY <1>1, <2>3
    <3> QED  BY <2>1, <2>2, <3>1 DEF Owned
  <2>4. ASSUME NEW l \in Nat, l >= Len(h.labels)  PROVE lo[l] = Cur(h, bs)
    <3>1. l >= Len(g.labels)
      BY <1>1, <2>4
    <3> QED  BY <2>1, <2>2, <3>1 DEF Owned
  <2> HIDE DEF Cur
  <2> QED  BY <2>1, <2>2, <2>3, <2>4 DEF Owned
<1>4. BodiesLaid(h, bs, own)
  <2> SUFFICES ASSUME NEW k \in 1 .. Len(bs)  PROVE BodyLaid(h, bs[k], own, k)
    BY DEF BodiesLaid
  <2>1. BodyLaid(g, bs[k], own, k)
    BY DEF Laid, BodiesLaid
  <2>2. Entry(g, bs[k].ind) => Entry(h, bs[k].ind)
    BY <1>1, <2>1 DEF Extends, BodyLaid
  <2> QED  BY <1>1, <2>1, <2>2 DEF BodyLaid
<1>5. FunctionsLaid(h, bs)
  BY DEF Laid, FunctionsLaid
<1> QED  BY <1>2, <1>3, <1>4, <1>5 DEF Laid

-----------------------------------------------------------------------------
(* The operations on GenState keep what has been laid *)

\* Errors are noted one after the other.
ErrorsKept(g, h) == IsSeq(g.errors) => IsSeq(h.errors)

\* Nothing becomes a parameter.
ArgsKept(g, h) ==
  \A k \in 1 .. Len(g.symbols) : h.symbols[k].argnum = g.symbols[k].argnum

\* h is what became of f, and what has been laid holds of it.
Built(f, h, bs, own, lo) ==
  /\ Good(f) /\ Open(f) /\ Good(h) /\ Open(h)
  /\ Extends(f, h) /\ ArgsKept(f, h) /\ ErrorsKept(f, h) /\ Laid(h, bs, own, lo)

\* Registers and labels are still there; what comes next belongs to the
\* program being compiled.
LEMMA BuiltFacts ==
  ASSUME NEW f, NEW h, NEW bs, NEW own, NEW lo, Built(f, h, bs, own, lo)
  PROVE  /\ Good(f) /\ Open(f) /\ Good(h) /\ Open(h) /\ Laid(h, bs, own, lo)
         /\ Regs(f) \subseteq Regs(h) /\ Labels(f) \subseteq Labels(h)
         /\ Cur(h, bs) = Cur(f, bs)
         /\ NextPos(h) \in Nat /\ NextPos(h) >= 1 /\ own[NextPos(h)] = Cur(h, bs)
         /\ SizeOf(h, bs, Cur(h, bs)) = Len(RegStates(h)) /\ Len(RegStates(h)) \in Nat
<1>1. /\ Good(f) /\ Open(f) /\ Good(h) /\ Open(h)
      /\ Extends(f, h) /\ Laid(h, bs, own, lo)
  BY DEF Built
<1>2. /\ Len(f.symbols) \in Nat /\ Len(f.symbols) >= 1 /\ Len(h.symbols) = Len(f.symbols)
      /\ Len(f.labels) \in Nat /\ Len(h.labels) \in Nat /\ Len(f.labels) <= Len(h.labels)
      /\ NextPos(h) \in Nat /\ NextPos(h) >= 1
  BY <1>1, Lengths DEF Extends, Open
<1>3. /\ RegStates(f) = f.symbols[Len(f.symbols)].register_state
      /\ RegStates(h) = h.symbols[Len(h.symbols)].register_state
      /\ Len(RegStates(f)) \in Nat /\ Len(RegStates(h)) \in Nat
  BY <1>1, SymbolsFacts DEF RegStates
<1>4. Len(RegStates(f)) <= Len(RegStates(h))
  BY <1>1, <1>2, <1>3 DEF Extends
<1>5. Regs(f) \subseteq Regs(h) /\ Labels(f) \subseteq Labels(h)
  <2>1. ASSUME NEW a, NEW b, a \in Nat, b \in Nat, a <= b  PROVE 0 .. a - 1 \subseteq 0 .. b - 1
    BY <2>1
  <2>2. Len(RegStates(f)) \in Nat /\ Len(RegStates(h)) \in Nat
    BY <1>3
  <2> QED  BY <1>2, <1>4, <2>1, <2>2 DEF Regs, Labels
<1>6. Owned(h, bs, own, lo)
  BY <1>1 DEF Laid
<1>10. IsSeq(bs)
  BY <1>6 DEF Owned
<1>11. Len(bs) \in Nat /\ Len(h.symbols) \in {1, 2}
  BY <1>6, <1>10, SeqFacts DEF Owned
<1>7. own[NextPos(h)] = Cur(h, bs)
  BY <1>2, <1>6 DEF Owned
<1>8. SizeOf(h, bs, Cur(h, bs)) = Len(RegStates(h))
  <2>1. CASE Len(h.symbols) = 2
    <3>1. Cur(h, bs) = Len(bs) + 1 /\ Cur(h, bs) # 0 /\ Cur(h, bs) \notin 1 .. Len(bs)
      BY <1>11, <2>1 DEF Cur
    <3> HIDE DEF Cur
    <3> QED  BY <1>3, <2>1, <3>1 DEF SizeOf
  <2>2. CASE Len(h.symbols) # 2
    <3>1. Cur(h, bs) = 0 /\ Cur(h, bs) \notin 1 .. Len(bs) /\ Len(h.symbols) = 1
      BY <1>11, <2>2 DEF Cur
    <3> HIDE DEF Cur
    <3> QED  BY <1>3, <3>1 DEF SizeOf
  <2> QED  BY <2>1, <2>2
<1>9. Cur(h, bs) = Cur(f, bs)
  BY <1>2 DEF Cur
<1> QED  BY <1>1, <1>2, <1>3, <1>5, <1>7, <1>8, <1>9

\* One after the other.
LEMMA ExtendsTrans ==
  ASSUME NEW f, NEW g, NEW h, Good(f), Good(g), Good(h), Extends(f, g), Extends(g, h)
  PROVE  Extends(f, h)
<1>1. /\ Len(f.symbols) \in Nat /\ Len(g.symbols) \in Nat /\ Len(h.symbols) \in Nat
      /\ Len(f.labels) \in Nat /\ Len(g.labels) \in Nat /\ Len(h.labels) \in Nat
      /\ NextPos(f) \in Nat /\ NextPos(g) \in Nat /\ NextPos(h) \in Nat
  BY Lengths
<1>2. Len(g.symbols) = Len(f.symbols) /\ Len(h.symbols) = Len(f.symbols)
  BY DEF Extends
<1>3. ASSUME NEW k \in 1 .. Len(f.symbols)
      PROVE  Len(f.symbols[k].register_state) <= Len(h.symbols[k].register_state)
  <2>1. /\ Len(f.symbols[k].register_state) \in Nat
        /\ Len(g.symbols[k].register_state) \in Nat
        /\ Len(h.symbols[k].register_state) \in Nat
    BY <1>2, <1>3, Lengths
  <2>2. Len(f.symbols[k].register_state) <= Len(g.symbols[k].register_state)
    BY <1>3 DEF Extends
  <2>3. Len(g.symbols[k].register_state) <= Len(h.symbols[k].register_state)
    BY <1>2, <1>3 DEF Extends
  <2>4. ASSUME NEW a \in Nat, NEW b \in Nat, NEW c \in Nat, a <= b, b <= c  PROVE a <= c
    BY <2>4
  <2> QED  BY <2>1, <2>2, <2>3, <2>4
<1>4. ASSUME NEW i \in 0 .. NextPos(f), Entry(f, i)  PROVE Entry(h, i)
  <2>1. Entry(g, i)
    BY <1>4 DEF Extends
  <2>2. i \in 0 .. NextPos(g)
    BY <1>1, <1>4 DEF Extends
  <2> QED  BY <2>1, <2>2 DEF Extends
<1>5. Len(f.labels) <= Len(h.labels) /\ NextPos(f) <= NextPos(h)
  BY <1>1 DEF Extends
<1> QED  BY <1>2, <1>3, <1>4, <1>5 DEF Extends

LEMMA BuiltTrans ==
  ASSUME NEW f, NEW g, NEW h, NEW bs, NEW own, NEW lo,
         Built(f, g, bs, own, lo), Built(g, h, bs, own, lo)
  PROVE  Built(f, h, bs, own, lo)
<1>1. Extends(f, h)
  BY ExtendsTrans DEF Built
<1>2. ArgsKept(f, h)
  BY DEF Built, ArgsKept, Extends
<1> QED  BY <1>1, <1>2 DEF Built, ErrorsKept

\* Nothing done.
LEMMA BuiltNone ==
  ASSUME NEW g, NEW bs, NEW own, NEW lo, Good(g), Open(g), Laid(g, bs, own, lo)
  PROVE  Built(g, g, bs, own, lo)
<1>1. Extends(g, g)
  BY Lengths DEF Extends
<1> QED  BY <1>1 DEF Built, ArgsKept, ErrorsKept

\* Of symbols only registers are added; errors may be.
LEMMA RegistersLaid ==
  ASSUME NEW g, Good(g), NEW h, Good(h), NEW bs, NEW own, NEW lo, Laid(g, bs, own, lo),
         Keeps(g, h, {"symbols", "errors", "loops", "fs"}),
         h.errors = <<>> => g.errors = <<>>,
         Len(h.symbols) = Len(g.symbols),
         \A k \in 1 .. Len(g.symbols) :
           Len(g.symbols[k].register_state) <= Len(h.symbols[k].register_state),
         MarksLaid(h, bs, lo)
  PROVE  Extends(g, h) /\ Laid(h, bs, own, lo)
<1>1. /\ h.code = g.code /\ h.labels = g.labels /\ h.stack_maps = g.stack_maps
      /\ h.funcAddrs = g.funcAddrs /\ h.backpatching_todo = g.backpatching_todo
  BY DEF Keeps, Fields
<1>2. /\ NextPos(g) \in Nat /\ NextPos(h) = NextPos(g) /\ Len(g.labels) \in Nat
      /\ Len(g.backpatching_todo) \in Nat
  BY <1>1, Lengths DEF NextPos
<1>3. Extends(g, h)
  BY <1>1, <1>2 DEF Extends, Entry, Ins
<1>4. LabelsLaid(h, own, lo)
  BY <1>1, <1>3, LabelsStay DEF Laid
<1>6. Laid(h, bs, own, lo)
  <2>1. \A i \in 0 .. NextPos(g) - 1 : Ins(h, i) = Ins(g, i)
    BY <1>1 DEF Ins
  <2>2. \A i \in NextPos(g) .. NextPos(h) - 1 : Sound(h, bs, own, lo, i)
    BY <1>2
  <2> QED  BY <1>1, <1>2, <1>3, <1>4, <2>1, <2>2, StaysLaid
<1> QED  BY <1>3, <1>6

LEMMA RegistersAdded ==
  ASSUME NEW g, Good(g), NEW h, Good(h), NEW bs, NEW own, NEW lo, Laid(g, bs, own, lo),
         Open(g), Open(h), Keeps(g, h, {"symbols", "errors", "loops", "fs"}),
         h.errors = <<>> => g.errors = <<>>, ErrorsKept(g, h),
         Len(h.symbols) = Len(g.symbols),
         \A k \in 1 .. Len(g.symbols) :
           /\ Len(g.symbols[k].register_state) <= Len(h.symbols[k].register_state)
           /\ h.symbols[k].argnum = g.symbols[k].argnum,
         MarksLaid(h, bs, lo)
  PROVE  Built(g, h, bs, own, lo)
<1>1. Extends(g, h) /\ Laid(h, bs, own, lo)
  BY RegistersLaid
<1> QED  BY <1>1 DEF Built, ArgsKept

\* Code that can be run is added.
LEMMA CodeAdded ==
  ASSUME NEW g, Good(g), NEW h, Good(h), NEW bs, NEW own, NEW lo, Laid(g, bs, own, lo),
         Open(g), Open(h),
         Keeps(g, h, {"code", "line_info", "potential_breaks", "backpatching_todo", "fs"}),
         Len(g.code) <= Len(h.code), \A k \in 1 .. Len(g.code) : h.code[k] = g.code[k],
         Len(g.backpatching_todo) <= Len(h.backpatching_todo),
         \A k \in 1 .. Len(g.backpatching_todo) :
           h.backpatching_todo[k] = g.backpatching_todo[k],
         Entry(h, NextPos(g)),
         \A i \in NextPos(g) .. NextPos(h) - 1 : Sound(h, bs, own, lo, i)
  PROVE  Built(g, h, bs, own, lo)
<1>1. /\ h.symbols = g.symbols /\ h.labels = g.labels /\ h.stack_maps = g.stack_maps
      /\ h.funcAddrs = g.funcAddrs /\ h.errors = g.errors
  BY DEF Keeps, Fields
<1>2. /\ NextPos(g) \in Nat /\ NextPos(h) \in Nat /\ NextPos(g) <= NextPos(h)
      /\ Len(g.labels) \in Nat
      /\ \A k \in 1 .. Len(g.symbols) : Len(g.symbols[k].register_state) \in Nat
  BY Lengths DEF NextPos
<1>3. \A i \in 0 .. NextPos(g) - 1 : Ins(h, i) = Ins(g, i)
  BY <1>2 DEF Ins, NextPos
<1>4. ASSUME NEW i \in 0 .. NextPos(g), Entry(g, i)  PROVE Entry(h, i)
  BY <1>2, <1>3, <1>4 DEF Entry
<1>5. Extends(g, h)
  BY <1>1, <1>2, <1>4 DEF Extends
<1>6. LabelsLaid(h, own, lo)
  BY <1>1, <1>5, LabelsStay DEF Laid
<1>7. MarksLaid(h, bs, lo)
  BY <1>1 DEF MarksLaid, Laid
<1>8. Laid(h, bs, own, lo)
  BY <1>1, <1>3, <1>5, <1>6, <1>7, StaysLaid
<1> QED  BY <1>1, <1>5, <1>8 DEF Built, ArgsKept, ErrorsKept

\* Labels are added, or set to positions of their programs.
LEMMA LabelsChanged ==
  ASSUME NEW g, Good(g), NEW h, Good(h), NEW bs, NEW own, NEW lo, Laid(g, bs, own, lo),
         Open(g), Open(h), Keeps(g, h, {"labels"}),
         Len(g.labels) <= Len(h.labels), LabelsLaid(h, own, lo)
  PROVE  Built(g, h, bs, own, lo)
<1>1. /\ h.code = g.code /\ h.symbols = g.symbols /\ h.stack_maps = g.stack_maps
      /\ h.funcAddrs = g.funcAddrs /\ h.backpatching_todo = g.backpatching_todo
      /\ h.errors = g.errors
  BY DEF Keeps, Fields
<1>2. /\ NextPos(g) \in Nat /\ NextPos(h) = NextPos(g)
      /\ Len(g.backpatching_todo) \in Nat
      /\ \A k \in 1 .. Len(g.symbols) : Len(g.symbols[k].register_state) \in Nat
  BY <1>1, Lengths DEF NextPos
<1>3. Extends(g, h)
  BY <1>1, <1>2 DEF Extends, Entry, Ins
<1>4. MarksLaid(h, bs, lo)
  BY <1>1 DEF MarksLaid, Laid
<1>5. Laid(h, bs, own, lo)
  <2>1. \A i \in 0 .. NextPos(g) - 1 : Ins(h, i) = Ins(g, i)
    BY <1>1 DEF Ins
  <2>2. \A i \in NextPos(g) .. NextPos(h) - 1 : Sound(h, bs, own, lo, i)
    BY <1>2
  <2> QED  BY <1>1, <1>2, <1>3, <1>4, <2>1, <2>2, StaysLaid
<1> QED  BY <1>1, <1>3, <1>5 DEF Built, ArgsKept, ErrorsKept

\* An instruction other than a call, for the program being compiled.
Fitting(x, g, bs, lo) ==
  /\ x.op \notin {"BREAK", "PREPARE_EXEC", "ARG", "EXEC"}
  /\ x.op \in {"ADD_CONST", "TEST", "CONST"} => x.target \in Regs(g)
  /\ x.op \in {"ADD_CONST", "JMPC", "RET"} => x.source \in Regs(g)
  /\ x.op = "TEST" => x.op1 \in Regs(g) /\ x.op2 \in Regs(g)
  /\ x.op = "CONST" /\ g.errors = <<>> => x.constant >= 0
  /\ x.op = "RET" => Len(g.symbols) = 2
  /\ x.op \in {"JMP", "JMPC"} => lo[x.offset] = Cur(g, bs)

\* One fitting instruction is added; a jump waits to be patched.
LEMMA OneAdded ==
  ASSUME NEW g, Good(g), NEW h, Good(h), NEW bs, NEW own, NEW lo, Laid(g, bs, own, lo),
         Open(g), Open(h),
         Keeps(g, h, {"code", "line_info", "potential_breaks", "backpatching_todo", "fs"}),
         NEW x, h.code = Append(g.code, x), Fitting(x, g, bs, lo),
         Len(g.backpatching_todo) <= Len(h.backpatching_todo),
         \A k \in 1 .. Len(g.backpatching_todo) :
           h.backpatching_todo[k] = g.backpatching_todo[k],
         x.op \in {"JMP", "JMPC"} =>
           \E k \in 1 .. Len(h.backpatching_todo) : h.backpatching_todo[k] = NextPos(g)
  PROVE  Built(g, h, bs, own, lo)
<1> DEFINE p == NextPos(g)
<1>1. /\ Len(g.code) \in Nat /\ Len(h.code) = Len(g.code) + 1
      /\ \A k \in 1 .. Len(g.code) : h.code[k] = g.code[k]
      /\ h.code[Len(g.code) + 1] = x
  BY Appended DEF Good
<1>2. h.symbols = g.symbols /\ h.errors = g.errors
  BY DEF Keeps, Fields
<1>3. /\ p \in Nat /\ NextPos(h) = p + 1 /\ Ins(h, p) = x
  BY <1>1 DEF NextPos, Ins
<1>4. Built(g, g, bs, own, lo)
  BY BuiltNone
<1>5. /\ own[p] = Cur(g, bs) /\ SizeOf(g, bs, Cur(g, bs)) = Len(RegStates(g))
      /\ Len(RegStates(g)) \in Nat
  BY <1>4, BuiltFacts
<1>6. own[p + 1] = Cur(g, bs)
  <2>1. p + 1 \in Nat /\ p + 1 >= p
    BY <1>3
  <2> QED  BY <2>1 DEF Laid, Owned
<1>7. SizeOf(h, bs, own[p]) = Len(RegStates(g))
  BY <1>2, <1>5 DEF SizeOf
<1> HIDE DEF p
<1>8. Entry(h, p) /\ Entry(h, p + 1)
  BY <1>3 DEF Entry, Fitting
<1>9. Flows(h, own, p)
  BY <1>3, <1>5, <1>6, <1>8 DEF Flows, Fitting
<1>10. Leads(h, own, lo, p)
  BY <1>3, <1>5 DEF Leads, Fitting, p
<1>11. Touches(h, bs, own, p)
  <2>1. \A r \in Regs(g) : r < Len(RegStates(g))
    BY <1>5 DEF Regs
  <2>2. x.op = "RET" => own[p] # 0
    <3>1. IsSeq(bs)
      BY DEF Laid, Owned
    <3>2. Len(bs) \in Nat
      BY <3>1, SeqFacts
    <3> QED  BY <1>5, <3>2 DEF Fitting, Cur
  <2> QED  BY <1>2, <1>3, <1>7, <2>1, <2>2 DEF Touches, Fitting
<1>12. Calls(h, bs, own, p)
  BY <1>3 DEF Calls, Fitting
<1>13. \A i \in p .. NextPos(h) - 1 : Sound(h, bs, own, lo, i)
  BY <1>3, <1>9, <1>10, <1>11, <1>12 DEF Sound
<1> QED  BY <1>1, <1>8, <1>13, CodeAdded, SMTT(30) DEF p

\* emit()
LEMMA BuildsEmit ==
  ASSUME NEW g, Good(g), Open(g), NEW bs, NEW own, NEW lo, Laid(g, bs, own, lo),
         NEW x \in Instruction, x # PotentialBreak, Fitting(x, g, bs, lo),
         x.op \notin {"JMP", "JMPC"}
  PROVE  Built(g, Emit(g, x), bs, own, lo)
<1> DEFINE h == Emit(g, x)
<1>1. Good(h) /\ Open(h)
  BY EmitOnto DEF Onto
<1>2. h.code = Append(g.code, x) /\ Keeps(g, h, {"code"})
  BY EmitEffect DEF Good
<1> HIDE DEF h
<1>3. h.backpatching_todo = g.backpatching_todo
  BY <1>2 DEF Keeps, Fields
<1>4. Keeps(g, h, {"code", "line_info", "potential_breaks", "backpatching_todo", "fs"})
  BY <1>2 DEF Keeps
<1>5. Len(g.backpatching_todo) \in Nat
  BY Lengths
<1>6. Built(g, h, bs, own, lo)
  BY <1>1, <1>2, <1>3, <1>4, <1>5, OneAdded
<1> QED  BY <1>6 DEF h

\* emitBackpatched()
LEMMA BuildsJump ==
  ASSUME NEW g, Good(g), Open(g), NEW bs, NEW own, NEW lo, Laid(g, bs, own, lo),
         NEW x \in Instruction, IsJump(x, g), Fitting(x, g, bs, lo)
  PROVE  Built(g, EmitBackpatched(g, x), bs, own, lo)
<1> DEFINE h == EmitBackpatched(g, x)
<1>1. Good(h) /\ Open(h)
  BY EmitBackpatchedOnto DEF Onto
<1>2. h.code = Append(g.code, x) /\ Keeps(g, h, {"code", "backpatching_todo"})
  BY EmitBackpatchedGood
<1>3. h.backpatching_todo = Append(g.backpatching_todo, NextPos(g))
  BY DEF EmitBackpatched, Emit, Good, Shape, Fields
<1> HIDE DEF h
<1>4. Keeps(g, h, {"code", "line_info", "potential_breaks", "backpatching_todo", "fs"})
  BY <1>2 DEF Keeps
<1>5. IsSeq(g.backpatching_todo)
  BY DEF Good, Shape
<1>6. /\ Len(g.backpatching_todo) \in Nat
      /\ Len(h.backpatching_todo) = Len(g.backpatching_todo) + 1
      /\ \A k \in 1 .. Len(g.backpatching_todo) :
           h.backpatching_todo[k] = g.backpatching_todo[k]
      /\ h.backpatching_todo[Len(g.backpatching_todo) + 1] = NextPos(g)
  BY <1>3, <1>5, AppendIs, SeqFacts
<1>7. \E k \in 1 .. Len(h.backpatching_todo) : h.backpatching_todo[k] = NextPos(g)
  BY <1>6
<1>8. Len(g.backpatching_todo) <= Len(h.backpatching_todo)
  BY <1>6
<1>9. Built(g, h, bs, own, lo)
  BY <1>1, <1>2, <1>4, <1>6, <1>7, <1>8, OneAdded
<1> QED  BY <1>9 DEF h

\* setFileAndLine(), with the breakpoint it may add.
LEMMA BuildsLine ==
  ASSUME NEW g, Good(g), Open(g), NEW bs, NEW own, NEW lo, Laid(g, bs, own, lo), NEW n
  PROVE  Built(g, AdvanceLine(g, n), bs, own, lo)
<1> DEFINE h == AdvanceLine(g, n)
<1>1. Good(h) /\ Open(h)
  BY AdvanceOnto DEF Onto
<1>2. /\ Keeps(g, h, {"code", "line_info", "potential_breaks", "fs"})
      /\ h.code = g.code \/ h.code = Append(g.code, PotentialBreak)
  BY AdvanceLineGood
<1> HIDE DEF h
<1>3. h.backpatching_todo = g.backpatching_todo
  BY <1>2 DEF Keeps, Fields
<1>4. Keeps(g, h, {"code", "line_info", "potential_breaks", "backpatching_todo", "fs"})
  BY <1>2 DEF Keeps
<1>5. Len(g.backpatching_todo) \in Nat /\ NextPos(g) \in Nat /\ Len(g.code) \in Nat
  BY Lengths DEF NextPos
<1>6. CASE h.code = g.code
  <2>1. Entry(h, NextPos(g)) /\ \A i \in NextPos(g) .. NextPos(h) - 1 : Sound(h, bs, own, lo, i)
    BY <1>5, <1>6 DEF Entry, NextPos
  <2>2. Built(g, h, bs, own, lo)
    BY <1>1, <1>3, <1>4, <1>5, <1>6, <2>1, CodeAdded
  <2> QED  BY <2>2 DEF h
<1>7. CASE h.code = Append(g.code, PotentialBreak)
  <2>1. Fitting(PotentialBreak, g, bs, lo) /\ PotentialBreak.op \notin {"JMP", "JMPC"}
    BY DEF Fitting, PotentialBreak
  <2>2. Built(g, h, bs, own, lo)
    BY <1>1, <1>3, <1>4, <1>5, <1>7, <2>1, OneAdded
  <2> QED  BY <2>2 DEF h
<1> QED  BY <1>2, <1>6, <1>7

-----------------------------------------------------------------------------
\* createLabel(): the label belongs to the program being compiled.
LEMMA BuildsLabel ==
  ASSUME NEW g, Good(g), Open(g), NEW bs, NEW own, NEW lo, Laid(g, bs, own, lo)
  PROVE  /\ Built(g, CreateLabel(g), bs, own, lo)
         /\ lo[NewLabel(g)] = Cur(g, bs)
<1> DEFINE h == CreateLabel(g)
<1>1. Good(h) /\ Open(h) /\ Keeps(g, h, {"labels"}) /\ Len(h.labels) = Len(g.labels) + 1
  BY CreateLabelOnto, CreateLabelGood DEF Onto
<1>2. IsSeq(g.labels) /\ h.labels = Append(g.labels, -1)
  BY DEF CreateLabel, Good, Shape, Fields
<1> HIDE DEF h
<1>3. /\ Len(g.labels) \in Nat
      /\ \A k \in 1 .. Len(g.labels) : h.labels[k] = g.labels[k]
      /\ h.labels[Len(g.labels) + 1] = -1
  BY <1>2, AppendIs, SeqFacts
<1>4. h.code = g.code
  BY <1>1 DEF Keeps, Fields
<1>5. LabelsLaid(h, own, lo)
  <2> SUFFICES ASSUME NEW l \in 0 .. Len(h.labels) - 1, h.labels[l + 1] # -1
               PROVE  /\ h.labels[l + 1] \in 1 .. NextPos(h)
                      /\ own[h.labels[l + 1]] = lo[l]
                      /\ Entry(h, h.labels[l + 1])
    BY DEF LabelsLaid
  <2>1. l \in 0 .. Len(g.labels) - 1 /\ h.labels[l + 1] = g.labels[l + 1]
    <3>1. l # Len(g.labels)
      BY <1>3
    <3>2. Len(h.labels) = Len(g.labels) + 1
      BY <1>1
    <3>3. l \in 0 .. Len(g.labels) - 1 /\ l + 1 \in 1 .. Len(g.labels)
      BY <1>3, <3>1, <3>2
    <3> QED  BY <1>3, <3>3
  <2>2. LabelsLaid(g, own, lo)
    BY DEF Laid
  <2> QED  BY <1>4, <2>1, <2>2 DEF LabelsLaid, NextPos, Entry, Ins
<1>6. Built(g, h, bs, own, lo)
  BY <1>1, <1>3, <1>5, LabelsChanged
<1>7. lo[NewLabel(g)] = Cur(g, bs)
  <2>1. Len(g.labels) \in Nat /\ Len(g.labels) >= Len(g.labels)
    BY <1>3
  <2> QED  BY <2>1 DEF NewLabel, Laid, Owned
<1> QED  BY <1>6, <1>7 DEF h

\* setLabel(), to a position of the label's program.
LEMMA BuildsSetLabel ==
  ASSUME NEW g, Good(g), Open(g), NEW bs, NEW own, NEW lo, Laid(g, bs, own, lo),
         NEW l \in Labels(g), NEW p \in 1 .. NextPos(g), own[p] = lo[l], Entry(g, p)
  PROVE  Built(g, SetLabel(g, l, p), bs, own, lo)
<1> DEFINE h == SetLabel(g, l, p)
<1>0. NextPos(g) \in Nat /\ p \in 0 .. NextPos(g)
  BY Lengths
<1>1. /\ Good(h) /\ Grows(g, h) /\ Keeps(g, h, {"labels"})
      /\ Len(h.labels) = Len(g.labels)
  BY <1>0, SetLabelGood
<1>2. IsSeq(g.labels) /\ h.labels = [g.labels EXCEPT ![l + 1] = p]
  BY DEF SetLabel, Good, Shape, Fields
<1> HIDE DEF h
<1>3. /\ Len(g.labels) \in Nat
      /\ l + 1 \in 1 .. Len(g.labels) => h.labels[l + 1] = p
      /\ \A k \in 1 .. Len(g.labels) : k # l + 1 => h.labels[k] = g.labels[k]
  BY <1>2, ExceptIs, SeqFacts
<1>4. h.code = g.code /\ h.symbols = g.symbols
  BY <1>1 DEF Keeps, Fields
<1>5. LabelsLaid(h, own, lo)
  <2> SUFFICES ASSUME NEW m \in 0 .. Len(h.labels) - 1, h.labels[m + 1] # -1
               PROVE  /\ h.labels[m + 1] \in 1 .. NextPos(h)
                      /\ own[h.labels[m + 1]] = lo[m]
                      /\ Entry(h, h.labels[m + 1])
    BY DEF LabelsLaid
  <2>1. CASE m = l
    <3>1. h.labels[m + 1] = p
      BY <1>1, <1>3, <2>1
    <3> QED  BY <1>4, <2>1, <3>1 DEF NextPos, Entry, Ins
  <2>2. CASE m # l
    <3>1. m + 1 # l + 1
      BY <1>3, <2>2 DEF Labels
    <3>2. m \in 0 .. Len(g.labels) - 1 /\ h.labels[m + 1] = g.labels[m + 1]
      BY <1>1, <1>3, <3>1
    <3>3. LabelsLaid(g, own, lo)
      BY DEF Laid
    <3> QED  BY <1>4, <3>2, <3>3 DEF LabelsLaid, NextPos, Entry, Ins
  <2> QED  BY <2>1, <2>2
<1>6. Open(h) /\ Len(g.labels) <= Len(h.labels)
  BY <1>1, <1>3, <1>4 DEF Open
<1>7. Built(g, h, bs, own, lo)
  BY <1>1, <1>5, <1>6, LabelsChanged
<1> QED  BY <1>7 DEF h

\* A label of the program being compiled is set to where code goes on.
LEMMA BuildsHere ==
  ASSUME NEW g, Good(g), Open(g), NEW bs, NEW own, NEW lo, Laid(g, bs, own, lo),
         NEW l \in Labels(g), lo[l] = Cur(g, bs)
  PROVE  Built(g, SetLabel(g, l, NextPos(g)), bs, own, lo)
<1>1. Built(g, g, bs, own, lo)
  BY BuiltNone
<1>2. NextPos(g) \in 1 .. NextPos(g) /\ own[NextPos(g)] = lo[l]
  BY <1>1, BuiltFacts
<1>3. Entry(g, NextPos(g))
  BY <1>1, BuiltFacts DEF Entry
<1> QED  BY <1>2, <1>3, BuildsSetLabel

\* An error is noted.
LEMMA BuildsErr ==
  ASSUME NEW g, Good(g), Open(g), NEW bs, NEW own, NEW lo, Laid(g, bs, own, lo),
         NEW t, IsSeq(g.errors)
  PROVE  /\ Built(g, Err(g, t), bs, own, lo)
         /\ Err(g, t).errors # <<>> /\ IsSeq(Err(g, t).errors)
<1> DEFINE h == Err(g, t)
<1>1. Good(h) /\ Open(h) /\ Keeps(g, h, {"errors"})
  BY ErrOnto, ErrorsGood DEF Onto, Err
<1>2. h.errors # <<>> /\ IsSeq(h.errors)
  <2> DEFINE e == [k \in 1 .. 1 |-> Error(g, t)]
  <2>1. h.errors = g.errors \o e
    BY DEF Err, Errors, Good, Shape, Fields
  <2>2. IsSeq(e)
    BY FunctionIs
  <2>3. Len(e) = 1
    BY FunctionIs
  <2> HIDE DEF e, h
  <2>4. IsSeq(h.errors) /\ Len(h.errors) = Len(g.errors) + Len(e)
    BY <2>1, <2>2, ConcatIs
  <2>5. Len(g.errors) \in Nat
    BY SeqFacts
  <2>6. Len(h.errors) # 0
    BY <2>3, <2>4, <2>5
  <2>7. h.errors # <<>>
    BY <2>6
  <2> QED  BY <2>4, <2>7
<1> HIDE DEF h
<1>3. h.symbols = g.symbols
  BY <1>1 DEF Keeps, Fields
<1>4. Keeps(g, h, {"symbols", "errors", "loops", "fs"})
  BY <1>1 DEF Keeps
<1>5. \A k \in 1 .. Len(g.symbols) : Len(g.symbols[k].register_state) \in Nat
  BY Lengths
<1>7. MarksLaid(h, bs, lo)
  BY <1>3 DEF MarksLaid, Laid
<1>6. Built(g, h, bs, own, lo)
  BY <1>1, <1>2, <1>3, <1>4, <1>5, <1>7, RegistersAdded DEF ErrorsKept
<1> QED  BY <1>2, <1>6 DEF h

\* Marks of the program being compiled have its labels.
LEMMA MarksOwn ==
  ASSUME NEW g, Good(g), Open(g), NEW bs, NEW own, NEW lo, Laid(g, bs, own, lo)
  PROVE  /\ Cur(g, bs) = IF Len(g.symbols) = 1 THEN 0 ELSE Len(bs) + 1
         /\ \A x \in DOMAIN Symbols(g).marks : lo[Symbols(g).marks[x]] = Cur(g, bs)
<1>1. Len(g.symbols) \in {1, 2} /\ Symbols(g) = g.symbols[Len(g.symbols)]
  BY SymbolsFacts DEF Laid, Owned
<1>2. Cur(g, bs) = IF Len(g.symbols) = 1 THEN 0 ELSE Len(bs) + 1
  BY <1>1, SMTT(30) DEF Cur
<1>3. MarksLaid(g, bs, lo) /\ Len(g.symbols) \in 1 .. Len(g.symbols)
  BY <1>1, SMTT(30) DEF Laid
<1> QED  BY <1>1, <1>2, <1>3 DEF MarksLaid

\* The table of the program being compiled gets more registers and marks.
LEMMA TableLaid ==
  ASSUME NEW g, Good(g), Open(g), NEW bs, NEW own, NEW lo, Laid(g, bs, own, lo),
         NEW s, NEW h, h = WithSymbols(g, s), Good(h),
         Len(RegStates(g)) <= Len(s.register_state),
         \A x \in DOMAIN s.marks : lo[s.marks[x]] = Cur(g, bs)
  PROVE  /\ Extends(g, h) /\ Laid(h, bs, own, lo) /\ Open(h)
         /\ h.errors = g.errors /\ Symbols(g) = g.symbols[Len(g.symbols)]
         /\ h.symbols[Len(g.symbols)] = s
         /\ \A k \in 1 .. Len(g.symbols) : k # Len(g.symbols) => h.symbols[k] = g.symbols[k]
<1>1. IsSeq(g.symbols) /\ h.symbols = [g.symbols EXCEPT ![Len(g.symbols)] = s]
      /\ Keeps(g, h, {"symbols"})
  BY DEF WithSymbols, Good, Shape, Fields, Keeps
<1>2. /\ Len(g.symbols) \in Nat /\ Len(g.symbols) >= 1
      /\ Symbols(g) = g.symbols[Len(g.symbols)]
  BY SymbolsFacts DEF Open
<1>3. /\ Len(h.symbols) = Len(g.symbols)
      /\ h.symbols[Len(g.symbols)] = s
      /\ \A k \in 1 .. Len(g.symbols) : k # Len(g.symbols) => h.symbols[k] = g.symbols[k]
  BY <1>1, <1>2, ExceptIs
<1>4. ASSUME NEW k \in 1 .. Len(g.symbols)
      PROVE  /\ Len(g.symbols[k].register_state) <= Len(h.symbols[k].register_state)
             /\ k # Len(g.symbols) => h.symbols[k].marks = g.symbols[k].marks
  <2>1. CASE k = Len(g.symbols)
    BY <1>2, <1>3, <2>1 DEF RegStates
  <2>2. CASE k # Len(g.symbols)
    <3>1. Len(g.symbols[k].register_state) \in Nat
      BY Lengths
    <3> QED  BY <1>3, <2>2, <3>1
  <2> QED  BY <2>1, <2>2
<1>5. h.errors = g.errors /\ Keeps(g, h, {"symbols", "errors", "loops", "fs"})
  BY <1>1 DEF Keeps, Fields
<1>6. Open(h)
  BY <1>2, <1>3 DEF Open
<1>8. MarksLaid(h, bs, lo)
  <2> SUFFICES ASSUME NEW k \in 1 .. Len(h.symbols), NEW x \in DOMAIN h.symbols[k].marks
               PROVE  lo[h.symbols[k].marks[x]] = IF k = 1 THEN 0 ELSE Len(bs) + 1
    BY DEF MarksLaid
  <2>1. CASE k = Len(g.symbols)
    <3>1. lo[h.symbols[k].marks[x]] = Cur(g, bs)
      BY <1>3, <2>1
    <3>2. Cur(g, bs) = IF k = 1 THEN 0 ELSE Len(bs) + 1
      BY <2>1, MarksOwn
    <3> QED  BY <3>1, <3>2
  <2>2. CASE k # Len(g.symbols)
    <3>1. k \in 1 .. Len(g.symbols) /\ h.symbols[k] = g.symbols[k]
      BY <1>3, <2>2
    <3>2. MarksLaid(g, bs, lo)
      BY DEF Laid
    <3> QED  BY <3>1, <3>2 DEF MarksLaid
  <2> QED  BY <2>1, <2>2
<1>9. Extends(g, h) /\ Laid(h, bs, own, lo)
  BY <1>3, <1>4, <1>5, <1>8, RegistersLaid
<1> QED  BY <1>2, <1>3, <1>5, <1>6, <1>9

LEMMA BuildsTable ==
  ASSUME NEW g, Good(g), Open(g), NEW bs, NEW own, NEW lo, Laid(g, bs, own, lo),
         NEW s, NEW h, h = WithSymbols(g, s), Good(h),
         Len(RegStates(g)) <= Len(s.register_state),
         s.argnum = Symbols(g).argnum,
         \A x \in DOMAIN s.marks : lo[s.marks[x]] = Cur(g, bs)
  PROVE  Built(g, h, bs, own, lo)
<1>1. /\ Extends(g, h) /\ Laid(h, bs, own, lo) /\ Open(h) /\ h.errors = g.errors
      /\ Symbols(g) = g.symbols[Len(g.symbols)] /\ h.symbols[Len(g.symbols)] = s
      /\ \A k \in 1 .. Len(g.symbols) : k # Len(g.symbols) => h.symbols[k] = g.symbols[k]
  BY TableLaid
<1> QED  BY <1>1 DEF Built, ArgsKept, ErrorsKept

\* A register is added,
LEMMA BuildsRegister ==
  ASSUME NEW g, Good(g), Open(g), NEW bs, NEW own, NEW lo, Laid(g, bs, own, lo),
         NEW v, IsRegister(v, g.loops)
  PROVE  Built(g, AddRegister(g, v), bs, own, lo)
<1> DEFINE s == [Symbols(g) EXCEPT !.register_state = Append(@, v)]
<1>1. AddRegister(g, v) = WithSymbols(g, s) /\ Good(AddRegister(g, v))
  BY AddRegisterGood DEF AddRegister
<1>2. IsTable(Symbols(g), g) /\ IsSeq(RegStates(g))
  BY SymbolsFacts
<1>3. /\ s.register_state = Append(RegStates(g), v)
      /\ s.argnum = Symbols(g).argnum /\ s.marks = Symbols(g).marks
  BY <1>2 DEF IsTable, RegStates
<1> HIDE DEF s
<1>4. Len(RegStates(g)) <= Len(s.register_state)
  <2>1. Len(RegStates(g)) \in Nat
    BY <1>2, SeqFacts
  <2>2. Len(s.register_state) = Len(RegStates(g)) + 1
    BY <1>2, <1>3, AppendIs
  <2> QED  BY <2>1, <2>2
<1> QED  BY <1>1, <1>3, <1>4, BuildsTable, MarksOwn

\* or registers are taken or released.
LEMMA BuildsInUse ==
  ASSUME NEW g, Good(g), Open(g), NEW bs, NEW own, NEW lo, Laid(g, bs, own, lo),
         NEW regs, NEW b \in BOOLEAN
  PROVE  Built(g, SetInUse(g, regs, b), bs, own, lo)
<1> DEFINE h == SetInUse(g, regs, b)
           s == Symbols(h)
<1>1. /\ Good(h) /\ Open(h) /\ s.argnum = Symbols(g).argnum /\ s.marks = Symbols(g).marks
      /\ s.register_state = RegStates(h)
  BY SetInUseGood DEF RegStates
<1>2. Len(s.register_state) = Len(RegStates(g))
  BY SetInUseGood DEF RegStates
<1>3. \E x : h = WithSymbols(g, x)
  BY DEF SetInUse
<1>4. PICK x : h = WithSymbols(g, x)
  BY <1>3
<1>5. x = s
  <2>1. IsSeq(g.symbols) /\ h.symbols = [g.symbols EXCEPT ![Len(g.symbols)] = x]
    BY <1>4 DEF WithSymbols, Good, Shape, Fields
  <2> HIDE DEF h
  <2>2. /\ Len(h.symbols) = Len(g.symbols)
        /\ Len(g.symbols) \in 1 .. Len(g.symbols) => h.symbols[Len(g.symbols)] = x
    BY <2>1, ExceptIs
  <2>3. Len(g.symbols) \in Nat /\ Len(g.symbols) >= 1
    BY SymbolsFacts DEF Open
  <2>4. s = h.symbols[Len(h.symbols)]
    BY <1>1, SymbolsFacts
  <2> QED  BY <2>2, <2>3, <2>4
<1> HIDE DEF h, s
<1>6. Len(RegStates(g)) \in Nat
  BY SymbolsFacts
<1>7. Built(g, h, bs, own, lo)
  BY <1>1, <1>2, <1>4, <1>5, <1>6, BuildsTable, MarksOwn
<1> QED  BY <1>7 DEF h

\* fetchTemporary(), fetchVariableRegister() and releaseTemporaries()
LEMMA BuildsTemporary ==
  ASSUME NEW g, Good(g), Open(g), NEW bs, NEW own, NEW lo, Laid(g, bs, own, lo)
  PROVE  Built(g, FetchTemporary(g), bs, own, lo)
<1>1. IsRegister(VReg(TRUE, TRUE, Variable("Temporary Variable")), g.loops)
  <2>1. Len(Variable("Temporary Variable")) # 4
    BY VariableName
  <2> QED  BY <2>1 DEF IsRegister, VReg
<1> QED  BY <1>1, BuildsRegister, BuildsInUse DEF FetchTemporary

LEMMA BuildsVariable ==
  ASSUME NEW g, Good(g), Open(g), NEW bs, NEW own, NEW lo, Laid(g, bs, own, lo),
         NEW name, Len(name) = 4 => name[4] \in 1 .. g.loops
  PROVE  Built(g, FetchVariableRegister(g, name), bs, own, lo)
<1>1. IsRegister(VReg(TRUE, FALSE, name), g.loops)
  BY DEF IsRegister, VReg
<1>2. Built(g, g, bs, own, lo)
  BY BuiltNone
<1> QED  BY <1>1, <1>2, BuildsRegister DEF FetchVariableRegister

LEMMA BuildsRelease ==
  ASSUME NEW g, Good(g), Open(g), NEW bs, NEW own, NEW lo, Laid(g, bs, own, lo), NEW regs
  PROVE  Built(g, ReleaseTemporaries(g, regs), bs, own, lo)
  BY BuildsInUse DEF ReleaseTemporaries

\* The label of a mark is a label of the program being compiled.
LEMMA BuildsMark ==
  ASSUME NEW g, Good(g), Open(g), NEW bs, NEW own, NEW lo, Laid(g, bs, own, lo),
         NEW name
  PROVE  /\ Built(g, WithMark(g, name), bs, own, lo)
         /\ lo[LabelOf(WithMark(g, name), name)] = Cur(g, bs)
<1> DEFINE h == WithMark(g, name)
           m == Symbols(g).marks
<1>0. Good(h) /\ Open(h)
  BY WithMarkGood
<1>1. CASE name \in DOMAIN m
  <2>1. h = g
    BY <1>1 DEF WithMark
  <2>2. lo[LabelOf(g, name)] = Cur(g, bs)
    BY <1>1, MarksOwn DEF LabelOf
  <2> QED  BY <2>1, <2>2, BuiltNone
<1>2. CASE name \notin DOMAIN m
  <2> DEFINE f == CreateLabel(g)
             s == [Symbols(g) EXCEPT !.marks = Bound(@, name, NewLabel(g))]
  <2>1. h = WithSymbols(f, s)
    BY <1>2 DEF WithMark
  <2>2. Built(g, f, bs, own, lo) /\ lo[NewLabel(g)] = Cur(g, bs) /\ Symbols(f) = Symbols(g)
    BY BuildsLabel, CreateLabelOnto
  <2> HIDE DEF f
  <2>3. IsTable(Symbols(g), g)
    BY SymbolsFacts
  <2>4. /\ s.register_state = RegStates(f) /\ s.argnum = Symbols(f).argnum
        /\ s.marks = Bound(m, name, NewLabel(g))
    BY <2>2, <2>3 DEF IsTable, RegStates
  <2> HIDE DEF s, h
  <2>5. Good(f) /\ Open(f) /\ Laid(f, bs, own, lo) /\ Cur(f, bs) = Cur(g, bs)
        /\ Len(RegStates(f)) \in Nat
    BY <2>2, BuiltFacts DEF Built
  <2>6. \A x \in DOMAIN s.marks : lo[s.marks[x]] = Cur(f, bs)
    BY <2>2, <2>4, <2>5, MarksOwn DEF Bound
  <2>7. Built(f, h, bs, own, lo)
    BY <1>0, <2>1, <2>4, <2>5, <2>6, BuildsTable
  <2>8. Built(g, h, bs, own, lo)
    BY <2>2, <2>7, BuiltTrans
  <2>9. lo[LabelOf(h, name)] = Cur(g, bs)
    <3>1. Symbols(h) = s
      <4>1. IsSeq(f.symbols) /\ h.symbols = [f.symbols EXCEPT ![Len(f.symbols)] = s]
        BY <2>1, <2>5 DEF WithSymbols, Good, Shape, Fields
      <4>2. /\ Len(h.symbols) = Len(f.symbols)
            /\ Len(f.symbols) \in 1 .. Len(f.symbols) => h.symbols[Len(f.symbols)] = s
        BY <4>1, ExceptIs
      <4>3. Len(f.symbols) \in Nat /\ Len(f.symbols) >= 1
        BY <2>5, SymbolsFacts DEF Open
      <4>4. Symbols(h) = h.symbols[Len(h.symbols)]
        BY <1>0, SymbolsFacts DEF h
      <4> QED  BY <4>2, <4>3, <4>4
    <3> QED  BY <2>2, <2>4, <3>1 DEF LabelOf, Bound
  <2> QED  BY <2>8, <2>9 DEF h
<1> QED  BY <1>1, <1>2

\* Another loop is counted.
LEMMA BuildsLoop ==
  ASSUME NEW g, Good(g), Open(g), NEW bs, NEW own, NEW lo, Laid(g, bs, own, lo),
         NEW h, h = [g EXCEPT !.loops = @ + 1]
  PROVE  Built(g, h, bs, own, lo)
<1>1. Good(h) /\ Keeps(g, h, {"loops"})
  BY NextLoopGood
<1>2. h.symbols = g.symbols /\ h.errors = g.errors
  BY <1>1 DEF Keeps, Fields
<1>3. Open(h) /\ ErrorsKept(g, h) /\ MarksLaid(h, bs, lo)
  BY <1>2 DEF Open, ErrorsKept, MarksLaid, Laid
<1>4. Keeps(g, h, {"symbols", "errors", "loops", "fs"})
  BY <1>1 DEF Keeps
<1>5. /\ Len(h.symbols) = Len(g.symbols)
      /\ \A k \in 1 .. Len(g.symbols) :
           /\ Len(g.symbols[k].register_state) <= Len(h.symbols[k].register_state)
           /\ h.symbols[k].argnum = g.symbols[k].argnum
  BY ONLY <1>2, Lengths, Good(g)
<1>6. h.errors = <<>> => g.errors = <<>>
  BY ONLY <1>2
<1> QED  BY ONLY Good(g), Open(g), Laid(g, bs, own, lo), <1>1, <1>3, <1>4, <1>5, <1>6, RegistersAdded

\* The last of n + 2 positions.
LEMMA LastOf == ASSUME NEW a \in Nat, NEW n \in Nat, NEW x, x = a + n + 2
  PROVE /\ a + (n + 1) = a + n + 1 /\ a + (n + 1) \in Nat /\ a + (n + 1) + 1 = x
        /\ n + 1 \in 1 .. n + 1
  OBVIOUS

-----------------------------------------------------------------------------
\* Positions behind a.
LEMMA Behind ==
  ASSUME NEW a \in Nat, a >= 1, NEW n \in Nat
  PROVE  /\ \A k \in 1 .. n + 1 : a + k \in Nat /\ a + k >= a /\ a \in 1 .. (a + k) - 1
         /\ \A k \in 1 .. n + 1 : \A x \in a + 1 .. (a + k) - 1 : \E m \in 1 .. n : x = a + m
         /\ \A x \in a .. a + n + 1 :
              x = a \/ x = a + n + 1 \/ \E m \in 1 .. n : x = a + m
         /\ \A k \in 1 .. n + 1 : k \in 1 .. n \/ k = n + 1
         /\ (a + n + 1) + 1 \in Nat /\ (a + n + 1) + 1 >= a
<1>1. ASSUME NEW k \in 1 .. n + 1, NEW x \in a + 1 .. (a + k) - 1
      PROVE  \E m \in 1 .. n : x = a + m
  <2>1. x - a \in 1 .. n /\ x = a + (x - a)
    OBVIOUS
  <2> QED  BY <2>1
<1>2. ASSUME NEW x \in a .. a + n + 1, x # a, x # a + n + 1
      PROVE  \E m \in 1 .. n : x = a + m
  <2>1. x - a \in 1 .. n /\ x = a + (x - a)
    BY <1>2
  <2> QED  BY <2>1
<1>3. ASSUME NEW k \in 1 .. n + 1
      PROVE  a + k \in Nat /\ a + k >= a /\ a \in 1 .. (a + k) - 1 /\ (k \in 1 .. n \/ k = n + 1)
  OBVIOUS
<1>4. (a + n + 1) + 1 \in Nat /\ (a + n + 1) + 1 >= a
  OBVIOUS
<1> QED  BY <1>1, <1>2, <1>3, <1>4

\* The code of a call of p with the n registers args.
CallCode(h, at, p, tgt, args, n) ==
  /\ NextPos(h) = at + n + 2
  /\ Ins(h, at) = PrepareExec(p.stack_size, p.mi, tgt)
  /\ \A k \in 1 .. n : Ins(h, at + k) = Arg(k - 1, args[k])
  /\ Ins(h, at + n + 1) = Exec(p.ind)

\* A call of a finished program, with as many arguments as it has, is added.
LEMMA BuildsCall ==
  ASSUME NEW g, Good(g), Open(g), NEW bs, NEW own, NEW lo, Laid(g, bs, own, lo),
         NEW h, Good(h), Open(h), Keeps(g, h, {"code"}),
         \A k \in 1 .. Len(g.code) : h.code[k] = g.code[k],
         NEW name \in DOMAIN g.funcAddrs, NEW p, p = g.funcAddrs[name],
         NEW tgt \in Regs(g), NEW n \in Nat, n = p.argnum,
         NEW args, \A k \in 1 .. n : args[k] \in Regs(g),
         CallCode(h, NextPos(g), p, tgt, args, n)
  PROVE  Built(g, h, bs, own, lo)
<1> DEFINE at == NextPos(g)
           b == bs[p.mi + 1]
<1>1. Built(g, g, bs, own, lo)
  BY BuiltNone
<1>2. /\ at \in Nat /\ at >= 1 /\ Len(g.code) = at /\ NextPos(h) = at + n + 2
      /\ Len(h.code) = at + n + 2
  BY <1>1, BuiltFacts DEF NextPos, CallCode
<1>3. \A i \in Nat : i >= at => own[i] = Cur(g, bs)
  BY DEF Laid, Owned
<1>4. /\ SizeOf(g, bs, Cur(g, bs)) = Len(RegStates(g)) /\ Len(RegStates(g)) \in Nat
  BY <1>1, BuiltFacts
<1>5. /\ h.symbols = g.symbols /\ h.errors = g.errors
      /\ h.backpatching_todo = g.backpatching_todo
  BY DEF Keeps, Fields
<1>6. SizeOf(h, bs, Cur(g, bs)) = Len(RegStates(g))
  BY <1>4, <1>5 DEF SizeOf
<1>7. \A r \in Regs(g) : r < Len(RegStates(g))
  BY <1>4 DEF Regs
<1>8. IsSeq(bs)
  BY DEF Laid, Owned
<1>9. Len(bs) \in Nat
  BY <1>8, SeqFacts
<1>10. /\ p.mi \in Nat /\ p.mi + 1 \in 1 .. Len(bs) /\ p.ind = b.ind /\ p.stack_size = b.size
       /\ n <= b.size /\ b.size \in Nat
  <2>1. FunctionsLaid(g, bs) /\ BodiesLaid(g, bs, own) /\ FunctionsTyped(g)
    BY DEF Laid, Good
  <2>2. /\ p.mi \in Nat /\ p.mi + 1 \in 1 .. Len(bs) /\ p.ind = b.ind /\ p.stack_size = b.size
        /\ p.argnum <= p.stack_size
    BY <2>1 DEF FunctionsLaid, FunctionsTyped
  <2>3. b.size \in Nat
    BY <2>1, <2>2 DEF BodiesLaid, BodyLaid
  <2> QED  BY <2>2, <2>3
<1>11. Cur(g, bs) = 0 \/ p.mi + 1 < Cur(g, bs)
  BY <1>9, <1>10 DEF Cur
<1> HIDE DEF b
<1>12. /\ Ins(h, at) = PrepareExec(p.stack_size, p.mi, tgt)
       /\ \A k \in 1 .. n : Ins(h, at + k) = Arg(k - 1, args[k])
       /\ Ins(h, at + n + 1) = Exec(p.ind)
  BY DEF CallCode
<1> HIDE DEF at
<1>13. \A k \in 1 .. n + 1 : Ins(h, at + k).op \in {"ARG", "EXEC"}
  <2> SUFFICES ASSUME NEW k \in 1 .. n + 1  PROVE Ins(h, at + k).op \in {"ARG", "EXEC"}
    OBVIOUS
  <2>1. CASE k \in 1 .. n
    <3>1. Ins(h, at + k) = Arg(k - 1, args[k])
      BY <1>12, <2>1
    <3>2. Arg(k - 1, args[k]).op = "ARG"
      BY DEF Arg
    <3> QED  BY <3>1, <3>2
  <2>2. CASE k = n + 1
    <3>1. at + k = at + n + 1
      BY <1>2, <2>2
    <3> QED  BY <1>12, <3>1 DEF Exec
  <2> QED  BY <2>1, <2>2, <1>2, Behind
<1>14. Sound(h, bs, own, lo, at)
  <2>1. Flows(h, own, at)
    <3>1. at + 1 < NextPos(h) /\ at + 1 \in Nat /\ at + 1 >= at
      BY <1>2
    <3>2. own[at + 1] = own[at]
      BY <1>2, <1>3, <3>1
    <3>3. 1 \in 1 .. n + 1
      OBVIOUS
    <3>4. Ins(h, at + 1).op \in {"ARG", "EXEC"}
      BY <1>13, <3>3
    <3> QED  BY <1>12, <3>1, <3>2, <3>4 DEF Flows, PrepareExec
  <2>2. Leads(h, own, lo, at)
    BY <1>12 DEF Leads, PrepareExec
  <2>3. own[at] = Cur(g, bs)
    BY <1>2, <1>3
  <2>4. Touches(h, bs, own, at)
    BY <1>6, <1>7, <1>12, <2>3 DEF Touches, PrepareExec
  <2>5. Calls(h, bs, own, at)
    BY <1>10, <1>11, <1>12, <2>3 DEF Calls, PrepareExec, b
  <2> QED  BY <2>1, <2>2, <2>4, <2>5 DEF Sound
<1>15. ASSUME NEW k \in 1 .. n + 1
       PROVE  /\ at + k \in Nat /\ at + k >= at /\ own[at + k] = Cur(g, bs)
              /\ at \in 1 .. (at + k) - 1 /\ Opens(h, at, at + k)
              /\ Ins(h, at).index + 1 = p.mi + 1
  <2>1. at + k \in Nat /\ at + k >= at /\ at \in 1 .. (at + k) - 1
    BY <1>2, Behind
  <2>2. own[at + k] = Cur(g, bs)
    BY <1>3, <2>1
  <2>3. ASSUME NEW x \in at + 1 .. (at + k) - 1  PROVE Ins(h, x).op = "ARG"
    <3>1. PICK m \in 1 .. n : x = at + m
      BY <1>2, Behind
    <3>2. Ins(h, at + m) = Arg(m - 1, args[m])
      BY <1>12
    <3>3. Arg(m - 1, args[m]).op = "ARG"
      BY DEF Arg
    <3> QED  BY <3>1, <3>2, <3>3
  <2>4. Opens(h, at, at + k)
    BY <1>12, <2>3 DEF Opens, PrepareExec
  <2>5. Ins(h, at).index + 1 = p.mi + 1
    BY <1>12 DEF PrepareExec
  <2> QED  BY <2>1, <2>2, <2>4, <2>5
<1>16. ASSUME NEW k \in 1 .. n  PROVE Sound(h, bs, own, lo, at + k)
  <2>1. k \in 1 .. n + 1 /\ k + 1 \in 1 .. n + 1 /\ (at + k) + 1 = at + (k + 1)
        /\ at + (k + 1) < NextPos(h)
    BY <1>2
  <2>2. Ins(h, at + k) = Arg(k - 1, args[k])
    BY <1>12
  <2>3. Flows(h, own, at + k)
    <3>1. own[at + (k + 1)] = own[at + k]
      BY <1>15, <2>1
    <3>2. Ins(h, at + (k + 1)).op \in {"ARG", "EXEC"}
      BY <1>13, <2>1
    <3> QED  BY <2>1, <2>2, <3>1, <3>2 DEF Flows, Arg
  <2>4. Leads(h, own, lo, at + k)
    BY <2>2 DEF Leads, Arg
  <2>5. own[at + k] = Cur(g, bs)
    BY <1>15, <2>1
  <2>6. Touches(h, bs, own, at + k)
    BY <1>6, <1>7, <2>2, <2>5 DEF Touches, Arg
  <2>7. Calls(h, bs, own, at + k)
    <3>1. k - 1 < b.size
      BY <1>10
    <3>2. /\ at \in 1 .. (at + k) - 1 /\ Opens(h, at, at + k)
          /\ Ins(h, at).index + 1 = p.mi + 1
      BY <1>15, <2>1
    <3>3. /\ Ins(h, at + k).op = "ARG" => Ins(h, at + k).target < bs[Ins(h, at).index + 1].size
          /\ Ins(h, at + k).op = "EXEC" => Ins(h, at + k).entry = bs[Ins(h, at).index + 1].ind
      BY <2>2, <3>1, <3>2 DEF Arg, b
    <3>4. Ins(h, at + k).op # "PREPARE_EXEC"
      BY <2>2 DEF Arg
    <3> QED  BY <3>2, <3>3, <3>4 DEF Calls
  <2> QED  BY <2>3, <2>4, <2>6, <2>7 DEF Sound
<1>17. Sound(h, bs, own, lo, at + n + 1)
  <2> DEFINE e == at + (n + 1)
  <2>1. e = at + n + 1 /\ e \in Nat /\ e + 1 = NextPos(h) /\ n + 1 \in 1 .. n + 1
    <3>1. at \in Nat /\ NextPos(h) = at + n + 2
      BY <1>2
    <3> QED  BY <3>1, LastOf
  <2>2. /\ own[e] = Cur(g, bs) /\ at \in 1 .. e - 1 /\ Opens(h, at, e)
        /\ Ins(h, at).index + 1 = p.mi + 1 /\ e >= at
    BY <1>15, <2>1
  <2> HIDE DEF e
  <2>3. Ins(h, e) = Exec(p.ind)
    BY <1>12, <2>1
  <2>4. Flows(h, own, e)
    <3>1. own[e + 1] = Cur(g, bs)
      <4>1. e + 1 \in Nat /\ e + 1 >= at
        BY <1>2, <2>1, Behind
      <4> QED  BY <1>3, <4>1
    <3>2. Entry(h, e + 1)
      BY <1>2, <2>1 DEF Entry
    <3> QED  BY <2>2, <2>3, <3>1, <3>2 DEF Flows, Exec
  <2>5. Leads(h, own, lo, e) /\ Touches(h, bs, own, e)
    BY <2>3 DEF Leads, Touches, Exec
  <2>6. Calls(h, bs, own, e)
    <3>1. /\ Ins(h, e).op = "ARG" => Ins(h, e).target < bs[Ins(h, at).index + 1].size
          /\ Ins(h, e).op = "EXEC" => Ins(h, e).entry = bs[Ins(h, at).index + 1].ind
      BY <1>10, <2>2, <2>3 DEF Exec, b
    <3>2. Ins(h, e).op # "PREPARE_EXEC"
      BY <2>3 DEF Exec
    <3> QED  BY <2>2, <3>1, <3>2 DEF Calls
  <2> QED  BY <2>1, <2>4, <2>5, <2>6 DEF Sound
<1>18. ASSUME NEW i \in at .. NextPos(h) - 1  PROVE Sound(h, bs, own, lo, i)
  <2>1. CASE i = at
    BY <1>14, <2>1
  <2>2. CASE i = at + n + 1
    BY <1>17, <2>2
  <2>3. CASE i # at /\ i # at + n + 1
    <3>1. i \in at .. at + n + 1
      BY <1>2
    <3>2. \A x \in at .. at + n + 1 :
            x = at \/ x = at + n + 1 \/ \E k \in 1 .. n : x = at + k
      BY <1>2, Behind, ZenonT(30)
    <3>3. PICK k \in 1 .. n : i = at + k
      BY <2>3, <3>1, <3>2, Zenon
    <3> QED  BY <1>16, <3>3
  <2> QED  BY <2>1, <2>2, <2>3
<1>19. Entry(h, at)
  BY <1>12 DEF Entry, PrepareExec
<1>20. /\ Keeps(g, h, {"code", "line_info", "potential_breaks", "backpatching_todo", "fs"})
       /\ Len(g.backpatching_todo) \in Nat
  BY Lengths DEF Keeps
<1>21. /\ Len(g.code) <= Len(h.code)
       /\ Len(g.backpatching_todo) <= Len(h.backpatching_todo)
       /\ \A k \in 1 .. Len(g.backpatching_todo) :
            h.backpatching_todo[k] = g.backpatching_todo[k]
  BY <1>2, <1>5, <1>20
<1> QED  BY <1>18, <1>19, <1>20, <1>21, CodeAdded DEF at

-----------------------------------------------------------------------------
(* What the calls on the stack promise *)

\* A loop that has begun has labels of the program being compiled.  The
\* label behind a definition is one of the root program.  The code of the
\* definition is to begin at the end of the code as long as its parameters
\* are counted; afterwards it has begun at ind.
TaskLaid(t, g, bs, own, lo) ==
  /\ t.call \in {"while", "endwhile", "endloop"} =>
       lo[t.start] = Cur(g, bs) /\ lo[t.end] = Cur(g, bs)
  /\ t.call \in Definition => Len(g.symbols) = 2 /\ lo[t.after] = 0
  /\ t.call = "program" =>
       /\ NextPos(g) >= 2
       /\ \A i \in Nat : own[i] = Len(bs) + 1 <=> i >= NextPos(g)
  /\ t.call = "endprogram" =>
       /\ t.ind \in Nat /\ 2 <= t.ind /\ t.ind <= NextPos(g) /\ Entry(g, t.ind)
       /\ \A i \in Nat : own[i] = Len(bs) + 1 <=> i >= t.ind
       /\ g.symbols[2].argnum <= Len(g.symbols[2].register_state)

\* Parameters are dispatched before the body of their definition is, and
\* nothing else is.
Heads(w) ==
  \A k \in 1 .. Len(w) : w[k].call \in Definition =>
    \A j \in 1 .. k - 1 : w[j].call = "args" <=> w[k].call = "program"

WorkLaid(w, g, bs, own, lo) ==
  Heads(w) /\ \A k \in 1 .. Len(w) : TaskLaid(w[k], g, bs, own, lo)

\* The errors are a vector; what stands there of a text that could not be
\* parsed is the parser's, and nothing is compiled.
Noted(g, w) == IsSeq(g.errors) \/ (w = <<>> /\ NextPos(g) = 1)

\* The invariant, but for who owns what.
Promise(g, w, bs, own, lo) ==
  Laid(g, bs, own, lo) /\ WorkLaid(w, g, bs, own, lo) /\ Noted(g, w)

\* A call that is no part of a definition, and may be made.
Load(x, h, bs, lo) ==
  /\ x.call \notin {"args"} \cup Definition
  /\ x.call \in {"while", "endwhile", "endloop"} =>
       lo[x.start] = Cur(h, bs) /\ lo[x.end] = Cur(h, bs)

Loaded(t, h, bs, lo) == IsSeq(t) /\ \A k \in 1 .. Len(t) : Load(t[k], h, bs, lo)

\* What a call promises stays true.
LEMMA TaskStays ==
  ASSUME NEW g, Good(g), NEW h, Good(h), NEW bs, NEW own, NEW lo, Extends(g, h),
         NEW t, TaskLaid(t, g, bs, own, lo),
         t.call = "program" => NextPos(h) = NextPos(g),
         t.call = "endprogram" => ArgsKept(g, h)
  PROVE  TaskLaid(t, h, bs, own, lo)
<1>1. Cur(h, bs) = Cur(g, bs) /\ Len(h.symbols) = Len(g.symbols)
  BY DEF Cur, Extends
<1>2. CASE t.call \notin Definition
  BY <1>1, <1>2 DEF TaskLaid, Definition
<1>3. CASE t.call = "program"
  BY <1>1, <1>3 DEF TaskLaid, Definition
<1>4. CASE t.call = "endprogram"
  <2>1. Len(g.symbols) = 2 /\ 2 \in 1 .. Len(g.symbols) /\ 2 \in 1 .. Len(h.symbols)
    BY <1>1, <1>4 DEF TaskLaid, Definition
  <2>2. /\ Len(g.symbols[2].register_state) \in Nat
        /\ Len(h.symbols[2].register_state) \in Nat
        /\ NextPos(g) \in Nat /\ NextPos(h) \in Nat
    BY <2>1, Lengths
  <2>3. g.symbols[2].argnum \in Nat
    BY <2>1 DEF Good, Tables, IsTable
  <2>4. /\ h.symbols[2].argnum = g.symbols[2].argnum
        /\ Len(g.symbols[2].register_state) <= Len(h.symbols[2].register_state)
        /\ NextPos(g) <= NextPos(h)
    BY <1>4, <2>1 DEF Extends, ArgsKept
  <2>5. /\ t.ind \in Nat /\ 2 <= t.ind /\ t.ind <= NextPos(g) /\ Entry(g, t.ind)
        /\ g.symbols[2].argnum <= Len(g.symbols[2].register_state)
    BY <1>4 DEF TaskLaid
  <2>6. h.symbols[2].argnum <= Len(h.symbols[2].register_state)
    <3>1. \A a, b, c \in Nat : a <= b /\ b <= c => a <= c
      OBVIOUS
    <3>2. g.symbols[2].argnum <= Len(h.symbols[2].register_state)
      BY <2>2, <2>3, <2>4, <2>5, <3>1, Zenon
    <3> QED  BY <2>4, <3>2
  <2>7. t.ind <= NextPos(h) /\ t.ind \in 0 .. NextPos(g)
    BY <2>2, <2>4, <2>5
  <2>8. Entry(h, t.ind)
    BY <2>5, <2>7 DEF Extends
  <2> QED  BY <1>1, <1>4, <2>5, <2>6, <2>7, <2>8 DEF TaskLaid, Definition
<1> QED  BY <1>2, <1>3, <1>4 DEF Definition

\* Another call takes the place of the first.
LEMMA WorkSplice ==
  ASSUME NEW g, Good(g), NEW h, Good(h), NEW bs, NEW own, NEW lo, Extends(g, h),
         NEW w, IsSeq(w), w # <<>>, WorkLaid(w, g, bs, own, lo),
         w[1].call \notin Definition,
         w[1].call = "args" => NextPos(h) = NextPos(g),
         w[1].call # "args" => ArgsKept(g, h),
         NEW t, IsSeq(t),
         \A k \in 1 .. Len(t) :
           /\ TaskLaid(t[k], h, bs, own, lo) /\ t[k].call \notin Definition
           /\ t[k].call = "args" <=> w[1].call = "args",
         NEW v, Splice(v, t, w)
  PROVE  WorkLaid(v, h, bs, own, lo)
<1>1. /\ Len(w) \in Nat /\ Len(w) >= 1 /\ Len(t) \in Nat
      /\ Len(v) = Len(t) + Len(w) - 1
      /\ \A k \in 1 .. Len(t) : k \in 1 .. Len(v) /\ v[k] = t[k]
      /\ \A j \in 2 .. Len(w) : Len(t) + j - 1 \in 1 .. Len(v)
                                /\ v[Len(t) + j - 1] = w[j]
      /\ \A k \in 1 .. Len(v) :
           \/ k \in 1 .. Len(t) /\ v[k] = t[k]
           \/ \E j \in 2 .. Len(w) : k = Len(t) + j - 1 /\ v[k] = w[j]
  BY Spliced
<1>2. Heads(w) /\ \A k \in 1 .. Len(w) : TaskLaid(w[k], g, bs, own, lo)
  BY DEF WorkLaid
<1>3. ASSUME NEW k \in 2 .. Len(w), w[k].call \in Definition
      PROVE  w[1].call = "args" <=> w[k].call = "program"
  <2>1. k \in 1 .. Len(w) /\ 1 \in 1 .. k - 1
    BY <1>1
  <2> QED  BY <1>2, <1>3, <2>1 DEF Heads
<1>4. ASSUME NEW k \in 1 .. Len(v)  PROVE TaskLaid(v[k], h, bs, own, lo)
  <2>1. CASE k \in 1 .. Len(t) /\ v[k] = t[k]
    BY <2>1
  <2>2. ASSUME NEW j \in 2 .. Len(w), v[k] = w[j]  PROVE TaskLaid(v[k], h, bs, own, lo)
    <3>1. j \in 1 .. Len(w)
      BY <1>1
    <3>2. TaskLaid(w[j], g, bs, own, lo)
      BY <1>2, <3>1
    <3>3. w[j].call \in Definition => (w[1].call = "args" <=> w[j].call = "program")
      BY <1>3
    <3>4. TaskLaid(w[j], h, bs, own, lo)
      BY <3>2, <3>3, TaskStays DEF Definition
    <3> QED  BY <2>2, <3>4
  <2> QED  BY <1>1, <2>1, <2>2
<1>5. ASSUME NEW k \in 1 .. Len(v), v[k].call \in Definition, NEW j \in 1 .. k - 1
      PROVE  v[j].call = "args" <=> v[k].call = "program"
  <2>1. PICK x \in 2 .. Len(w) : k = Len(t) + x - 1 /\ v[k] = w[x]
    BY <1>1, <1>5
  <2>2. w[x].call \in Definition /\ x \in 1 .. Len(w)
    BY <1>1, <1>5, <2>1
  <2>3. CASE j \in 1 .. Len(t)
    <3>1. v[j].call = "args" <=> w[1].call = "args"
      BY <1>1, <2>3
    <3> QED  BY <1>3, <2>1, <2>2, <3>1
  <2>4. CASE j \notin 1 .. Len(t)
    <3>1. j \in 1 .. Len(v)
      BY <1>1
    <3>2. PICK y \in 2 .. Len(w) : j = Len(t) + y - 1 /\ v[j] = w[y]
      BY <1>1, <2>4, <3>1
    <3>3. y \in 1 .. x - 1
      BY <1>1, <2>1, <3>2
    <3>4. w[y].call = "args" <=> w[x].call = "program"
      BY <1>2, <2>2, <3>3 DEF Heads
    <3> QED  BY <2>1, <3>2, <3>4
  <2> QED  BY <2>3, <2>4
<1> QED  BY <1>4, <1>5 DEF WorkLaid, Heads

-----------------------------------------------------------------------------
(* Steps of the traversal below a statement *)

\* Calls only, one after the other.
LEMMA LoadedNone ==
  ASSUME NEW h, NEW bs, NEW lo
  PROVE  Loaded(<<>>, h, bs, lo)
  BY NoneIs DEF Loaded

LEMMA LoadedOne ==
  ASSUME NEW h, NEW bs, NEW lo, NEW x, Load(x, h, bs, lo)
  PROVE  Loaded(<<x>>, h, bs, lo)
<1>1. IsSeq(<<x>>) /\ Len(<<x>>) = 1 /\ <<x>>[1] = x
  BY OneIs
<1>2. \A k \in 1 .. Len(<<x>>) : <<x>>[k] = x
  BY <1>1
<1> DEFINE t == <<x>>
<1> HIDE DEF t
<1>3. Loaded(t, h, bs, lo)
  BY <1>1, <1>2 DEF Loaded, t
<1> QED  BY <1>3 DEF t

LEMMA LoadedVoid ==
  ASSUME NEW h, NEW bs, NEW lo, NEW n
  PROVE  Loaded(DispatchVoid(n), h, bs, lo)
<1> DEFINE x == [call |-> "void", node |-> n]
<1>1. Load(x, h, bs, lo)
  BY DEF Load, Definition
<1> HIDE DEF x
<1>2. DispatchVoid(n) = <<>> \/ DispatchVoid(n) = <<x>>
  BY DEF DispatchVoid, x
<1> QED  BY <1>1, <1>2, LoadedNone, LoadedOne

LEMMA LoadedValue ==
  ASSUME NEW h, NEW bs, NEW lo, NEW n, NEW r
  PROVE  Loaded(DispatchValue(n, r), h, bs, lo)
<1> DEFINE x == [call |-> "value", node |-> n, tgt |-> r]
<1>1. Load(x, h, bs, lo)
  BY DEF Load, Definition
<1> HIDE DEF x
<1>2. DispatchValue(n, r) = <<>> \/ DispatchValue(n, r) = <<x>>
  BY DEF DispatchValue, x
<1> QED  BY <1>1, <1>2, LoadedNone, LoadedOne

LEMMA LoadedCallArgs ==
  ASSUME NEW h, NEW bs, NEW lo, NEW n
  PROVE  Loaded(DispatchCallArgs(n), h, bs, lo)
<1> DEFINE x == [call |-> "callargs", node |-> n]
<1>1. Load(x, h, bs, lo)
  BY DEF Load, Definition
<1> HIDE DEF x
<1>2. DispatchCallArgs(n) = <<>> \/ DispatchCallArgs(n) = <<x>>
  BY DEF DispatchCallArgs, x
<1> QED  BY <1>1, <1>2, LoadedNone, LoadedOne

LEMMA LoadedConcat ==
  ASSUME NEW h, NEW bs, NEW lo, NEW a, Loaded(a, h, bs, lo), NEW b, Loaded(b, h, bs, lo)
  PROVE  Loaded(a \o b, h, bs, lo)
<1>0. IsSeq(a) /\ IsSeq(b)
  BY DEF Loaded
<1>1. /\ IsSeq(a \o b) /\ Len(a \o b) = Len(a) + Len(b)
      /\ \A k \in 1 .. Len(a) : (a \o b)[k] = a[k]
      /\ \A k \in Len(a) + 1 .. Len(a) + Len(b) : (a \o b)[k] = b[k - Len(a)]
      /\ Len(a) \in Nat /\ Len(b) \in Nat
  BY <1>0, ConcatIs, SeqFacts
<1> DEFINE c == a \o b
<1> HIDE DEF c
<1>2. ASSUME NEW k \in 1 .. Len(c)  PROVE Load(c[k], h, bs, lo)
  <2>1. CASE k \in 1 .. Len(a)
    <3>1. c[k] = a[k]
      BY <1>1, <2>1 DEF c
    <3> QED  BY <2>1, <3>1 DEF Loaded
  <2>2. CASE k \notin 1 .. Len(a)
    <3>1. PICK j \in 1 .. Len(b) : j = k - Len(a) /\ k \in Len(a) + 1 .. Len(a) + Len(b)
      BY <1>1, <2>2 DEF c
    <3>2. c[k] = b[j]
      BY <1>1, <3>1 DEF c
    <3> QED  BY <3>2 DEF Loaded
  <2> QED  BY <2>1, <2>2
<1> QED  BY <1>1, <1>2 DEF Loaded, c

\* Before a call is made, what there is promises.
LEMMA AtPromise ==
  ASSUME Inv, outcome = "running", work # <<>>,
         NEW own, NEW lo, Promise(gs, work, bodies, own, lo)
  PROVE  /\ Good(gs) /\ Open(gs) /\ Laid(gs, bodies, own, lo)
         /\ WorkLaid(work, gs, bodies, own, lo) /\ TaskLaid(work[1], gs, bodies, own, lo)
         /\ IsSeq(gs.errors) /\ IsSeq(work) /\ Task = work[1]
         /\ Built(gs, gs, bodies, own, lo) /\ Built(gs, AtLine, bodies, own, lo)
<1>1. /\ Good(gs) /\ Open(gs) /\ IsSeq(work) /\ Task = work[1] /\ 1 \in 1 .. Len(work)
  BY AtTask
<1>2. /\ Laid(gs, bodies, own, lo) /\ WorkLaid(work, gs, bodies, own, lo)
      /\ IsSeq(gs.errors)
  BY DEF Promise, Noted
<1>3. TaskLaid(work[1], gs, bodies, own, lo)
  BY <1>1, <1>2 DEF WorkLaid
<1>4. Built(gs, gs, bodies, own, lo) /\ Built(gs, AtLine, bodies, own, lo)
  BY <1>1, <1>2, BuiltNone, BuildsLine DEF AtLine
<1> QED  BY <1>1, <1>2, <1>3, <1>4

\* A step that adds to GenState what can be run and goes on with calls.
LEMMA GoesLoaded ==
  ASSUME Inv, outcome = "running", work # <<>>,
         NEW own, NEW lo, Promise(gs, work, bodies, own, lo),
         Task.call \notin {"args"} \cup Definition,
         NEW h, Built(gs, h, bodies, own, lo),
         NEW t, Loaded(t, h, bodies, lo), Stmt(h, t)
  PROVE  Promise(gs', work', bodies', own, lo)
<1>1. gs' = h /\ bodies' = bodies /\ Splice(work', t, work)
  BY DEF Stmt, Then, Splice
<1>2. /\ Good(gs) /\ WorkLaid(work, gs, bodies, own, lo) /\ IsSeq(gs.errors)
      /\ IsSeq(work) /\ Task = work[1]
  BY AtPromise
<1>3. /\ Good(h) /\ Extends(gs, h) /\ ArgsKept(gs, h) /\ ErrorsKept(gs, h)
      /\ Laid(h, bodies, own, lo)
  BY DEF Built
<1>4. IsSeq(t) /\ \A k \in 1 .. Len(t) :
        /\ TaskLaid(t[k], h, bodies, own, lo) /\ t[k].call \notin Definition
        /\ t[k].call # "args"
  BY DEF Loaded, Load, TaskLaid, Definition
<1>5. WorkLaid(work', h, bodies, own, lo)
  BY <1>1, <1>2, <1>3, <1>4, WorkSplice
<1>6. Noted(h, work')
  BY <1>2, <1>3 DEF Noted, ErrorsKept
<1> QED  BY <1>1, <1>3, <1>5, <1>6 DEF Promise

-----------------------------------------------------------------------------
\* Instructions fit the registers and labels they name.
LEMMA FittingIs ==
  ASSUME NEW g, NEW bs, NEW lo
  PROVE  /\ Fitting(Halt, g, bs, lo) /\ Halt.op \notin {"JMP", "JMPC"}
         /\ \A a, b \in Regs(g) : \A c :
              Fitting(Add(a, b, c), g, bs, lo) /\ Add(a, b, c).op \notin {"JMP", "JMPC"}
         /\ \A a, b, c \in Regs(g) :
              Fitting(Test(a, b, c), g, bs, lo) /\ Test(a, b, c).op \notin {"JMP", "JMPC"}
         /\ \A l : lo[l] = Cur(g, bs) => Fitting(Jmp(l), g, bs, lo)
         /\ \A l, r : lo[l] = Cur(g, bs) /\ r \in Regs(g) => Fitting(JmpC(l, r), g, bs, lo)
         /\ \A a \in Regs(g) : Len(g.symbols) = 2 =>
              Fitting(Ret(a), g, bs, lo) /\ Ret(a).op \notin {"JMP", "JMPC"}
         /\ \A a, c : a \in Regs(g) /\ (g.errors = <<>> => c >= 0) =>
              /\ Fitting(LoadConstant(a, c), g, bs, lo)
              /\ LoadConstant(a, c).op \notin {"JMP", "JMPC"}
  BY DEF Fitting, Halt, Add, Test, Jmp, JmpC, Ret, LoadConstant

LEMMA BuildsHalt ==
  ASSUME NEW g, Good(g), Open(g), NEW bs, NEW own, NEW lo, Laid(g, bs, own, lo)
  PROVE  Built(g, Emit(g, Halt), bs, own, lo)
<1>1. Halt \in Instruction /\ Halt # PotentialBreak
  BY Zero, Instructions
<1> QED  BY <1>1, FittingIs, BuildsEmit

LEMMA BuildsAdd ==
  ASSUME NEW g, Good(g), Open(g), NEW bs, NEW own, NEW lo, Laid(g, bs, own, lo),
         NEW a \in Regs(g), NEW b \in Regs(g), NEW c \in Word
  PROVE  Built(g, Emit(g, Add(a, b, c)), bs, own, lo)
<1>0. a \in Nat /\ b \in Nat
  BY RegsNat
<1>1. Add(a, b, c) \in Instruction /\ Add(a, b, c) # PotentialBreak
  BY <1>0, Instructions
<1> QED  BY <1>1, FittingIs, BuildsEmit

LEMMA BuildsTest ==
  ASSUME NEW g, Good(g), Open(g), NEW bs, NEW own, NEW lo, Laid(g, bs, own, lo),
         NEW a \in Regs(g), NEW b \in Regs(g), NEW c \in Regs(g)
  PROVE  Built(g, Emit(g, Test(a, b, c)), bs, own, lo)
<1>0. a \in Nat /\ b \in Nat /\ c \in Nat
  BY RegsNat
<1>1. Test(a, b, c) \in Instruction /\ Test(a, b, c) # PotentialBreak
  BY <1>0, Zero, Instructions
<1> QED  BY <1>1, FittingIs, BuildsEmit

LEMMA BuildsConstant ==
  ASSUME NEW g, Good(g), Open(g), NEW bs, NEW own, NEW lo, Laid(g, bs, own, lo),
         NEW a \in Regs(g), NEW c \in Word, g.errors = <<>> => c >= 0
  PROVE  Built(g, Emit(g, LoadConstant(a, c)), bs, own, lo)
<1>0. a \in Nat
  BY RegsNat
<1>1. LoadConstant(a, c) \in Instruction /\ LoadConstant(a, c) # PotentialBreak
  BY <1>0, Instructions
<1> QED  BY <1>1, FittingIs, BuildsEmit

LEMMA BuildsReturn ==
  ASSUME NEW g, Good(g), Open(g), NEW bs, NEW own, NEW lo, Laid(g, bs, own, lo),
         NEW a \in Regs(g), Len(g.symbols) = 2
  PROVE  Built(g, Emit(g, Ret(a)), bs, own, lo)
<1>0. a \in Nat
  BY RegsNat
<1>1. Ret(a) \in Instruction /\ Ret(a) # PotentialBreak
  BY <1>0, Zero, Instructions
<1> QED  BY <1>1, FittingIs, BuildsEmit

LEMMA BuildsGoto ==
  ASSUME NEW g, Good(g), Open(g), NEW bs, NEW own, NEW lo, Laid(g, bs, own, lo),
         NEW l \in Labels(g), lo[l] = Cur(g, bs)
  PROVE  Built(g, EmitBackpatched(g, Jmp(l)), bs, own, lo)
  BY JumpsOn, FittingIs, BuildsJump

LEMMA BuildsBranch ==
  ASSUME NEW g, Good(g), Open(g), NEW bs, NEW own, NEW lo, Laid(g, bs, own, lo),
         NEW l \in Labels(g), lo[l] = Cur(g, bs), NEW r \in Regs(g)
  PROVE  Built(g, EmitBackpatched(g, JmpC(l, r)), bs, own, lo)
  BY Jumps, FittingIs, BuildsJump

\* A breakpoint at the end of the code belongs to the program being compiled.
LEMMA OnBreak ==
  ASSUME NEW g, Good(g), Open(g), NEW bs, NEW own, NEW lo, Laid(g, bs, own, lo),
         OnPotentialBreak(g)
  PROVE  /\ NextPos(g) \in Nat /\ NextPos(g) >= 2
         /\ own[NextPos(g) - 1] = Cur(g, bs)
         /\ Ins(g, NextPos(g) - 1) = PotentialBreak
<1>1. /\ NextPos(g) \in Nat /\ NextPos(g) >= 1 /\ own[NextPos(g)] = Cur(g, bs)
  BY BuiltNone, BuiltFacts
<1>2. Last(g.code) = g.code[Len(g.code)]
  <2>1. IsSeq(g.code) /\ Len(g.code) >= 1
    BY DEF Good, Shape, CodeTyped
  <2>2. g.code # <<>>
    BY <2>1, NoneIs
  <2> QED  BY <2>1, <2>2, FrontIs
<1>3. g.code[NextPos(g)] = PotentialBreak
  BY <1>2 DEF OnPotentialBreak, NextPos
<1>4. NextPos(g) # 1
  BY <1>3 DEF Good, CodeTyped, PotentialBreak
<1>5. Ins(g, NextPos(g) - 1) = PotentialBreak
  BY <1>1, <1>3 DEF Ins
<1>6. NextPos(g) - 1 \in 1 .. NextPos(g) - 1 /\ (NextPos(g) - 1) + 1 = NextPos(g)
  BY <1>1, <1>4
<1>7. Flows(g, own, NextPos(g) - 1)
  BY <1>6 DEF Laid, CodeLaid, Sound
<1>8. own[NextPos(g) - 1] = own[NextPos(g)]
  BY <1>5, <1>6, <1>7 DEF Flows, PotentialBreak
<1> QED  BY <1>1, <1>4, <1>5, <1>8

-----------------------------------------------------------------------------
(* Each action keeps the promises: statements *)

LEMMA LaysVoidSplit ==
  ASSUME Inv, NEW own, NEW lo, Promise(gs, work, bodies, own, lo), VoidSplit
  PROVE  Promise(gs', work', bodies', own, lo)
<1> DEFINE t == DispatchVoid(node.left) \o DispatchVoid(node.right)
<1>1. /\ outcome = "running" /\ work # <<>> /\ Task.call = "void" /\ Stmt(AtLine, t)
  BY DEF VoidSplit, On, Running, Stmt
<1>2. Loaded(t, AtLine, bodies, lo)
  BY LoadedVoid, LoadedConcat
<1> HIDE DEF t
<1> QED  BY <1>1, <1>2, AtPromise, GoesLoaded DEF Definition

LEMMA LaysVoidAssign ==
  ASSUME Inv, NEW own, NEW lo, Promise(gs, work, bodies, own, lo), VoidAssign
  PROVE  Promise(gs', work', bodies', own, lo)
<1> DEFINE target == Variable(node.left.tok)
           h == FetchVariableRegister(AtLine, target)
           t == DispatchValue(node.right, VariableRegister(AtLine, target))
<1>1. /\ outcome = "running" /\ work # <<>> /\ Task.call = "void" /\ Stmt(h, t)
  BY DEF VoidAssign, On, Running
<1>2. Loaded(t, h, bodies, lo)
  BY LoadedValue
<1>3. Len(target) # 4
  BY VariableName
<1> HIDE DEF target, t
<1>4. Built(gs, AtLine, bodies, own, lo)
  BY <1>1, AtPromise
<1>5. Built(AtLine, h, bodies, own, lo)
  BY <1>3, <1>4, BuiltFacts, BuildsVariable
<1> HIDE DEF h
<1>6. Built(gs, h, bodies, own, lo)
  BY <1>4, <1>5, BuiltTrans
<1> QED  BY <1>1, <1>2, <1>6, GoesLoaded DEF Definition

LEMMA LaysVoidStop ==
  ASSUME Inv, NEW own, NEW lo, Promise(gs, work, bodies, own, lo), VoidStop
  PROVE  Promise(gs', work', bodies', own, lo)
<1> DEFINE h == Emit(AtLine, Halt)
<1>1. /\ outcome = "running" /\ work # <<>> /\ Task.call = "void" /\ Stmt(h, <<>>)
  BY DEF VoidStop, On, Running
<1>2. Built(gs, AtLine, bodies, own, lo)
  BY <1>1, AtPromise
<1>3. Built(AtLine, h, bodies, own, lo)
  BY <1>2, BuiltFacts, BuildsHalt
<1> HIDE DEF h
<1>4. Built(gs, h, bodies, own, lo)
  BY <1>2, <1>3, BuiltTrans
<1> QED  BY <1>1, <1>4, LoadedNone, GoesLoaded DEF Definition

LEMMA LaysVoidMark ==
  ASSUME Inv, NEW own, NEW lo, Promise(gs, work, bodies, own, lo), VoidMark
  PROVE  Promise(gs', work', bodies', own, lo)
<1> DEFINE name == node.left.tok
           g == WithMark(AtLine, name)
           l == LabelOf(g, name)
           h == SetLabel(g, l, MarkPos(g))
<1>1. /\ outcome = "running" /\ work # <<>> /\ Task.call = "void" /\ Stmt(h, <<>>)
  BY DEF VoidMark, On, Running
<1> HIDE DEF name
<1>2. Built(gs, AtLine, bodies, own, lo)
  BY <1>1, AtPromise
<1>3. /\ Built(AtLine, g, bodies, own, lo)
      /\ lo[l] = Cur(AtLine, bodies) /\ l \in Labels(g)
  BY <1>2, BuiltFacts, BuildsMark, WithMarkOnto
<1> HIDE DEF g, l
<1>4. Good(g) /\ Open(g) /\ Laid(g, bodies, own, lo) /\ lo[l] = Cur(g, bodies)
  BY <1>3, BuiltFacts
<1>5. Built(g, h, bodies, own, lo)
  <2>1. CASE OnPotentialBreak(g)
    <3>1. /\ NextPos(g) \in Nat /\ NextPos(g) >= 2
          /\ own[NextPos(g) - 1] = Cur(g, bodies)
          /\ Ins(g, NextPos(g) - 1) = PotentialBreak
      BY <1>4, <2>1, OnBreak
    <3>2. MarkPos(g) = NextPos(g) - 1 /\ NextPos(g) - 1 \in 1 .. NextPos(g)
      BY <2>1, <3>1 DEF MarkPos
    <3>3. Entry(g, NextPos(g) - 1)
      BY <3>1 DEF Entry, PotentialBreak
    <3> QED  BY <1>3, <1>4, <3>1, <3>2, <3>3, BuildsSetLabel
  <2>2. CASE ~ OnPotentialBreak(g)
    <3>1. MarkPos(g) = NextPos(g)
      BY <2>2 DEF MarkPos
    <3> QED  BY <1>3, <1>4, <3>1, BuildsHere
  <2> QED  BY <2>1, <2>2
<1> HIDE DEF h
<1>6. Built(gs, h, bodies, own, lo)
  BY <1>2, <1>3, <1>5, BuiltTrans
<1> QED  BY <1>1, <1>6, LoadedNone, GoesLoaded DEF Definition

LEMMA LaysVoidGoto ==
  ASSUME Inv, NEW own, NEW lo, Promise(gs, work, bodies, own, lo), VoidGoto
  PROVE  Promise(gs', work', bodies', own, lo)
<1> DEFINE name == node.left.tok
           g == WithMark(AtLine, name)
           l == LabelOf(g, name)
           h == EmitBackpatched(g, Jmp(l))
<1>1. /\ outcome = "running" /\ work # <<>> /\ Task.call = "void" /\ Stmt(h, <<>>)
  BY DEF VoidGoto, On, Running
<1> HIDE DEF name
<1>2. Built(gs, AtLine, bodies, own, lo)
  BY <1>1, AtPromise
<1>3. /\ Built(AtLine, g, bodies, own, lo)
      /\ lo[l] = Cur(AtLine, bodies) /\ l \in Labels(g)
  BY <1>2, BuiltFacts, BuildsMark, WithMarkOnto
<1> HIDE DEF g, l
<1>4. Built(g, h, bodies, own, lo)
  BY <1>3, BuiltFacts, BuildsGoto
<1> HIDE DEF h
<1>5. Built(gs, h, bodies, own, lo)
  BY <1>2, <1>3, <1>4, BuiltTrans
<1> QED  BY <1>1, <1>5, LoadedNone, GoesLoaded DEF Definition

LEMMA LaysVoidMalformed ==
  ASSUME Inv, NEW own, NEW lo, Promise(gs, work, bodies, own, lo), VoidMalformed
  PROVE  Promise(gs', work', bodies', own, lo)
<1> DEFINE h == Err(AtLine, "MALFORMED_AST")
<1>1. /\ outcome = "running" /\ work # <<>> /\ Task.call = "void" /\ Stmt(h, <<>>)
  BY DEF VoidMalformed, On, Running
<1>2. Built(gs, AtLine, bodies, own, lo) /\ IsSeq(gs.errors)
  BY <1>1, AtPromise
<1>3. IsSeq(AtLine.errors)
  BY <1>2 DEF Built, ErrorsKept
<1>4. Built(AtLine, h, bodies, own, lo)
  BY <1>2, <1>3, BuiltFacts, BuildsErr
<1> HIDE DEF h
<1>5. Built(gs, h, bodies, own, lo)
  BY <1>2, <1>4, BuiltTrans
<1> QED  BY <1>1, <1>5, LoadedNone, GoesLoaded DEF Definition

-----------------------------------------------------------------------------
(* Conditions and loops *)

LEMMA LaysVoidIf ==
  ASSUME Inv, NEW own, NEW lo, Promise(gs, work, bodies, own, lo), VoidIf
  PROVE  Promise(gs', work', bodies', own, lo)
<1> DEFINE g0 == AtLine
           g1 == FetchTemporary(g0)
           g2 == FetchTemporary(g1)
           h == FetchTemporary(g2)
           r == [call |-> "if", node |-> node, cond |-> Temporary(g0),
                 op1 |-> Temporary(g1), op2 |-> Temporary(g2)]
           t == DispatchValue(node.left.left, Temporary(g1))
                  \o DispatchValue(node.left.right, Temporary(g2)) \o <<r>>
<1>1. outcome = "running" /\ work # <<>> /\ Task.call = "void" /\ Stmt(h, t)
  BY DEF VoidIf, On, Running
<1>2. Load(r, h, bodies, lo)
  BY DEF Load, Definition
<1> HIDE DEF r
<1>3. Loaded(t, h, bodies, lo)
  BY <1>2, LoadedValue, LoadedOne, LoadedConcat
<1> HIDE DEF t
<1>4. Built(gs, g0, bodies, own, lo)
  BY <1>1, AtPromise
<1> HIDE DEF g0
<1>5. Built(g0, g1, bodies, own, lo)
  BY <1>4, BuiltFacts, BuildsTemporary
<1> HIDE DEF g1
<1>6. Built(g1, g2, bodies, own, lo)
  BY <1>5, BuiltFacts, BuildsTemporary
<1> HIDE DEF g2
<1>7. Built(g2, h, bodies, own, lo)
  BY <1>6, BuiltFacts, BuildsTemporary
<1> HIDE DEF h
<1>8. Built(gs, h, bodies, own, lo)
  BY <1>4, <1>5, <1>6, <1>7, BuiltTrans
<1> QED  BY <1>1, <1>3, <1>8, GoesLoaded DEF Definition

LEMMA LaysIfTest ==
  ASSUME Inv, NEW own, NEW lo, Promise(gs, work, bodies, own, lo), IfTest
  PROVE  Promise(gs', work', bodies', own, lo)
<1> DEFINE name == node.right.left.tok
           g1 == Emit(gs, Test(Task.cond, Task.op1, Task.op2))
           g2 == WithMark(g1, name)
           l == LabelOf(g2, name)
           f == EmitBackpatched(g2, JmpC(l, Task.cond))
           h == ReleaseTemporaries(f, {Task.cond, Task.op1, Task.op2})
<1>1. outcome = "running" /\ work # <<>> /\ Task.call = "if" /\ Stmt(h, <<>>)
  BY DEF IfTest, Running
<1> HIDE DEF name
<1>2. /\ Good(gs) /\ Open(gs) /\ Laid(gs, bodies, own, lo)
      /\ Task.cond \in Regs(gs) /\ Task.op1 \in Regs(gs) /\ Task.op2 \in Regs(gs)
  BY <1>1, AtTask, AtPromise DEF Fits
<1>3. Built(gs, g1, bodies, own, lo)
  BY <1>2, BuildsTest
<1> HIDE DEF g1
<1>4. /\ Built(g1, g2, bodies, own, lo)
      /\ lo[l] = Cur(g1, bodies) /\ l \in Labels(g2)
  BY <1>3, BuiltFacts, BuildsMark, WithMarkOnto
<1> HIDE DEF g2, l
<1>5. Task.cond \in Regs(g2)
  BY <1>2, <1>3, <1>4, BuiltFacts
<1>6. Built(g2, f, bodies, own, lo)
  BY <1>4, <1>5, BuiltFacts, BuildsBranch
<1> HIDE DEF f
<1>7. Built(f, h, bodies, own, lo)
  BY <1>6, BuiltFacts, BuildsRelease
<1> HIDE DEF h
<1>8. Built(gs, h, bodies, own, lo)
  BY <1>3, <1>4, <1>6, <1>7, BuiltTrans
<1> QED  BY <1>1, <1>8, LoadedNone, GoesLoaded DEF Definition

\* A loop creates two labels, one after the other.
LEMMA BuildsLabels ==
  ASSUME NEW g, Good(g), Open(g), NEW bs, NEW own, NEW lo, Laid(g, bs, own, lo),
         NEW h, h = CreateLabel(CreateLabel(g)), NEW l, l = NewLabel(g)
  PROVE  /\ Built(g, h, bs, own, lo)
         /\ l \in Labels(h) /\ lo[l] = Cur(g, bs)
         /\ l + 1 \in Labels(h) /\ lo[l + 1] = Cur(g, bs)
         /\ NextPos(h) = NextPos(g)
<1> DEFINE f == CreateLabel(g)
<1>1. /\ Built(g, f, bs, own, lo) /\ lo[l] = Cur(g, bs) /\ l \in Labels(f)
      /\ Len(f.labels) = l + 1 /\ NextPos(f) = NextPos(g)
  BY BuildsLabel, CreateLabelOnto
<1>2. h = CreateLabel(f)
  OBVIOUS
<1> HIDE DEF f
<1>3. Good(f) /\ Open(f) /\ Laid(f, bs, own, lo) /\ Cur(f, bs) = Cur(g, bs)
  BY <1>1, BuiltFacts
<1>4. /\ Built(f, h, bs, own, lo) /\ lo[NewLabel(f)] = Cur(f, bs)
      /\ NewLabel(f) \in Labels(h) /\ NextPos(h) = NextPos(f)
  BY <1>2, <1>3, BuildsLabel, CreateLabelOnto
<1>5. NewLabel(f) = l + 1
  BY <1>1 DEF NewLabel
<1>6. Labels(f) \subseteq Labels(h)
  BY <1>4, BuiltFacts
<1>7. Built(g, h, bs, own, lo)
  BY <1>1, <1>4, BuiltTrans
<1> QED  BY <1>1, <1>3, <1>4, <1>5, <1>6, <1>7

LEMMA LaysVoidWhile ==
  ASSUME Inv, NEW own, NEW lo, Promise(gs, work, bodies, own, lo), VoidWhile
  PROVE  Promise(gs', work', bodies', own, lo)
<1> DEFINE g0 == AtLine
           start == NewLabel(g0)
           g1 == CreateLabel(CreateLabel(g0))
           g == FetchTemporary(g1)
           h == SetLabel(g, start, NextPos(g))
           c == Temporary(g0)
           r == [call |-> "while", node |-> node, cond |-> c,
                 start |-> start, end |-> start + 1]
           t == DispatchValue(node.left, c) \o <<r>>
<1>1. outcome = "running" /\ work # <<>> /\ Task.call = "void" /\ Stmt(h, t)
  BY DEF VoidWhile, On, Running
<1>r. r.call = "while" /\ r.start = start /\ r.end = start + 1
  OBVIOUS
<1> HIDE DEF r, c
<1>2. Built(gs, g0, bodies, own, lo)
  BY <1>1, AtPromise
<1> HIDE DEF g0
<1>3. /\ Built(g0, g1, bodies, own, lo)
      /\ start \in Labels(g1) /\ lo[start] = Cur(g0, bodies)
      /\ lo[start + 1] = Cur(g0, bodies)
  BY <1>2, BuiltFacts, BuildsLabels
<1> HIDE DEF g1, start
<1>4. Built(g1, g, bodies, own, lo)
  BY <1>3, BuiltFacts, BuildsTemporary
<1> HIDE DEF g
<1>5. start \in Labels(g) /\ Cur(g, bodies) = Cur(g0, bodies)
  BY <1>3, <1>4, BuiltFacts
<1>6. Built(g, h, bodies, own, lo)
  BY <1>3, <1>4, <1>5, BuiltFacts, BuildsHere
<1> HIDE DEF h
<1>7. Built(gs, h, bodies, own, lo)
  BY <1>2, <1>3, <1>4, <1>6, BuiltTrans
<1>8. Load(r, h, bodies, lo)
  <2>1. Cur(h, bodies) = Cur(g0, bodies)
    BY <1>5, <1>6, BuiltFacts
  <2> QED  BY <1>r, <1>3, <2>1 DEF Load, Definition
<1>9. Loaded(t, h, bodies, lo)
  BY <1>8, LoadedValue, LoadedOne, LoadedConcat
<1> HIDE DEF t
<1> QED  BY <1>1, <1>7, <1>9, GoesLoaded DEF Definition

LEMMA LaysWhileBody ==
  ASSUME Inv, NEW own, NEW lo, Promise(gs, work, bodies, own, lo), WhileBody
  PROVE  Promise(gs', work', bodies', own, lo)
<1> DEFINE h == EmitBackpatched(gs, JmpC(Task.end, Task.cond))
           r == [Task EXCEPT !.call = "endwhile"]
           t == DispatchVoid(node.right) \o <<r>>
<1>1. outcome = "running" /\ work # <<>> /\ Task.call = "while" /\ Stmt(h, t)
  BY DEF WhileBody, Running
<1>2. /\ Good(gs) /\ Open(gs) /\ Laid(gs, bodies, own, lo)
      /\ DOMAIN Task = {"call", "node", "cond", "start", "end"}
      /\ Task.cond \in Regs(gs) /\ Task.end \in Labels(gs)
      /\ lo[Task.start] = Cur(gs, bodies) /\ lo[Task.end] = Cur(gs, bodies)
  BY <1>1, AtTask, AtPromise DEF Fits, TaskLaid
<1>r. r.call = "endwhile" /\ r.start = Task.start /\ r.end = Task.end
  BY <1>2
<1> HIDE DEF r
<1>3. Built(gs, h, bodies, own, lo)
  BY <1>2, BuildsBranch
<1> HIDE DEF h
<1>4. Load(r, h, bodies, lo)
  <2>1. Cur(h, bodies) = Cur(gs, bodies)
    BY <1>3, BuiltFacts
  <2> QED  BY <1>r, <1>2, <2>1 DEF Load, Definition
<1>5. Loaded(t, h, bodies, lo)
  BY <1>4, LoadedVoid, LoadedOne, LoadedConcat
<1> HIDE DEF t
<1> QED  BY <1>1, <1>3, <1>5, GoesLoaded DEF Definition

LEMMA LaysWhileEnd ==
  ASSUME Inv, NEW own, NEW lo, Promise(gs, work, bodies, own, lo), WhileEnd
  PROVE  Promise(gs', work', bodies', own, lo)
<1> DEFINE g == EmitBackpatched(gs, Jmp(Task.start))
           f == SetLabel(g, Task.end, NextPos(g))
           h == ReleaseTemporaries(f, {Task.cond})
<1>1. outcome = "running" /\ work # <<>> /\ Task.call = "endwhile" /\ Stmt(h, <<>>)
  BY DEF WhileEnd, Running
<1>2. /\ Good(gs) /\ Open(gs) /\ Laid(gs, bodies, own, lo)
      /\ Task.start \in Labels(gs) /\ Task.end \in Labels(gs)
      /\ lo[Task.start] = Cur(gs, bodies) /\ lo[Task.end] = Cur(gs, bodies)
  BY <1>1, AtTask, AtPromise DEF Fits, TaskLaid
<1>3. Built(gs, g, bodies, own, lo)
  BY <1>2, BuildsGoto
<1> HIDE DEF g
<1>4. Task.end \in Labels(g) /\ lo[Task.end] = Cur(g, bodies)
  BY <1>2, <1>3, BuiltFacts
<1>5. Built(g, f, bodies, own, lo)
  BY <1>3, <1>4, BuiltFacts, BuildsHere
<1> HIDE DEF f
<1>6. Built(f, h, bodies, own, lo)
  BY <1>5, BuiltFacts, BuildsRelease
<1> HIDE DEF h
<1>7. Built(gs, h, bodies, own, lo)
  BY <1>3, <1>5, <1>6, BuiltTrans
<1> QED  BY <1>1, <1>7, LoadedNone, GoesLoaded DEF Definition

LEMMA LaysVoidLoop ==
  ASSUME Inv, NEW own, NEW lo, Promise(gs, work, bodies, own, lo), VoidLoop
  PROVE  Promise(gs', work', bodies', own, lo)
<1> DEFINE g0 == AtLine
           g == [g0 EXCEPT !.loops = @ + 1]
           name == LoopVariable(g.fs, g.loops)
           counter == VariableRegister(g, name)
           h == FetchVariableRegister(g, name)
           r == [call |-> "loop", node |-> node, counter |-> counter]
           t == DispatchValue(node.left, counter) \o <<r>>
<1>1. outcome = "running" /\ work # <<>> /\ Task.call = "void" /\ Stmt(h, t)
  BY DEF VoidLoop, On, Running
<1>2. Load(r, h, bodies, lo)
  BY DEF Load, Definition
<1> HIDE DEF r, counter
<1>3. Loaded(t, h, bodies, lo)
  BY <1>2, LoadedValue, LoadedOne, LoadedConcat
<1> HIDE DEF t
<1>4. Built(gs, g0, bodies, own, lo)
  BY <1>1, AtPromise
<1> HIDE DEF g0
<1>5. Built(g0, g, bodies, own, lo) /\ g.loops = g0.loops + 1 /\ g0.loops \in Nat
  <2>1. Good(g0) /\ Open(g0) /\ Laid(g0, bodies, own, lo)
    BY <1>4, BuiltFacts
  <2>2. g.loops = g0.loops + 1 /\ g0.loops \in Nat
    BY <2>1, NextLoopGood DEF Good, Shape
  <2> QED  BY <2>1, <2>2, BuildsLoop
<1> HIDE DEF g
<1>6. name[4] \in 1 .. g.loops
  BY <1>5 DEF LoopVariable
<1> HIDE DEF name
<1>7. Built(g, h, bodies, own, lo)
  BY <1>5, <1>6, BuiltFacts, BuildsVariable
<1> HIDE DEF h
<1>8. Built(gs, h, bodies, own, lo)
  BY <1>4, <1>5, <1>7, BuiltTrans
<1> QED  BY <1>1, <1>3, <1>8, GoesLoaded DEF Definition

LEMMA LaysLoopBody ==
  ASSUME Inv, NEW own, NEW lo, Promise(gs, work, bodies, own, lo), LoopBody
  PROVE  Promise(gs', work', bodies', own, lo)
<1> DEFINE start == NewLabel(gs)
           g1 == CreateLabel(CreateLabel(gs))
           g == SetLabel(g1, start, NextPos(gs))
           h == EmitBackpatched(g, JmpC(start + 1, Task.counter))
           r == [call |-> "endloop", node |-> node, counter |-> Task.counter,
                 start |-> start, end |-> start + 1]
           t == DispatchVoid(node.right) \o <<r>>
<1>1. outcome = "running" /\ work # <<>> /\ Task.call = "loop" /\ Stmt(h, t)
  BY DEF LoopBody, Running
<1>r. r.call = "endloop" /\ r.start = start /\ r.end = start + 1
  OBVIOUS
<1> HIDE DEF r
<1>2. /\ Good(gs) /\ Open(gs) /\ Laid(gs, bodies, own, lo) /\ Task.counter \in Regs(gs)
  BY <1>1, AtTask, AtPromise DEF Fits
<1>3. /\ Built(gs, g1, bodies, own, lo)
      /\ start \in Labels(g1) /\ lo[start] = Cur(gs, bodies)
      /\ start + 1 \in Labels(g1) /\ lo[start + 1] = Cur(gs, bodies)
      /\ NextPos(g1) = NextPos(gs)
  BY <1>2, BuildsLabels
<1> HIDE DEF g1, start
<1>4. Built(g1, g, bodies, own, lo)
  <2>1. Good(g1) /\ Open(g1) /\ Laid(g1, bodies, own, lo) /\ Cur(g1, bodies) = Cur(gs, bodies)
    BY <1>3, BuiltFacts
  <2>2. Built(g1, SetLabel(g1, start, NextPos(g1)), bodies, own, lo)
    BY <1>3, <2>1, BuildsHere
  <2> QED  BY <1>3, <2>2
<1> HIDE DEF g
<1>5. Built(gs, g, bodies, own, lo)
  BY <1>3, <1>4, BuiltTrans
<1>6. /\ start + 1 \in Labels(g) /\ Cur(g, bodies) = Cur(gs, bodies)
      /\ Task.counter \in Regs(g)
  BY <1>2, <1>3, <1>4, <1>5, BuiltFacts
<1>7. Built(g, h, bodies, own, lo)
  BY <1>3, <1>5, <1>6, BuiltFacts, BuildsBranch
<1> HIDE DEF h
<1>8. Built(gs, h, bodies, own, lo) /\ Cur(h, bodies) = Cur(gs, bodies)
  BY <1>5, <1>7, BuiltTrans, BuiltFacts
<1>9. Load(r, h, bodies, lo)
  BY <1>r, <1>3, <1>8 DEF Load, Definition
<1>10. Loaded(t, h, bodies, lo)
  BY <1>9, LoadedVoid, LoadedOne, LoadedConcat
<1> HIDE DEF t
<1> QED  BY <1>1, <1>8, <1>10, GoesLoaded DEF Definition

LEMMA LaysLoopEnd ==
  ASSUME Inv, NEW own, NEW lo, Promise(gs, work, bodies, own, lo), LoopEnd
  PROVE  Promise(gs', work', bodies', own, lo)
<1> DEFINE g1 == Emit(gs, Add(Task.counter, Task.counter, -1))
           g == EmitBackpatched(g1, Jmp(Task.start))
           h == SetLabel(g, Task.end, NextPos(g))
<1>1. outcome = "running" /\ work # <<>> /\ Task.call = "endloop" /\ Stmt(h, <<>>)
  BY DEF LoopEnd, Running
<1>2. /\ Good(gs) /\ Open(gs) /\ Laid(gs, bodies, own, lo) /\ Task.counter \in Regs(gs)
      /\ Task.start \in Labels(gs) /\ Task.end \in Labels(gs)
      /\ lo[Task.start] = Cur(gs, bodies) /\ lo[Task.end] = Cur(gs, bodies)
  BY <1>1, AtTask, AtPromise DEF Fits, TaskLaid
<1>3. Built(gs, g1, bodies, own, lo)
  BY <1>2, Zero, BuildsAdd
<1> HIDE DEF g1
<1>4. Task.start \in Labels(g1) /\ Cur(g1, bodies) = Cur(gs, bodies)
  BY <1>2, <1>3, BuiltFacts
<1>5. Built(g1, g, bodies, own, lo)
  BY <1>2, <1>3, <1>4, BuiltFacts, BuildsGoto
<1> HIDE DEF g
<1>6. Built(gs, g, bodies, own, lo)
  BY <1>3, <1>5, BuiltTrans
<1>7. Task.end \in Labels(g) /\ Cur(g, bodies) = Cur(gs, bodies)
  BY <1>2, <1>6, BuiltFacts
<1>8. Built(g, h, bodies, own, lo)
  BY <1>2, <1>6, <1>7, BuiltFacts, BuildsHere
<1> HIDE DEF h
<1>9. Built(gs, h, bodies, own, lo)
  BY <1>6, <1>8, BuiltTrans
<1> QED  BY <1>1, <1>9, LoadedNone, GoesLoaded DEF Definition

-----------------------------------------------------------------------------
(* Values *)

LEMMA LaysValueName ==
  ASSUME Inv, NEW own, NEW lo, Promise(gs, work, bodies, own, lo), ValueName
  PROVE  Promise(gs', work', bodies', own, lo)
<1> DEFINE g == AtLine
           src == Variable(node.tok)
           r == VariableRegister(g, src)
           f == FetchVariableRegister(g, src)
           h == Emit(f, Add(Task.tgt, r, 0))
<1>1. /\ outcome = "running" /\ work # <<>> /\ Task.call = "value" /\ Stmt(h, <<>>)
  BY DEF ValueName, On, Running
<1>2. Built(gs, g, bodies, own, lo) /\ Task.tgt \in Regs(gs)
  BY <1>1, AtPromise, AtTask DEF Fits
<1> HIDE DEF g
<1>3. Len(src) # 4
  BY VariableName
<1> HIDE DEF src
<1>4. Built(g, f, bodies, own, lo)
  BY <1>2, <1>3, BuiltFacts, BuildsVariable
<1>5. r \in Regs(f)
  BY <1>2, <1>3, BuiltFacts, FetchVariableRegisterGood
<1> HIDE DEF f, r
<1>6. Built(gs, f, bodies, own, lo)
  BY <1>2, <1>4, BuiltTrans
<1>7. Task.tgt \in Regs(f)
  BY <1>2, <1>6, BuiltFacts
<1>8. Built(f, h, bodies, own, lo)
  BY <1>5, <1>6, <1>7, BuiltFacts, Zero, BuildsAdd
<1> HIDE DEF h
<1>9. Built(gs, h, bodies, own, lo)
  BY <1>6, <1>8, BuiltTrans
<1> QED  BY <1>1, <1>9, LoadedNone, GoesLoaded DEF Definition

\* Of a number that is not too large, strtol and int make what it is.
LEMMA SmallNumber ==
  ASSUME NEW n, n.tok \in Nat, n.tok < MaxWord
  PROVE  StrToInt(n) >= 0
<1>1. MaxWord \in Nat
  BY MaxWordAssumption
<1>2. \A x, d \in Nat : x < d => x % d = x
  OBVIOUS
<1> DEFINE d == 2 * (MaxWord + 1)
           x == n.tok + MaxWord + 1
<1>3. x \in Nat /\ d \in Nat /\ x < d /\ x - (MaxWord + 1) = n.tok
  BY <1>1
<1>4. x % d = x
  BY <1>2, <1>3, Zenon
<1>5. StrToInt(n) = (x % d) - (MaxWord + 1)
  BY DEF StrToInt
<1> HIDE DEF x, d
<1> QED  BY <1>3, <1>4, <1>5

LEMMA LaysValueNumber ==
  ASSUME Inv, NEW own, NEW lo, Promise(gs, work, bodies, own, lo), ValueNumber
  PROVE  Promise(gs', work', bodies', own, lo)
<1> DEFINE g == IF node.tok >= MaxWord THEN Err(AtLine, "INTERNAL_ERROR") ELSE AtLine
           c == StrToInt(node)
           h == Emit(g, LoadConstant(Task.tgt, c))
<1>1. /\ outcome = "running" /\ work # <<>> /\ Task.call = "value" /\ Stmt(h, <<>>)
      /\ node.t = "NUMBER"
  BY DEF ValueNumber, On, Running
<1>2. node.tok \in Nat
  <2>1. source \in Sources /\ node \in Body(source)
    BY <1>1, AtTask, OtherNode DEF Definition
  <2> QED  BY <1>1, <2>1, BodyNode
<1>3. /\ Built(gs, AtLine, bodies, own, lo) /\ IsSeq(gs.errors) /\ Task.tgt \in Regs(gs)
  BY <1>1, AtPromise, AtTask DEF Fits
<1>4. IsSeq(AtLine.errors)
  BY <1>3 DEF Built, ErrorsKept
<1>5. Built(AtLine, g, bodies, own, lo) /\ (g.errors = <<>> => c >= 0)
  <2>1. CASE node.tok >= MaxWord
    <3>1. g = Err(AtLine, "INTERNAL_ERROR")
      BY <2>1
    <3> QED  BY <1>3, <1>4, <3>1, BuiltFacts, BuildsErr
  <2>2. CASE ~ node.tok >= MaxWord
    <3>1. g = AtLine
      BY <2>2
    <3>2. node.tok < MaxWord
      BY <1>2, <2>2, MaxWordAssumption
    <3> QED  BY <1>2, <1>3, <3>1, <3>2, BuiltFacts, BuiltNone, SmallNumber
  <2> QED  BY <2>1, <2>2
<1>6. c \in Word
  BY <1>2, StrToIntIs
<1> HIDE DEF g, c
<1>7. Built(gs, g, bodies, own, lo)
  BY <1>3, <1>5, BuiltTrans
<1>8. Task.tgt \in Regs(g)
  BY <1>3, <1>7, BuiltFacts
<1>9. Built(g, h, bodies, own, lo)
  BY <1>5, <1>6, <1>7, <1>8, BuiltFacts, BuildsConstant
<1> HIDE DEF h
<1>10. Built(gs, h, bodies, own, lo)
  BY <1>7, <1>9, BuiltTrans
<1> QED  BY <1>1, <1>10, LoadedNone, GoesLoaded DEF Definition

LEMMA LaysValueCall ==
  ASSUME Inv, NEW own, NEW lo, Promise(gs, work, bodies, own, lo), ValueCall
  PROVE  Promise(gs', work', bodies', own, lo)
<1> DEFINE h == AtLine
           r == [call |-> "call", node |-> node, tgt |-> Task.tgt, arglocs |-> <<>>]
           t == DispatchCallArgs(node.right) \o <<r>>
<1>1. /\ outcome = "running" /\ work # <<>> /\ Task.call = "value" /\ Stmt(h, t)
  BY DEF ValueCall, On, Running
<1>2. r.call = "call"
  OBVIOUS
<1> HIDE DEF r
<1>3. Built(gs, h, bodies, own, lo)
  BY <1>1, AtPromise
<1> HIDE DEF h
<1>4. Load(r, h, bodies, lo)
  BY <1>2 DEF Load, Definition
<1>5. Loaded(t, h, bodies, lo)
  BY <1>4, LoadedCallArgs, LoadedOne, LoadedConcat
<1> HIDE DEF t
<1> QED  BY <1>1, <1>3, <1>5, GoesLoaded DEF Definition

LEMMA LaysValueMalformed ==
  ASSUME Inv, NEW own, NEW lo, Promise(gs, work, bodies, own, lo), ValueMalformed
  PROVE  Promise(gs', work', bodies', own, lo)
<1> DEFINE h == Err(AtLine, "MALFORMED_AST")
<1>1. /\ outcome = "running" /\ work # <<>> /\ Task.call = "value" /\ Stmt(h, <<>>)
  BY DEF ValueMalformed, On, Running
<1>2. Built(gs, AtLine, bodies, own, lo) /\ IsSeq(gs.errors)
  BY <1>1, AtPromise
<1>3. IsSeq(AtLine.errors)
  BY <1>2 DEF Built, ErrorsKept
<1>4. Built(AtLine, h, bodies, own, lo)
  BY <1>2, <1>3, BuiltFacts, BuildsErr
<1> HIDE DEF h
<1>5. Built(gs, h, bodies, own, lo)
  BY <1>2, <1>4, BuiltTrans
<1> QED  BY <1>1, <1>5, LoadedNone, GoesLoaded DEF Definition

LEMMA LaysCallArgsSplit ==
  ASSUME Inv, NEW own, NEW lo, Promise(gs, work, bodies, own, lo), CallArgsSplit
  PROVE  Promise(gs', work', bodies', own, lo)
<1> DEFINE t == DispatchCallArgs(node.left) \o DispatchCallArgs(node.right)
<1>1. /\ outcome = "running" /\ work # <<>> /\ Task.call = "callargs" /\ Stmt(gs, t)
  BY DEF CallArgsSplit, On, Running
<1>2. Loaded(t, gs, bodies, lo)
  BY LoadedCallArgs, LoadedConcat
<1> HIDE DEF t
<1> QED  BY <1>1, <1>2, AtPromise, GoesLoaded DEF Definition

LEMMA LaysCallInbuilt ==
  ASSUME Inv, NEW own, NEW lo, Promise(gs, work, bodies, own, lo), CallInbuilt
  PROVE  Promise(gs', work', bodies', own, lo)
<1> DEFINE cs == StrToInt(node.right.right.left)
           z == IF FuncName = "__INC__" THEN cs ELSE WrapAdd(0, -cs)
           h == Emit(gs, Add(Task.tgt, Args[1], z))
<1>1. /\ outcome = "running" /\ work # <<>> /\ Task.call = "call" /\ IsInbuilt
      /\ Stmt(h, <<>>)
  BY DEF CallInbuilt, CallReturn, Running
<1>2. cs \in Word
  BY <1>1, SecondArgument, StrToIntIs
<1> HIDE DEF cs
<1>3. z \in Word
  BY <1>2, NegationIs
<1> HIDE DEF z
<1>4. Task.tgt \in Regs(gs) /\ Args[1] \in Regs(gs)
  <2>1. 1 \in 1 .. Len(Args)
    BY <1>1 DEF IsInbuilt
  <2> QED  BY <1>1, <2>1, AtCall
<1>5. Built(gs, h, bodies, own, lo)
  BY <1>1, <1>3, <1>4, AtPromise, BuildsAdd
<1> HIDE DEF h
<1> QED  BY <1>1, <1>5, LoadedNone, GoesLoaded DEF Definition

LEMMA LaysCallUnknown ==
  ASSUME Inv, NEW own, NEW lo, Promise(gs, work, bodies, own, lo), CallUnknown
  PROVE  Promise(gs', work', bodies', own, lo)
<1> DEFINE h == Err(gs, "UNKNOWN_PROGRAM_NAME")
<1>1. /\ outcome = "running" /\ work # <<>> /\ Task.call = "call" /\ Stmt(h, <<>>)
  BY DEF CallUnknown, CallReturn, Running
<1>2. Built(gs, h, bodies, own, lo)
  BY <1>1, AtPromise, BuildsErr
<1> HIDE DEF h
<1> QED  BY <1>1, <1>2, LoadedNone, GoesLoaded DEF Definition

LEMMA LaysCallMismatch ==
  ASSUME Inv, NEW own, NEW lo, Promise(gs, work, bodies, own, lo), CallMismatch
  PROVE  Promise(gs', work', bodies', own, lo)
<1> DEFINE h == Err(gs, "ARGSIZE_MISMATCH")
<1>1. /\ outcome = "running" /\ work # <<>> /\ Task.call = "call" /\ Stmt(h, <<>>)
  BY DEF CallMismatch, CallReturn, Running
<1>2. Built(gs, h, bodies, own, lo)
  BY <1>1, AtPromise, BuildsErr
<1> HIDE DEF h
<1> QED  BY <1>1, <1>2, LoadedNone, GoesLoaded DEF Definition

LEMMA LaysCallSequence ==
  ASSUME Inv, NEW own, NEW lo, Promise(gs, work, bodies, own, lo), CallSequence
  PROVE  Promise(gs', work', bodies', own, lo)
<1> DEFINE p == gs.funcAddrs[FuncName]
           x == PrepareExec(p.stack_size, p.mi, Task.tgt)
           y == Exec(p.ind)
           a == <<x>>
           b == PassArguments(Args)
           c == <<y>>
           f == [gs EXCEPT !.code = @ \o a \o b \o c]
           h == Join(Join(Join(gs, a), b), c)
           regs == Range(Args)
<1>1. /\ outcome = "running" /\ work # <<>> /\ Task.call = "call"
      /\ FuncName \in DOMAIN gs.funcAddrs /\ p.argnum = Len(Args)
  BY DEF CallSequence, Running
<1>1a. Stmt(ReleaseTemporaries(f, regs), <<>>)
  BY DEF CallSequence, CallReturn
<1>2. /\ Good(gs) /\ Open(gs) /\ Laid(gs, bodies, own, lo)
      /\ Task.tgt \in Regs(gs) /\ Task.tgt \in Nat
      /\ IsSeq(Args) /\ Len(Args) \in Nat
      /\ \A i \in 1 .. Len(Args) : Args[i] \in Regs(gs) /\ Args[i] \in Nat
      /\ DOMAIN Args = 1 .. Len(Args)
  BY <1>1, AtCall, AtPromise
<1>3. p.ind \in Nat /\ p.mi \in Nat /\ p.stack_size \in Nat
  BY <1>1, <1>2 DEF Good, FunctionsTyped
<1>p. p = gs.funcAddrs[FuncName]
  OBVIOUS
<1> HIDE DEF p
<1>4. x \in Instruction /\ x # PotentialBreak /\ y \in Instruction /\ y # PotentialBreak
  BY <1>2, <1>3, Zero, Instructions
<1> HIDE DEF x, y
<1>5. /\ IsSeq(a) /\ Len(a) = 1 /\ a[1] = x /\ IsSeq(c) /\ Len(c) = 1 /\ c[1] = y
      /\ \A k \in 1 .. Len(a) : a[k] \in Instruction /\ a[k] # PotentialBreak
      /\ \A k \in 1 .. Len(c) : c[k] \in Instruction /\ c[k] # PotentialBreak
  BY <1>4, OneIs
<1>6. /\ IsSeq(b) /\ Len(b) = Len(Args)
      /\ \A k \in 1 .. Len(Args) : b[k] = Arg(k - 1, Args[k])
      /\ \A k \in 1 .. Len(b) : b[k] \in Instruction /\ b[k] # PotentialBreak
  <2>1. b = [k \in 1 .. Len(Args) |-> Arg(k - 1, Args[k])]
    BY <1>2 DEF PassArguments
  <2>2. \A k \in 1 .. Len(Args) : /\ b[k] = Arg(k - 1, Args[k])
                                  /\ k - 1 \in Nat /\ Args[k] \in Nat
    BY <1>2, <2>1
  <2> HIDE DEF b
  <2>3. IsSeq(b) /\ Len(b) = Len(Args)
    <3>1. b = [k \in 1 .. Len(Args) |-> b[k]]
      BY <2>1
    <3> QED  BY <1>2, <3>1, FunctionIs
  <2>4. \A k \in 1 .. Len(b) : b[k] \in Instruction /\ b[k] # PotentialBreak
    <3>1. \A k \in 1 .. Len(Args) : /\ Arg(k - 1, Args[k]) \in Instruction
                                    /\ Arg(k - 1, Args[k]) # PotentialBreak
      BY <2>2, Zero, Instructions, ZenonT(30)
    <3> QED  BY <2>2, <2>3, <3>1
  <2> QED  BY <2>2, <2>3, <2>4
<1> HIDE DEF a, b, c
<1>7. f = h
  <2>1. DOMAIN gs = Fields
    BY <1>2 DEF Good, Shape
  <2> QED  BY <2>1 DEF Join, Fields
<1>8. /\ Onto(gs, Join(gs, a)) /\ Keeps(gs, Join(gs, a), {"code"})
      /\ Join(gs, a).code = gs.code \o a
  BY <1>2, <1>5, JoinOnto, JoinGood
<1>9. /\ Onto(Join(gs, a), Join(Join(gs, a), b))
      /\ Keeps(Join(gs, a), Join(Join(gs, a), b), {"code"})
      /\ Join(Join(gs, a), b).code = (gs.code \o a) \o b
  BY <1>8, <1>6, OntoGrows, JoinOnto, JoinGood
<1>10. /\ Onto(Join(Join(gs, a), b), h)
       /\ Keeps(Join(Join(gs, a), b), h, {"code"})
       /\ h.code = ((gs.code \o a) \o b) \o c
  BY <1>9, <1>5, OntoGrows, JoinOnto, JoinGood
<1>11. Good(h) /\ Open(h) /\ Keeps(gs, h, {"code"})
  BY <1>8, <1>9, <1>10, OntoGrows DEF Keeps
<1> DEFINE at == NextPos(gs)
           n == Len(Args)
<1>12. IsSeq(gs.code) /\ at \in Nat /\ at = Len(gs.code)
  BY <1>2, Lengths DEF Good, Shape, NextPos
<1>13. /\ Len(h.code) = at + n + 2
       /\ \A k \in 1 .. at : h.code[k] = gs.code[k]
       /\ h.code[at + 1] = x
       /\ \A k \in 1 .. n : h.code[at + 1 + k] = b[k]
       /\ h.code[at + n + 2] = y
  <2> DEFINE u == gs.code \o a
             v == u \o b
             w == v \o c
  <2>1. /\ IsSeq(u) /\ Len(u) = at + 1
        /\ \A k \in 1 .. at : u[k] = gs.code[k]
        /\ u[at + 1] = x
    <3>1. /\ IsSeq(u) /\ Len(u) = Len(gs.code) + Len(a)
          /\ \A k \in 1 .. Len(gs.code) : u[k] = gs.code[k]
          /\ \A k \in Len(gs.code) + 1 .. Len(gs.code) + Len(a) : u[k] = a[k - Len(gs.code)]
      <4>1. IsSeq(gs.code) /\ IsSeq(a)
        BY <1>5, <1>12
      <4> QED  BY <4>1, ConcatIs, Zenon
    <3> HIDE DEF u
    <3>2. u[at + 1] = a[(at + 1) - at]
      BY <1>5, <1>12, <3>1
    <3>3. (at + 1) - at = 1
      BY <1>12
    <3> QED  BY <1>5, <1>12, <3>1, <3>2, <3>3
  <2> HIDE DEF u
  <2>2. /\ IsSeq(v) /\ Len(v) = at + 1 + n
        /\ \A k \in 1 .. at + 1 : v[k] = u[k]
        /\ \A k \in 1 .. n : v[at + 1 + k] = b[k]
    <3>1. /\ IsSeq(v) /\ Len(v) = Len(u) + Len(b)
          /\ \A k \in 1 .. Len(u) : v[k] = u[k]
          /\ \A k \in Len(u) + 1 .. Len(u) + Len(b) : v[k] = b[k - Len(u)]
      <4>1. IsSeq(u) /\ IsSeq(b)
        BY <1>6, <2>1
      <4> QED  BY <4>1, ConcatIs, Zenon
    <3> HIDE DEF v
    <3>2. ASSUME NEW k \in 1 .. n  PROVE v[at + 1 + k] = b[k]
      <4>1. at + 1 + k \in Len(u) + 1 .. Len(u) + Len(b) /\ (at + 1 + k) - Len(u) = k
        BY <1>2, <1>6, <1>12, <2>1
      <4> QED  BY <3>1, <4>1
    <3> QED  BY <1>6, <2>1, <3>1, <3>2
  <2> HIDE DEF v
  <2>3. /\ Len(w) = at + n + 2
        /\ \A k \in 1 .. at + 1 + n : w[k] = v[k]
        /\ w[at + n + 2] = y
    <3>1. /\ Len(w) = Len(v) + Len(c)
          /\ \A k \in 1 .. Len(v) : w[k] = v[k]
          /\ \A k \in Len(v) + 1 .. Len(v) + Len(c) : w[k] = c[k - Len(v)]
      <4>1. IsSeq(v) /\ IsSeq(c)
        BY <1>5, <2>2
      <4> QED  BY <4>1, ConcatIs, Zenon
    <3> HIDE DEF w
    <3>0. Len(v) = at + 1 + n /\ Len(c) = 1 /\ at \in Nat /\ n \in Nat
      BY <1>2, <1>5, <1>12, <2>2
    <3>2. at + n + 2 \in Len(v) + 1 .. Len(v) + Len(c) /\ (at + n + 2) - Len(v) = 1
      BY <3>0
    <3>3. w[at + n + 2] = c[1]
      BY <3>1, <3>2
    <3>4. Len(v) + Len(c) = at + n + 2
      BY <3>0
    <3> QED  BY <1>5, <2>2, <3>1, <3>3, <3>4
  <2>4. h.code = w
    BY <1>10 DEF u, v
  <2> HIDE DEF w
  <2>5. \A k \in 1 .. at : k \in 1 .. at + 1 /\ k \in 1 .. at + 1 + n
    BY <1>2, <1>12
  <2>6. at + 1 \in 1 .. at + 1 /\ at + 1 \in 1 .. at + 1 + n
    BY <1>2, <1>12
  <2>7. \A k \in 1 .. n : at + 1 + k \in 1 .. at + 1 + n
    BY <1>2, <1>12
  <2> QED  BY <2>1, <2>2, <2>3, <2>4, <2>5, <2>6, <2>7
<1>14. CallCode(h, at, p, Task.tgt, Args, n)
  <2>1. NextPos(h) = at + n + 2
    BY <1>13 DEF NextPos
  <2>2. Ins(h, at) = x
    BY <1>13 DEF Ins
  <2>3. ASSUME NEW k \in 1 .. n  PROVE Ins(h, at + k) = Arg(k - 1, Args[k])
    <3>1. (at + k) + 1 = at + 1 + k
      BY <1>12
    <3> QED  BY <1>6, <1>13, <3>1 DEF Ins
  <2>4. Ins(h, at + n + 1) = y
    <3>1. (at + n + 1) + 1 = at + n + 2
      BY <1>2, <1>12
    <3> QED  BY <1>13, <3>1 DEF Ins
  <2> QED  BY <2>1, <2>2, <2>3, <2>4 DEF CallCode, x, y
<1> HIDE DEF f, h
<1>15. \A k \in 1 .. Len(gs.code) : h.code[k] = gs.code[k]
  BY <1>12, <1>13
<1>16. Built(gs, h, bodies, own, lo)
  BY <1>p, <1>1, <1>2, <1>11, <1>14, <1>15, BuildsCall
<1>17. Built(h, ReleaseTemporaries(h, regs), bodies, own, lo)
  BY <1>16, BuiltFacts, BuildsRelease
<1>18. Stmt(ReleaseTemporaries(h, regs), <<>>)
  BY <1>1a, <1>7
<1> DEFINE e == ReleaseTemporaries(h, regs)
<1> HIDE DEF e
<1>19. Built(gs, e, bodies, own, lo)
  BY <1>16, <1>17, BuiltTrans DEF e
<1>20. Stmt(e, <<>>)
  BY <1>18 DEF e
<1> QED  BY <1>1, <1>19, <1>20, LoadedNone, GoesLoaded DEF Definition

\* The value of an argument is to be computed into a temporary that its call
\* has collected.
LEMMA LaysCallArgsValue ==
  ASSUME Inv, NEW own, NEW lo, Promise(gs, work, bodies, own, lo), CallArgsValue
  PROVE  Promise(gs', work', bodies', own, lo)
<1> DEFINE tmp == Temporary(gs)
           h == FetchTemporary(gs)
           C == Caller
           c == [work[C] EXCEPT !.arglocs = Append(@, tmp)]
           x == [call |-> "value", node |-> node, tgt |-> tmp]
           v == work'
<1>1. /\ outcome = "running" /\ work # <<>> /\ Task.call = "callargs"
      /\ gs' = h /\ bodies' = bodies
  BY DEF CallArgsValue, Running
<1>2. /\ Good(gs) /\ Open(gs) /\ Laid(gs, bodies, own, lo)
      /\ WorkLaid(work, gs, bodies, own, lo) /\ IsSeq(gs.errors) /\ Task = work[1]
  BY <1>1, AtPromise
<1>3. Collected(v, work, x, C, c)
  BY ArgCollected
<1> HIDE DEF C, c, x, v
<1>4. /\ v[1].call = "value" /\ v[C].call = "call" /\ work[C].call = "call"
      /\ Len(v) = Len(work) /\ Len(work) \in Nat
      /\ \A k \in 2 .. Len(work) : k # C => v[k] = work[k]
  BY <1>3 DEF Collected
<1>5. /\ \A k \in 2 .. Len(work) : v[k].call = work[k].call
      /\ \A k \in 1 .. Len(v) : k = 1 \/ k \in 2 .. Len(work)
      /\ \A k \in 2 .. Len(work) : k \in 1 .. Len(work)
  BY <1>3, CollectedCalls
<1>6. Built(gs, h, bodies, own, lo) /\ NextPos(h) = NextPos(gs)
  BY <1>2, BuildsTemporary, FetchTemporaryGood DEF Keeps, Fields, NextPos
<1> HIDE DEF h
<1>7. Extends(gs, h) /\ ArgsKept(gs, h) /\ ErrorsKept(gs, h) /\ Laid(h, bodies, own, lo)
      /\ Good(h)
  BY <1>6 DEF Built
<1>8. Heads(v)
  <2> SUFFICES ASSUME NEW k \in 1 .. Len(v), v[k].call \in Definition, NEW j \in 1 .. k - 1
               PROVE  v[j].call = "args" <=> v[k].call = "program"
    BY DEF Heads
  <2>1. k \in 2 .. Len(work) /\ k \in 1 .. Len(work)
    BY <1>4, <1>5 DEF Definition
  <2>2. work[k].call = v[k].call
    BY <1>5, <2>1
  <2>3. \A i \in 1 .. k - 1 : work[i].call = "args" <=> work[k].call = "program"
    BY <1>2, <2>1, <2>2 DEF WorkLaid, Heads
  <2>4. 1 \in 1 .. k - 1
    BY <2>1
  <2>5. work[k].call # "program"
    BY <1>1, <1>2, <2>3, <2>4
  <2>6. CASE j = 1
    BY <1>4, <2>2, <2>5, <2>6
  <2>7. CASE j # 1
    <3>1. j \in 2 .. Len(work)
      BY <1>4, <2>1, <2>7
    <3> QED  BY <1>5, <2>2, <2>3, <3>1
  <2> QED  BY <2>6, <2>7
<1>9. ASSUME NEW k \in 1 .. Len(v)  PROVE TaskLaid(v[k], h, bodies, own, lo)
  <2>1. CASE k = 1
    BY <1>4, <2>1 DEF TaskLaid, Definition
  <2>2. CASE k = C
    BY <1>4, <2>2 DEF TaskLaid, Definition
  <2>3. CASE k # 1 /\ k # C
    <3>1. k \in 2 .. Len(work) /\ k \in 1 .. Len(work)
      BY <1>5, <2>3
    <3>2. v[k] = work[k] /\ TaskLaid(work[k], gs, bodies, own, lo)
      BY <1>2, <1>4, <2>3, <3>1 DEF WorkLaid
    <3> QED  BY <1>2, <1>6, <1>7, <3>2, TaskStays
  <2> QED  BY <2>1, <2>2, <2>3
<1>10. Promise(h, v, bodies, own, lo)
  BY <1>2, <1>7, <1>8, <1>9 DEF Promise, WorkLaid, Noted, ErrorsKept
<1> QED  BY <1>1, <1>10 DEF v

-----------------------------------------------------------------------------
(* Definitions *)

\* Calls of dispatchArgs only.
LEMMA ArgsOnly ==
  ASSUME NEW n
  PROVE  IsSeq(DispatchArgs(n)) /\ \A k \in 1 .. Len(DispatchArgs(n)) :
           DispatchArgs(n)[k].call = "args"
<1> DEFINE x == [call |-> "args", node |-> n]
<1>1. x.call = "args"
  OBVIOUS
<1> HIDE DEF x
<1>2. DispatchArgs(n) = <<>> \/ DispatchArgs(n) = <<x>>
  BY DEF DispatchArgs, x
<1> QED  BY <1>1, <1>2, NoneIs, OneIs

\* The ports of a definition are dispatched: no code is written.
LEMMA GoesArgs ==
  ASSUME Inv, outcome = "running", work # <<>>, Task.call = "args",
         NEW own, NEW lo, Promise(gs, work, bodies, own, lo),
         NEW h, Good(h), Extends(gs, h), Laid(h, bodies, own, lo),
         NextPos(h) = NextPos(gs), h.errors = gs.errors,
         NEW t, IsSeq(t), \A k \in 1 .. Len(t) : t[k].call = "args", Stmt(h, t)
  PROVE  Promise(gs', work', bodies', own, lo)
<1>1. gs' = h /\ bodies' = bodies /\ Splice(work', t, work)
  BY DEF Stmt, Then, Splice
<1>2. /\ Good(gs) /\ WorkLaid(work, gs, bodies, own, lo) /\ IsSeq(gs.errors)
      /\ IsSeq(work) /\ Task = work[1]
  BY AtPromise
<1>3. \A k \in 1 .. Len(t) : /\ TaskLaid(t[k], h, bodies, own, lo)
                             /\ t[k].call \notin Definition
  BY DEF TaskLaid, Definition
<1>4. work[1].call = "args" /\ work[1].call \notin Definition
  BY <1>2 DEF Definition
<1>5. WorkLaid(work', h, bodies, own, lo)
  BY <1>1, <1>2, <1>3, <1>4, WorkSplice
<1> QED  BY <1>1, <1>2, <1>5 DEF Promise, Noted

LEMMA LaysArgsSplit ==
  ASSUME Inv, NEW own, NEW lo, Promise(gs, work, bodies, own, lo), ArgsSplit
  PROVE  Promise(gs', work', bodies', own, lo)
<1> DEFINE a == DispatchArgs(node.left)
           b == DispatchArgs(node.right)
           t == a \o b
<1>1. /\ outcome = "running" /\ work # <<>> /\ Task.call = "args" /\ Stmt(gs, t)
  BY DEF ArgsSplit, On, Running
<1>2. /\ IsSeq(a) /\ \A k \in 1 .. Len(a) : a[k].call = "args"
      /\ IsSeq(b) /\ \A k \in 1 .. Len(b) : b[k].call = "args"
  BY ArgsOnly
<1> HIDE DEF a, b
<1>3. IsSeq(t) /\ \A k \in 1 .. Len(t) : t[k].call = "args"
  <2>1. /\ IsSeq(t) /\ Len(t) = Len(a) + Len(b)
        /\ \A k \in 1 .. Len(a) : t[k] = a[k]
        /\ \A k \in Len(a) + 1 .. Len(a) + Len(b) : t[k] = b[k - Len(a)]
        /\ Len(a) \in Nat /\ Len(b) \in Nat
    BY <1>2, ConcatIs, SeqFacts
  <2> HIDE DEF t
  <2>2. ASSUME NEW k \in 1 .. Len(t)  PROVE t[k].call = "args"
    <3>1. CASE k \in 1 .. Len(a)
      BY <1>2, <2>1, <3>1
    <3>2. CASE k \notin 1 .. Len(a)
      <4>1. k \in Len(a) + 1 .. Len(a) + Len(b) /\ k - Len(a) \in 1 .. Len(b)
        BY <2>1, <3>2
      <4> QED  BY <1>2, <2>1, <4>1
    <3> QED  BY <3>1, <3>2
  <2> QED  BY <2>1, <2>2
<1> HIDE DEF t
<1>4. /\ Good(gs) /\ Extends(gs, gs) /\ Laid(gs, bodies, own, lo)
  BY <1>1, AtPromise DEF Built
<1> QED  BY <1>1, <1>3, <1>4, GoesArgs

LEMMA LaysArgsName ==
  ASSUME Inv, NEW own, NEW lo, Promise(gs, work, bodies, own, lo), ArgsName
  PROVE  Promise(gs', work', bodies', own, lo)
<1> DEFINE s == [Symbols(gs) EXCEPT !.argnum = @ + 1]
           g == WithSymbols(gs, s)
           name == Variable(node.tok)
           h == FetchVariableRegister(g, name)
<1>1. /\ outcome = "running" /\ work # <<>> /\ Task.call = "args" /\ Stmt(h, <<>>)
  BY DEF ArgsName, Running
<1>2. Good(gs) /\ Open(gs) /\ Laid(gs, bodies, own, lo)
  BY <1>1, AtPromise
<1>3. Good(g) /\ Open(g) /\ Keeps(gs, g, {"symbols"})
  BY <1>2, CountArgGood
<1>4. s.register_state = RegStates(gs) /\ s.marks = Symbols(gs).marks
      /\ Len(RegStates(gs)) \in Nat
  BY <1>2, SymbolsFacts DEF RegStates, IsTable
<1>5. \A x \in DOMAIN s.marks : lo[s.marks[x]] = Cur(gs, bodies)
  BY <1>2, <1>4, MarksOwn
<1>6. Len(name) # 4
  BY VariableName
<1> HIDE DEF s, name
<1>7. Extends(gs, g) /\ Laid(g, bodies, own, lo)
  BY <1>2, <1>3, <1>4, <1>5, TableLaid
<1> HIDE DEF g
<1>8. Built(g, h, bodies, own, lo) /\ Keeps(g, h, {"symbols"})
  BY <1>3, <1>6, <1>7, BuildsVariable, FetchVariableRegisterGood
<1> HIDE DEF h
<1>9. Good(h) /\ Extends(gs, h) /\ Laid(h, bodies, own, lo)
  BY <1>2, <1>3, <1>7, <1>8, ExtendsTrans DEF Built
<1>10. NextPos(h) = NextPos(gs) /\ h.errors = gs.errors
  BY <1>3, <1>8 DEF Keeps, Fields, NextPos
<1> QED  BY <1>1, <1>9, <1>10, NoneIs, GoesArgs

\* A breakpoint at the end of the code, with no label behind it, is taken back.
LEMMA BreakRemoved ==
  ASSUME NEW g, Good(g), Open(g), ~ Loose(g), NEW bs, NEW own, NEW lo,
         Laid(g, bs, own, lo), NEW h, h = RemoveTopPotBreak(g)
  PROVE  /\ Good(h) /\ Open(h) /\ Laid(h, bs, own, lo)
         /\ Len(h.symbols) = Len(g.symbols) /\ h.errors = g.errors
<1>1. CASE ~ OnPotentialBreak(g)
  BY <1>1 DEF RemoveTopPotBreak
<1>2. CASE OnPotentialBreak(g)
  <2>1. Good(h)
    BY RemoveTopGood
  <2>2. /\ h.code = Front(g.code)
        /\ Keeps(g, h, {"code", "line_info", "potential_breaks"})
    BY <1>2 DEF RemoveTopPotBreak, Good, Shape, Keeps, Fields
  <2>3. /\ h.symbols = g.symbols /\ h.funcAddrs = g.funcAddrs /\ h.labels = g.labels
        /\ h.backpatching_todo = g.backpatching_todo /\ h.errors = g.errors
        /\ h.stack_maps = g.stack_maps
    BY <2>2 DEF Keeps, Fields
  <2> DEFINE n == NextPos(g) - 1
  <2>4. /\ NextPos(g) \in Nat /\ NextPos(g) >= 2
        /\ own[n] = Cur(g, bs) /\ Ins(g, n) = PotentialBreak
    BY <1>2, OnBreak
  <2>5. n \in Nat /\ n >= 1 /\ n + 1 = NextPos(g)
    BY <2>4
  <2> HIDE DEF n
  <2>6. NextPos(h) = n /\ \A i \in 0 .. n - 1 : Ins(h, i) = Ins(g, i)
    <3>1. IsSeq(g.code) /\ Len(g.code) = n + 1
      BY <2>5 DEF Good, Shape, NextPos
    <3>2. g.code # <<>>
      BY <2>5, <3>1, NoneIs
    <3>3. Len(h.code) = Len(g.code) - 1 /\ \A k \in 1 .. Len(g.code) - 1 : h.code[k] = g.code[k]
      BY <2>2, <3>1, <3>2, FrontIs
    <3>4. \A i \in 0 .. n - 1 : i + 1 \in 1 .. Len(g.code) - 1
      BY <2>5, <3>1
    <3>5. Len(g.code) - 1 = n
      BY <2>5, <3>1
    <3> QED  BY <3>3, <3>4, <3>5 DEF NextPos, Ins
  <2>7. Cur(h, bs) = Cur(g, bs) /\ \A m : SizeOf(h, bs, m) = SizeOf(g, bs, m)
    BY <2>3 DEF Cur, SizeOf
  <2>8. \A i \in Nat : Entry(g, i) => Entry(h, i)
    <3>1. \A i \in Nat : i < n => i \in 0 .. n - 1 /\ i < NextPos(g)
      BY <2>5
    <3> QED  BY <2>6, <3>1 DEF Entry
  <2>9. Owned(g, bs, own, lo) /\ CodeLaid(g, bs, own, lo) /\ BodiesLaid(g, bs, own)
        /\ LabelsLaid(g, own, lo) /\ MarksLaid(g, bs, lo) /\ FunctionsLaid(g, bs)
    BY DEF Laid
  <2>10. IsSeq(bs)
    BY <2>9 DEF Owned
  <2>11. Len(bs) \in Nat /\ Cur(g, bs) \notin 1 .. Len(bs)
    BY <2>10, SeqFacts DEF Cur
  <2>12. Owned(h, bs, own, lo)
    <3>1. ASSUME NEW i \in Nat, i >= n  PROVE own[i] = Cur(g, bs)
      <4>1. i = n \/ i >= NextPos(g)
        BY <2>5, <3>1
      <4> QED  BY <2>4, <2>9, <4>1 DEF Owned
    <3> HIDE DEF Cur
    <3> QED  BY <2>3, <2>6, <2>7, <2>9, <3>1 DEF Owned
  <2>13. CodeLaid(h, bs, own, lo)
    <3> SUFFICES ASSUME NEW i \in 1 .. n - 1  PROVE Sound(h, bs, own, lo, i)
      BY <2>6 DEF CodeLaid
    <3>1. /\ i \in 0 .. n - 1 /\ i \in Nat /\ i + 1 \in Nat /\ i \in 1 .. NextPos(g) - 1
          /\ i + 1 <= n
      BY <2>5
    <3>2. Ins(h, i) = Ins(g, i)
      BY <2>6, <3>1
    <3>3. Sound(g, bs, own, lo, i)
      BY <2>9, <3>1 DEF CodeLaid
    <3>4. Flows(h, own, i)
      <4>1. Flows(g, own, i)
        BY <3>3 DEF Sound
      <4>2. Ins(g, i).op \in {"PREPARE_EXEC", "ARG"} =>
              i + 1 < NextPos(h) /\ Ins(h, i + 1) = Ins(g, i + 1)
        <5>1. CASE i + 1 = n
          BY <2>4, <4>1, <5>1 DEF Flows, PotentialBreak
        <5>2. CASE i + 1 # n
          <6>1. i + 1 \in 0 .. n - 1 /\ i + 1 < n
            BY <2>5, <3>1, <5>2
          <6> QED  BY <2>6, <6>1
        <5> QED  BY <5>1, <5>2
      <4>3. Entry(g, i + 1) => Entry(h, i + 1)
        BY <2>8, <3>1
      <4> QED  BY <3>2, <4>1, <4>2, <4>3 DEF Flows
    <3>5. Leads(h, own, lo, i)
      BY <2>3, <3>2, <3>3 DEF Sound, Leads
    <3>6. Touches(h, bs, own, i)
      <4> HIDE DEF SizeOf
      <4>1. Touches(g, bs, own, i)
        BY <3>3 DEF Sound
      <4>2. SizeOf(h, bs, own[i]) = SizeOf(g, bs, own[i])
        BY <2>7
      <4> QED  BY <2>3, <3>2, <4>1, <4>2 DEF Touches
    <3>7. Calls(h, bs, own, i)
      <4>1. Calls(g, bs, own, i)
        BY <3>3 DEF Sound
      <4>2. ASSUME NEW j \in 1 .. i - 1
            PROVE  Ins(h, j) = Ins(g, j) /\ (Opens(g, j, i) => Opens(h, j, i))
        <5>1. j \in 0 .. n - 1 /\ \A x \in j + 1 .. i - 1 : x \in 0 .. n - 1
          BY <2>5
        <5> QED  BY <2>6, <5>1 DEF Opens
      <4> QED  BY <3>2, <4>1, <4>2 DEF Calls
    <3> QED  BY <3>4, <3>5, <3>6, <3>7 DEF Sound
  <2>14. BodiesLaid(h, bs, own)
    <3> SUFFICES ASSUME NEW k \in 1 .. Len(bs)  PROVE BodyLaid(h, bs[k], own, k)
      BY DEF BodiesLaid
    <3> DEFINE b == bs[k]
    <3>1. BodyLaid(g, b, own, k)
      BY <2>9 DEF BodiesLaid
    <3> HIDE DEF b
    <3>2. /\ b.ind \in Nat /\ b.end \in Nat /\ b.ind < b.end /\ b.end <= n + 1
          /\ \A i \in Nat : own[i] = k <=> b.ind <= i /\ i < b.end
      BY <2>5, <3>1 DEF BodyLaid
    <3>3. own[n] # k
      BY <2>4, <2>11
    <3>4. b.end <= n
      <4>1. ~ (b.ind <= n /\ n < b.end)
        BY <2>5, <3>2, <3>3
      <4>2. \A x, y, z \in Nat : x < y /\ y <= z + 1 /\ ~ (x <= z /\ z < y) => y <= z
        OBVIOUS
      <4> QED  BY <2>5, <3>2, <4>1, <4>2
    <3>5. Entry(h, b.ind)
      BY <2>8, <3>1, <3>2 DEF BodyLaid
    <3> QED  BY <2>3, <2>6, <3>1, <3>4, <3>5 DEF BodyLaid, b
  <2>15. LabelsLaid(h, own, lo)
    <3> SUFFICES ASSUME NEW l \in 0 .. Len(g.labels) - 1, g.labels[l + 1] # -1
                 PROVE  /\ g.labels[l + 1] \in 1 .. n
                        /\ own[g.labels[l + 1]] = lo[l]
                        /\ Entry(h, g.labels[l + 1])
      BY <2>3, <2>6 DEF LabelsLaid
    <3> DEFINE p == g.labels[l + 1]
    <3>1. p \in 1 .. NextPos(g) /\ own[p] = lo[l] /\ Entry(g, p)
      BY <2>9 DEF LabelsLaid
    <3>2. p # NextPos(g)
      <4>1. l + 1 \in 1 .. Len(g.labels)
        BY Lengths
      <4> QED  BY <1>2, <4>1 DEF Loose
    <3> HIDE DEF p
    <3>3. p \in 1 .. n /\ p \in Nat
      BY <2>5, <3>1, <3>2
    <3> QED  BY <2>8, <3>1, <3>3 DEF p
  <2>16. MarksLaid(h, bs, lo) /\ FunctionsLaid(h, bs)
    BY <2>3, <2>9 DEF MarksLaid, FunctionsLaid
  <2> QED  BY <2>1, <2>3, <2>12, <2>13, <2>14, <2>15, <2>16 DEF Laid, Open
<1> QED  BY <1>1, <1>2

\* h has the code of g, which ends in a jump or a return; the programs
\* finished, the owners and the labels may be more.
Continues(g, h, bs, cs, own, own2, lo, lo2) ==
  /\ h.code = g.code /\ h.backpatching_todo = g.backpatching_todo
  /\ h.errors = <<>> => g.errors = <<>>
  /\ Ins(g, NextPos(g) - 1).op \in {"JMP", "RET"}
  /\ Len(cs) \in Nat /\ Len(bs) <= Len(cs)
  /\ \A k \in 1 .. Len(bs) : cs[k] = bs[k]
  /\ \A m \in 0 .. Len(bs) \cup {Cur(g, bs)} : SizeOf(h, cs, m) = SizeOf(g, bs, m)
  /\ \A i \in 0 .. NextPos(g) - 1 : own2[i] = own[i]
  /\ \A l \in Labels(g) : lo2[l] = lo[l]

\* What is laid stays when the code behind it is another program's.
LEMMA HandsOver ==
  ASSUME NEW g, Good(g), NEW h, NEW bs, NEW own, NEW lo, Laid(g, bs, own, lo),
         NEW cs, NEW own2, NEW lo2, Continues(g, h, bs, cs, own, own2, lo, lo2)
  PROVE  CodeLaid(h, cs, own2, lo2)
<1>0. /\ h.code = g.code /\ h.backpatching_todo = g.backpatching_todo
      /\ h.errors = <<>> => g.errors = <<>>
      /\ Ins(g, NextPos(g) - 1).op \in {"JMP", "RET"}
      /\ Len(cs) \in Nat /\ Len(bs) <= Len(cs)
      /\ \A k \in 1 .. Len(bs) : cs[k] = bs[k]
      /\ \A m \in 0 .. Len(bs) \cup {Cur(g, bs)} : SizeOf(h, cs, m) = SizeOf(g, bs, m)
      /\ \A i \in 0 .. NextPos(g) - 1 : own2[i] = own[i]
      /\ \A l \in Labels(g) : lo2[l] = lo[l]
  BY DEF Continues
<1> USE <1>0
<1>1. /\ NextPos(h) = NextPos(g) /\ NextPos(g) \in Nat
      /\ \A i : Ins(h, i) = Ins(g, i) /\ (Entry(g, i) <=> Entry(h, i))
  BY Lengths DEF NextPos, Ins, Entry
<1> SUFFICES ASSUME NEW i \in 1 .. NextPos(g) - 1  PROVE Sound(h, cs, own2, lo2, i)
  BY <1>1 DEF CodeLaid
<1>2. Sound(g, bs, own, lo, i) /\ Owned(g, bs, own, lo)
  BY DEF Laid, CodeLaid
<1>3. own2[i] = own[i] /\ own[i] \in 0 .. Len(bs) \cup {Cur(g, bs)} /\ i \in Nat
  <2>1. i \in 0 .. NextPos(g) - 1 /\ i \in Nat
    BY <1>1
  <2>2. own2[i] = own[i]
    BY <2>1
  <2> HIDE DEF Cur
  <2>3. \A x \in Nat : own[x] \in 0 .. Len(bs) \cup {Cur(g, bs)}
    BY <1>2 DEF Owned
  <2> QED  BY <2>1, <2>2, <2>3
<1>4. IsSeq(bs)
  BY <1>2 DEF Owned
<1>5. Len(bs) \in Nat
  BY <1>4, SeqFacts
<1>6. Flows(h, own2, i)
  <2>1. Flows(g, own, i)
    BY <1>2 DEF Sound
  <2>2. CASE i = NextPos(g) - 1
    <3>1. Ins(h, i).op \in {"JMP", "RET"}
      BY <1>1, <2>2
    <3> QED  BY <3>1 DEF Flows
  <2>3. CASE i # NextPos(g) - 1
    <3>1. i + 1 \in 0 .. NextPos(g) - 1
      BY <1>1, <2>3
    <3>2. own2[i + 1] = own[i + 1]
      BY <3>1
    <3> QED  BY <1>1, <1>3, <2>1, <3>2 DEF Flows
  <2> QED  BY <2>2, <2>3
<1>7. Leads(h, own2, lo2, i)
  <2> SUFFICES ASSUME Ins(g, i).op \in {"JMP", "JMPC"}
               PROVE  /\ \E k \in 1 .. Len(g.backpatching_todo) : g.backpatching_todo[k] = i
                      /\ lo2[Ins(g, i).offset] = own2[i]
    BY <1>1 DEF Leads
  <2>1. PICK k \in 1 .. Len(g.backpatching_todo) : g.backpatching_todo[k] = i
    BY <1>2 DEF Sound, Leads
  <2>2. lo[Ins(g, i).offset] = own[i]
    BY <1>2 DEF Sound, Leads
  <2>3. Ins(g, i).offset \in Labels(g)
    BY <2>1 DEF Good, JumpsWait, IsJump, Ins, Labels
  <2> QED  BY <1>3, <2>1, <2>2, <2>3
<1>8. Touches(h, cs, own2, i)
  <2> HIDE DEF SizeOf
  <2>1. Touches(g, bs, own, i)
    BY <1>2 DEF Sound
  <2>2. SizeOf(h, cs, own2[i]) = SizeOf(g, bs, own[i])
    BY <1>3
  <2> QED  BY <1>1, <1>3, <2>1, <2>2 DEF Touches
<1>9. Calls(h, cs, own2, i)
  <2>1. Calls(g, bs, own, i)
    BY <1>2 DEF Sound
  <2>2. \A x \in 1 .. Len(bs) : x \in 1 .. Len(cs) /\ cs[x] = bs[x]
    BY <1>5
  <2>3. CASE Ins(g, i).op = "PREPARE_EXEC"
    BY <1>1, <1>3, <2>1, <2>2, <2>3 DEF Calls
  <2>4. CASE Ins(g, i).op \in {"ARG", "EXEC"}
    <3>1. PICK j \in 1 .. i - 1 :
            /\ Opens(g, j, i)
            /\ Ins(g, i).op = "ARG" => Ins(g, i).target < bs[Ins(g, j).index + 1].size
            /\ Ins(g, i).op = "EXEC" => Ins(g, i).entry = bs[Ins(g, j).index + 1].ind
      BY <2>1, <2>4 DEF Calls
    <3>2. j \in 1 .. NextPos(g) - 1
      BY <1>1
    <3>3. Calls(g, bs, own, j)
      BY <3>2 DEF Laid, CodeLaid, Sound
    <3>4. Ins(g, j).index + 1 \in 1 .. Len(bs)
      BY <3>1, <3>3 DEF Opens, Calls
    <3>5. Opens(h, j, i) /\ cs[Ins(h, j).index + 1] = bs[Ins(g, j).index + 1]
      BY <1>1, <2>2, <3>1, <3>4 DEF Opens
    <3> QED  BY <1>1, <2>4, <3>1, <3>5 DEF Calls
  <2>5. CASE Ins(g, i).op \notin {"PREPARE_EXEC", "ARG", "EXEC"}
    BY <1>1, <2>5 DEF Calls
  <2> QED  BY <2>3, <2>4, <2>5
<1> QED  BY <1>6, <1>7, <1>8, <1>9 DEF Sound

\* A definition in front of statements.
LEMMA DefinitionLaid ==
  ASSUME NEW h, NEW bs, NEW own, NEW lo,
         NEW w, IsSeq(w), w # <<>>, \A j \in 2 .. Len(w) : w[j].call = "void",
         NEW c \in {"void", "args"},
         NEW a, IsSeq(a), \A k \in 1 .. Len(a) : a[k].call = c,
         NEW r, r.call \in Definition, r.call = "program" <=> c = "args",
         TaskLaid(r, h, bs, own, lo),
         NEW t, Followed(t, a, r), NEW v, Splice(v, t, w)
  PROVE  WorkLaid(v, h, bs, own, lo)
<1>0. IsSeq(a) /\ IsSeq(<<r>>) /\ Len(<<r>>) = 1 /\ <<r>>[1] = r
  BY OneIs
<1>1. /\ IsSeq(t) /\ Len(t) = Len(a) + 1 /\ Len(a) \in Nat
      /\ \A k \in 1 .. Len(a) : t[k] = a[k]
      /\ t[Len(a) + 1] = r
  <2>1. /\ IsSeq(t) /\ Len(t) = Len(a) + Len(<<r>>)
        /\ \A k \in 1 .. Len(a) : t[k] = a[k]
        /\ \A k \in Len(a) + 1 .. Len(a) + Len(<<r>>) : t[k] = <<r>>[k - Len(a)]
        /\ Len(a) \in Nat
    BY ONLY <1>0, ConcatIs, SeqFacts, Followed(t, a, r) DEF Followed
  <2>2. Len(a) + 1 \in Len(a) + 1 .. Len(a) + Len(<<r>>) /\ Len(a) + 1 - Len(a) = 1
    BY <1>0, <2>1
  <2>3. t[Len(a) + 1] = <<r>>[Len(a) + 1 - Len(a)]
    BY <2>1, <2>2
  <2> QED  BY <1>0, <2>1, <2>2, <2>3
<1>2. \A k \in 1 .. Len(t) : k = Len(a) + 1 \/ k \in 1 .. Len(a)
  BY <1>1
<1>3. /\ \A k \in 1 .. Len(t) : k \in 1 .. Len(v) /\ v[k] = t[k]
      /\ \A k \in 1 .. Len(v) :
           \/ k \in 1 .. Len(t) /\ v[k] = t[k]
           \/ \E j \in 2 .. Len(w) : k = Len(t) + j - 1 /\ v[k] = w[j]
  <2>1. IsSeq(t)
    BY <1>1
  <2> QED  BY ONLY IsSeq(w), w # <<>>, Splice(v, t, w), <2>1, Spliced
<1>4. ASSUME NEW k \in 1 .. Len(v)
      PROVE  \/ k = Len(a) + 1 /\ v[k] = r
             \/ v[k].call \in {"void", "args"}
  BY <1>1, <1>2, <1>3
<1>5. Heads(v)
  <2> SUFFICES ASSUME NEW k \in 1 .. Len(v), v[k].call \in Definition, NEW j \in 1 .. k - 1
               PROVE  v[j].call = "args" <=> v[k].call = "program"
    BY DEF Heads
  <2>1. k = Len(a) + 1 /\ v[k] = r
    BY <1>4 DEF Definition
  <2>2. j \in 1 .. Len(a) /\ j \in 1 .. Len(t)
    BY <1>1, <2>1
  <2>3. v[j] = a[j]
    BY <1>1, <1>3, <2>2
  <2> QED  BY <2>1, <2>2, <2>3
<1>6. ASSUME NEW k \in 1 .. Len(v)  PROVE TaskLaid(v[k], h, bs, own, lo)
  BY <1>4 DEF TaskLaid, Definition
<1> QED  BY <1>5, <1>6 DEF WorkLaid

\* Statements.
LEMMA VoidsLaid ==
  ASSUME NEW h, NEW bs, NEW own, NEW lo, NEW v, \A k \in 1 .. Len(v) : v[k].call = "void"
  PROVE  WorkLaid(v, h, bs, own, lo)
  BY DEF WorkLaid, Heads, TaskLaid, Definition

\* The body of a definition is dispatched when its parameters have been
\* counted.
LEMMA LaysProgramBody ==
  ASSUME Inv, ArgsOccupyFirstRegisters,
         NEW own, NEW lo, Promise(gs, work, bodies, own, lo), ProgramBody
  PROVE  Promise(gs', work', bodies', own, lo)
<1> DEFINE r == [call |-> "endprogram", node |-> node, after |-> Task.after,
                 ind |-> NextPos(gs)]
           a == DispatchVoid(node.right)
           t == a \o <<r>>
<1>1. /\ outcome = "running" /\ work # <<>> /\ Task.call = "program" /\ Stmt(gs, t)
  BY DEF ProgramBody, Running
<1>2. /\ Good(gs) /\ Open(gs) /\ Laid(gs, bodies, own, lo) /\ IsSeq(gs.errors)
      /\ TaskLaid(work[1], gs, bodies, own, lo) /\ Task = work[1] /\ IsSeq(work)
  BY <1>1, AtPromise
<1>3. \A j \in 2 .. Len(work) : work[j].call = "void"
  BY <1>1, OuterDepth DEF Outer
<1>4. /\ Len(gs.symbols) = 2 /\ lo[Task.after] = 0 /\ NextPos(gs) >= 2 /\ NextPos(gs) \in Nat
      /\ \A i \in Nat : own[i] = Len(bodies) + 1 <=> i >= NextPos(gs)
  BY <1>1, <1>2, Lengths DEF TaskLaid, Definition
<1>5. gs.symbols[2].argnum <= Len(gs.symbols[2].register_state)
  <2>1. Symbols(gs) = gs.symbols[2] /\ RegStates(gs) = gs.symbols[2].register_state
        /\ Len(RegStates(gs)) \in Nat
    BY <1>2, <1>4, SymbolsFacts DEF RegStates
  <2>2. Len(RegStates(gs)) = Symbols(gs).argnum
    BY <1>1 DEF ArgsOccupyFirstRegisters, Running
  <2> QED  BY <2>1, <2>2
<1>6. r.call = "endprogram" /\ r.after = Task.after /\ r.ind = NextPos(gs)
  OBVIOUS
<1> HIDE DEF r
<1>7. TaskLaid(r, gs, bodies, own, lo)
  BY <1>4, <1>5, <1>6 DEF TaskLaid, Definition, Entry
<1>8. IsSeq(a) /\ \A k \in 1 .. Len(a) : a[k].call = "void"
  <2> DEFINE x == [call |-> "void", node |-> node.right]
  <2>1. x.call = "void"
    OBVIOUS
  <2> HIDE DEF x
  <2>2. a = <<>> \/ a = <<x>>
    BY DEF DispatchVoid, x
  <2> QED  BY <2>1, <2>2, NoneIs, OneIs
<1>9. gs' = gs /\ bodies' = bodies /\ Splice(work', t, work) /\ Followed(t, a, r)
  BY <1>1 DEF Stmt, Then, Splice, Followed
<1> HIDE DEF a, t
<1>10. WorkLaid(work', gs, bodies, own, lo)
  <2>1. r.call \in Definition /\ (r.call = "program" <=> "void" = "args")
    BY <1>6 DEF Definition
  <2> QED  BY <1>1, <1>2, <1>3, <1>7, <1>8, <1>9, <2>1, DefinitionLaid
<1> QED  BY <1>2, <1>9, <1>10 DEF Promise, Noted

\* The owners f2 are those of f, but that all from n on is m's.
HandOver(f2, f, n, m) ==
  /\ f2 \in [Nat -> Nat]
  /\ \A i \in Nat : i < n => f2[i] = f[i]
  /\ \A i \in Nat : n <= i => f2[i] = m

\* There are such owners.
LEMMA Handed ==
  ASSUME NEW f, f \in [Nat -> Nat], NEW n \in Nat, NEW m \in Nat
  PROVE  \E f2 : HandOver(f2, f, n, m)
<1> DEFINE f2 == [i \in Nat |-> IF i >= n THEN m ELSE f[i]]
<1>1. \A i \in Nat : f2[i] = IF i >= n THEN m ELSE f[i]
  OBVIOUS
<1>2. f2 = [i \in Nat |-> f2[i]]
  OBVIOUS
<1> HIDE DEF f2
<1>3. \A i \in Nat : f2[i] \in Nat
  BY <1>1
<1>4. \A i \in Nat : i < n => f2[i] = f[i]
  BY <1>1
<1>5. \A i \in Nat : n <= i => f2[i] = m
  BY <1>1
<1> QED  BY <1>2, <1>3, <1>4, <1>5 DEF HandOver

\* A definition begins behind a jump: what is written, and created, from here
\* on is the new program's.
Begun(g, h, bs, own, lo, own2, lo2) ==
  /\ Len(g.symbols) = 1 /\ Ins(g, NextPos(g) - 1).op = "JMP"
  /\ \A l \in 1 .. Len(g.labels) : g.labels[l] # NextPos(g)
  /\ \E name : h = PushSymbols(g, name)
  /\ HandOver(own2, own, NextPos(g), Len(bs) + 1)
  /\ HandOver(lo2, lo, Len(g.labels), Len(bs) + 1)

\* What has been laid before stays.
LEMMA BeginsProgram ==
  ASSUME NEW g, Good(g), Open(g), NEW bs, NEW own, NEW lo, Laid(g, bs, own, lo),
         NEW own2, NEW lo2, NEW h, Begun(g, h, bs, own, lo, own2, lo2)
  PROVE  /\ Good(h) /\ Laid(h, bs, own2, lo2)
         /\ Len(h.symbols) = 2 /\ NextPos(h) = NextPos(g) /\ h.errors = g.errors
         /\ \A l \in Labels(g) : lo2[l] = lo[l]
         /\ \A i \in Nat : own2[i] = Len(bs) + 1 <=> i >= NextPos(h)
<1>0. /\ Len(g.symbols) = 1 /\ Ins(g, NextPos(g) - 1).op = "JMP"
      /\ \A l \in 1 .. Len(g.labels) : g.labels[l] # NextPos(g)
      /\ HandOver(own2, own, NextPos(g), Len(bs) + 1)
      /\ HandOver(lo2, lo, Len(g.labels), Len(bs) + 1)
  BY DEF Begun
<1> PICK name : h = PushSymbols(g, name)
  BY DEF Begun
<1> USE <1>0
<1>1. /\ Good(h) /\ Keeps(g, h, {"symbols"}) /\ Len(h.symbols) = 2
      /\ h.symbols[1] = g.symbols[1]
      /\ Symbols(h).marks = <<>>
  <2>1. /\ Good(h) /\ Keeps(g, h, {"symbols"}) /\ Len(h.symbols) = Len(g.symbols) + 1
        /\ \A k \in 1 .. Len(g.symbols) : h.symbols[k] = g.symbols[k]
        /\ Symbols(h) = [name |-> name, register_state |-> <<>>, argnum |-> 0,
                         marks |-> <<>>]
    BY PushSymbolsGood
  <2>2. 1 \in 1 .. Len(g.symbols)
    OBVIOUS
  <2> QED  BY <2>1, <2>2
<1>2. /\ h.code = g.code /\ h.labels = g.labels /\ h.errors = g.errors
      /\ h.stack_maps = g.stack_maps /\ h.funcAddrs = g.funcAddrs
      /\ h.backpatching_todo = g.backpatching_todo
  BY <1>1 DEF Keeps, Fields
<1>3. /\ Owned(g, bs, own, lo) /\ BodiesLaid(g, bs, own) /\ LabelsLaid(g, own, lo)
      /\ MarksLaid(g, bs, lo) /\ FunctionsLaid(g, bs)
  BY DEF Laid
<1>4. IsSeq(bs)
  BY <1>3 DEF Owned
<1>5. /\ Len(bs) \in Nat /\ NextPos(g) \in Nat /\ Len(g.labels) \in Nat
      /\ NextPos(h) = NextPos(g)
  BY <1>2, <1>4, SeqFacts, Lengths DEF NextPos
<1>6. Cur(g, bs) = 0 /\ Cur(h, bs) = Len(bs) + 1
  BY <1>1 DEF Cur
<1>7. own \in [Nat -> Nat] /\ lo \in [Nat -> Nat]
  BY <1>3 DEF Owned
<1>8. \A i \in Nat : own[i] \in 0 .. Len(bs)
  <2> HIDE DEF Cur
  <2>1. \A i \in Nat : own[i] \in 0 .. Len(bs) \cup {Cur(g, bs)}
    BY <1>3 DEF Owned
  <2>2. \A x : x \in 0 .. Len(bs) \cup {0} => x \in 0 .. Len(bs)
    BY <1>5
  <2> QED  BY <1>6, <2>1, <2>2
<1>9. /\ own2 \in [Nat -> Nat] /\ lo2 \in [Nat -> Nat]
      /\ \A i \in Nat : i < NextPos(g) => own2[i] = own[i]
      /\ \A i \in Nat : i >= NextPos(g) => own2[i] = Len(bs) + 1
      /\ \A l \in Nat : l >= Len(g.labels) => lo2[l] = Len(bs) + 1
      /\ \A i \in 0 .. NextPos(g) - 1 : i \in Nat /\ own2[i] = own[i]
      /\ \A l \in Labels(g) : lo2[l] = lo[l]
  <2>1. /\ \A l \in Labels(g) : l \in Nat /\ l < Len(g.labels)
        /\ \A i \in 0 .. NextPos(g) - 1 : i \in Nat /\ i < NextPos(g)
        /\ \A i \in Nat : i >= NextPos(g) => NextPos(g) <= i
        /\ \A i \in Nat : i >= Len(g.labels) => Len(g.labels) <= i
    BY <1>5 DEF Labels
  <2> QED  BY <2>1 DEF HandOver
<1>a. /\ \A i \in Nat : own2[i] = Len(bs) + 1 <=> i >= NextPos(g)
      /\ \A i \in Nat : own2[i] \in 0 .. Len(bs) \cup {Len(bs) + 1}
  <2> SUFFICES ASSUME NEW i \in Nat
               PROVE  /\ own2[i] = Len(bs) + 1 <=> i >= NextPos(g)
                      /\ own2[i] \in 0 .. Len(bs) \cup {Len(bs) + 1}
    OBVIOUS
  <2>1. CASE i >= NextPos(g)
    BY <1>9, <2>1
  <2>2. CASE ~ (i >= NextPos(g))
    <3>1. own2[i] = own[i]
      BY <1>5, <1>9, <2>2
    <3>2. own[i] \in 0 .. Len(bs)
      BY <1>8
    <3> QED  BY <1>5, <2>2, <3>1, <3>2
  <2> QED  BY <2>1, <2>2
<1>10. Owned(h, bs, own2, lo2)
  <2> HIDE DEF Cur
  <2>1. \A i \in Nat : own2[i] \in 0 .. Len(bs) \cup {Cur(h, bs)}
    BY <1>6, <1>a
  <2>2. \A i \in Nat : i >= NextPos(h) => own2[i] = Cur(h, bs)
    BY <1>5, <1>6, <1>9
  <2>3. \A l \in Nat : l >= Len(h.labels) => lo2[l] = Cur(h, bs)
    BY <1>2, <1>6, <1>9
  <2>4. Len(bs) = Len(h.stack_maps)
    BY <1>2, <1>3 DEF Owned
  <2> QED  BY <1>1, <1>4, <1>9, <2>1, <2>2, <2>3, <2>4 DEF Owned
<1>11. CodeLaid(h, bs, own2, lo2)
  <2>1. ASSUME NEW m \in 0 .. Len(bs) \cup {Cur(g, bs)}
        PROVE  SizeOf(h, bs, m) = SizeOf(g, bs, m)
    <3>1. m = 0 \/ m \in 1 .. Len(bs)
      BY <1>5, <1>6
    <3> QED  BY <1>1, <3>1 DEF SizeOf
  <2>2. \A i \in 0 .. NextPos(g) - 1 : own2[i] = own[i]
    BY <1>9
  <2>3. \A l \in Labels(g) : lo2[l] = lo[l]
    BY <1>9
  <2>4. Ins(g, NextPos(g) - 1).op \in {"JMP", "RET"} /\ Len(bs) <= Len(bs)
    BY <1>5
  <2>5. h.code = g.code /\ h.backpatching_todo = g.backpatching_todo
        /\ (h.errors = <<>> => g.errors = <<>>)
        /\ \A k \in 1 .. Len(bs) : bs[k] = bs[k]
    BY <1>2
  <2>6. Continues(g, h, bs, bs, own, own2, lo, lo2)
    BY <1>5, <2>1, <2>2, <2>3, <2>4, <2>5 DEF Continues
  <2> QED  BY <2>6, HandsOver
<1>12. BodiesLaid(h, bs, own2)
  <2> SUFFICES ASSUME NEW k \in 1 .. Len(bs)  PROVE BodyLaid(h, bs[k], own2, k)
    BY DEF BodiesLaid
  <2> DEFINE b == bs[k]
  <2>1. BodyLaid(g, b, own, k)
    BY <1>3 DEF BodiesLaid
  <2> HIDE DEF b
  <2>2. ASSUME NEW i \in Nat  PROVE own2[i] = k <=> b.ind <= i /\ i < b.end
    <3>1. CASE i < NextPos(g)
      BY <1>9, <2>1, <3>1 DEF BodyLaid
    <3>2. CASE ~ (i < NextPos(g))
      <4>1. own2[i] = Len(bs) + 1 /\ own2[i] # k
        <5>1. i >= NextPos(g)
          BY <1>5, <3>2
        <5>2. own2[i] = Len(bs) + 1
          BY <1>9, <5>1
        <5> QED  BY <1>5, <5>2
      <4>2. b.end \in Nat /\ b.end <= NextPos(g)
        BY <2>1 DEF BodyLaid
      <4>3. ~ (i < b.end)
        BY <1>5, <3>2, <4>2
      <4> QED  BY <4>1, <4>3
    <3> QED  BY <3>1, <3>2
  <2>3. Entry(h, b.ind)
    BY <1>2, <1>5, <2>1 DEF BodyLaid, Entry, Ins
  <2> QED  BY <1>2, <1>5, <2>1, <2>2, <2>3 DEF BodyLaid, b
<1>13. LabelsLaid(h, own2, lo2)
  <2> SUFFICES ASSUME NEW l \in 0 .. Len(g.labels) - 1, g.labels[l + 1] # -1
               PROVE  /\ g.labels[l + 1] \in 1 .. NextPos(h)
                      /\ own2[g.labels[l + 1]] = lo2[l]
                      /\ Entry(h, g.labels[l + 1])
    BY <1>2 DEF LabelsLaid
  <2> DEFINE p == g.labels[l + 1]
  <2>1. p \in 1 .. NextPos(g) /\ own[p] = lo[l] /\ Entry(g, p)
    BY <1>3 DEF LabelsLaid
  <2>2. l + 1 \in 1 .. Len(g.labels) /\ l \in Labels(g)
    BY <1>5 DEF Labels
  <2>3. p # NextPos(g)
    BY <2>2
  <2> HIDE DEF p
  <2>4. p \in Nat /\ p < NextPos(g)
    BY <1>5, <2>1, <2>3
  <2>5. own2[p] = own[p] /\ lo2[l] = lo[l]
    BY <1>9, <2>2, <2>4
  <2>6. Entry(h, p)
    BY <1>2, <1>5, <2>1 DEF Entry, Ins
  <2> QED  BY <1>5, <2>1, <2>5, <2>6 DEF p
<1>14. MarksLaid(h, bs, lo2)
  <2> SUFFICES ASSUME NEW k \in 1 .. 2, NEW x \in DOMAIN h.symbols[k].marks
               PROVE  lo2[h.symbols[k].marks[x]] = IF k = 1 THEN 0 ELSE Len(bs) + 1
    BY <1>1 DEF MarksLaid
  <2>1. CASE k = 1
    <3>1. x \in DOMAIN g.symbols[1].marks
      BY <1>1, <2>1
    <3>2. lo[g.symbols[1].marks[x]] = 0
      BY <1>3, <3>1 DEF MarksLaid
    <3>3. g.symbols[1].marks[x] \in Labels(g)
      BY <3>1 DEF Good, Tables, IsTable, Labels
    <3> QED  BY <1>1, <1>9, <2>1, <3>2, <3>3
  <2>2. CASE k # 1
    <3>1. k = 2
      BY <2>2
    <3>2. h.symbols[2].marks = <<>>
      BY <1>1, SymbolsFacts DEF Open
    <3> QED  BY <3>1, <3>2
  <2> QED  BY <2>1, <2>2
<1>15. FunctionsLaid(h, bs)
  BY <1>2, <1>3 DEF FunctionsLaid
<1>16. Laid(h, bs, own2, lo2)
  BY <1>10, <1>11, <1>12, <1>13, <1>14, <1>15 DEF Laid
<1> QED  BY <1>1, <1>2, <1>5, <1>9, <1>a, <1>16

\* No label is set behind a jump just emitted.
LEMMA JumpBehind ==
  ASSUME NEW g, Good(g), Open(g), NEW l \in Labels(g), NEW h, h = EmitBackpatched(g, Jmp(l))
  PROVE  /\ Ins(h, NextPos(h) - 1).op = "JMP" /\ NextPos(h) = NextPos(g) + 1
         /\ \A k \in 1 .. Len(h.labels) : h.labels[k] # NextPos(h)
         /\ h.labels = g.labels /\ h.symbols = g.symbols /\ h.errors = g.errors
<1>1. h.code = Append(g.code, Jmp(l)) /\ Keeps(g, h, {"code", "backpatching_todo"})
  BY JumpsOn, EmitBackpatchedGood
<1>2. h.labels = g.labels /\ h.symbols = g.symbols /\ h.errors = g.errors
  BY <1>1 DEF Keeps, Fields
<1>3. IsSeq(g.code)
  BY DEF Good, Shape
<1>4. /\ Len(g.code) \in Nat /\ Len(h.code) = Len(g.code) + 1
      /\ h.code[Len(g.code) + 1] = Jmp(l)
  BY <1>1, <1>3, AppendIs, SeqFacts
<1>5. \A k \in 1 .. Len(g.labels) : g.labels[k] \in -1 .. Len(g.code)
  BY DEF Good, LabelsSet
<1>6. /\ NextPos(h) = NextPos(g) + 1 /\ (NextPos(h) - 1) + 1 = Len(g.code) + 1
      /\ \A x \in -1 .. Len(g.code) : x # NextPos(h)
  BY <1>4 DEF NextPos
<1>7. Ins(h, NextPos(h) - 1) = Jmp(l) /\ Jmp(l).op = "JMP"
  BY <1>4, <1>6 DEF Ins, Jmp
<1> QED  BY <1>2, <1>5, <1>6, <1>7

\* A definition begins: what is written from now on is the new program's.
LEMMA LaysVoidProgram ==
  ASSUME Inv, NEW own, NEW lo, Promise(gs, work, bodies, own, lo), VoidProgram,
         outcome' = "running"
  PROVE  \E own2, lo2 : Promise(gs', work', bodies', own2, lo2)
<1> DEFINE g == RemoveTopPotBreak(AtLine)
           after == NewLabel(g)
           g1 == CreateLabel(g)
           jumping == EmitBackpatched(g1, Jmp(after))
           ports == node.left.right
           name == node.left.left.tok
           h == PushSymbols(jumping, name)
           a == DispatchArgs(ports.left)
           r == [call |-> "program", node |-> node, after |-> after]
           t == a \o <<r>>
<1>1. /\ outcome = "running" /\ work # <<>> /\ Task.call = "void" /\ node.t = "PROGRAM"
      /\ Stmt(h, t)
  BY DEF VoidProgram, On, Running
<1>2. /\ Good(gs) /\ IsSeq(gs.errors) /\ IsSeq(work) /\ Task = work[1]
      /\ Built(gs, AtLine, bodies, own, lo)
  BY <1>1, AtPromise
<1>3. Outer(Task, source)
  <2>1. source \in Sources /\ node = Task.node /\ Fits(work[1], gs, source)
    BY <1>1, AtTask DEF node
  <2> QED  BY <1>1, <1>2, <2>1, BodyNode DEF Outer
<1>4. /\ ~ Loose(gs) /\ Len(gs.symbols) = 1
      /\ \A j \in 2 .. Len(work) : work[j].call = "void"
  BY <1>1, <1>3, OuterDepth DEF Definition
<1>5. /\ Good(AtLine) /\ Open(AtLine) /\ ~ Loose(AtLine) /\ Len(AtLine.symbols) = 1
      /\ Laid(AtLine, bodies, own, lo) /\ IsSeq(AtLine.errors)
  <2>1. Onto(gs, AtLine)
    BY <1>1, AtLineOnto
  <2> QED  BY <1>2, <1>4, <2>1, OntoGrows DEF Built, ErrorsKept
<1>6. /\ Good(g) /\ Open(g) /\ Laid(g, bodies, own, lo)
      /\ Len(g.symbols) = 1 /\ IsSeq(g.errors)
  BY <1>5, BreakRemoved
<1> HIDE DEF g
<1>7. Built(g, g1, bodies, own, lo) /\ lo[after] = 0 /\ after \in Labels(g1)
      /\ Keeps(g, g1, {"labels"})
  <2>1. Built(g, g1, bodies, own, lo) /\ lo[after] = Cur(g, bodies)
    BY <1>6, BuildsLabel
  <2>2. Cur(g, bodies) = 0
    BY <1>6 DEF Cur
  <2>3. after \in Labels(g1) /\ Keeps(g, g1, {"labels"})
    BY <1>6, CreateLabelGood
  <2> QED  BY <2>1, <2>2, <2>3
<1>8. g1.symbols = g.symbols /\ g1.errors = g.errors
  BY <1>7 DEF Keeps, Fields
<1> HIDE DEF g1, after
<1>9. Good(g1) /\ Open(g1) /\ Laid(g1, bodies, own, lo) /\ lo[after] = Cur(g1, bodies)
  <2>1. Good(g1) /\ Open(g1) /\ Laid(g1, bodies, own, lo)
    BY <1>7 DEF Built
  <2>2. Len(g1.symbols) = 1
    BY <1>6, <1>8
  <2>3. Cur(g1, bodies) = 0
    BY <2>2 DEF Cur
  <2> QED  BY <1>7, <2>1, <2>3
<1>10. Built(g1, jumping, bodies, own, lo)
  BY <1>7, <1>9, BuildsGoto
<1>11. /\ Ins(jumping, NextPos(jumping) - 1).op = "JMP" /\ NextPos(jumping) = NextPos(g1) + 1
       /\ \A k \in 1 .. Len(jumping.labels) : jumping.labels[k] # NextPos(jumping)
       /\ jumping.labels = g1.labels /\ jumping.symbols = g1.symbols
       /\ jumping.errors = g1.errors
  BY <1>7, <1>9, JumpBehind
<1> HIDE DEF jumping
<1>12. /\ Good(jumping) /\ Open(jumping) /\ Laid(jumping, bodies, own, lo)
       /\ Len(jumping.symbols) = 1
       /\ after \in Labels(jumping) /\ NextPos(jumping) \in Nat /\ NextPos(jumping) >= 2
       /\ IsSeq(jumping.errors)
  <2>1. Good(jumping) /\ Open(jumping) /\ Laid(jumping, bodies, own, lo)
    BY <1>10 DEF Built
  <2>2. NextPos(g1) \in Nat /\ NextPos(g1) >= 1
    BY <1>9, Lengths
  <2> QED  BY <1>6, <1>7, <1>8, <1>11, <2>1, <2>2 DEF Labels
<1>13. /\ own \in [Nat -> Nat] /\ lo \in [Nat -> Nat]
       /\ Len(bodies) + 1 \in Nat /\ Len(jumping.labels) \in Nat
  <2>1. IsSeq(bodies)
    BY <1>12 DEF Laid, Owned
  <2>2. own \in [Nat -> Nat] /\ lo \in [Nat -> Nat]
    BY <1>12 DEF Laid, Owned
  <2>3. Len(bodies) \in Nat
    BY <2>1, SeqFacts
  <2>4. Len(bodies) + 1 \in Nat
    BY <2>3
  <2>5. Len(jumping.labels) \in Nat
    BY <1>12, Lengths
  <2> QED  BY <2>2, <2>4, <2>5, Zenon
<1>14. PICK own2 : HandOver(own2, own, NextPos(jumping), Len(bodies) + 1)
  BY <1>12, <1>13, Handed
<1>15. PICK lo2 : HandOver(lo2, lo, Len(jumping.labels), Len(bodies) + 1)
  BY <1>13, Handed
<1>16. /\ Good(h) /\ Laid(h, bodies, own2, lo2)
       /\ Len(h.symbols) = 2 /\ NextPos(h) = NextPos(jumping) /\ h.errors = jumping.errors
       /\ lo2[after] = lo[after]
       /\ \A i \in Nat : own2[i] = Len(bodies) + 1 <=> i >= NextPos(h)
  <2>1. Begun(jumping, h, bodies, own, lo, own2, lo2)
    BY <1>11, <1>12, <1>14, <1>15 DEF Begun
  <2> QED  BY <1>12, <2>1, BeginsProgram
<1> HIDE DEF h
<1>17. r.call = "program" /\ r.after = after
  OBVIOUS
<1> HIDE DEF r
<1>18. TaskLaid(r, h, bodies, own2, lo2)
  BY <1>7, <1>12, <1>16, <1>17 DEF TaskLaid, Definition
<1>19. IsSeq(a) /\ \A k \in 1 .. Len(a) : a[k].call = "args"
  BY ArgsOnly
<1>20. gs' = h /\ bodies' = bodies /\ Splice(work', t, work) /\ Followed(t, a, r)
  BY <1>1 DEF Stmt, Then, Splice, Followed
<1> HIDE DEF a, t
<1>21. WorkLaid(work', h, bodies, own2, lo2)
  <2>1. r.call \in Definition /\ (r.call = "program" <=> "args" = "args")
    BY <1>17 DEF Definition
  <2> QED  BY <1>1, <1>2, <1>4, <1>18, <1>19, <1>20, <2>1, DefinitionLaid
<1>22. Promise(h, work', bodies, own2, lo2)
  BY <1>12, <1>16, <1>21 DEF Promise, Noted
<1> QED  BY <1>20, <1>22

\* Errors are added behind those there are.
LEMMA ErrorsAdded ==
  ASSUME NEW g, Good(g), IsSeq(g.errors), NEW t, NEW n \in Nat, NEW f, f = Errors(g, t, n)
  PROVE  /\ IsSeq(f.errors)
         /\ f.errors = <<>> => g.errors = <<>> /\ n = 0
<1> DEFINE e == [k \in 1 .. n |-> Error(g, t)]
<1>1. f.errors = g.errors \o e
  BY DEF Errors, Good, Shape, Fields
<1>2. IsSeq(e)
  BY FunctionIs
<1>3. Len(e) = n
  BY FunctionIs
<1> HIDE DEF e
<1>4. IsSeq(f.errors)
  BY <1>1, <1>2, ConcatIs
<1>5. Len(f.errors) = Len(g.errors) + Len(e)
  BY <1>1, <1>2, ConcatIs
<1>6. Len(g.errors) \in Nat
  BY SeqFacts
<1>7. ASSUME f.errors = <<>>  PROVE g.errors = <<>> /\ n = 0
  <2>1. Len(f.errors) = 0
    BY <1>7, NoneIs
  <2>2. Len(g.errors) = 0 /\ n = 0
    BY <1>3, <1>5, <1>6, <2>1
  <2>3. g.errors # <<>> => Len(g.errors) >= 1
    BY TailIs
  <2>4. g.errors = <<>>
    BY <2>2, <2>3
  <2> QED  BY <2>2, <2>4
<1> QED  BY <1>4, <1>7

\* The stack map of a finished program names registers it has.
LEMMA SymbolsPopped ==
  ASSUME NEW g, Good(g), Open(g), NEW addr \in Nat, NEW h, h = PopSymbols(g, addr)
  PROVE  /\ IsSeq(g.errors) => IsSeq(h.errors) /\ (h.errors = <<>> => g.errors = <<>>)
         /\ \E m : /\ h.stack_maps = Append(g.stack_maps, m)
                   /\ DOMAIN m.map \subseteq 0 .. Len(RegStates(g)) - 1
<1> DEFINE s == Symbols(g)
           unknown == {name \in DOMAIN s.marks : g.labels[s.marks[name] + 1] = -1}
           f == Errors(g, "UNKNOWN_MARK", Cardinality(unknown))
           named == {r \in 0 .. Len(s.register_state) - 1 :
                       ~ s.register_state[r + 1].is_temp}
           map == [r \in named |-> s.register_state[r + 1].name]
           m == [func_name |-> s.name, map |-> map]
<1>1. Cardinality(unknown) \in Nat
  BY SymbolsFacts, FS_Subset, FS_CardinalityType DEF IsTable
<1> HIDE DEF unknown
<1>2. DOMAIN m.map \subseteq 0 .. Len(RegStates(g)) - 1
  BY DEF RegStates
<1>3. Good(f) /\ Keeps(g, f, {"errors"})
  BY <1>1, ErrorsGood
<1>4. h = [f EXCEPT !.stack_maps = Append(@, m),
                    !.funcAddrs = Bound(@, s.name, Prog(g, addr)),
                    !.symbols = Front(@)]
  BY DEF PopSymbols, unknown, Prog, RegStates
<1>5. IsSeq(g.errors) => IsSeq(f.errors) /\ (f.errors = <<>> => g.errors = <<>>)
  BY <1>1, ErrorsAdded
<1> HIDE DEF f, m, s
<1>6. h.errors = f.errors /\ h.stack_maps = Append(g.stack_maps, m)
  BY <1>3, <1>4 DEF Good, Shape, Fields, Keeps
<1> QED  BY <1>2, <1>5, <1>6

\* A definition ends behind a return: its table is given up, its program may
\* be called, and the label behind it is set.
Ended(g, h, bs, cs, own, lo, own2, lo2, ind, after) ==
  /\ Len(g.symbols) = 2 /\ IsSeq(g.errors)
  /\ Ins(g, NextPos(g) - 1).op = "RET"
  /\ \A l \in 1 .. Len(g.labels) : g.labels[l] # NextPos(g)
  /\ ind \in Nat /\ 2 <= ind /\ ind < NextPos(g) /\ Entry(g, ind)
  /\ \A i \in Nat : own[i] = Len(bs) + 1 <=> i >= ind
  /\ g.symbols[2].argnum <= Len(g.symbols[2].register_state)
  /\ after \in Labels(g) /\ lo[after] = 0
  /\ h = SetLabel(PopSymbols(g, ind), after, NextPos(g))
  /\ cs = Append(bs, [ind |-> ind, end |-> NextPos(g), size |-> Len(RegStates(g))])
  /\ HandOver(own2, own, NextPos(g), 0)
  /\ HandOver(lo2, lo, Len(g.labels), 0)

\* Its code is its own; what is written from here on is the root program's.
LEMMA EndsProgram ==
  ASSUME NEW g, Good(g), Open(g), NEW bs, NEW own, NEW lo, Laid(g, bs, own, lo),
         NEW cs, NEW own2, NEW lo2, NEW ind, NEW after,
         NEW h, Ended(g, h, bs, cs, own, lo, own2, lo2, ind, after)
  PROVE  Laid(h, cs, own2, lo2) /\ IsSeq(h.errors)
<1> DEFINE p == PopSymbols(g, ind)
           size == Len(RegStates(g))
           b == [ind |-> ind, end |-> NextPos(g), size |-> size]
<1>1. /\ Len(g.symbols) = 2 /\ Ins(g, NextPos(g) - 1).op = "RET"
      /\ \A l \in 1 .. Len(g.labels) : g.labels[l] # NextPos(g)
      /\ ind \in Nat /\ 2 <= ind /\ ind < NextPos(g) /\ Entry(g, ind)
      /\ \A i \in Nat : own[i] = Len(bs) + 1 <=> i >= ind
      /\ g.symbols[2].argnum <= Len(g.symbols[2].register_state)
      /\ after \in Labels(g) /\ lo[after] = 0
  BY DEF Ended
<1>2. /\ h = SetLabel(p, after, NextPos(g)) /\ cs = Append(bs, b)
      /\ HandOver(own2, own, NextPos(g), 0)
      /\ HandOver(lo2, lo, Len(g.labels), 0)
  BY DEF Ended
<1>3. b.ind = ind /\ b.end = NextPos(g) /\ b.size = size
  OBVIOUS
<1> HIDE DEF b
<1>4. /\ Good(p) /\ Keeps(g, p, {"errors", "stack_maps", "funcAddrs", "symbols"})
      /\ Len(p.symbols) = Len(g.symbols) - 1
      /\ \A k \in 1 .. Len(g.symbols) - 1 : p.symbols[k] = g.symbols[k]
      /\ p.funcAddrs = Bound(g.funcAddrs, Symbols(g).name, Prog(g, ind))
  BY <1>1, PopSymbolsGood
<1>5. PICK m : /\ p.stack_maps = Append(g.stack_maps, m)
               /\ DOMAIN m.map \subseteq 0 .. size - 1
  BY <1>1, SymbolsPopped
<1>6. IsSeq(p.errors) /\ (p.errors = <<>> => g.errors = <<>>)
  <2>1. IsSeq(g.errors)
    BY DEF Ended
  <2> QED  BY <1>1, <2>1, SymbolsPopped
<1> HIDE DEF p
<1>7. /\ p.code = g.code /\ p.labels = g.labels
      /\ p.backpatching_todo = g.backpatching_todo
  BY <1>4 DEF Keeps, Fields
<1>8. /\ Len(bs) = Len(g.stack_maps)
      /\ own \in [Nat -> Nat] /\ lo \in [Nat -> Nat]
      /\ BodiesLaid(g, bs, own) /\ LabelsLaid(g, own, lo)
      /\ MarksLaid(g, bs, lo) /\ FunctionsLaid(g, bs)
  BY DEF Laid, Owned
<1>9. IsSeq(bs)
  BY DEF Laid, Owned
<1>10. IsSeq(g.stack_maps) /\ IsSeq(g.labels)
  BY DEF Good, Shape
<1>11. /\ Len(bs) \in Nat /\ NextPos(g) \in Nat /\ Len(g.labels) \in Nat /\ size \in Nat
  <2>1. Len(bs) \in Nat
    BY <1>9, SeqFacts
  <2>2. size \in Nat
    BY SymbolsFacts
  <2> QED  BY <2>1, <2>2, Lengths
<1>12. h.labels = [g.labels EXCEPT ![after + 1] = NextPos(g)] /\ Keeps(p, h, {"labels"})
  BY <1>2, <1>4, <1>7 DEF SetLabel, Good, Shape, Fields, Keeps
<1>13. /\ h.code = g.code /\ h.backpatching_todo = g.backpatching_todo
       /\ h.errors = p.errors /\ h.symbols = p.symbols
       /\ h.stack_maps = Append(g.stack_maps, m)
       /\ h.funcAddrs = Bound(g.funcAddrs, Symbols(g).name, Prog(g, ind))
       /\ NextPos(h) = NextPos(g)
  BY <1>4, <1>5, <1>7, <1>12 DEF Keeps, Fields, NextPos
<1>14. /\ after \in 0 .. Len(g.labels) - 1 /\ after + 1 \in 1 .. Len(g.labels)
       /\ Len(h.labels) = Len(g.labels) /\ h.labels[after + 1] = NextPos(g)
       /\ \A k \in 1 .. Len(g.labels) : k # after + 1 => h.labels[k] = g.labels[k]
  <2>1. after \in 0 .. Len(g.labels) - 1 /\ after + 1 \in 1 .. Len(g.labels)
    BY <1>1, <1>11 DEF Labels
  <2> QED  BY <1>10, <1>12, <2>1, ExceptIs
<1>15. Len(h.symbols) = 1 /\ h.symbols[1] = g.symbols[1] /\ Cur(h, cs) = 0
  BY <1>1, <1>4, <1>13 DEF Cur
<1>16. Cur(g, bs) = Len(bs) + 1
  BY <1>1 DEF Cur
<1>17. /\ Len(cs) = Len(bs) + 1 /\ cs[Len(bs) + 1] = b
       /\ \A k \in 1 .. Len(bs) : cs[k] = bs[k]
  BY <1>2, <1>9, AppendIs
<1>18. IsSeq(cs)
  BY <1>2, <1>9, AppendIs
<1>19. /\ Len(h.stack_maps) = Len(bs) + 1 /\ h.stack_maps[Len(bs) + 1] = m
       /\ \A k \in 1 .. Len(bs) : h.stack_maps[k] = g.stack_maps[k]
  <2>1. IsSeq(g.stack_maps)
    BY <1>10
  <2>2. h.stack_maps = Append(g.stack_maps, m)
    BY <1>13
  <2>3. Len(bs) = Len(g.stack_maps)
    BY <1>8
  <2> HIDE DEF IsSeq
  <2>4. /\ Len(h.stack_maps) = Len(g.stack_maps) + 1
        /\ h.stack_maps[Len(g.stack_maps) + 1] = m
        /\ \A k \in 1 .. Len(g.stack_maps) : h.stack_maps[k] = g.stack_maps[k]
    BY ONLY <2>1, <2>2, AppendIs
  <2> QED  BY <2>3, <2>4
<1>20. \A i \in Nat : own[i] \in 0 .. Len(cs)
  <2> HIDE DEF Cur
  <2>1. \A i \in Nat : own[i] \in 0 .. Len(bs) \cup {Cur(g, bs)}
    BY DEF Laid, Owned
  <2>2. \A x : x \in 0 .. Len(bs) \cup {Len(bs) + 1} => x \in 0 .. Len(bs) + 1
    BY <1>11
  <2> QED  BY <1>16, <1>17, <2>1, <2>2
<1>21. /\ own2 \in [Nat -> Nat] /\ lo2 \in [Nat -> Nat]
       /\ \A i \in Nat : i < NextPos(g) => own2[i] = own[i]
       /\ \A i \in Nat : i >= NextPos(g) => own2[i] = 0
       /\ \A l \in Nat : l >= Len(g.labels) => lo2[l] = 0
       /\ \A i \in 0 .. NextPos(g) - 1 : i \in Nat /\ own2[i] = own[i]
       /\ \A l \in Labels(g) : lo2[l] = lo[l]
  <2>1. /\ \A l \in Labels(g) : l \in Nat /\ l < Len(g.labels)
        /\ \A i \in 0 .. NextPos(g) - 1 : i \in Nat /\ i < NextPos(g)
        /\ \A i \in Nat : i >= NextPos(g) => NextPos(g) <= i
        /\ \A i \in Nat : i >= Len(g.labels) => Len(g.labels) <= i
    BY <1>11 DEF Labels
  <2> QED  BY <1>2, <2>1 DEF HandOver
<1>22. Owned(h, cs, own2, lo2)
  <2> HIDE DEF Cur
  <2>1. ASSUME NEW i \in Nat  PROVE own2[i] \in 0 .. Len(cs)
    <3>1. CASE i < NextPos(g)
      BY <1>20, <1>21, <3>1
    <3>2. CASE ~ (i < NextPos(g))
      <4>1. i >= NextPos(g)
        BY <1>11, <3>2
      <4>2. own2[i] = 0
        BY <1>21, <4>1
      <4> QED  BY <1>11, <1>17, <4>2
    <3> QED  BY <3>1, <3>2
  <2>2. \A i \in Nat : i >= NextPos(h) => own2[i] = Cur(h, cs)
    BY <1>13, <1>15, <1>21
  <2>3. \A l \in Nat : l >= Len(h.labels) => lo2[l] = Cur(h, cs)
    BY <1>14, <1>15, <1>21
  <2>4. Len(cs) = Len(h.stack_maps)
    BY <1>17, <1>19
  <2> QED  BY <1>15, <1>18, <1>21, <2>1, <2>2, <2>3, <2>4 DEF Owned
<1>23. CodeLaid(h, cs, own2, lo2)
  <2>1. ASSUME NEW k \in 0 .. Len(bs) \cup {Cur(g, bs)}
        PROVE  SizeOf(h, cs, k) = SizeOf(g, bs, k)
    <3>1. CASE k = 0
      BY <1>15, <3>1 DEF SizeOf
    <3>2. CASE k \in 1 .. Len(bs)
      <4>1. k \in 1 .. Len(cs)
        BY <1>11, <1>17, <3>2
      <4> QED  BY <1>17, <3>2, <4>1 DEF SizeOf
    <3>3. CASE k = Len(bs) + 1
      <4>1. k \in 1 .. Len(cs) /\ k \notin 1 .. Len(bs) /\ k # 0
        BY <1>11, <1>17, <3>3
      <4>2. Len(g.symbols[2].register_state) = size
        BY <1>1, SymbolsFacts DEF RegStates
      <4> QED  BY <1>3, <1>17, <3>3, <4>1, <4>2 DEF SizeOf
    <3> QED  BY <1>11, <1>16, <3>1, <3>2, <3>3
  <2>2. \A i \in 0 .. NextPos(g) - 1 : own2[i] = own[i]
    BY <1>21
  <2>3. \A l \in Labels(g) : lo2[l] = lo[l]
    BY <1>21
  <2>4. Ins(g, NextPos(g) - 1).op \in {"JMP", "RET"} /\ Len(bs) <= Len(cs) /\ Len(cs) \in Nat
    BY <1>1, <1>11, <1>17
  <2>5. h.code = g.code /\ h.backpatching_todo = g.backpatching_todo
        /\ (h.errors = <<>> => g.errors = <<>>)
        /\ \A k \in 1 .. Len(bs) : cs[k] = bs[k]
    BY <1>6, <1>13, <1>17
  <2>6. Continues(g, h, bs, cs, own, own2, lo, lo2)
    BY <2>1, <2>2, <2>3, <2>4, <2>5 DEF Continues
  <2> QED  BY <2>6, HandsOver
<1>24. \A i \in Nat : Entry(g, i) <=> Entry(h, i)
  BY <1>13 DEF Entry, Ins
<1>25. BodiesLaid(h, cs, own2)
  <2> SUFFICES ASSUME NEW k \in 1 .. Len(cs)  PROVE BodyLaid(h, cs[k], own2, k)
    BY DEF BodiesLaid
  <2>1. CASE k \in 1 .. Len(bs)
    <3> DEFINE c == bs[k]
    <3>1. BodyLaid(g, c, own, k)
      BY <1>8, <2>1 DEF BodiesLaid
    <3>2. cs[k] = c /\ h.stack_maps[k] = g.stack_maps[k]
      BY <1>17, <1>19, <2>1
    <3> HIDE DEF c
    <3>3. ASSUME NEW i \in Nat  PROVE own2[i] = k <=> c.ind <= i /\ i < c.end
      <4>1. CASE i < NextPos(g)
        BY <1>21, <3>1, <4>1 DEF BodyLaid
      <4>2. CASE ~ (i < NextPos(g))
        <5>1. own2[i] = 0
          BY <1>11, <1>21, <4>2
        <5>2. c.end \in Nat /\ c.end <= NextPos(g)
          BY <3>1 DEF BodyLaid
        <5>3. ~ (i < c.end) /\ k # 0
          BY <1>11, <2>1, <4>2, <5>2
        <5> QED  BY <5>1, <5>3
      <4> QED  BY <4>1, <4>2
    <3>4. Entry(h, c.ind)
      BY <1>24, <3>1 DEF BodyLaid
    <3> QED  BY <1>13, <3>1, <3>2, <3>3, <3>4 DEF BodyLaid
  <2>2. CASE k = Len(bs) + 1
    <3>1. ASSUME NEW i \in Nat  PROVE own2[i] = k <=> ind <= i /\ i < NextPos(g)
      <4>1. CASE i < NextPos(g)
        <5>1. own2[i] = own[i]
          BY <1>21, <4>1
        <5>2. own[i] = k <=> i >= ind
          BY <1>1, <2>2
        <5> QED  BY <1>1, <4>1, <5>1, <5>2
      <4>2. CASE ~ (i < NextPos(g))
        <5>1. own2[i] = 0
          BY <1>11, <1>21, <4>2
        <5> QED  BY <1>11, <2>2, <4>2, <5>1
      <4> QED  BY <4>1, <4>2
    <3>2. cs[k] = b /\ h.stack_maps[k] = m
      BY <1>17, <1>19, <2>2
    <3>3. Entry(h, ind)
      BY <1>1, <1>24
    <3>4. NextPos(g) <= NextPos(h)
      BY <1>11, <1>13
    <3> HIDE DEF size
    <3> QED  BY <1>1, <1>3, <1>5, <1>11, <1>13, <3>1, <3>2, <3>3, <3>4 DEF BodyLaid
  <2> QED  BY <1>11, <1>17, <2>1, <2>2
<1>26. LabelsLaid(h, own2, lo2)
  <2> SUFFICES ASSUME NEW l \in 0 .. Len(g.labels) - 1, h.labels[l + 1] # -1
               PROVE  /\ h.labels[l + 1] \in 1 .. NextPos(h)
                      /\ own2[h.labels[l + 1]] = lo2[l]
                      /\ Entry(h, h.labels[l + 1])
    BY <1>14 DEF LabelsLaid
  <2>1. CASE l = after
    <3>1. own2[NextPos(g)] = 0 /\ lo2[l] = 0
      <4>1. NextPos(g) \in Nat /\ NextPos(g) >= NextPos(g)
        BY <1>11
      <4>2. own2[NextPos(g)] = 0
        BY <1>21, <4>1
      <4>3. lo2[l] = 0
        BY <1>1, <1>21, <2>1
      <4> QED  BY <4>2, <4>3
    <3>2. NextPos(g) \in 1 .. NextPos(h) /\ Entry(h, NextPos(g))
      <4>1. NextPos(g) >= 1
        BY Lengths
      <4> QED  BY <1>11, <1>13, <4>1 DEF Entry
    <3> QED  BY <1>14, <2>1, <3>1, <3>2
  <2>2. CASE l # after
    <3> DEFINE q == g.labels[l + 1]
    <3>1. l + 1 \in 1 .. Len(g.labels) /\ l \in Labels(g) /\ l + 1 # after + 1
      BY <1>11, <1>14, <2>2 DEF Labels
    <3>2. h.labels[l + 1] = q
      BY <1>14, <3>1
    <3>3. q \in 1 .. NextPos(g) /\ own[q] = lo[l] /\ Entry(g, q)
      BY <1>8, <3>2 DEF LabelsLaid
    <3>4. q # NextPos(g)
      BY <1>1, <3>1
    <3> HIDE DEF q
    <3>5. q \in Nat /\ q < NextPos(g)
      BY <1>11, <3>3, <3>4
    <3>6. own2[q] = own[q] /\ lo2[l] = lo[l]
      BY <1>21, <3>1, <3>5
    <3>7. Entry(h, q)
      BY <1>24, <3>3, <3>5
    <3> QED  BY <1>13, <3>2, <3>3, <3>6, <3>7
  <2> QED  BY <2>1, <2>2
<1>27. MarksLaid(h, cs, lo2)
  <2> SUFFICES ASSUME NEW k \in 1 .. 1, NEW x \in DOMAIN h.symbols[k].marks
               PROVE  lo2[h.symbols[k].marks[x]] = IF k = 1 THEN 0 ELSE Len(cs) + 1
    BY <1>15 DEF MarksLaid
  <2>1. k = 1 /\ 1 \in 1 .. Len(g.symbols)
    BY <1>1
  <2>2. x \in DOMAIN g.symbols[1].marks /\ h.symbols[k].marks[x] = g.symbols[1].marks[x]
    BY <1>15, <2>1
  <2>3. lo[g.symbols[1].marks[x]] = 0
    BY <1>8, <2>1, <2>2 DEF MarksLaid
  <2>4. g.symbols[1].marks[x] \in Labels(g)
    BY <2>1, <2>2 DEF Good, Tables, IsTable, Labels
  <2> QED  BY <1>21, <2>1, <2>2, <2>3, <2>4
<1>28. FunctionsLaid(h, cs)
  <2> SUFFICES ASSUME NEW name \in DOMAIN h.funcAddrs, NEW f, f = h.funcAddrs[name]
               PROVE  /\ f.mi + 1 \in 1 .. Len(cs)
                      /\ f.ind = cs[f.mi + 1].ind
                      /\ f.stack_size = cs[f.mi + 1].size
                      /\ f.argnum <= f.stack_size
    BY DEF FunctionsLaid
  <2>1. CASE name = Symbols(g).name
    <3>1. f = Prog(g, ind)
      BY <1>13, <2>1 DEF Bound
    <3>2. /\ f.ind = ind /\ f.mi = Len(bs) /\ f.stack_size = size
          /\ f.argnum = Symbols(g).argnum
      BY <1>8, <3>1 DEF Prog
    <3>3. Symbols(g) = g.symbols[2] /\ size = Len(g.symbols[2].register_state)
      BY <1>1, SymbolsFacts DEF RegStates
    <3>4. Len(bs) + 1 \in 1 .. Len(cs)
      BY <1>11, <1>17
    <3> QED  BY <1>1, <1>3, <1>17, <3>2, <3>3, <3>4
  <2>2. CASE name # Symbols(g).name
    <3>1. name \in DOMAIN g.funcAddrs /\ f = g.funcAddrs[name]
      BY <1>13, <2>2 DEF Bound
    <3>2. /\ f.mi + 1 \in 1 .. Len(bs) /\ f.ind = bs[f.mi + 1].ind
          /\ f.stack_size = bs[f.mi + 1].size /\ f.argnum <= f.stack_size
      BY <1>8, <3>1 DEF FunctionsLaid
    <3>3. \A k \in 1 .. Len(bs) : k \in 1 .. Len(cs)
      BY <1>11, <1>17
    <3> QED  BY <1>17, <3>2, <3>3
  <2> QED  BY <2>1, <2>2
<1>29. IsSeq(h.errors)
  BY <1>6, <1>13
<1> QED  BY <1>22, <1>23, <1>25, <1>26, <1>27, <1>28, <1>29 DEF Laid

\* No label is set behind a return just emitted.
LEMMA ReturnBehind ==
  ASSUME NEW g, Good(g), NEW a, NEW h, h = Emit(g, Ret(a))
  PROVE  /\ Ins(h, NextPos(h) - 1).op = "RET" /\ NextPos(h) = NextPos(g) + 1
         /\ \A k \in 1 .. Len(h.labels) : h.labels[k] # NextPos(h)
<1>1. h.code = Append(g.code, Ret(a)) /\ Keeps(g, h, {"code"})
  BY EmitEffect DEF Good
<1>2. h.labels = g.labels
  BY <1>1 DEF Keeps, Fields
<1>3. IsSeq(g.code)
  BY DEF Good, Shape
<1>4. /\ Len(g.code) \in Nat /\ Len(h.code) = Len(g.code) + 1
      /\ h.code[Len(g.code) + 1] = Ret(a)
  BY <1>1, <1>3, AppendIs, SeqFacts
<1>5. \A k \in 1 .. Len(g.labels) : g.labels[k] \in -1 .. Len(g.code)
  BY DEF Good, LabelsSet
<1>6. /\ NextPos(h) = NextPos(g) + 1 /\ (NextPos(h) - 1) + 1 = Len(g.code) + 1
      /\ \A x \in -1 .. Len(g.code) : x # NextPos(h)
  BY <1>4 DEF NextPos
<1>7. Ins(h, NextPos(h) - 1) = Ret(a) /\ Ret(a).op = "RET"
  BY <1>4, <1>6 DEF Ins, Ret
<1> QED  BY <1>2, <1>5, <1>6, <1>7

\* A definition ends: what is written from now on is the root program's.
LEMMA LaysProgramEnd ==
  ASSUME Inv, NEW own, NEW lo, Promise(gs, work, bodies, own, lo), ProgramEnd
  PROVE  \E own2, lo2 : Promise(gs', work', bodies', own2, lo2)
<1> DEFINE out == node.left.right.right
           out_name == Variable(IF out = Null THEN "x0" ELSE out.tok)
           f == FetchVariableRegister(gs, out_name)
           a == VariableRegister(gs, out_name)
           g == Emit(f, Ret(a))
           ind == Task.ind
           after == Task.after
           h == SetLabel(PopSymbols(g, ind), after, NextPos(g))
           cs == Append(bodies, [ind |-> ind, end |-> NextPos(g),
                                 size |-> Len(RegStates(g))])
<1>1. /\ outcome = "running" /\ work # <<>> /\ Task.call = "endprogram"
      /\ gs' = h /\ bodies' = cs /\ Splice(work', <<>>, work)
  BY DEF ProgramEnd, Running, Return, Then, Splice
<1>2. /\ Good(gs) /\ Open(gs) /\ Laid(gs, bodies, own, lo) /\ IsSeq(gs.errors)
      /\ TaskLaid(work[1], gs, bodies, own, lo) /\ Task = work[1] /\ IsSeq(work)
  BY <1>1, AtPromise
<1>3. after \in Labels(gs) /\ \A j \in 2 .. Len(work) : work[j].call = "void"
  BY <1>1, AtTask, OuterDepth DEF Fits, Definition, Outer
<1>4. Len(out_name) # 4
  BY VariableName
<1> HIDE DEF out_name
<1>5. Built(gs, f, bodies, own, lo) /\ a \in Regs(f)
  BY <1>2, <1>4, BuildsVariable, FetchVariableRegisterOnto
<1> HIDE DEF f, a
<1>6. Len(gs.symbols) = 2 /\ lo[after] = 0
  BY <1>1, <1>2 DEF TaskLaid, Definition
<1>7. Good(f) /\ Open(f) /\ Laid(f, bodies, own, lo) /\ Len(f.symbols) = 2
  BY <1>5, <1>6 DEF Built, Extends
<1>8. Built(f, g, bodies, own, lo)
  BY <1>5, <1>7, BuildsReturn
<1>9. /\ Ins(g, NextPos(g) - 1).op = "RET" /\ NextPos(g) = NextPos(f) + 1
      /\ \A k \in 1 .. Len(g.labels) : g.labels[k] # NextPos(g)
  BY <1>7, ReturnBehind
<1> HIDE DEF g
<1>10. Built(gs, g, bodies, own, lo)
  BY <1>5, <1>8, BuiltTrans
<1>11. /\ Good(g) /\ Open(g) /\ Laid(g, bodies, own, lo) /\ Extends(gs, g)
       /\ ArgsKept(gs, g) /\ after \in Labels(g) /\ IsSeq(g.errors)
  <2>1. Labels(gs) \subseteq Labels(g)
    BY <1>10, BuiltFacts
  <2> QED  BY <1>2, <1>3, <1>10, <2>1 DEF Built, ErrorsKept
<1>12. TaskLaid(work[1], g, bodies, own, lo)
  <2>1. work[1].call # "program"
    BY <1>1, <1>2
  <2> QED  BY <1>2, <1>11, <2>1, TaskStays
<1>13. /\ Len(g.symbols) = 2 /\ ind \in Nat /\ 2 <= ind /\ Entry(g, ind)
       /\ \A i \in Nat : own[i] = Len(bodies) + 1 <=> i >= ind
       /\ g.symbols[2].argnum <= Len(g.symbols[2].register_state)
  BY <1>1, <1>2, <1>12 DEF TaskLaid, Definition
<1>14. ind < NextPos(g)
  <2>1. ind <= NextPos(gs) /\ NextPos(gs) <= NextPos(f)
    BY <1>1, <1>2, <1>5 DEF TaskLaid, Built, Extends
  <2>2. NextPos(gs) \in Nat /\ NextPos(f) \in Nat
    BY <1>2, <1>7, Lengths
  <2> QED  BY <1>9, <1>13, <2>1, <2>2
<1>15. /\ own \in [Nat -> Nat] /\ lo \in [Nat -> Nat]
       /\ NextPos(g) \in Nat /\ Len(g.labels) \in Nat /\ 0 \in Nat
  BY <1>11, Lengths DEF Laid, Owned
<1>16. PICK own2 : HandOver(own2, own, NextPos(g), 0)
  BY <1>15, Handed
<1>17. PICK lo2 : HandOver(lo2, lo, Len(g.labels), 0)
  BY <1>15, Handed
<1>18. Ended(g, h, bodies, cs, own, lo, own2, lo2, ind, after)
  BY <1>6, <1>9, <1>11, <1>13, <1>14, <1>16, <1>17 DEF Ended
<1> HIDE DEF h, cs
<1>19. Laid(h, cs, own2, lo2) /\ IsSeq(h.errors)
  BY <1>11, <1>18, EndsProgram
<1>20. \A k \in 1 .. Len(work') : work'[k].call = "void"
  <2>1. IsSeq(<<>>) /\ Len(<<>>) = 0
    BY NoneIs
  <2>2. \A k \in 1 .. Len(work') : \/ k \in 1 .. 0
                                   \/ \E j \in 2 .. Len(work) : work'[k] = work[j]
    <3>1. IsSeq(work) /\ work # <<>>
      BY <1>1, <1>2
    <3>2. Splice(work', <<>>, work)
      BY <1>1
    <3> QED  BY <2>1, <3>1, <3>2, Spliced
  <2> QED  BY <1>3, <2>2
<1>21. WorkLaid(work', h, cs, own2, lo2)
  BY <1>20, VoidsLaid
<1> QED  BY <1>1, <1>19, <1>21 DEF Promise, Noted

-----------------------------------------------------------------------------
(* gen() returns *)

\* A jump that is patched is otherwise the same.
LEMMA JumpKept ==
  ASSUME NEW r \in Instruction, r.op \in {"JMP", "JMPC"}, NEW z \in Int,
         NEW s, s = [r EXCEPT !.offset = z]
  PROVE  s.op = r.op /\ s.offset = z /\ (r.op = "JMPC" => s.source = r.source)
  BY DEF Instruction

\* The jump at position i of g goes from there to where its label is set.
Patched(g, h, i) ==
  \E p : /\ p = g.labels[Ins(g, i).offset + 1] /\ p # -1
         /\ Ins(h, i).offset = p - i

\* The instruction at position i is that of g, but for where it jumps to.
Retargeted(g, h, i) ==
  \/ Ins(h, i) = Ins(g, i)
  \/ /\ Ins(g, i).op \in {"JMP", "JMPC"} /\ Ins(h, i).op = Ins(g, i).op
     /\ Ins(g, i).op = "JMPC" => Ins(h, i).source = Ins(g, i).source

\* Backpatching without an error fills in jumps that waited for labels that are
\* set, and changes nothing else.
LEMMA Backpatches ==
  ASSUME NEW e, Good(e), NEW h, h = Backpatch(e), h.errors = <<>>
  PROVE  /\ \A i \in 0 .. NextPos(e) - 1 : Retargeted(e, h, i)
         /\ IsSeq(e.errors) =>
              /\ e.errors = <<>>
              /\ \A k \in 1 .. Len(e.backpatching_todo) :
                   Patched(e, h, e.backpatching_todo[k])
<1> DEFINE todo        == e.backpatching_todo
           Target(loc) == e.labels[e.code[loc + 1].offset + 1]
           unknown     == {k \in DOMAIN todo : Target(todo[k]) = -1}
           patched     == {loc + 1 : loc \in Range(todo)}
           new(s)      == [k \in DOMAIN s |->
                             IF k \in patched
                               THEN [s[k] EXCEPT !.offset = Target(k - 1) - (k - 1)]
                               ELSE s[k]]
           f == Errors(e, "UNKNOWN_MARK", Cardinality(unknown))
<1>0. h = [f EXCEPT !.code = new(@), !.backpatching_todo = <<>>]
  BY Zenon DEF Backpatch
<1>1. /\ IsSeq(todo) /\ IsSeq(e.code) /\ Len(e.code) \in Nat
      /\ DOMAIN todo = 1 .. Len(todo) /\ DOMAIN e.code = 1 .. Len(e.code)
      /\ Len(todo) \in Nat
  BY SeqFacts DEF Good, Shape
<1>2. IsFiniteSet(unknown) /\ Cardinality(unknown) \in Nat
  <2>1. IsFiniteSet(1 .. Len(todo))
    BY <1>1, FS_Interval
  <2>2. unknown \subseteq 1 .. Len(todo)
    BY <1>1
  <2> HIDE DEF unknown, todo
  <2>3. IsFiniteSet(unknown)
    BY <2>1, <2>2, FS_Subset
  <2> QED  BY <2>3, FS_CardinalityType
<1>3. \A k \in 1 .. Len(e.code) :
        /\ k \notin patched => new(e.code)[k] = e.code[k]
        /\ k \in patched =>
             new(e.code)[k] = [e.code[k] EXCEPT !.offset = Target(k - 1) - (k - 1)]
  BY <1>1
<1>4. \A k \in 1 .. Len(todo) : Target(todo[k]) = -1 => k \in unknown
  BY <1>1
<1> HIDE DEF unknown
<1>5. Good(f) /\ Keeps(e, f, {"errors"})
  BY <1>2, ErrorsGood
<1>6. f.code = e.code
  BY <1>5 DEF Keeps, Fields
<1>7. h.code = new(e.code) /\ h.errors = f.errors
  <2> HIDE DEF f, new
  <2> QED  BY <1>0, <1>5, <1>6 DEF Good, Shape, Fields
<1>8. IsSeq(e.errors) => e.errors = <<>> /\ Cardinality(unknown) = 0
  BY <1>2, <1>7, ErrorsAdded
<1>9. IsSeq(e.errors) => unknown = {}
  BY <1>2, <1>8, FS_EmptySet, SMTT(30)
<1> HIDE DEF f, new
<1>10. ASSUME IsSeq(e.errors), NEW k \in 1 .. Len(todo)
       PROVE  Patched(e, h, todo[k])
  <2>1. todo[k] \in 1 .. Len(e.code) - 1 /\ IsJump(e.code[todo[k] + 1], e)
    BY DEF Good, JumpsWait
  <2> DEFINE i == todo[k]
             p == Target(i)
  <2>2. i + 1 \in 2 .. Len(e.code) /\ i + 1 \in 1 .. Len(e.code) /\ (i + 1) - 1 = i
    BY <1>1, <2>1
  <2>3. i + 1 \in patched
    BY <1>1 DEF Range
  <2>4. p # -1
    BY <1>4, <1>9, <1>10
  <2>5. p - i \in Int
    <3>1. e.code[i + 1].offset + 1 \in 1 .. Len(e.labels)
      <4>1. IsSeq(e.labels)
        BY DEF Good, Shape
      <4>2. Len(e.labels) \in Nat
        BY <4>1, SeqFacts
      <4> QED  BY <2>1, <4>2, SMTT(30) DEF IsJump
    <3>2. p \in Int
      BY <1>1, <3>1 DEF Good, LabelsSet
    <3> QED  BY <2>1, <3>2
  <2> DEFINE r == e.code[i + 1]
  <2>6. h.code[i + 1] = [r EXCEPT !.offset = p - i]
    BY <1>3, <1>7, <2>2, <2>3
  <2>7. r \in Instruction /\ r.op \in {"JMP", "JMPC"}
    BY <2>1, <2>2 DEF Good, CodeTyped, IsJump
  <2> HIDE DEF r, p, i
  <2>8. h.code[i + 1].offset = p - i
    BY <2>5, <2>6, <2>7, JumpKept
  <2> QED  BY <2>2, <2>4, <2>8, Zenon DEF Patched, Ins, r, p, i
<1>11. ASSUME NEW i \in 0 .. NextPos(e) - 1
       PROVE  Retargeted(e, h, i)
  <2>1. i + 1 \in 1 .. Len(e.code) /\ (i + 1) - 1 = i
    BY <1>1 DEF NextPos
  <2>2. CASE i + 1 \notin patched
    BY <1>3, <1>7, <2>1, <2>2 DEF Ins, Retargeted
  <2>3. CASE i + 1 \in patched
    <3>1. PICK k \in 1 .. Len(todo) : i + 1 = todo[k] + 1
      BY <1>1, <2>3 DEF Range
    <3>2. /\ todo[k] \in 1 .. Len(e.code) - 1 /\ IsJump(e.code[todo[k] + 1], e)
      BY DEF Good, JumpsWait
    <3> DEFINE r == e.code[i + 1]
               z == Target(i) - i
    <3>3. i + 1 \in 2 .. Len(e.code)
      BY <1>1, <3>1, <3>2
    <3>4. r \in Instruction /\ r.op \in {"JMP", "JMPC"}
      BY <3>1, <3>2, <3>3 DEF Good, CodeTyped, IsJump
    <3>5. z \in Int
      <4>1. e.code[i + 1].offset + 1 \in 1 .. Len(e.labels)
        <5>1. IsSeq(e.labels)
          BY DEF Good, Shape
        <5>2. Len(e.labels) \in Nat
          BY <5>1, SeqFacts
        <5> QED  BY <3>1, <3>2, <5>2, SMTT(30) DEF IsJump
      <4>2. Target(i) \in Int
        BY <1>1, <4>1 DEF Good, LabelsSet
      <4> QED  BY <4>2
    <3>6. h.code[i + 1] = [r EXCEPT !.offset = z]
      BY <1>3, <1>7, <2>1, <2>3
    <3> HIDE DEF r, z
    <3>7. h.code[i + 1].op = r.op /\ (r.op = "JMPC" => h.code[i + 1].source = r.source)
      BY <3>4, <3>5, <3>6, JumpKept
    <3> QED  BY <3>4, <3>7 DEF Ins, Retargeted, r
  <2> QED  BY <2>2, <2>3
<1> QED  BY <1>8, <1>10, <1>11, SMTT(30)

\* What gen() returns in h, of the state g the traversal has left: the root
\* program is called, ends in a HALT, and has a stack map.
Complete(g, h) ==
  /\ NextPos(h) = NextPos(g) + 1
  /\ Ins(h, 0) \in Instruction /\ Ins(h, 0).op = "PREPARE_EXEC"
  /\ Ins(h, 0).count = Len(g.symbols[1].register_state)
  /\ Ins(h, 0).index = Len(g.stack_maps)
  /\ Ins(h, NextPos(g)) = Halt
  /\ \A i \in 1 .. NextPos(g) - 1 : Retargeted(g, h, i)
  /\ \A k \in 1 .. Len(g.backpatching_todo) : Patched(g, h, g.backpatching_todo[k])
  /\ g.errors = <<>> \/ NextPos(g) = 1
  /\ \E m : /\ h.stack_maps = Append(g.stack_maps, m)
            /\ DOMAIN m.map \subseteq 0 .. Len(g.symbols[1].register_state) - 1

\* The placeholder with the count and the index it is given.
LEMMA PlaceholderIs ==
  ASSUME NEW r \in [op : {"PREPARE_EXEC"}, count : Int, index : Int, target : Nat],
         NEW a \in Nat, NEW b \in Nat,
         NEW s, s = Sized(r, a, b)
  PROVE  s \in Instruction /\ s.op = "PREPARE_EXEC" /\ s.count = a /\ s.index = b
<1>1. s \in [op : {"PREPARE_EXEC"}, count : Nat, index : Nat, target : Nat]
  <2> DEFINE q == [r EXCEPT !.count = a]
  <2>1. q \in [op : {"PREPARE_EXEC"}, count : Nat, index : Int, target : Nat]
    OBVIOUS
  <2>2. s = [q EXCEPT !.index = b]
    BY DEF Sized
  <2> HIDE DEF q
  <2> QED  BY <2>1, <2>2
<1>2. s.op = "PREPARE_EXEC" /\ s.count = a /\ s.index = b
  BY DEF Sized
<1> QED  BY <1>1, <1>2 DEF Instruction

\* When gen() returns without an error, its code is complete.
LEMMA GenCompletes ==
  ASSUME Inv, Finish, Noted(gs, work), gs'.errors = <<>>
  PROVE  Complete(gs, gs') /\ Good(gs) /\ Len(gs.symbols) = 1
<1> DEFINE q == PopSymbols(gs, 0)
           p == q.funcAddrs["#root"]
           entry == [q.code[1] EXCEPT !.count = p.stack_size, !.index = p.mi]
           f == [q EXCEPT !.code[1] = entry]
           e == Emit(f, Halt)
           h == Backpatch(e)
           size == Len(gs.symbols[1].register_state)
<1>1. /\ outcome = "running" /\ work = <<>> /\ gs' = h
  BY DEF Finish
<1>2. /\ Good(gs) /\ Open(gs) /\ Len(gs.symbols) = 1 /\ gs.symbols[1].name = "#root"
  <2>1. ~ HasCall(work, Definition)
    BY <1>1 DEF HasCall
  <2>2. Len(gs.symbols) = 1
    BY <1>1, <2>1 DEF Inv, Depth
  <2> QED  BY <1>1, <2>2 DEF Inv, Open, Traversal
<1>3. /\ Symbols(gs) = gs.symbols[1] /\ RegStates(gs) = gs.symbols[1].register_state
      /\ size \in Nat /\ Len(gs.stack_maps) \in Nat
  <2>1. IsSeq(gs.stack_maps)
    BY <1>2 DEF Good, Shape
  <2> QED  BY <1>2, <2>1, SymbolsFacts, SeqFacts DEF RegStates
<1>4. /\ Good(q) /\ Keeps(gs, q, {"errors", "stack_maps", "funcAddrs", "symbols"})
      /\ p.stack_size = size /\ p.mi = Len(gs.stack_maps)
  <2>1. /\ Good(q) /\ Keeps(gs, q, {"errors", "stack_maps", "funcAddrs", "symbols"})
        /\ q.funcAddrs = Bound(gs.funcAddrs, Symbols(gs).name, Prog(gs, 0))
    BY <1>2, PopSymbolsGood
  <2>2. p = Prog(gs, 0)
    BY <1>2, <1>3, <2>1 DEF Bound
  <2> QED  BY <1>3, <2>1, <2>2 DEF Prog
<1>5. PICK m : /\ q.stack_maps = Append(gs.stack_maps, m)
               /\ DOMAIN m.map \subseteq 0 .. size - 1
  BY <1>2, <1>3, SymbolsPopped
<1>6. IsSeq(gs.errors) => IsSeq(q.errors) /\ (q.errors = <<>> => gs.errors = <<>>)
  BY <1>2, SymbolsPopped
<1>7. /\ q.code = gs.code /\ q.labels = gs.labels
      /\ q.backpatching_todo = gs.backpatching_todo
  BY <1>4 DEF Keeps, Fields
<1> HIDE DEF q, p
<1>r. entry = Sized(q.code[1], size, Len(gs.stack_maps))
  BY <1>4 DEF Sized
<1>f. f = Filled(q, size, Len(gs.stack_maps))
  BY <1>4 DEF Filled, Sized
<1>z. size \in Nat /\ Len(gs.stack_maps) \in Nat
  BY <1>3
<1> HIDE DEF entry, f, size
<1>8. /\ Good(f) /\ Keeps(q, f, {"code"}) /\ Len(f.code) = Len(q.code) /\ f.code[1] = entry
      /\ \A k \in 1 .. Len(q.code) : k # 1 => f.code[k] = q.code[k]
  <2>1. Good(q)
    BY <1>4
  <2>2. Good(f) /\ Keeps(q, f, {"code"}) /\ f.code = Assigned(q.code, 1, entry)
    BY <1>r, <1>f, <1>z, <2>1, PlaceholderFilled
  <2>3. IsSeq(q.code) /\ 1 \in 1 .. Len(q.code)
    BY <2>1, SeqFacts DEF Good, Shape, CodeTyped
  <2> QED  BY <2>2, <2>3, AssignedIs
<1>9. /\ entry \in Instruction /\ entry.op = "PREPARE_EXEC"
      /\ entry.count = size /\ entry.index = Len(gs.stack_maps)
  <2>1. q.code[1] \in [op : {"PREPARE_EXEC"}, count : Int, index : Int, target : Nat]
    BY <1>4 DEF Good, CodeTyped
  <2> QED  BY <1>r, <1>z, <2>1, PlaceholderIs
<1>10. /\ Good(e) /\ Keeps(f, e, {"code"}) /\ e.code = Append(f.code, Halt)
  <2>1. Halt \in Instruction /\ Halt # PotentialBreak
    BY Zero, Instructions
  <2> QED  BY <1>8, <2>1, EmitGood, EmitEffect DEF Good
<1>11. /\ Len(f.code) \in Nat /\ Len(e.code) = Len(f.code) + 1 /\ Len(f.code) >= 1
       /\ \A k \in 1 .. Len(f.code) : e.code[k] = f.code[k]
       /\ e.code[Len(f.code) + 1] = Halt
  <2>1. IsSeq(f.code) /\ Len(f.code) >= 1
    BY <1>8 DEF Good, Shape, CodeTyped
  <2> QED  BY <1>10, <2>1, SeqFacts, AppendIs
<1> HIDE DEF e
<1>12. /\ e.labels = gs.labels /\ e.backpatching_todo = gs.backpatching_todo
       /\ e.errors = q.errors /\ e.stack_maps = q.stack_maps
  BY <1>7, <1>8, <1>10 DEF Keeps, Fields
<1>13. /\ \A i \in 0 .. NextPos(e) - 1 : Retargeted(e, h, i)
       /\ IsSeq(e.errors) =>
            /\ e.errors = <<>>
            /\ \A k \in 1 .. Len(e.backpatching_todo) :
                 Patched(e, h, e.backpatching_todo[k])
  BY <1>1, <1>10, Backpatches
<1>14. Keeps(e, h, {"code", "errors", "backpatching_todo"}) /\ Len(h.code) = Len(e.code)
  BY <1>10, BackpatchGood
<1> HIDE DEF h
<1>15. /\ NextPos(gs) \in Nat /\ NextPos(gs) >= 1
       /\ NextPos(e) = NextPos(gs) + 1 /\ NextPos(h) = NextPos(gs) + 1
  BY <1>7, <1>8, <1>11, <1>14 DEF NextPos
<1>16. /\ Ins(e, 0) = entry /\ Ins(e, NextPos(gs)) = Halt
       /\ \A i \in 1 .. NextPos(gs) - 1 : Ins(e, i) = Ins(gs, i)
  <2>1. Ins(e, 0) = entry
    BY <1>8, <1>11 DEF Ins
  <2>2. Ins(e, NextPos(gs)) = Halt
    BY <1>7, <1>8, <1>11 DEF Ins, NextPos
  <2>3. ASSUME NEW i \in 1 .. NextPos(gs) - 1  PROVE Ins(e, i) = Ins(gs, i)
    <3>1. i + 1 \in 1 .. Len(f.code) /\ i + 1 \in 1 .. Len(q.code) /\ i + 1 # 1
      BY <1>7, <1>8, <1>11 DEF NextPos
    <3> QED  BY <1>7, <1>8, <1>11, <3>1 DEF Ins
  <2> QED  BY <2>1, <2>2, <2>3
<1>17. Ins(h, 0) = entry /\ Ins(h, NextPos(gs)) = Halt
  <2>1. 0 \in 0 .. NextPos(e) - 1 /\ NextPos(gs) \in 0 .. NextPos(e) - 1
    BY <1>15
  <2>2. entry.op \notin {"JMP", "JMPC"} /\ Halt.op \notin {"JMP", "JMPC"}
    BY <1>9 DEF Halt
  <2>3. Retargeted(e, h, 0) /\ Retargeted(e, h, NextPos(gs))
    BY <1>13, <2>1
  <2> QED  BY <1>16, <2>2, <2>3 DEF Retargeted
<1>18. \A i \in 1 .. NextPos(gs) - 1 : Retargeted(gs, h, i)
  <2> SUFFICES ASSUME NEW i \in 1 .. NextPos(gs) - 1  PROVE Retargeted(gs, h, i)
    OBVIOUS
  <2>1. i \in 0 .. NextPos(e) - 1
    BY <1>15
  <2>2. Retargeted(e, h, i) /\ Ins(e, i) = Ins(gs, i)
    BY <1>13, <1>16, <2>1
  <2> QED  BY <2>2 DEF Retargeted
<1>19. \A k \in 1 .. Len(gs.backpatching_todo) :
         gs.backpatching_todo[k] \in 1 .. NextPos(gs) - 1
  BY <1>2 DEF Good, JumpsWait, NextPos
<1>20. CASE IsSeq(gs.errors)
  <2>1. IsSeq(e.errors)
    BY <1>6, <1>12, <1>20
  <2>2. gs.errors = <<>>
    BY <1>6, <1>12, <1>13, <1>20, <2>1
  <2>3. \A k \in 1 .. Len(gs.backpatching_todo) : Patched(gs, h, gs.backpatching_todo[k])
    <3> SUFFICES ASSUME NEW k \in 1 .. Len(gs.backpatching_todo)
                 PROVE  Patched(gs, h, gs.backpatching_todo[k])
      OBVIOUS
    <3> DEFINE i == gs.backpatching_todo[k]
    <3>1. Patched(e, h, i)
      BY <1>12, <1>13, <2>1
    <3>2. Ins(e, i) = Ins(gs, i)
      BY <1>16, <1>19
    <3> HIDE DEF i
    <3>3. Patched(gs, h, i)
      BY <1>12, <3>1, <3>2 DEF Patched
    <3> QED  BY <3>3 DEF i
  <2>4. h.stack_maps = Append(gs.stack_maps, m)
    BY <1>5, <1>12, <1>14 DEF Keeps, Fields
  <2> QED  BY <1>1, <1>2, <1>5, <1>9, <1>15, <1>17, <1>18, <2>2, <2>3, <2>4 DEF Complete, size
<1>21. CASE ~ IsSeq(gs.errors)
  <2>1. NextPos(gs) = 1
    BY <1>21 DEF Noted
  <2>2. \A k \in 1 .. Len(gs.backpatching_todo) : Patched(gs, h, gs.backpatching_todo[k])
    BY <1>19, <2>1
  <2>3. h.stack_maps = Append(gs.stack_maps, m)
    BY <1>5, <1>12, <1>14 DEF Keeps, Fields
  <2> QED  BY <1>1, <1>2, <1>5, <1>9, <1>15, <1>17, <1>18, <2>1, <2>2, <2>3 DEF Complete, size
<1> QED  BY <1>20, <1>21

\* What is returned, and its certificate, as functions of the state and of the
\* bodies.
Generated(h) ==
  [code |-> Vector(h.code), stack_maps |-> Vector(h.stack_maps),
   potential_breaks |-> h.potential_breaks, line_info |-> h.line_info]

Proprietor(cs, i) ==
  IF i = 0 THEN NoFrame
  ELSE Min({k \in DOMAIN cs : cs[k].ind <= i /\ i < cs[k].end}) - 1

Recipient(code, i) ==
  IF code[i].op \in {"ARG", "EXEC"}
    THEN code[Max({j \in 0 .. i : code[j].op = "PREPARE_EXEC"})].index
    ELSE NoFrame

Certificate(h, cs) ==
  [root |-> Len(cs) - 1,
   size |-> Vector([k \in DOMAIN cs |-> cs[k].size]),
   owner |-> [i \in DOMAIN Vector(h.code) |-> Proprietor(cs, i)],
   callee |-> [i \in DOMAIN Vector(h.code) |-> Recipient(Vector(h.code), i)]]

\* The number of program k in the certificate.
FrameNumber(bs, k) == IF k = 0 THEN Len(bs) ELSE k - 1

\* The bodies when gen() has returned: the root program's surrounds the others.
Bodies(g, bs, cs) ==
  cs = Append(bs, [ind |-> 1, end |-> NextPos(g) + 1,
                   size |-> Len(g.symbols[1].register_state)])

\* The certificate's owners are the owners.
LEMMA OwnersAgree ==
  ASSUME NEW g, Good(g), NEW bs, NEW own, NEW lo, Laid(g, bs, own, lo),
         Len(g.symbols) = 1, NEW cs, Bodies(g, bs, cs), NEW i \in 1 .. NextPos(g)
  PROVE  /\ Proprietor(cs, i) = FrameNumber(bs, own[i])
         /\ own[i] \in 0 .. Len(bs) /\ FrameNumber(bs, own[i]) \in 0 .. Len(bs)
<1> DEFINE b == [ind |-> 1, end |-> NextPos(g) + 1,
                 size |-> Len(g.symbols[1].register_state)]
           S == {k \in DOMAIN cs : cs[k].ind <= i /\ i < cs[k].end}
<1>1. Cur(g, bs) = 0
  BY DEF Cur
<1> HIDE DEF Cur
<1>2. IsSeq(bs)
  BY DEF Laid, Owned
<1>3. Len(bs) \in Nat /\ NextPos(g) \in Nat
  BY <1>2, SeqFacts, Lengths
<1>4. own[i] \in 0 .. Len(bs)
  <2>1. i \in Nat
    BY <1>3
  <2>2. own[i] \in 0 .. Len(bs) \cup {0}
    BY <1>1, <2>1 DEF Laid, Owned
  <2> QED  BY <1>3, <2>2
<1>5. b.ind = 1 /\ b.end = NextPos(g) + 1
  OBVIOUS
<1> HIDE DEF b
<1>6. IsSeq(cs)
  BY <1>2, AppendIs DEF Bodies
<1>7. /\ Len(cs) = Len(bs) + 1 /\ cs[Len(bs) + 1] = b
      /\ \A k \in 1 .. Len(bs) : cs[k] = bs[k]
  BY <1>2, AppendIs DEF Bodies, b
<1>8. DOMAIN cs = 1 .. Len(bs) + 1
  BY <1>6, <1>7, SeqFacts
<1>9. ASSUME NEW k \in 1 .. Len(bs)  PROVE k \in S <=> own[i] = k
  <2>1. BodyLaid(g, bs[k], own, k)
    BY DEF Laid, BodiesLaid
  <2>2. own[i] = k <=> bs[k].ind <= i /\ i < bs[k].end
    BY <1>3, <2>1 DEF BodyLaid
  <2>3. k \in DOMAIN cs /\ cs[k] = bs[k]
    BY <1>3, <1>7, <1>8
  <2> QED  BY <2>2, <2>3
<1>10. Len(bs) + 1 \in S
  <2>1. Len(bs) + 1 \in DOMAIN cs
    BY <1>3, <1>8
  <2>2. 1 <= i /\ i < NextPos(g) + 1
    BY <1>3
  <2> QED  BY <1>5, <1>7, <2>1, <2>2
<1>11. S \subseteq 1 .. Len(bs) + 1
  BY <1>8
<1>12. Proprietor(cs, i) = Min(S) - 1
  <2>1. i # 0
    BY <1>3
  <2> QED  BY <2>1 DEF Proprietor
<1> HIDE DEF S
<1>13. Min(S) \in S /\ \A y \in S : Min(S) <= y
  <2>1. S \subseteq Nat /\ S # {}
    BY <1>3, <1>10, <1>11
  <2> QED  BY <2>1, MinNatural
<1>14. CASE own[i] = 0
  <2>1. ASSUME NEW k \in 1 .. Len(bs)  PROVE k \notin S
    BY <1>3, <1>9, <1>14
  <2>2. Min(S) = Len(bs) + 1
    <3>1. Min(S) \in 1 .. Len(bs) + 1
      BY <1>11, <1>13
    <3>2. Min(S) \notin 1 .. Len(bs)
      BY <1>13, <2>1
    <3>3. Len(bs) \in Nat
      BY <1>3
    <3> QED  BY <3>1, <3>2, <3>3
  <2> QED  BY <1>3, <1>4, <1>12, <1>14, <2>2 DEF FrameNumber
<1>15. CASE own[i] # 0
  <2>1. own[i] \in 1 .. Len(bs) /\ own[i] \in S
    BY <1>3, <1>4, <1>9, <1>15
  <2>2. Min(S) \in 1 .. Len(bs)
    <3>1. Min(S) \in 1 .. Len(bs) + 1 /\ Min(S) <= own[i]
      BY <1>11, <1>13, <2>1
    <3>2. Len(bs) \in Nat
      BY <1>3
    <3> QED  BY <2>1, <3>1, <3>2
  <2>3. Min(S) = own[i]
    BY <1>9, <1>13, <2>2
  <2> QED  BY <1>3, <1>4, <1>12, <1>15, <2>1, <2>3 DEF FrameNumber
<1> QED  BY <1>14, <1>15

\* Max is the greatest.
LEMMA MaxIs ==
  ASSUME NEW S, S \subseteq Nat, NEW j \in S, \A y \in S : y <= j
  PROVE  Max(S) = j
<1>1. Max(S) \in S /\ \A y \in S : y <= Max(S)
  <2>1. \E x \in S : \A y \in S : x >= y
    OBVIOUS
  <2> QED  BY <2>1 DEF Max
<1>2. Max(S) \in Nat /\ j \in Nat /\ Max(S) <= j /\ j <= Max(S)
  BY <1>1
<1> QED  BY <1>2

\* The call an ARG or EXEC belongs to was opened once.
LEMMA OpenedOnce ==
  ASSUME NEW g, NEW i \in Nat, NEW j \in 1 .. i - 1, Opens(g, j, i),
         NEW k \in 1 .. i - 1, Opens(g, k, i)
  PROVE  j = k
<1>1. ~ (j < k)
  <2>1. ASSUME j < k  PROVE FALSE
    <3>1. k \in j + 1 .. i - 1
      BY <2>1
    <3> QED  BY <3>1 DEF Opens
  <2> QED  BY <2>1
<1>2. ~ (k < j)
  <2>1. ASSUME k < j  PROVE FALSE
    <3>1. j \in k + 1 .. i - 1
      BY <2>1
    <3> QED  BY <3>1 DEF Opens
  <2> QED  BY <2>1
<1> QED  BY <1>1, <1>2

\* The certificate's callee is the program whose call has been opened.
LEMMA CalleesAgree ==
  ASSUME NEW g, Good(g), NEW h, Complete(g, h), NEW code,
         \A i \in 0 .. NextPos(g) : code[i] = Ins(h, i),
         NEW i \in 1 .. NextPos(g) - 1, Ins(g, i).op \in {"ARG", "EXEC"},
         NEW j \in 1 .. i - 1, Opens(g, j, i)
  PROVE  Recipient(code, i) = Ins(g, j).index
<1>1. NextPos(g) \in Nat
  BY Lengths
<1>2. ASSUME NEW x \in 1 .. i
      PROVE  /\ code[x].op = Ins(g, x).op
             /\ Ins(g, x).op \notin {"JMP", "JMPC"} => code[x] = Ins(g, x)
  <2>1. x \in 0 .. NextPos(g) /\ x \in 1 .. NextPos(g) - 1
    BY <1>1
  <2>2. code[x] = Ins(h, x) /\ Retargeted(g, h, x)
    BY <2>1 DEF Complete
  <2> QED  BY <2>2 DEF Retargeted
<1> DEFINE S == {x \in 0 .. i : code[x].op = "PREPARE_EXEC"}
<1>3. S \subseteq Nat /\ j \in S
  <2>1. j \in 1 .. i /\ j \in 0 .. i
    BY <1>1
  <2> QED  BY <1>1, <1>2, <2>1 DEF Opens
<1>4. ASSUME NEW x \in S  PROVE x <= j
  <2>1. ASSUME x > j  PROVE FALSE
    <3>1. x \in 1 .. i /\ code[x].op = "PREPARE_EXEC"
      BY <1>1, <2>1
    <3>2. Ins(g, x).op = "PREPARE_EXEC"
      BY <1>2, <3>1
    <3>3. x # i
      BY <3>2
    <3>4. x \in j + 1 .. i - 1
      BY <1>1, <2>1, <3>1, <3>3
    <3> QED  BY <3>2, <3>4 DEF Opens
  <2> QED  BY <1>1, <2>1
<1> HIDE DEF S
<1>5. Max(S) = j
  BY <1>3, <1>4, MaxIs
<1>6. code[i].op \in {"ARG", "EXEC"}
  BY <1>1, <1>2
<1>7. code[j] = Ins(g, j)
  <2>1. j \in 1 .. i
    BY <1>1
  <2> QED  BY <1>2, <2>1 DEF Opens
<1> QED  BY <1>5, <1>6, <1>7 DEF Recipient, S

\* What program and certificate are, in terms of the owners.
Certified(g, h, bs, own, p, c) ==
  /\ DOMAIN p.code = 0 .. NextPos(g)
  /\ p.code \in [DOMAIN p.code -> Instruction]
  /\ \A i \in 0 .. NextPos(g) : p.code[i] = Ins(h, i)
  /\ DOMAIN p.stack_maps = 0 .. Len(bs)
  /\ c.root = Len(bs)
  /\ c.size \in [0 .. Len(bs) -> Nat]
  /\ \A k \in 0 .. Len(bs) :
       /\ c.size[FrameNumber(bs, k)] = SizeOf(g, bs, k)
       /\ DOMAIN p.stack_maps[FrameNumber(bs, k)].map \subseteq 0 .. SizeOf(g, bs, k) - 1
  /\ c.owner \in [0 .. NextPos(g) -> 0 .. Len(bs) \cup {NoFrame}]
  /\ c.owner[0] = NoFrame
  /\ \A i \in 1 .. NextPos(g) :
       c.owner[i] = FrameNumber(bs, own[i]) /\ own[i] \in 0 .. Len(bs)
  /\ c.callee \in [0 .. NextPos(g) -> 0 .. Len(bs) \cup {NoFrame}]
  /\ \A i \in 0 .. NextPos(g) : Ins(h, i).op \notin {"ARG", "EXEC"} => c.callee[i] = NoFrame
  /\ \A i \in 1 .. NextPos(g) - 1 : \A j \in 1 .. i - 1 :
       Ins(g, i).op \in {"ARG", "EXEC"} /\ Opens(g, j, i) => c.callee[i] = Ins(g, j).index

\* A vector is read from 0 on.
LEMMA VectorIs ==
  ASSUME NEW s, IsSeq(s)
  PROVE  /\ DOMAIN Vector(s) = 0 .. Len(s) - 1
         /\ \A i \in 0 .. Len(s) - 1 : Vector(s)[i] = s[i + 1]
         /\ Vector(s) = [i \in 0 .. Len(s) - 1 |-> Vector(s)[i]]
  BY DEF Vector

\* Every program has a size and a stack map, in the order they were finished.
LEMMA SizesAgree ==
  ASSUME NEW g, Good(g), NEW bs, NEW own, NEW lo, Laid(g, bs, own, lo),
         Len(g.symbols) = 1, NEW cs, Bodies(g, bs, cs),
         NEW h, IsSeq(h.stack_maps), Complete(g, h), NEW k \in 0 .. Len(bs)
  PROVE  /\ Len(cs) = Len(bs) + 1 /\ Len(h.stack_maps) = Len(bs) + 1
         /\ FrameNumber(bs, k) \in 0 .. Len(bs) /\ SizeOf(g, bs, k) \in Nat
         /\ cs[FrameNumber(bs, k) + 1].size = SizeOf(g, bs, k)
         /\ DOMAIN h.stack_maps[FrameNumber(bs, k) + 1].map \subseteq 0 .. SizeOf(g, bs, k) - 1
<1> DEFINE size == Len(g.symbols[1].register_state)
           b == [ind |-> 1, end |-> NextPos(g) + 1, size |-> size]
<1>1. IsSeq(bs) /\ BodiesLaid(g, bs, own)
  BY DEF Laid, Owned
<1>2. Len(bs) = Len(g.stack_maps)
  BY DEF Laid, Owned
<1>3. Len(bs) \in Nat
  BY <1>1, SeqFacts
<1>4. size \in Nat
  <2>1. 1 \in 1 .. Len(g.symbols)
    OBVIOUS
  <2> QED  BY <2>1, Lengths
<1>5. b.size = size
  OBVIOUS
<1> HIDE DEF b
<1>6. /\ Len(cs) = Len(bs) + 1 /\ cs[Len(bs) + 1] = b
      /\ \A x \in 1 .. Len(bs) : cs[x] = bs[x]
  BY <1>1, AppendIs DEF Bodies, b
<1>7. PICK m : /\ h.stack_maps = Append(g.stack_maps, m)
               /\ DOMAIN m.map \subseteq 0 .. size - 1
  BY DEF Complete
<1>8. /\ Len(h.stack_maps) = Len(g.stack_maps) + 1
      /\ h.stack_maps[Len(g.stack_maps) + 1] = m
      /\ \A x \in 1 .. Len(g.stack_maps) : h.stack_maps[x] = g.stack_maps[x]
  <2>1. IsSeq(g.stack_maps)
    BY DEF Good, Shape
  <2> QED  BY <1>7, <2>1, AppendIs
<1>9. CASE k = 0
  <2>1. FrameNumber(bs, k) = Len(bs)
    BY <1>9 DEF FrameNumber
  <2>2. SizeOf(g, bs, k) = size
    BY <1>3, <1>9 DEF SizeOf
  <2> HIDE DEF size
  <2> QED  BY <1>2, <1>3, <1>4, <1>5, <1>6, <1>7, <1>8, <2>1, <2>2
<1>10. CASE k # 0
  <2>1. k \in 1 .. Len(bs) /\ FrameNumber(bs, k) + 1 = k /\ FrameNumber(bs, k) \in 0 .. Len(bs)
    BY <1>3, <1>10 DEF FrameNumber
  <2>2. SizeOf(g, bs, k) = bs[k].size
    BY <2>1 DEF SizeOf
  <2>3. BodyLaid(g, bs[k], own, k)
    BY <1>1, <2>1 DEF BodiesLaid
  <2>4. cs[k] = bs[k] /\ h.stack_maps[k] = g.stack_maps[k]
    BY <1>2, <1>6, <1>8, <2>1
  <2> QED  BY <1>2, <1>6, <1>8, <2>1, <2>2, <2>3, <2>4 DEF BodyLaid
<1> QED  BY <1>9, <1>10

\* What gen() returns is so certified.
LEMMA CertificateIs ==
  ASSUME NEW g, Good(g), NEW bs, NEW own, NEW lo, Laid(g, bs, own, lo),
         Len(g.symbols) = 1, NEW cs, Bodies(g, bs, cs),
         NEW h, Good(h), Complete(g, h)
  PROVE  Certified(g, h, bs, own, Generated(h), Certificate(h, cs))
<1> DEFINE p == Generated(h)
           c == Certificate(h, cs)
           code == Vector(h.code)
           n == NextPos(g)
           sizes == [k \in DOMAIN cs |-> cs[k].size]
<1>1. /\ p.code = code /\ p.stack_maps = Vector(h.stack_maps)
  BY DEF Generated
<1>2. /\ c.root = Len(cs) - 1 /\ c.size = Vector(sizes)
      /\ c.owner = [i \in DOMAIN code |-> Proprietor(cs, i)]
      /\ c.callee = [i \in DOMAIN code |-> Recipient(code, i)]
  BY DEF Certificate
<1> HIDE DEF p, c
<1>3. n \in Nat /\ n >= 1 /\ NextPos(h) = n + 1
  BY Lengths DEF Complete
<1>4. IsSeq(h.code) /\ IsSeq(h.stack_maps)
  BY DEF Good, Shape
<1>5. IsSeq(bs) /\ IsSeq(cs)
  <2>1. IsSeq(bs)
    BY DEF Laid, Owned
  <2> QED  BY <2>1, AppendIs DEF Bodies
<1>6. Len(bs) \in Nat
  BY <1>5, SeqFacts
<1>7. /\ DOMAIN code = 0 .. n /\ code = [i \in 0 .. n |-> code[i]]
      /\ \A i \in 0 .. n : code[i] = Ins(h, i)
  <2>1. Len(h.code) - 1 = n
    BY <1>3 DEF NextPos
  <2> QED  BY <1>4, <2>1, VectorIs DEF Ins
<1> HIDE DEF code, n
<1>8. \A i \in 0 .. n : Ins(h, i) \in Instruction
  <2> SUFFICES ASSUME NEW i \in 0 .. n  PROVE Ins(h, i) \in Instruction
    OBVIOUS
  <2>1. CASE i = 0
    BY <2>1 DEF Complete
  <2>2. CASE i # 0
    <3>1. i + 1 \in 2 .. Len(h.code)
      BY <1>3, <2>2 DEF NextPos
    <3> QED  BY <3>1 DEF Good, CodeTyped, Ins
  <2> QED  BY <2>1, <2>2
<1>9. p.code \in [DOMAIN p.code -> Instruction]
  BY <1>1, <1>7, <1>8
<1>10. \A k \in 0 .. Len(bs) :
         /\ Len(cs) = Len(bs) + 1 /\ Len(h.stack_maps) = Len(bs) + 1
         /\ FrameNumber(bs, k) \in 0 .. Len(bs) /\ SizeOf(g, bs, k) \in Nat
         /\ cs[FrameNumber(bs, k) + 1].size = SizeOf(g, bs, k)
         /\ DOMAIN h.stack_maps[FrameNumber(bs, k) + 1].map \subseteq 0 .. SizeOf(g, bs, k) - 1
  BY <1>4, SizesAgree
<1>11. Len(cs) = Len(bs) + 1 /\ Len(h.stack_maps) = Len(bs) + 1
  <2>1. 0 \in 0 .. Len(bs)
    BY <1>6
  <2> QED  BY <1>10, <2>1
<1>12. DOMAIN cs = 1 .. Len(bs) + 1
  BY <1>5, <1>11, SeqFacts
<1>13. /\ IsSeq(sizes) /\ Len(sizes) = Len(bs) + 1
       /\ \A k \in 1 .. Len(bs) + 1 : sizes[k] = cs[k].size
  <2>1. sizes = [k \in 1 .. Len(bs) + 1 |-> sizes[k]] /\ Len(bs) + 1 \in Nat
    BY <1>6, <1>12
  <2>2. \A k \in 1 .. Len(bs) + 1 : sizes[k] = cs[k].size
    BY <1>12
  <2> HIDE DEF sizes
  <2> QED  BY <2>1, <2>2, FunctionIs
<1> HIDE DEF sizes
<1>14. /\ c.size = [k \in 0 .. Len(bs) |-> c.size[k]]
       /\ \A k \in 0 .. Len(bs) : c.size[k] = cs[k + 1].size
  <2>1. (Len(bs) + 1) - 1 = Len(bs) /\ \A k \in 0 .. Len(bs) : k + 1 \in 1 .. Len(bs) + 1
    BY <1>6
  <2>2. /\ Vector(sizes) = [k \in 0 .. Len(bs) |-> Vector(sizes)[k]]
        /\ \A k \in 0 .. Len(bs) : Vector(sizes)[k] = sizes[k + 1]
    BY <1>13, <2>1, VectorIs
  <2> QED  BY <1>2, <1>13, <2>1, <2>2
<1>15. /\ DOMAIN p.stack_maps = 0 .. Len(bs)
       /\ \A k \in 0 .. Len(bs) : p.stack_maps[k] = h.stack_maps[k + 1]
  <2>1. (Len(bs) + 1) - 1 = Len(bs)
    BY <1>6
  <2> QED  BY <1>1, <1>4, <1>11, <2>1, VectorIs
<1>16. \A k \in 0 .. Len(bs) :
         /\ c.size[FrameNumber(bs, k)] = SizeOf(g, bs, k)
         /\ DOMAIN p.stack_maps[FrameNumber(bs, k)].map \subseteq 0 .. SizeOf(g, bs, k) - 1
  BY <1>10, <1>14, <1>15
<1>17. c.size \in [0 .. Len(bs) -> Nat]
  <2>1. ASSUME NEW x \in 0 .. Len(bs)  PROVE c.size[x] \in Nat
    <3>1. PICK k \in 0 .. Len(bs) : FrameNumber(bs, k) = x
      <4>1. CASE x = Len(bs)
        <5>1. 0 \in 0 .. Len(bs) /\ FrameNumber(bs, 0) = x
          BY <1>6, <4>1 DEF FrameNumber
        <5> QED  BY <5>1
      <4>2. CASE x # Len(bs)
        <5>1. x + 1 \in 0 .. Len(bs) /\ FrameNumber(bs, x + 1) = x
          BY <1>6, <4>2 DEF FrameNumber
        <5> QED  BY <5>1
      <4> QED  BY <4>1, <4>2
    <3> QED  BY <1>10, <1>16, <3>1
  <2> QED  BY <1>14, <2>1
<1>18. /\ c.owner = [i \in 0 .. n |-> c.owner[i]] /\ c.callee = [i \in 0 .. n |-> c.callee[i]]
       /\ \A i \in 0 .. n : c.owner[i] = Proprietor(cs, i) /\ c.callee[i] = Recipient(code, i)
  BY <1>2, <1>7
<1>19. c.owner[0] = NoFrame
  <2>1. 0 \in 0 .. n
    BY <1>3
  <2> QED  BY <1>18, <2>1 DEF Proprietor
<1>20. \A i \in 1 .. n : /\ c.owner[i] = FrameNumber(bs, own[i])
                         /\ own[i] \in 0 .. Len(bs) /\ c.owner[i] \in 0 .. Len(bs)
  <2> SUFFICES ASSUME NEW i \in 1 .. n
               PROVE  /\ c.owner[i] = FrameNumber(bs, own[i])
                      /\ own[i] \in 0 .. Len(bs) /\ c.owner[i] \in 0 .. Len(bs)
    OBVIOUS
  <2>1. i \in 0 .. n
    BY <1>3
  <2>2. /\ Proprietor(cs, i) = FrameNumber(bs, own[i])
        /\ own[i] \in 0 .. Len(bs) /\ FrameNumber(bs, own[i]) \in 0 .. Len(bs)
    BY OwnersAgree DEF n
  <2> QED  BY <1>18, <2>1, <2>2
<1>21. c.owner \in [0 .. n -> 0 .. Len(bs) \cup {NoFrame}]
  <2>1. ASSUME NEW i \in 0 .. n  PROVE c.owner[i] \in 0 .. Len(bs) \cup {NoFrame}
    <3>1. i = 0 \/ i \in 1 .. n
      BY <1>3
    <3> QED  BY <1>19, <1>20, <3>1
  <2> QED  BY <1>18, <2>1
<1>22. ASSUME NEW i \in 0 .. n, Ins(h, i).op \notin {"ARG", "EXEC"}
       PROVE  c.callee[i] = NoFrame
  BY <1>7, <1>18, <1>22 DEF Recipient
<1>23. ASSUME NEW i \in 1 .. n - 1, NEW j \in 1 .. i - 1,
              Ins(g, i).op \in {"ARG", "EXEC"}, Opens(g, j, i)
       PROVE  c.callee[i] = Ins(g, j).index
  <2>1. i \in 0 .. n
    BY <1>3
  <2>2. Recipient(code, i) = Ins(g, j).index
    <3>1. i \in 1 .. NextPos(g) - 1
      BY <1>23 DEF n
    <3>2. \A x \in 0 .. NextPos(g) : code[x] = Ins(h, x)
      BY <1>7 DEF n
    <3> QED  BY <1>23, <3>1, <3>2, CalleesAgree
  <2> QED  BY <1>18, <2>1, <2>2
<1>24. c.callee \in [0 .. n -> 0 .. Len(bs) \cup {NoFrame}]
  <2>1. ASSUME NEW i \in 0 .. n  PROVE c.callee[i] \in 0 .. Len(bs) \cup {NoFrame}
    <3>1. CASE Ins(h, i).op \notin {"ARG", "EXEC"}
      BY <1>22, <3>1
    <3>2. CASE Ins(h, i).op \in {"ARG", "EXEC"}
      <4>1. i # 0 /\ i # n
        BY <3>2 DEF Complete, Halt, n
      <4>2. i \in 1 .. n - 1
        BY <1>3, <4>1
      <4>3. Ins(g, i).op \in {"ARG", "EXEC"}
        <5>1. Retargeted(g, h, i)
          BY <4>2 DEF Complete, n
        <5> QED  BY <3>2, <5>1 DEF Retargeted
      <4>4. Calls(g, bs, own, i)
        BY <4>2 DEF Laid, CodeLaid, Sound, n
      <4>5. PICK j \in 1 .. i - 1 : Opens(g, j, i)
        BY <4>3, <4>4 DEF Calls
      <4>6. j \in 1 .. n - 1
        BY <1>3, <4>2
      <4>7. Calls(g, bs, own, j) /\ Ins(g, j).op = "PREPARE_EXEC"
        BY <4>5, <4>6 DEF Laid, CodeLaid, Sound, Opens, n
      <4>8. Ins(g, j).index + 1 \in 1 .. Len(bs)
        BY <4>7 DEF Calls
      <4>9. Ins(g, j).index \in Int
        <5>1. Ins(g, j) \in Instruction
          <6>1. j + 1 \in 2 .. Len(g.code)
            BY <1>3, <4>6 DEF n, NextPos
          <6> QED  BY <6>1 DEF Good, CodeTyped, Ins
        <5> QED  BY <4>7, <5>1 DEF Instruction
      <4>10. Ins(g, j).index \in 0 .. Len(bs)
        BY <1>6, <4>8, <4>9
      <4> QED  BY <1>23, <4>2, <4>3, <4>5, <4>10
    <3> QED  BY <3>1, <3>2
  <2> QED  BY <1>18, <2>1
<1>25. c.root = Len(bs)
  BY <1>2, <1>6, <1>11
<1>26. /\ \A i \in 1 .. n : c.owner[i] = FrameNumber(bs, own[i]) /\ own[i] \in 0 .. Len(bs)
  BY <1>20
<1>27. DOMAIN p.code = 0 .. n /\ \A i \in 0 .. n : p.code[i] = Ins(h, i)
  BY <1>1, <1>7
<1> HIDE DEF n
<1>28. Certified(g, h, bs, own, p, c)
  BY <1>9, <1>15, <1>16, <1>17, <1>19, <1>21, <1>22, <1>23, <1>24, <1>25, <1>26, <1>27
     DEF Certified, n
<1> QED  BY <1>28 DEF p, c

\* p is what gen() returns of the state g, with its certificate c.
Returned(g, h, bs, own, lo, p, c) ==
  /\ Good(g) /\ Laid(g, bs, own, lo) /\ Len(g.symbols) = 1
  /\ Complete(g, h) /\ Certified(g, h, bs, own, p, c)

\* What is known of the instruction at position i.
LEMMA AtPosition ==
  ASSUME NEW g, NEW h, NEW bs, NEW own, NEW lo, NEW p, NEW c,
         Returned(g, h, bs, own, lo, p, c), NEW i \in 1 .. NextPos(g) - 1
  PROVE  /\ i \in 0 .. NextPos(g) /\ i \in 1 .. NextPos(g) /\ i + 1 \in 1 .. NextPos(g)
         /\ i \in Nat /\ NextPos(g) \in Nat /\ Len(bs) \in Nat
         /\ Sound(g, bs, own, lo, i) /\ Retargeted(g, h, i) /\ p.code[i] = Ins(h, i)
         /\ Ins(g, i) \in Instruction /\ Ins(h, i).op = Ins(g, i).op
         /\ own[i] \in 0 .. Len(bs) /\ c.owner[i] = FrameNumber(bs, own[i])
         /\ c.owner[i] \in 0 .. Len(bs) /\ c.owner[i] # NoFrame
         /\ Ins(g, i).op \notin {"JMP", "JMPC"} => p.code[i] = Ins(g, i)
         /\ Ins(g, i).op \notin {"ARG", "EXEC"} => c.callee[i] = NoFrame
<1>1. /\ Good(g) /\ CodeLaid(g, bs, own, lo) /\ Complete(g, h)
      /\ Certified(g, h, bs, own, p, c) /\ Owned(g, bs, own, lo)
  BY DEF Returned, Laid
<1>2. NextPos(g) \in Nat /\ NextPos(g) = Len(g.code)
  BY <1>1, Lengths DEF NextPos
<1>3. Len(bs) \in Nat
  <2>1. IsSeq(bs)
    BY <1>1 DEF Owned
  <2> QED  BY <2>1, SeqFacts
<1>4. /\ i \in 0 .. NextPos(g) /\ i \in 1 .. NextPos(g) /\ i + 1 \in 1 .. NextPos(g)
      /\ i \in Nat /\ i + 1 \in 2 .. Len(g.code)
  BY <1>2
<1>5. Sound(g, bs, own, lo, i) /\ Retargeted(g, h, i)
  BY <1>1 DEF CodeLaid, Complete
<1>6. Ins(g, i) \in Instruction
  BY <1>1, <1>4 DEF Good, CodeTyped, Ins
<1>7. /\ Ins(h, i).op = Ins(g, i).op
      /\ Ins(g, i).op \notin {"JMP", "JMPC"} => Ins(h, i) = Ins(g, i)
  BY <1>5 DEF Retargeted
<1>8. /\ p.code[i] = Ins(h, i)
      /\ own[i] \in 0 .. Len(bs) /\ c.owner[i] = FrameNumber(bs, own[i])
      /\ Ins(h, i).op \notin {"ARG", "EXEC"} => c.callee[i] = NoFrame
  BY <1>1, <1>4 DEF Certified
<1>9. c.owner[i] \in 0 .. Len(bs) /\ c.owner[i] # NoFrame
  BY <1>3, <1>8 DEF FrameNumber, NoFrame
<1> QED  BY <1>2, <1>3, <1>4, <1>5, <1>6, <1>7, <1>8, <1>9

\* Where control may come to is the body of a program.
LEMMA EntryInBody ==
  ASSUME NEW g, NEW h, NEW bs, NEW own, NEW lo, NEW p, NEW c,
         Returned(g, h, bs, own, lo, p, c), NEW q \in 1 .. NextPos(g), Entry(g, q)
  PROVE  InBody(p, c, FrameNumber(bs, own[q]), q)
<1>1. NextPos(g) \in Nat
  BY Lengths DEF Returned
<1>2. q \in 0 .. NextPos(g) /\ (q = NextPos(g) \/ (q \in 1 .. NextPos(g) - 1 /\ q < NextPos(g)))
  BY <1>1
<1>3. q \in DOMAIN p.code /\ c.owner[q] = FrameNumber(bs, own[q])
  BY <1>2 DEF Returned, Certified
<1>4. c.callee[q] = NoFrame
  <2>1. CASE q = NextPos(g)
    <3>1. Ins(h, q).op \notin {"ARG", "EXEC"}
      BY <2>1 DEF Returned, Complete, Halt
    <3> QED  BY <1>2, <3>1 DEF Returned, Certified
  <2>2. CASE q \in 1 .. NextPos(g) - 1 /\ q < NextPos(g)
    <3>1. Ins(g, q).op \notin {"ARG", "EXEC"}
      BY <2>2 DEF Entry
    <3> QED  BY <2>2, <3>1, AtPosition
  <2> QED  BY <1>2, <2>1, <2>2
<1> QED  BY <1>3, <1>4 DEF InBody

\* The registers of program k.
LEMMA InRegisters ==
  ASSUME NEW g, NEW h, NEW bs, NEW own, NEW lo, NEW p, NEW c,
         Returned(g, h, bs, own, lo, p, c), NEW k \in 0 .. Len(bs),
         NEW x \in Nat, x < SizeOf(g, bs, k)
  PROVE  x \in Registers(c, FrameNumber(bs, k))
<1>1. IsSeq(bs)
  BY DEF Returned, Laid, Owned
<1>2. Len(bs) \in Nat
  BY <1>1, SeqFacts
<1>3. c.size[FrameNumber(bs, k)] = SizeOf(g, bs, k) /\ c.size \in [0 .. Len(bs) -> Nat]
  BY DEF Returned, Certified
<1>4. FrameNumber(bs, k) \in 0 .. Len(bs)
  BY <1>2 DEF FrameNumber
<1>5. SizeOf(g, bs, k) \in Nat
  BY <1>3, <1>4
<1> QED  BY <1>3, <1>5 DEF Registers

\* A jump goes to a position of its program.
LEMMA JumpInBody ==
  ASSUME NEW g, NEW h, NEW bs, NEW own, NEW lo, NEW p, NEW c,
         Returned(g, h, bs, own, lo, p, c), NEW i \in 1 .. NextPos(g) - 1,
         Ins(g, i).op \in {"JMP", "JMPC"}
  PROVE  InBody(p, c, FrameNumber(bs, own[i]), i + Ins(h, i).offset)
<1>1. Leads(g, own, lo, i) /\ NextPos(g) \in Nat /\ i \in Nat
  BY AtPosition DEF Sound
<1>2. PICK k \in 1 .. Len(g.backpatching_todo) : g.backpatching_todo[k] = i
  BY <1>1 DEF Leads
<1>3. lo[Ins(g, i).offset] = own[i]
  BY <1>1 DEF Leads
<1>4. Patched(g, h, i)
  BY <1>2 DEF Returned, Complete
<1>5. PICK t : t = g.labels[Ins(g, i).offset + 1] /\ t # -1 /\ Ins(h, i).offset = t - i
  BY <1>4 DEF Patched
<1>6. Ins(g, i).offset \in 0 .. Len(g.labels) - 1
  BY <1>2 DEF Returned, Good, JumpsWait, IsJump, Ins
<1>7. t \in 1 .. NextPos(g) /\ own[t] = own[i] /\ Entry(g, t)
  <2>1. LabelsLaid(g, own, lo)
    BY DEF Returned, Laid
  <2> QED  BY <1>3, <1>5, <1>6, <2>1 DEF LabelsLaid
<1>8. i + Ins(h, i).offset = t
  BY <1>1, <1>5, <1>7
<1> QED  BY <1>7, <1>8, EntryInBody

\* Operands are numbers.
LEMMA Operands ==
  ASSUME NEW n \in Instruction
  PROVE  /\ n.op \in {"ADD_CONST", "TEST", "CONST", "PREPARE_EXEC", "ARG"} => n.target \in Nat
         /\ n.op \in {"ADD_CONST", "JMPC", "RET", "ARG"} => n.source \in Nat
         /\ n.op = "TEST" => n.op1 \in Nat /\ n.op2 \in Nat
         /\ n.op = "PREPARE_EXEC" => n.count \in Nat /\ n.index \in Nat
         /\ n.op = "EXEC" => n.entry \in Nat
         /\ n.op \in {"POTENTIAL_BREAK", "BREAK", "HALT", "TEST", "ADD_CONST", "CONST", "JMP",
                      "JMPC", "PREPARE_EXEC", "ARG", "EXEC", "RET"}
  BY DEF Instruction

\* What is in front of the end of the code and is no part of a call touches
\* the program's own registers, and control stays in the program.
LEMMA BodyIsVerified ==
  ASSUME NEW g, NEW h, NEW bs, NEW own, NEW lo, NEW p, NEW c,
         Returned(g, h, bs, own, lo, p, c), NEW i \in 1 .. NextPos(g) - 1,
         Ins(g, i).op \notin {"PREPARE_EXEC", "ARG", "EXEC"}
  PROVE  BodyVerified(p, c, i) /\ p.code[i].op # "BREAK"
<1> DEFINE n == Ins(g, i)
           z == Ins(h, i)
           k == own[i]
           m == FrameNumber(bs, k)
<1>1. /\ i + 1 \in 1 .. NextPos(g) /\ i \in Nat /\ Sound(g, bs, own, lo, i) /\ Retargeted(g, h, i)
      /\ p.code[i] = z /\ n \in Instruction /\ z.op = n.op
      /\ k \in 0 .. Len(bs) /\ c.owner[i] = m /\ m # NoFrame
      /\ n.op \notin {"JMP", "JMPC"} => z = n
      /\ c.callee[i] = NoFrame /\ Len(bs) \in Nat
  BY AtPosition
<1>2. /\ Flows(g, own, i) /\ Touches(g, bs, own, i)
  BY <1>1 DEF Sound
<1>3. z.op \in {"JMP", "JMPC"} => InBody(p, c, m, i + z.offset)
  BY <1>1, JumpInBody
<1>4. z.op \in {"POTENTIAL_BREAK", "ADD_CONST", "TEST", "CONST", "JMPC"} =>
        InBody(p, c, m, i + 1)
  <2>1. ASSUME z.op \in {"POTENTIAL_BREAK", "ADD_CONST", "TEST", "CONST", "JMPC"}
        PROVE  own[i + 1] = own[i] /\ Entry(g, i + 1)
    BY <1>1, <1>2, <2>1 DEF Flows
  <2>2. Entry(g, i + 1) => InBody(p, c, FrameNumber(bs, own[i + 1]), i + 1)
    BY <1>1, EntryInBody
  <2> QED  BY <2>1, <2>2
<1>5. \A x \in Nat : x < SizeOf(g, bs, k) => x \in Registers(c, m)
  BY <1>1, InRegisters
<1>6. \A x \in {"ADD_CONST", "TEST", "CONST"} : z.op = x => z.target \in Registers(c, m)
  <2> SUFFICES ASSUME z.op \in {"ADD_CONST", "TEST", "CONST"}
               PROVE  z.target \in Registers(c, m)
    OBVIOUS
  <2>1. z = n /\ n.target \in Nat
    BY <1>1, Operands
  <2>2. n.target < SizeOf(g, bs, k)
    BY <1>2, <2>1 DEF Touches
  <2> QED  BY <1>5, <2>1, <2>2
<1>7. \A x \in {"ADD_CONST", "JMPC", "RET"} : z.op = x => z.source \in Registers(c, m)
  <2> SUFFICES ASSUME z.op \in {"ADD_CONST", "JMPC", "RET"}
               PROVE  z.source \in Registers(c, m)
    OBVIOUS
  <2>1. z.source = n.source /\ n.source \in Nat /\ n.op = z.op
    BY <1>1, Operands DEF Retargeted
  <2>2. n.source < SizeOf(g, bs, k)
    BY <1>2, <2>1 DEF Touches
  <2> QED  BY <1>5, <2>1, <2>2
<1>8. z.op = "TEST" => z.op1 \in Registers(c, m) /\ z.op2 \in Registers(c, m)
  <2> SUFFICES ASSUME z.op = "TEST"
               PROVE  z.op1 \in Registers(c, m) /\ z.op2 \in Registers(c, m)
    OBVIOUS
  <2>1. z = n /\ n.op1 \in Nat /\ n.op2 \in Nat
    BY <1>1, Operands
  <2>2. n.op1 < SizeOf(g, bs, k) /\ n.op2 < SizeOf(g, bs, k)
    BY <1>2, <2>1 DEF Touches
  <2> QED  BY <1>5, <2>1, <2>2
<1>9. z.op = "CONST" => z.constant >= 0
  <2> SUFFICES ASSUME z.op = "CONST"  PROVE z.constant >= 0
    OBVIOUS
  <2>1. z = n
    BY <1>1
  <2>2. g.errors = <<>>
    <3>1. NextPos(g) # 1
      OBVIOUS
    <3> QED  BY <3>1 DEF Returned, Complete
  <2> QED  BY <1>2, <2>1, <2>2 DEF Touches
<1>10. z.op = "RET" => m # c.root
  <2> SUFFICES ASSUME z.op = "RET"  PROVE m # c.root
    OBVIOUS
  <2>1. k # 0
    BY <1>1, <1>2 DEF Touches
  <2>2. c.root = Len(bs)
    BY DEF Returned, Certified
  <2> QED  BY <1>1, <2>1, <2>2 DEF FrameNumber
<1>11. z.op # "BREAK"
  BY <1>1, <1>2 DEF Flows
<1> HIDE DEF z, m, k
<1>12. BodyVerified(p, c, i)
  BY <1>1, <1>3, <1>4, <1>6, <1>7, <1>8, <1>9, <1>10 DEF BodyVerified
<1> QED  BY <1>1, <1>11, <1>12

\* A call opens the registers of a program finished before.
LEMMA PrepareIsVerified ==
  ASSUME NEW g, NEW h, NEW bs, NEW own, NEW lo, NEW p, NEW c,
         Returned(g, h, bs, own, lo, p, c), NEW i \in 1 .. NextPos(g) - 1,
         Ins(g, i).op = "PREPARE_EXEC"
  PROVE  PrepareVerified(p, c, i) /\ p.code[i].index < c.owner[i]
<1> DEFINE n == Ins(g, i)
           k == own[i]
           m == FrameNumber(bs, k)
<1>1. /\ i + 1 \in 1 .. NextPos(g) /\ i \in Nat /\ Sound(g, bs, own, lo, i)
      /\ p.code[i] = n /\ n \in Instruction /\ NextPos(g) \in Nat
      /\ k \in 0 .. Len(bs) /\ c.owner[i] = m /\ m # NoFrame
      /\ c.callee[i] = NoFrame /\ Len(bs) \in Nat
  BY AtPosition, SMTT(30)
<1>2. /\ Flows(g, own, i) /\ Touches(g, bs, own, i) /\ Calls(g, bs, own, i)
  BY <1>1 DEF Sound
<1>3. /\ n.index + 1 \in 1 .. Len(bs) /\ (k = 0 \/ n.index + 1 < k)
      /\ n.count = bs[n.index + 1].size
  BY <1>2 DEF Calls
<1>4. n.index \in Nat /\ n.target \in Nat
  BY <1>1, Operands
<1>5. n.index < m /\ n.index # Len(bs)
  BY <1>1, <1>3, <1>4 DEF FrameNumber
<1>6. n.index \in DOMAIN p.stack_maps /\ n.count = c.size[n.index] /\ c.root = Len(bs)
  <2>1. n.index + 1 \in 0 .. Len(bs) /\ FrameNumber(bs, n.index + 1) = n.index
        /\ n.index \in 0 .. Len(bs)
    BY <1>1, <1>3, <1>4 DEF FrameNumber
  <2>2. SizeOf(g, bs, n.index + 1) = n.count
    BY <1>3 DEF SizeOf
  <2> QED  BY <2>1, <2>2 DEF Returned, Certified
<1>7. n.target \in Registers(c, m)
  <2>1. n.target < SizeOf(g, bs, k)
    BY <1>2 DEF Touches
  <2> QED  BY <1>1, <1>4, <2>1, InRegisters
<1>8. i + 1 < NextPos(g) /\ own[i + 1] = k /\ Ins(g, i + 1).op \in {"ARG", "EXEC"}
  BY <1>2 DEF Flows
<1>9. i + 1 \in 1 .. NextPos(g) - 1
  BY <1>1, <1>8
<1>10. /\ c.owner[i + 1] = m /\ i + 1 \in DOMAIN p.code
       /\ p.code[i + 1].op \in {"ARG", "EXEC"}
  <2>1. /\ c.owner[i + 1] = FrameNumber(bs, own[i + 1]) /\ i + 1 \in 0 .. NextPos(g)
        /\ p.code[i + 1] = Ins(h, i + 1) /\ Ins(h, i + 1).op = Ins(g, i + 1).op
    BY <1>9, AtPosition
  <2>2. DOMAIN p.code = 0 .. NextPos(g)
    BY DEF Returned, Certified
  <2> QED  BY <1>8, <2>1, <2>2
<1>11. c.callee[i + 1] = n.index
  <2>1. i \in 1 .. (i + 1) - 1 /\ Opens(g, i, i + 1)
    BY <1>1 DEF Opens
  <2> QED  BY <1>8, <1>9, <2>1 DEF Returned, Certified
<1> HIDE DEF n, m, k
<1>12. PrepareVerified(p, c, i)
  BY <1>1, <1>5, <1>6, <1>7, <1>10, <1>11 DEF PrepareVerified
<1> QED  BY <1>1, <1>5, <1>12

\* Arguments go to registers that have been opened, and the code entered is
\* that of the program they belong to.
LEMMA CallIsVerified ==
  ASSUME NEW g, NEW h, NEW bs, NEW own, NEW lo, NEW p, NEW c,
         Returned(g, h, bs, own, lo, p, c), NEW i \in 1 .. NextPos(g) - 1,
         Ins(g, i).op \in {"ARG", "EXEC"}
  PROVE  CallVerified(p, c, i)
<1> DEFINE n == Ins(g, i)
           k == own[i]
           m == FrameNumber(bs, k)
<1>1. /\ i + 1 \in 1 .. NextPos(g) /\ i \in Nat /\ Sound(g, bs, own, lo, i)
      /\ p.code[i] = n /\ n \in Instruction /\ NextPos(g) \in Nat
      /\ k \in 0 .. Len(bs) /\ c.owner[i] = m /\ m # NoFrame /\ Len(bs) \in Nat
  BY AtPosition, SMTT(30)
<1>2. /\ Flows(g, own, i) /\ Touches(g, bs, own, i) /\ Calls(g, bs, own, i)
  BY <1>1 DEF Sound
<1>3. PICK j \in 1 .. i - 1 :
        /\ Opens(g, j, i)
        /\ n.op = "ARG" => n.target < bs[Ins(g, j).index + 1].size
        /\ n.op = "EXEC" => n.entry = bs[Ins(g, j).index + 1].ind
  BY <1>2 DEF Calls
<1> DEFINE f == Ins(g, j).index
<1>4. f + 1 \in 1 .. Len(bs) /\ f \in Nat
  <2>1. j \in 1 .. NextPos(g) - 1
    BY <1>1
  <2>2. Sound(g, bs, own, lo, j) /\ Ins(g, j) \in Instruction
    BY <2>1, AtPosition
  <2>3. Ins(g, j).op = "PREPARE_EXEC"
    BY <1>3 DEF Opens
  <2> QED  BY <2>2, <2>3, Operands DEF Sound, Calls
<1>5. c.callee[i] = f
  BY <1>3 DEF Returned, Certified
<1>6. f + 1 \in 0 .. Len(bs) /\ FrameNumber(bs, f + 1) = f /\ f # NoFrame
      /\ SizeOf(g, bs, f + 1) = bs[f + 1].size
  BY <1>1, <1>4 DEF FrameNumber, SizeOf, NoFrame
<1>7. ASSUME n.op = "ARG"
      PROVE  /\ n.source \in Registers(c, m) /\ n.target \in Registers(c, f)
             /\ i + 1 \in DOMAIN p.code /\ c.owner[i + 1] = m /\ c.callee[i + 1] = f
  <2>1. n.source \in Nat /\ n.target \in Nat
    BY <1>1, <1>7, Operands
  <2>2. n.source < SizeOf(g, bs, k)
    BY <1>2, <1>7 DEF Touches
  <2>3. n.source \in Registers(c, m)
    BY <1>1, <2>1, <2>2, InRegisters
  <2>4. n.target < SizeOf(g, bs, f + 1)
    BY <1>3, <1>6, <1>7
  <2>5. n.target \in Registers(c, FrameNumber(bs, f + 1))
    BY <1>6, <2>1, <2>4, InRegisters
  <2>6. i + 1 < NextPos(g) /\ own[i + 1] = k /\ Ins(g, i + 1).op \in {"ARG", "EXEC"}
    BY <1>2, <1>7 DEF Flows
  <2>7. i + 1 \in 1 .. NextPos(g) - 1
    BY <1>1, <2>6
  <2>8. c.owner[i + 1] = FrameNumber(bs, own[i + 1]) /\ i + 1 \in 0 .. NextPos(g)
    BY <2>7, AtPosition
  <2>9. j \in 1 .. (i + 1) - 1 /\ Opens(g, j, i + 1)
    <3>1. ASSUME NEW x \in j + 1 .. (i + 1) - 1  PROVE Ins(g, x).op = "ARG"
      <4>1. CASE x = i
        BY <1>7, <4>1
      <4>2. CASE x # i
        <5>1. x \in j + 1 .. i - 1
          BY <1>1, <4>2
        <5> QED  BY <1>3, <5>1 DEF Opens
      <4> QED  BY <4>1, <4>2
    <3>2. Ins(g, j).op = "PREPARE_EXEC"
      BY <1>3 DEF Opens
    <3>3. j \in 1 .. (i + 1) - 1
      BY <1>1
    <3> QED  BY <3>1, <3>2, <3>3 DEF Opens
  <2>10. c.callee[i + 1] = f
    BY <2>6, <2>7, <2>9 DEF Returned, Certified
  <2>11. i + 1 \in DOMAIN p.code
    BY <2>8 DEF Returned, Certified
  <2> QED  BY <1>6, <2>3, <2>5, <2>6, <2>8, <2>10, <2>11
<1>8. ASSUME n.op = "EXEC"
      PROVE  InBody(p, c, f, n.entry) /\ InBody(p, c, m, i + 1)
  <2>1. own[i + 1] = k /\ Entry(g, i + 1)
    BY <1>2, <1>8 DEF Flows
  <2>2. InBody(p, c, m, i + 1)
    BY <1>1, <2>1, EntryInBody
  <2> DEFINE e == bs[f + 1].ind
  <2>3. BodyLaid(g, bs[f + 1], own, f + 1)
    BY <1>4 DEF Returned, Laid, BodiesLaid
  <2>4. e \in Nat /\ e >= 2 /\ e < NextPos(g) /\ Entry(g, e) /\ own[e] = f + 1
    BY <1>1, <2>3, SMTT(30) DEF BodyLaid
  <2> HIDE DEF e
  <2>5. e \in 1 .. NextPos(g)
    BY <1>1, <2>4
  <2>6. InBody(p, c, FrameNumber(bs, own[e]), e)
    BY <2>4, <2>5, EntryInBody
  <2> QED  BY <1>3, <1>6, <1>8, <2>2, <2>4, <2>6 DEF e
<1> HIDE DEF n, m, k, f
<1> QED  BY <1>1, <1>5, <1>6, <1>7, <1>8 DEF CallVerified

\* The root program is called first, and entered behind its call.
LEMMA RootIsVerified ==
  ASSUME NEW g, NEW h, NEW bs, NEW own, NEW lo, NEW p, NEW c,
         Returned(g, h, bs, own, lo, p, c)
  PROVE  PrepareVerified(p, c, 0) /\ p.code[0].op = "PREPARE_EXEC"
<1>1. /\ Good(g) /\ Laid(g, bs, own, lo) /\ Len(g.symbols) = 1
      /\ Complete(g, h) /\ Certified(g, h, bs, own, p, c)
  BY DEF Returned
<1>2. NextPos(g) \in Nat /\ NextPos(g) >= 1
  BY <1>1, Lengths
<1>3. Len(bs) \in Nat /\ Len(bs) = Len(g.stack_maps)
  <2>1. IsSeq(bs)
    BY <1>1 DEF Laid, Owned
  <2> QED  BY <1>1, <2>1, SeqFacts DEF Laid, Owned
<1>4. 0 \in 0 .. NextPos(g) /\ 1 \in 1 .. NextPos(g)
  BY <1>2
<1>5. /\ p.code[0] = Ins(h, 0) /\ c.owner[0] = NoFrame /\ c.root = Len(bs)
      /\ DOMAIN p.stack_maps = 0 .. Len(bs)
  BY <1>1, <1>4 DEF Certified
<1>6. /\ Ins(h, 0).op = "PREPARE_EXEC" /\ Ins(h, 0).index = Len(bs)
      /\ Ins(h, 0).count = Len(g.symbols[1].register_state)
  BY <1>1, <1>3 DEF Complete
<1>7. c.callee[0] = NoFrame
  BY <1>1, <1>4, <1>6 DEF Certified
<1>8. Len(bs) \in 0 .. Len(bs) /\ c.size[Len(bs)] = Len(g.symbols[1].register_state)
  <2>1. 0 \in 0 .. Len(bs) /\ FrameNumber(bs, 0) = Len(bs) /\ Len(bs) \in 0 .. Len(bs)
    BY <1>3 DEF FrameNumber
  <2>2. SizeOf(g, bs, 0) = Len(g.symbols[1].register_state)
    BY <1>3 DEF SizeOf
  <2> QED  BY <1>1, <2>1, <2>2 DEF Certified
<1>9. own[1] = 0
  <2>1. own[1] \in 0 .. Len(bs)
    BY <1>1, <1>4 DEF Certified
  <2>2. ASSUME NEW k \in 1 .. Len(bs), own[1] = k  PROVE FALSE
    <3>1. BodyLaid(g, bs[k], own, k)
      BY <1>1 DEF Laid, BodiesLaid
    <3>2. 2 <= bs[k].ind /\ bs[k].ind <= 1 /\ bs[k].ind \in Nat
      BY <2>2, <3>1 DEF BodyLaid
    <3> QED  BY <3>2
  <2> QED  BY <1>3, <2>1, <2>2
<1>10. Entry(g, 1)
  <2> SUFFICES ASSUME 1 < NextPos(g)  PROVE Ins(g, 1).op \notin {"ARG", "EXEC"}
    BY DEF Entry
  <2>1. 1 \in 1 .. NextPos(g) - 1
    BY <1>2
  <2>2. Calls(g, bs, own, 1)
    BY <1>1, <2>1 DEF Laid, CodeLaid, Sound
  <2>3. \A j : j \notin 1 .. 1 - 1
    OBVIOUS
  <2> QED  BY <2>2, <2>3 DEF Calls
<1>11. InBody(p, c, c.root, 1)
  <2>1. InBody(p, c, FrameNumber(bs, own[1]), 1)
    BY <1>4, <1>10, EntryInBody
  <2> QED  BY <1>5, <1>9, <2>1 DEF FrameNumber
<1> QED  BY <1>5, <1>6, <1>7, <1>8, <1>11 DEF PrepareVerified

\* The code of the root program ends in a HALT.
LEMMA HaltIsVerified ==
  ASSUME NEW g, NEW h, NEW bs, NEW own, NEW lo, NEW p, NEW c,
         Returned(g, h, bs, own, lo, p, c)
  PROVE  BodyVerified(p, c, NextPos(g)) /\ p.code[NextPos(g)].op = "HALT"
<1> DEFINE n == NextPos(g)
<1>1. /\ Good(g) /\ Laid(g, bs, own, lo)
      /\ Complete(g, h) /\ Certified(g, h, bs, own, p, c)
  BY DEF Returned
<1>2. n \in 1 .. n /\ n \in 0 .. n
  BY <1>1, Lengths
<1>3. p.code[n] = Ins(h, n) /\ Ins(h, n).op = "HALT"
  BY <1>1, <1>2 DEF Certified, Complete, Halt
<1>4. c.owner[n] = FrameNumber(bs, own[n]) /\ own[n] \in 0 .. Len(bs) /\ c.callee[n] = NoFrame
  BY <1>1, <1>2, <1>3 DEF Certified
<1>5. c.owner[n] # NoFrame
  <2>1. IsSeq(bs)
    BY <1>1 DEF Laid, Owned
  <2>2. Len(bs) \in Nat
    BY <2>1, SeqFacts
  <2> QED  BY <1>4, <2>2 DEF FrameNumber, NoFrame
<1> HIDE DEF n
<1> QED  BY <1>3, <1>4, <1>5 DEF BodyVerified, n

\* The certificate certifies.
LEMMA CertificateHolds ==
  ASSUME NEW g, NEW h, NEW bs, NEW own, NEW lo, NEW p, NEW c,
         Returned(g, h, bs, own, lo, p, c)
  PROVE  Verified(p, c) /\ CallsDescend(p, c)
<1>1. Certified(g, h, bs, own, p, c) /\ Good(g)
  BY DEF Returned
<1>2. NextPos(g) \in Nat /\ NextPos(g) >= 1
  BY <1>1, Lengths
<1>3. IsSeq(bs)
  BY DEF Returned, Laid, Owned
<1>4. Len(bs) \in Nat
  BY <1>3, SeqFacts
<1>5. DOMAIN p.code = 0 .. NextPos(g) /\ DOMAIN p.stack_maps = 0 .. Len(bs)
  BY <1>1 DEF Certified
<1>6. ASSUME NEW i \in 0 .. NextPos(g)
      PROVE  /\ p.code[i].op = "PREPARE_EXEC" => PrepareVerified(p, c, i)
             /\ p.code[i].op \in {"ARG", "EXEC"} => CallVerified(p, c, i)
             /\ p.code[i].op \notin {"PREPARE_EXEC", "ARG", "EXEC"} => BodyVerified(p, c, i)
             /\ p.code[i].op # "BREAK"
             /\ p.code[i].op = "PREPARE_EXEC" /\ c.owner[i] # NoFrame
                  => p.code[i].index < c.owner[i]
  <2>1. CASE i = 0
    <3>1. c.owner[0] = NoFrame
      BY <1>1 DEF Certified
    <3>2. PrepareVerified(p, c, 0) /\ p.code[0].op = "PREPARE_EXEC"
      BY RootIsVerified
    <3> QED  BY <2>1, <3>1, <3>2
  <2>2. CASE i = NextPos(g)
    BY <2>2, HaltIsVerified
  <2>3. CASE i \in 1 .. NextPos(g) - 1
    <3>1. p.code[i] = Ins(h, i) /\ Ins(h, i).op = Ins(g, i).op
      BY <2>3, AtPosition
    <3>2. Ins(g, i).op = "PREPARE_EXEC" => PrepareVerified(p, c, i) /\ p.code[i].index < c.owner[i]
      BY <2>3, PrepareIsVerified
    <3>3. Ins(g, i).op \in {"ARG", "EXEC"} => CallVerified(p, c, i)
      BY <2>3, CallIsVerified
    <3>4. Ins(g, i).op \notin {"PREPARE_EXEC", "ARG", "EXEC"} =>
            BodyVerified(p, c, i) /\ p.code[i].op # "BREAK"
      BY <2>3, BodyIsVerified
    <3> QED  BY <3>1, <3>2, <3>3, <3>4
  <2>4. i = 0 \/ i = NextPos(g) \/ i \in 1 .. NextPos(g) - 1
    BY <1>2
  <2> QED  BY <2>1, <2>2, <2>3, <2>4
<1>7. CertificateShape(p, c)
  <2>1. /\ DOMAIN p.code \subseteq Nat /\ DOMAIN p.stack_maps \subseteq Nat
        /\ c.root \in DOMAIN p.stack_maps /\ 0 \in DOMAIN p.code
    BY <1>1, <1>2, <1>4, <1>5 DEF Certified
  <2>2. c.size \in [DOMAIN p.stack_maps -> Nat]
    BY <1>1, <1>5 DEF Certified
  <2>3. /\ c.owner \in [DOMAIN p.code -> DOMAIN p.stack_maps \cup {NoFrame}]
        /\ c.callee \in [DOMAIN p.code -> DOMAIN p.stack_maps \cup {NoFrame}]
        /\ c.owner[0] = NoFrame
    BY <1>1, <1>5 DEF Certified
  <2>4. c.callee[0] = NoFrame
    BY RootIsVerified DEF PrepareVerified
  <2>5. ASSUME NEW m \in 0 .. Len(bs)
        PROVE  DOMAIN p.stack_maps[m].map \subseteq Registers(c, m)
    <3>1. PICK k \in 0 .. Len(bs) : FrameNumber(bs, k) = m
      <4>1. CASE m = Len(bs)
        <5>1. 0 \in 0 .. Len(bs) /\ FrameNumber(bs, 0) = m
          BY <1>4, <4>1 DEF FrameNumber
        <5> QED  BY <5>1
      <4>2. CASE m # Len(bs)
        <5>1. m + 1 \in 0 .. Len(bs) /\ FrameNumber(bs, m + 1) = m
          BY <1>4, <4>2 DEF FrameNumber
        <5> QED  BY <5>1
      <4> QED  BY <4>1, <4>2
    <3>2. /\ c.size[m] = SizeOf(g, bs, k)
          /\ DOMAIN p.stack_maps[m].map \subseteq 0 .. SizeOf(g, bs, k) - 1
      BY <1>1, <3>1 DEF Certified
    <3> QED  BY <3>2 DEF Registers
  <2> QED  BY <1>5, <2>1, <2>2, <2>3, <2>4, <2>5 DEF CertificateShape
<1>8. p.code \in [DOMAIN p.code -> Instruction]
  BY <1>1 DEF Certified
<1>9. Verified(p, c)
  BY <1>5, <1>6, <1>7, <1>8 DEF Verified
<1>10. CallsDescend(p, c)
  BY <1>5, <1>6 DEF CallsDescend
<1> QED  BY <1>9, <1>10

\* The breakpoints of good code are sound.
LEMMA BreaksAreSound ==
  ASSUME NEW h, Good(h)
  PROVE  BreaksSound(Generated(h))
<1> DEFINE p == Generated(h)
<1>1. /\ p.code = Vector(h.code) /\ p.potential_breaks = h.potential_breaks
      /\ p.line_info = h.line_info
  BY DEF Generated
<1> HIDE DEF p
<1>2. IsSeq(h.code)
  BY DEF Good, Shape
<1>3. /\ DOMAIN p.code = 0 .. NextPos(h) - 1
      /\ \A i \in 0 .. NextPos(h) - 1 : p.code[i] = h.code[i + 1]
  BY <1>1, <1>2, VectorIs DEF NextPos
<1>4. ASSUME NEW bp \in DOMAIN h.potential_breaks, NEW i \in h.potential_breaks[bp]
      PROVE  /\ i \in 0 .. NextPos(h) - 1 /\ h.code[i + 1] = PotentialBreak
             /\ i \in DOMAIN h.line_info /\ h.line_info[i] = bp
  BY DEF Good, Breaks
<1>5. BreaksSound(p)
  BY <1>1, <1>3, <1>4 DEF BreaksSound
<1> QED  BY <1>5 DEF p

\* What gen() returns in h can be run.
Runs(h, cs) ==
  /\ Verified(Generated(h), Certificate(h, cs))
  /\ CallsDescend(Generated(h), Certificate(h, cs))
  /\ BreaksSound(Generated(h))

\* When gen() returns without an error, its code can be run.
LEMMA LaysFinish ==
  ASSUME Inv, NEW own, NEW lo, Promise(gs, work, bodies, own, lo), Finish, gs'.errors = <<>>
  PROVE  Runs(gs', bodies')
<1>1. Complete(gs, gs') /\ Good(gs) /\ Len(gs.symbols) = 1 /\ Laid(gs, bodies, own, lo)
  BY GenCompletes DEF Promise
<1>2. Good(gs')
  BY KeepFinish DEF Inv
<1>3. Bodies(gs, bodies, bodies')
  <2>1. RegStates(gs) = gs.symbols[1].register_state
    <3>1. Open(gs)
      BY <1>1 DEF Open
    <3> QED  BY <1>1, <3>1, SymbolsFacts DEF RegStates
  <2> QED  BY <2>1 DEF Finish, Bodies
<1>4. Certified(gs, gs', bodies, own, Generated(gs'), Certificate(gs', bodies'))
  BY <1>1, <1>2, <1>3, CertificateIs
<1>5. Returned(gs, gs', bodies, own, lo, Generated(gs'), Certificate(gs', bodies'))
  BY <1>1, <1>4 DEF Returned
<1>6. BreaksSound(Generated(gs'))
  BY <1>2, BreaksAreSound
<1> QED  BY <1>5, <1>6, CertificateHolds DEF Runs

-----------------------------------------------------------------------------
(* Whatever is generated without an error can be run *)

\* The state gen() begins in: the placeholder, and the root program's table.
LEMMA StartIs ==
  ASSUME NEW e, NEW f,
         LET g == PushSymbols(Emit(EmptyState, PrepareExec(-1, -1, 0)), "#root")
         IN  f = g \/ f = [g EXCEPT !.errors = e]
  PROVE  /\ Len(f.code) = 1 /\ f.stack_maps = <<>> /\ f.funcAddrs = <<>> /\ f.labels = <<>>
         /\ Len(f.symbols) = 1 /\ f.symbols[1].marks = <<>>
<1> DEFINE i == PrepareExec(-1, -1, 0)
           t == [name |-> "#root", register_state |-> <<>>, argnum |-> 0, marks |-> <<>>]
           g == PushSymbols(Emit(EmptyState, i), "#root")
           h == [g EXCEPT !.errors = e]
<1>1. Len(<<i>>) = 1 /\ Len(<<t>>) = 1 /\ <<t>>[1] = t
  BY OneIs
<1>2. Append(<<>>, i) = <<i>> /\ Append(<<>>, t) = <<t>>
  OBVIOUS
<1>3. t.marks = <<>>
  OBVIOUS
<1>4. f = g \/ f = h
  OBVIOUS
<1> HIDE DEF i, t
<1>5. /\ f.code = <<i>> /\ f.stack_maps = <<>> /\ f.symbols = <<t>>
      /\ f.funcAddrs = <<>> /\ f.labels = <<>>
  BY <1>2, <1>4, ZenonT(40) DEF PushSymbols, Emit, EmptyState, Fields, t
<1> QED  BY <1>1, <1>3, <1>5

\* At first nothing is written but the placeholder, and all is the root
\* program's.
LEMMA LaysInit ==
  ASSUME Init
  PROVE  \E own, lo : Promise(gs, work, bodies, own, lo)
<1> DEFINE e == ast.errors
           g == PushSymbols(Emit(EmptyState, PrepareExec(-1, -1, 0)), "#root")
           h == [g EXCEPT !.errors = e]
           f == [i \in Nat |-> 0]
<1>1. /\ gs = (IF ast.parsed_correctly THEN g ELSE h)
      /\ work = IF ast.parsed_correctly THEN DispatchVoid(ast.root) ELSE <<>>
      /\ bodies = <<>>
  BY DEF Init
<1>2. gs = g \/ gs = h
  BY <1>1
<1>3. /\ Len(gs.code) = 1 /\ gs.stack_maps = <<>> /\ gs.funcAddrs = <<>> /\ gs.labels = <<>>
      /\ Len(gs.symbols) = 1 /\ gs.symbols[1].marks = <<>>
  BY <1>2, StartIs
<1>4. ast.parsed_correctly => gs.errors = <<>>
  <2>1. g.errors = <<>>
    BY DEF PushSymbols, Emit, EmptyState
  <2> HIDE DEF g
  <2> QED  BY <1>1, <2>1
<1> HIDE DEF e, g, h
<1>5. f \in [Nat -> Nat] /\ \A i \in Nat : f[i] = 0
  OBVIOUS
<1> HIDE DEF f
<1>6. Cur(gs, bodies) = 0 /\ NextPos(gs) = 1
  BY <1>3 DEF Cur, NextPos
<1>7. IsSeq(bodies)
  BY <1>1, NoneIs
<1>8. Len(bodies) = 0 /\ Len(gs.stack_maps) = 0 /\ Len(gs.labels) = 0
  BY <1>1, <1>3, NoneIs
<1>9. Owned(gs, bodies, f, f)
  <2> HIDE DEF Cur
  <2> QED  BY <1>3, <1>5, <1>6, <1>7, <1>8 DEF Owned
<1>10. CodeLaid(gs, bodies, f, f)
  <2>1. \A i : i \notin 1 .. 1 - 1
    OBVIOUS
  <2> QED  BY <1>6, <2>1 DEF CodeLaid
<1>11. BodiesLaid(gs, bodies, f)
  <2>1. \A k : k \notin 1 .. 0
    OBVIOUS
  <2> QED  BY <1>8, <2>1 DEF BodiesLaid
<1>12. LabelsLaid(gs, f, f)
  <2>1. \A k : k \notin 0 .. 0 - 1
    OBVIOUS
  <2> QED  BY <1>8, <2>1 DEF LabelsLaid
<1>13. MarksLaid(gs, bodies, f)
  <2> SUFFICES ASSUME NEW k \in 1 .. 1, NEW x \in DOMAIN gs.symbols[k].marks  PROVE FALSE
    BY <1>3 DEF MarksLaid
  <2>1. k = 1
    OBVIOUS
  <2> QED  BY <1>3, <2>1, NoneIs
<1>14. FunctionsLaid(gs, bodies)
  BY <1>3, NoneIs DEF FunctionsLaid
<1>15. WorkLaid(work, gs, bodies, f, f)
  <2>1. \A k \in 1 .. Len(work) : work[k].call = "void"
    <3> DEFINE n == ast.root
               x == [call |-> "void", node |-> n]
    <3>1. work = <<>> \/ work = <<x>>
      BY <1>1 DEF DispatchVoid
    <3>2. x.call = "void"
      OBVIOUS
    <3> HIDE DEF x
    <3>3. CASE work = <<>>
      BY <3>3, NoneIs
    <3>4. CASE work = <<x>>
      BY <3>2, <3>4, OneIs
    <3> QED  BY <3>1, <3>3, <3>4
  <2> QED  BY <2>1, VoidsLaid
<1>16. Noted(gs, work)
  BY <1>1, <1>4, <1>6, NoneIs DEF Noted
<1>17. Laid(gs, bodies, f, f)
  BY <1>9, <1>10, <1>11, <1>12, <1>13, <1>14 DEF Laid
<1> QED  BY <1>15, <1>16, <1>17 DEF Promise

\* While gen() traverses the tree, positions and labels can be given owners so
\* that what has been generated can be run; when it has returned without an
\* error, all can.
Lays ==
  /\ outcome = "running" => \E own, lo : Promise(gs, work, bodies, own, lo)
  /\ outcome = "returned" /\ gs.errors = <<>> => Runs(gs, bodies)

\* What a step of the traversal leaves.
LEMMA LaysOn ==
  ASSUME outcome' # "returned",
         outcome' = "running" => \E own, lo : Promise(gs', work', bodies', own, lo)
  PROVE  Lays'
BY DEF Lays

\* A statement keeps it,
LEMMA LaysStatement ==
  ASSUME Inv, Lays,
         VoidSplit \/ VoidAssign \/ VoidStop \/ VoidMark \/ VoidGoto \/ VoidMalformed
           \/ VoidIf \/ IfTest \/ VoidWhile \/ WhileBody \/ WhileEnd
           \/ VoidLoop \/ LoopBody \/ LoopEnd
  PROVE  Lays'
<1>1. outcome = "running" /\ outcome' = outcome
  <2>1. CASE VoidSplit \/ VoidAssign \/ VoidStop \/ VoidMark \/ VoidGoto \/ VoidMalformed
    BY <2>1, Zenon DEF VoidSplit, VoidAssign, VoidStop, VoidMark, VoidGoto, VoidMalformed,
                On, Running, Stmt, Then
  <2>2. CASE VoidIf \/ IfTest \/ VoidWhile \/ WhileBody \/ WhileEnd
    BY <2>2, Zenon DEF VoidIf, IfTest, VoidWhile, WhileBody, WhileEnd, On, Running, Stmt, Then
  <2>3. CASE VoidLoop \/ LoopBody \/ LoopEnd
    BY <2>3 DEF VoidLoop, LoopBody, LoopEnd, On, Running, Stmt, Then
  <2> QED  BY <2>1, <2>2, <2>3
<1>2. PICK own, lo : Promise(gs, work, bodies, own, lo)
  BY <1>1 DEF Lays
<1>3. Promise(gs', work', bodies', own, lo)
  <2>1. CASE VoidSplit \/ VoidAssign \/ VoidStop \/ VoidMark \/ VoidGoto \/ VoidMalformed
    BY <1>2, <2>1, LaysVoidSplit, LaysVoidAssign, LaysVoidStop, LaysVoidMark, LaysVoidGoto,
       LaysVoidMalformed
  <2>2. CASE VoidIf \/ IfTest \/ VoidWhile \/ WhileBody \/ WhileEnd
    BY <1>2, <2>2, LaysVoidIf, LaysIfTest, LaysVoidWhile, LaysWhileBody, LaysWhileEnd
  <2>3. CASE VoidLoop \/ LoopBody \/ LoopEnd
    BY <1>2, <2>3, LaysVoidLoop, LaysLoopBody, LaysLoopEnd
  <2> QED  BY <2>1, <2>2, <2>3
<1> QED  BY <1>1, <1>3, LaysOn

\* a value,
LEMMA LaysValue ==
  ASSUME Inv, Lays,
         ValueName \/ ValueNumber \/ ValueCall \/ ValueMalformed
           \/ CallArgsSplit \/ CallArgsValue
           \/ CallInbuilt \/ CallUnknown \/ CallMismatch \/ CallSequence
  PROVE  Lays'
<1>1. outcome = "running" /\ outcome' = outcome
  <2>1. CASE ValueName \/ ValueNumber \/ ValueCall \/ ValueMalformed
    BY <2>1 DEF ValueName, ValueNumber, ValueCall, ValueMalformed, On, Running, Stmt, Then
  <2>2. CASE CallArgsSplit \/ CallArgsValue
    BY <2>2 DEF CallArgsSplit, CallArgsValue, On, Running, Stmt, Then
  <2>3. CASE CallInbuilt \/ CallUnknown \/ CallMismatch \/ CallSequence
    BY <2>3 DEF CallInbuilt, CallUnknown, CallMismatch, CallSequence, CallReturn,
                Running, Stmt, Then
  <2> QED  BY <2>1, <2>2, <2>3
<1>2. PICK own, lo : Promise(gs, work, bodies, own, lo)
  BY <1>1 DEF Lays
<1>3. Promise(gs', work', bodies', own, lo)
  <2>1. CASE ValueName \/ ValueNumber \/ ValueCall \/ ValueMalformed
    BY <1>2, <2>1, LaysValueName, LaysValueNumber, LaysValueCall, LaysValueMalformed
  <2>2. CASE CallArgsSplit \/ CallArgsValue
    BY <1>2, <2>2, LaysCallArgsSplit, LaysCallArgsValue
  <2>3. CASE CallInbuilt \/ CallUnknown \/ CallMismatch \/ CallSequence
    BY <1>2, <2>3, LaysCallInbuilt, LaysCallUnknown, LaysCallMismatch, LaysCallSequence
  <2> QED  BY <2>1, <2>2, <2>3
<1> QED  BY <1>1, <1>3, LaysOn

\* a definition, if its parameters have the first registers,
LEMMA LaysDefinition ==
  ASSUME Inv, Lays, ArgsOccupyFirstRegisters,
         VoidProgram \/ ArgsSplit \/ ArgsName \/ ProgramBody \/ ProgramEnd
  PROVE  Lays'
<1>1. outcome = "running" /\ outcome' # "returned"
  BY DEF VoidProgram, ArgsSplit, ArgsName, ProgramBody, ProgramEnd,
         On, Running, Stmt, Return, Then
<1>2. PICK own, lo : Promise(gs, work, bodies, own, lo)
  BY <1>1 DEF Lays
<1>3. outcome' = "running" => \E own2, lo2 : Promise(gs', work', bodies', own2, lo2)
  <2>1. CASE VoidProgram
    BY <1>2, <2>1, LaysVoidProgram
  <2>2. CASE ArgsSplit \/ ArgsName \/ ProgramBody
    <3>1. Promise(gs', work', bodies', own, lo)
      BY <1>2, <2>2, LaysArgsSplit, LaysArgsName, LaysProgramBody
    <3> QED  BY <3>1
  <2>3. CASE ProgramEnd
    BY <1>2, <2>3, LaysProgramEnd
  <2> QED  BY <2>1, <2>2, <2>3
<1> QED  BY <1>1, <1>3, LaysOn, SMTT(30)

\* so every step does.
LEMMA LaysStep ==
  Inv /\ Lays /\ ArgsOccupyFirstRegisters /\ [Next]_vars => Lays'
<1>1. SUFFICES ASSUME Inv, Lays, ArgsOccupyFirstRegisters, [Next]_vars  PROVE Lays'
  OBVIOUS
<1>2. CASE \/ VoidSplit \/ VoidAssign \/ VoidStop \/ VoidMark \/ VoidGoto \/ VoidMalformed
           \/ VoidIf \/ IfTest \/ VoidWhile \/ WhileBody \/ WhileEnd
           \/ VoidLoop \/ LoopBody \/ LoopEnd
  BY <1>1, <1>2, LaysStatement
<1>3. CASE \/ ValueName \/ ValueNumber \/ ValueCall \/ ValueMalformed
           \/ CallArgsSplit \/ CallArgsValue
           \/ CallInbuilt \/ CallUnknown \/ CallMismatch \/ CallSequence
  BY <1>1, <1>3, LaysValue
<1>4. CASE VoidProgram \/ ArgsSplit \/ ArgsName \/ ProgramBody \/ ProgramEnd
  BY <1>1, <1>4, LaysDefinition
<1>5. CASE Finish
  <2>1. outcome = "running" /\ outcome' = "returned"
    BY <1>5 DEF Finish
  <2>2. PICK own, lo : Promise(gs, work, bodies, own, lo)
    BY <1>1, <2>1 DEF Lays
  <2>3. gs'.errors = <<>> => Runs(gs', bodies')
    BY <1>1, <1>5, <2>2, LaysFinish
  <2> QED  BY <2>1, <2>3 DEF Lays
<1>6. CASE Idle \/ UNCHANGED vars
  <2>1. gs' = gs /\ work' = work /\ bodies' = bodies /\ outcome' = outcome
    BY <1>6 DEF Idle, vars
  <2> QED  BY <1>1, <2>1 DEF Lays
<1> QED  BY <1>1, <1>2, <1>3, <1>4, <1>5, <1>6 DEF Next

\* The certificate is the one that is checked.
LEMMA LaysRuns == Lays => OutputRuns
<1>1. Output = Generated(gs)
  BY DEF Output, Generated
<1>2. \A i : OwnerOf(i) = Proprietor(bodies, i)
  BY DEF OwnerOf, Proprietor
<1>3. Output.code = Vector(gs.code)
  BY DEF Output
<1>4. \A i : CalleeOf(i) = Recipient(Vector(gs.code), i)
  BY <1>3 DEF CalleeOf, Recipient
<1>5. OutputCertificate = Certificate(gs, bodies)
  BY <1>2, <1>3, <1>4 DEF OutputCertificate, Certificate
<1> QED  BY <1>1, <1>5 DEF Lays, Runs, OutputRuns, Succeeded

\* For every set of trees of the parser's shape and every word size: as long
\* as parameters get the first registers of their program (gen.cpp:351), code
\* that gen() returns without an error can be run.  Every jump stays in its
\* program, every register lies in its activation, every call opens an
\* activation of the size its program was compiled to, and no program calls
\* itself, directly or through others (gen.cpp:31-108, 227-401, 430-530).
THEOREM OutputCanRun == Spec /\ []ArgsOccupyFirstRegisters => []OutputRuns
<1>1. Init => Lays
  BY LaysInit DEF Lays, Init
<1>2. Inv /\ Lays /\ ArgsOccupyFirstRegisters /\ [Next]_vars => Lays'
  BY LaysStep
<1> QED  BY <1>1, <1>2, InvIsInvariant, LaysRuns, PTL DEF Spec

-----------------------------------------------------------------------------
(* Where parameters have different names *)

\* No definition of t waits for its ports.
NoneBegun(t) == IsSeq(t) /\ \A k \in 1 .. Len(t) : t[k].call # "program"

\* Tasks of which that holds can be put together.
LEMMA NoneBegunIn ==
  /\ NoneBegun(<<>>)
  /\ \A x : x.call # "program" => NoneBegun(<<x>>)
  /\ \A t, u : NoneBegun(t) /\ NoneBegun(u) => NoneBegun(t \o u)
<1>1. NoneBegun(<<>>)
  BY NoneIs DEF NoneBegun
<1>2. ASSUME NEW x, x.call # "program"  PROVE NoneBegun(<<x>>)
  BY <1>2, OneIs DEF NoneBegun
<1>3. ASSUME NEW t, NEW u, NoneBegun(t), NoneBegun(u)  PROVE NoneBegun(t \o u)
  <2> DEFINE v == t \o u
  <2>1. /\ IsSeq(v) /\ Len(v) = Len(t) + Len(u) /\ Len(t) \in Nat /\ Len(u) \in Nat
        /\ \A k \in 1 .. Len(t) : v[k] = t[k]
        /\ \A k \in Len(t) + 1 .. Len(t) + Len(u) : v[k] = u[k - Len(t)]
    BY <1>3, ConcatIs, SeqFacts DEF NoneBegun
  <2> HIDE DEF v
  <2>2. ASSUME NEW k \in 1 .. Len(v)  PROVE v[k].call # "program"
    <3>1. CASE k \in 1 .. Len(t)
      BY <1>3, <2>1, <3>1 DEF NoneBegun
    <3>2. CASE k \notin 1 .. Len(t)
      <4>1. k \in Len(t) + 1 .. Len(t) + Len(u) /\ k - Len(t) \in 1 .. Len(u)
        BY <2>1, <3>2
      <4> QED  BY <1>3, <2>1, <4>1 DEF NoneBegun
    <3> QED  BY <3>1, <3>2
  <2>3. NoneBegun(v)
    BY <2>1, <2>2 DEF NoneBegun
  <2> QED  BY <2>3 DEF v
<1> QED  BY <1>1, <1>2, <1>3

\* The calls that dispatch makes are others.
LEMMA DispatchesBeginNone ==
  ASSUME NEW n, NEW tgt
  PROVE  /\ NoneBegun(DispatchVoid(n)) /\ NoneBegun(DispatchValue(n, tgt))
         /\ NoneBegun(DispatchArgs(n)) /\ NoneBegun(DispatchCallArgs(n))
<1>1. NoneBegun(DispatchVoid(n))
  BY NoneBegunIn DEF DispatchVoid
<1>2. NoneBegun(DispatchValue(n, tgt))
  BY NoneBegunIn DEF DispatchValue
<1>3. NoneBegun(DispatchArgs(n))
  BY NoneBegunIn DEF DispatchArgs
<1>4. NoneBegun(DispatchCallArgs(n))
  BY NoneBegunIn DEF DispatchCallArgs
<1> QED  BY <1>1, <1>2, <1>3, <1>4

\* If no definition waited and the first task goes on with t, none waits.
LEMMA NoneBegunOn ==
  ASSUME NEW w, IsSeq(w), w # <<>>, \A j \in 2 .. Len(w) : w[j].call # "program",
         NEW t, NoneBegun(t), NEW v, Splice(v, t, w)
  PROVE  NoneBegun(v)
<1>1. IsSeq(t)
  BY DEF NoneBegun
<1>2. IsSeq(v) /\ \A k \in 1 .. Len(v) :
        \/ k \in 1 .. Len(t) /\ v[k] = t[k]
        \/ \E j \in 2 .. Len(w) : k = Len(t) + j - 1 /\ v[k] = w[j]
  BY <1>1, Spliced
<1>3. ASSUME NEW k \in 1 .. Len(v)  PROVE v[k].call # "program"
  <2>1. CASE k \in 1 .. Len(t) /\ v[k] = t[k]
    BY <2>1 DEF NoneBegun
  <2>2. CASE \E j \in 2 .. Len(w) : k = Len(t) + j - 1 /\ v[k] = w[j]
    BY <2>2
  <2> QED  BY <1>2, <2>1, <2>2
<1> QED  BY <1>2, <1>3 DEF NoneBegun

\* What statements
LEMMA StatementsBeginNone ==
  ASSUME VoidSplit \/ VoidAssign \/ VoidStop \/ VoidMark \/ VoidGoto \/ VoidMalformed
           \/ VoidIf \/ IfTest \/ VoidWhile \/ WhileBody \/ WhileEnd
           \/ VoidLoop \/ LoopBody \/ LoopEnd
  PROVE  \E t : NoneBegun(t) /\ Then(t)
<1>1. CASE VoidSplit
  <2>1. Then(DispatchVoid(node.left) \o DispatchVoid(node.right))
    BY <1>1 DEF VoidSplit
  <2> QED  BY <2>1, NoneBegunIn, DispatchesBeginNone
<1>2. CASE VoidAssign
  <2> DEFINE r == VariableRegister(AtLine, Variable(node.left.tok))
  <2>1. Then(DispatchValue(node.right, r))
    BY <1>2 DEF VoidAssign, Stmt
  <2> HIDE DEF r
  <2> QED  BY <2>1, DispatchesBeginNone
<1>3. CASE VoidStop \/ VoidMark \/ VoidGoto \/ VoidMalformed
  <2>1. Then(<<>>)
    BY <1>3, Zenon DEF VoidStop, VoidMark, VoidGoto, VoidMalformed, Stmt
  <2> QED  BY <2>1, NoneBegunIn
<1>4. CASE VoidIf
  <2> DEFINE g1 == FetchTemporary(AtLine)
             g2 == FetchTemporary(g1)
             r == [call |-> "if", node |-> node, cond |-> Temporary(AtLine),
                   op1 |-> Temporary(g1), op2 |-> Temporary(g2)]
             a == DispatchValue(node.left.left, r.op1)
             b == DispatchValue(node.left.right, r.op2)
  <2>1. Then(a \o b \o <<r>>) /\ r.call = "if"
    BY <1>4 DEF VoidIf, Stmt
  <2>2. NoneBegun(a) /\ NoneBegun(b)
    BY DispatchesBeginNone
  <2> HIDE DEF a, b, r
  <2> QED  BY <2>1, <2>2, NoneBegunIn
<1>5. CASE IfTest \/ WhileEnd \/ LoopEnd
  <2>1. Then(<<>>)
    BY <1>5, Zenon DEF IfTest, WhileEnd, LoopEnd, Stmt
  <2> QED  BY <2>1, NoneBegunIn
<1>6. CASE VoidWhile
  <2> DEFINE s == NewLabel(AtLine)
             r == [call |-> "while", node |-> node, cond |-> Temporary(AtLine),
                   start |-> s, end |-> s + 1]
             a == DispatchValue(node.left, r.cond)
  <2>1. Then(a \o <<r>>) /\ r.call = "while"
    BY <1>6 DEF VoidWhile, Stmt
  <2>2. NoneBegun(a)
    BY DispatchesBeginNone
  <2> HIDE DEF a, r
  <2> QED  BY <2>1, <2>2, NoneBegunIn
<1>7. CASE WhileBody
  <2> DEFINE r == [Task EXCEPT !.call = "endwhile"]
             a == DispatchVoid(node.right)
  <2>1. Then(a \o <<r>>)
    BY <1>7 DEF WhileBody, Stmt
  <2>2. NoneBegun(a)
    BY DispatchesBeginNone
  <2>3. r.call # "program"
    BY <1>7 DEF WhileBody, Running
  <2> HIDE DEF a, r
  <2> QED  BY <2>1, <2>2, <2>3, NoneBegunIn
<1>8. CASE VoidLoop
  <2> DEFINE g == [AtLine EXCEPT !.loops = @ + 1]
             c == VariableRegister(g, LoopVariable(g.fs, g.loops))
             r == [call |-> "loop", node |-> node, counter |-> c]
             a == DispatchValue(node.left, c)
  <2>1. Then(a \o <<r>>) /\ r.call = "loop"
    BY <1>8 DEF VoidLoop, Stmt
  <2>2. NoneBegun(a)
    BY DispatchesBeginNone
  <2> HIDE DEF a, r
  <2> QED  BY <2>1, <2>2, NoneBegunIn
<1>9. CASE LoopBody
  <2> DEFINE s == NewLabel(gs)
             r == [call |-> "endloop", node |-> node, counter |-> Task.counter,
                   start |-> s, end |-> s + 1]
             a == DispatchVoid(node.right)
  <2>1. Then(a \o <<r>>) /\ r.call = "endloop"
    BY <1>9 DEF LoopBody, Stmt
  <2>2. NoneBegun(a)
    BY DispatchesBeginNone
  <2> HIDE DEF a, r
  <2> QED  BY <2>1, <2>2, NoneBegunIn
<1> QED  BY <1>1, <1>2, <1>3, <1>4, <1>5, <1>6, <1>7, <1>8, <1>9

\* and values go on with is no definition.
LEMMA ValuesBeginNone ==
  ASSUME ValueName \/ ValueNumber \/ ValueCall \/ ValueMalformed \/ CallArgsSplit
           \/ CallInbuilt \/ CallUnknown \/ CallMismatch \/ CallSequence
  PROVE  \E t : NoneBegun(t) /\ Then(t)
<1>1. CASE ValueName \/ ValueNumber \/ ValueMalformed
  <2>1. Then(<<>>)
    BY <1>1, Zenon DEF ValueName, ValueNumber, ValueMalformed, Stmt
  <2> QED  BY <2>1, NoneBegunIn
<1>2. CASE ValueCall
  <2> DEFINE r == [call |-> "call", node |-> node, tgt |-> Task.tgt, arglocs |-> <<>>]
             a == DispatchCallArgs(node.right)
  <2>1. Then(a \o <<r>>) /\ r.call = "call"
    BY <1>2 DEF ValueCall, Stmt
  <2>2. NoneBegun(a)
    BY DispatchesBeginNone
  <2> HIDE DEF a, r
  <2> QED  BY <2>1, <2>2, NoneBegunIn
<1>3. CASE CallArgsSplit
  <2>1. Then(DispatchCallArgs(node.left) \o DispatchCallArgs(node.right))
    BY <1>3 DEF CallArgsSplit, Stmt
  <2> QED  BY <2>1, NoneBegunIn, DispatchesBeginNone
<1>4. CASE CallInbuilt \/ CallUnknown \/ CallMismatch \/ CallSequence
  <2>1. Then(<<>>)
    BY <1>4, Zenon DEF CallInbuilt, CallUnknown, CallMismatch, CallSequence, CallReturn, Stmt
  <2> QED  BY <2>1, NoneBegunIn
<1> QED  BY <1>1, <1>2, <1>3, <1>4

-----------------------------------------------------------------------------
\* A list of parameters yet to be dispatched: none of them has a register.
Listed(x, g, names) ==
  /\ x.call = "args" /\ x.node \in DOMAIN names
  /\ \A n \in names[x.node], r \in 1 .. Len(RegStates(g)) :
       RegStates(g)[r].name # Variable(n)

\* A definition waits behind its parameters: those dispatched have a register
\* each, and there is no other; the rest are not among them and differ.
PortsApart(w, g, names) ==
  \A k \in 1 .. Len(w) : w[k].call = "program" =>
    /\ Len(RegStates(g)) = Symbols(g).argnum
    /\ \A j \in 1 .. k - 1 : Listed(w[j], g, names)
    /\ \A i, j \in 1 .. k - 1 : i # j => names[w[i].node] \cap names[w[j].node] = {}

\* Where no definition waits there is nothing to say.
LEMMA NoneApart ==
  ASSUME NEW w, NoneBegun(w), NEW g, NEW names
  PROVE  PortsApart(w, g, names)
BY DEF NoneBegun, PortsApart

\* The lists t that take the place of a list have their parameters from it,
\* and so have the registers that are new, which are those of others.
Splits(t, n, g, h, names) ==
  /\ \A j \in 1 .. Len(t) : /\ t[j].call = "args" /\ t[j].node \in DOMAIN names
                            /\ names[t[j].node] \subseteq names[n]
  /\ \A i, j \in 1 .. Len(t) : i # j => names[t[i].node] \cap names[t[j].node] = {}
  /\ \A r \in 1 .. Len(RegStates(h)) :
       \/ r \in 1 .. Len(RegStates(g)) /\ RegStates(h)[r].name = RegStates(g)[r].name
       \/ \E x \in names[n] : /\ RegStates(h)[r].name = Variable(x)
                              /\ \A j \in 1 .. Len(t) : x \notin names[t[j].node]
  /\ Len(RegStates(h)) = Symbols(h).argnum

\* Then parameters stay apart.
LEMMA SplitsApart ==
  ASSUME NEW w, IsSeq(w), w # <<>>, w[1].call = "args", NEW g, NEW names,
         PortsApart(w, g, names),
         NEW t, IsSeq(t), NEW v, Splice(v, t, w), NEW h,
         (\E k \in 1 .. Len(w) : w[k].call = "program") => Splits(t, w[1].node, g, h, names),
         \A j \in 1 .. Len(t) : t[j].call = "args"
  PROVE  PortsApart(v, h, names)
<1>1. /\ Len(w) \in Nat /\ Len(t) \in Nat /\ Len(v) = Len(t) + Len(w) - 1
      /\ \A k \in 1 .. Len(v) :
              \/ k \in 1 .. Len(t) /\ v[k] = t[k]
              \/ \E j \in 2 .. Len(w) : k = Len(t) + j - 1 /\ v[k] = w[j]
  <2>1. Len(w) \in Nat /\ Len(t) \in Nat /\ Len(v) = Len(t) + Len(w) - 1
    BY Spliced, ZenonT(30)
  <2>2. \A k \in 1 .. Len(v) :
              \/ k \in 1 .. Len(t) /\ v[k] = t[k]
              \/ \E j \in 2 .. Len(w) : k = Len(t) + j - 1 /\ v[k] = w[j]
    BY Spliced, SMTT(60)
  <2> QED  BY <2>1, <2>2
<1>2. SUFFICES ASSUME NEW q \in 1 .. Len(v), v[q].call = "program"
      PROVE /\ Len(RegStates(h)) = Symbols(h).argnum
            /\ \A j \in 1 .. q - 1 : Listed(v[j], h, names)
            /\ \A i, j \in 1 .. q - 1 : i # j =>
                 names[v[i].node] \cap names[v[j].node] = {}
  BY DEF PortsApart
<1>3. PICK k \in 2 .. Len(w) : q = Len(t) + k - 1 /\ v[q] = w[k]
  BY <1>1, <1>2
<1>4. k \in 1 .. Len(w) /\ w[k].call = "program"
  BY <1>1, <1>2, <1>3
<1>5. Splits(t, w[1].node, g, h, names)
  BY <1>4
<1>6. /\ \A j \in 1 .. k - 1 : Listed(w[j], g, names)
      /\ \A i, j \in 1 .. k - 1 : i # j => names[w[i].node] \cap names[w[j].node] = {}
  BY <1>4 DEF PortsApart
<1>7. 1 \in 1 .. k - 1
  BY <1>1, <1>3
<1>8. ASSUME NEW j \in 1 .. q - 1
      PROVE  \/ j \in 1 .. Len(t) /\ v[j] = t[j]
             \/ \E i \in 2 .. k - 1 : /\ j = Len(t) + i - 1 /\ v[j] = w[i]
                                      /\ i \in 1 .. k - 1 /\ i # 1
  <2>1. j \in 1 .. Len(v)
    BY <1>1, <1>3
  <2>2. CASE j \in 1 .. Len(t) /\ v[j] = t[j]
    BY <2>2
  <2>3. CASE \E i \in 2 .. Len(w) : j = Len(t) + i - 1 /\ v[j] = w[i]
    <3>1. PICK i \in 2 .. Len(w) : j = Len(t) + i - 1 /\ v[j] = w[i]
      BY <2>3
    <3>2. i \in 2 .. k - 1 /\ i \in 1 .. k - 1 /\ i # 1
      BY <1>1, <1>3, <3>1, SMTT(30)
    <3> QED  BY <3>1, <3>2
  <2> QED  BY <1>1, <2>1, <2>2, <2>3
<1>9. ASSUME NEW j \in 1 .. q - 1  PROVE Listed(v[j], h, names)
  <2>1. CASE j \in 1 .. Len(t) /\ v[j] = t[j]
    <3>1. /\ v[j].call = "args" /\ v[j].node \in DOMAIN names
          /\ names[v[j].node] \subseteq names[w[1].node]
      BY <1>5, <2>1 DEF Splits
    <3>2. ASSUME NEW n \in names[v[j].node], NEW r \in 1 .. Len(RegStates(h))
          PROVE  RegStates(h)[r].name # Variable(n)
      <4>1. CASE r \in 1 .. Len(RegStates(g)) /\ RegStates(h)[r].name = RegStates(g)[r].name
        BY <1>6, <1>7, <3>1, <4>1 DEF Listed
      <4>2. CASE \E x \in names[w[1].node] :
                   /\ RegStates(h)[r].name = Variable(x)
                   /\ \A i \in 1 .. Len(t) : x \notin names[t[i].node]
        BY <2>1, <4>2 DEF Variable
      <4> QED  BY <1>5, <4>1, <4>2 DEF Splits
    <3> QED  BY <3>1, <3>2 DEF Listed
  <2>2. ASSUME NEW i \in 2 .. k - 1, v[j] = w[i], i \in 1 .. k - 1, i # 1
        PROVE  Listed(v[j], h, names)
    <3>1. Listed(w[i], g, names) /\ names[w[1].node] \cap names[w[i].node] = {}
      BY <1>6, <1>7, <2>2
    <3>2. ASSUME NEW n \in names[w[i].node], NEW r \in 1 .. Len(RegStates(h))
          PROVE  RegStates(h)[r].name # Variable(n)
      <4>1. CASE r \in 1 .. Len(RegStates(g)) /\ RegStates(h)[r].name = RegStates(g)[r].name
        BY <3>1, <4>1 DEF Listed
      <4>2. CASE \E x \in names[w[1].node] : RegStates(h)[r].name = Variable(x)
        BY <3>1, <4>2 DEF Variable
      <4> QED  BY <1>5, <4>1, <4>2 DEF Splits
    <3> QED  BY <2>2, <3>1, <3>2 DEF Listed
  <2> QED  BY <1>8, <2>1, <2>2
<1>10. ASSUME NEW i \in 1 .. q - 1, NEW j \in 1 .. q - 1, i # j
       PROVE  names[v[i].node] \cap names[v[j].node] = {}
  <2>1. CASE i \in 1 .. Len(t) /\ v[i] = t[i]
    <3>1. names[v[i].node] \subseteq names[w[1].node]
      BY <1>5, <2>1 DEF Splits
    <3>2. CASE j \in 1 .. Len(t) /\ v[j] = t[j]
      BY <1>5, <1>10, <2>1, <3>2 DEF Splits
    <3>3. CASE \E m \in 2 .. k - 1 : v[j] = w[m] /\ m \in 1 .. k - 1 /\ m # 1
      <4>1. names[w[1].node] \cap names[v[j].node] = {}
        BY <1>6, <1>7, <3>3
      <4> QED  BY <3>1, <4>1
    <3> QED  BY <1>8, <3>2, <3>3
  <2>2. ASSUME NEW l \in 1 .. k - 1, i = Len(t) + l - 1, v[i] = w[l], l # 1
        PROVE  names[v[i].node] \cap names[v[j].node] = {}
    <3>1. CASE j \in 1 .. Len(t) /\ v[j] = t[j]
      <4>1. names[v[j].node] \subseteq names[w[1].node]
        BY <1>5, <3>1 DEF Splits
      <4>2. names[w[1].node] \cap names[v[i].node] = {}
        BY <1>6, <1>7, <2>2
      <4> QED  BY <4>1, <4>2
    <3>2. ASSUME NEW m \in 1 .. k - 1, j = Len(t) + m - 1, v[j] = w[m]
          PROVE  names[v[i].node] \cap names[v[j].node] = {}
      <4>1. l # m
        BY <1>10, <2>2, <3>2
      <4> QED  BY <1>6, <2>2, <3>2, <4>1
    <3> QED  BY <1>8, <3>1, <3>2
  <2> QED  BY <1>8, <2>1, <2>2
<1> QED  BY <1>5, <1>9, <1>10 DEF Splits

\* Another register is no other argument.
LEMMA RegisterAdded ==
  ASSUME NEW g, Good(g), Open(g), NEW v, IsRegister(v, g.loops)
  PROVE  /\ Len(RegStates(AddRegister(g, v))) = Len(RegStates(g)) + 1
         /\ \A k \in 1 .. Len(RegStates(g)) : RegStates(AddRegister(g, v))[k] = RegStates(g)[k]
         /\ RegStates(AddRegister(g, v))[Len(RegStates(g)) + 1] = v
         /\ Symbols(AddRegister(g, v)).argnum = Symbols(g).argnum
<1> DEFINE s == Symbols(g)
           e == [s EXCEPT !.register_state = Append(@, v)]
<1>1. "argnum" \in DOMAIN s
  <2>1. IsTable(s, g)
    BY SymbolsFacts
  <2> QED  BY <2>1 DEF IsTable
<1>2. e.argnum = s.argnum
  <2> HIDE DEF s
  <2> QED  BY <1>1
<1> HIDE DEF e
<1>3. /\ Len(RegStates(AddRegister(g, v))) = Len(RegStates(g)) + 1
      /\ \A k \in 1 .. Len(RegStates(g)) : RegStates(AddRegister(g, v))[k] = RegStates(g)[k]
      /\ RegStates(AddRegister(g, v))[Len(RegStates(g)) + 1] = v
      /\ Symbols(AddRegister(g, v)) = e
  BY AddRegisterGood, ZenonT(40) DEF e
<1> QED  BY <1>2, <1>3

\* dispatchArgs counts a parameter and gives it the next register, if its name
\* is new.
LEMMA ParameterGiven ==
  ASSUME NEW g, Good(g), Open(g), NEW name, Len(name) # 4,
         \A r \in 1 .. Len(RegStates(g)) : RegStates(g)[r].name # name,
         NEW c, c = WithSymbols(g, [Symbols(g) EXCEPT !.argnum = @ + 1]),
         NEW h, h = FetchVariableRegister(c, name)
  PROVE  /\ Symbols(h).argnum = Symbols(g).argnum + 1
         /\ Len(RegStates(h)) = Len(RegStates(g)) + 1
         /\ \A r \in 1 .. Len(RegStates(h)) :
              \/ r \in 1 .. Len(RegStates(g)) /\ RegStates(h)[r].name = RegStates(g)[r].name
              \/ RegStates(h)[r].name = name
<1> DEFINE s == [Symbols(g) EXCEPT !.argnum = @ + 1]
           x == VReg(TRUE, FALSE, name)
<1>1. /\ IsTable(Symbols(g), g) /\ IsSeq(RegStates(g)) /\ Len(RegStates(g)) \in Nat
  BY SymbolsFacts
<1>2. /\ s.register_state = RegStates(g) /\ s.name = Symbols(g).name
      /\ s.argnum = Symbols(g).argnum + 1 /\ s.marks = Symbols(g).marks
      /\ DOMAIN s = {"name", "register_state", "argnum", "marks"}
  BY <1>1 DEF IsTable, RegStates
<1>3. c = WithSymbols(g, s)
  OBVIOUS
<1> HIDE DEF s
<1>4. IsTable(s, g)
  BY <1>1, <1>2 DEF IsTable, RegStates
<1>5. Symbols(c) = s /\ RegStates(c) = RegStates(g)
  BY <1>1, <1>2, <1>3, <1>4, WithSymbolsGood
<1>6. Good(c) /\ Open(c)
  BY CountArgGood
<1>7. VariableRegister(c, name) = Len(RegStates(c))
  <2>1. \A r \in Regs(c) : r + 1 \in 1 .. Len(RegStates(g))
    BY <1>1, <1>5 DEF Regs
  <2> QED  BY <1>5, <1>6, <2>1, VariableRegisterIs
<1>8. h = AddRegister(c, x)
  BY <1>7 DEF FetchVariableRegister
<1>9. x.name = name /\ IsRegister(x, c.loops)
  BY DEF VReg, IsRegister
<1> HIDE DEF x
<1>10. /\ Len(RegStates(h)) = Len(RegStates(c)) + 1
       /\ \A k \in 1 .. Len(RegStates(c)) : RegStates(h)[k] = RegStates(c)[k]
       /\ RegStates(h)[Len(RegStates(c)) + 1] = x
       /\ Symbols(h).argnum = Symbols(c).argnum
  <2> DEFINE a == AddRegister(c, x)
  <2>1. /\ Len(RegStates(a)) = Len(RegStates(c)) + 1
        /\ \A k \in 1 .. Len(RegStates(c)) : RegStates(a)[k] = RegStates(c)[k]
        /\ RegStates(a)[Len(RegStates(c)) + 1] = x
        /\ Symbols(a).argnum = Symbols(c).argnum
    BY <1>6, <1>9, RegisterAdded
  <2> HIDE DEF a
  <2>2. h = a
    BY <1>8 DEF a
  <2> QED  BY <2>1, <2>2, Zenon
<1>11. Symbols(h).argnum = s.argnum
  BY <1>5, <1>10, Zenon
<1>12. ASSUME NEW r \in 1 .. Len(RegStates(h))
       PROVE  \/ r \in 1 .. Len(RegStates(g)) /\ RegStates(h)[r].name = RegStates(g)[r].name
              \/ RegStates(h)[r].name = name
  <2>1. r \in 1 .. Len(RegStates(g)) \/ r = Len(RegStates(g)) + 1
    BY <1>1, <1>5, <1>10
  <2> QED  BY <1>5, <1>9, <1>10, <2>1, SMTT(30)
<1> QED  BY <1>2, <1>5, <1>10, <1>11, <1>12

\* What dispatchArgs is called for.
LEMMA ArgsDispatched ==
  ASSUME NEW n
  PROVE  /\ IsSeq(DispatchArgs(n)) /\ (Len(DispatchArgs(n)) = 0 \/ Len(DispatchArgs(n)) = 1)
         /\ \A k \in 1 .. Len(DispatchArgs(n)) :
              k = 1 /\ DispatchArgs(n)[k].call = "args" /\ DispatchArgs(n)[k].node = n
<1> DEFINE x == [call |-> "args", node |-> n]
<1>1. x.call = "args" /\ x.node = n
  OBVIOUS
<1>2. DispatchArgs(n) = <<>> \/ DispatchArgs(n) = <<x>>
  BY DEF DispatchArgs
<1> HIDE DEF x
<1>3. CASE DispatchArgs(n) = <<>>
  BY <1>3, NoneIs
<1>4. CASE DispatchArgs(n) = <<x>>
  <2>1. \A k \in 1 .. 1 : k = 1
    OBVIOUS
  <2> QED  BY <1>1, <1>4, <2>1, OneIs
<1> QED  BY <1>2, <1>3, <1>4

\* A list of two lists is dispatched as these,
LEMMA ApartArgsSplit ==
  ASSUME Inv, NEW names, ParametersDiffer(source, names), PortsApart(work, gs, names), ArgsSplit
  PROVE  PortsApart(work', gs', names)
<1> DEFINE a == DispatchArgs(node.left)
           b == DispatchArgs(node.right)
           t == a \o b
<1>1. /\ outcome = "running" /\ work # <<>> /\ Task.call = "args" /\ Stmt(gs, t)
      /\ node.t = "SPLIT"
  BY DEF ArgsSplit, On, Running
<1>2. IsSeq(work) /\ Task = work[1] /\ node = work[1].node
  BY <1>1, AtTask
<1>3. gs' = gs /\ Splice(work', t, work)
  BY <1>1 DEF Stmt, Then, Splice
<1>4. /\ IsSeq(a) /\ (Len(a) = 0 \/ Len(a) = 1)
      /\ \A k \in 1 .. Len(a) : k = 1 /\ a[k].call = "args" /\ a[k].node = node.left
  BY ArgsDispatched
<1>5. /\ IsSeq(b) /\ (Len(b) = 0 \/ Len(b) = 1)
      /\ \A k \in 1 .. Len(b) : k = 1 /\ b[k].call = "args" /\ b[k].node = node.right
  BY ArgsDispatched
<1> HIDE DEF a, b
<1>6. /\ IsSeq(t) /\ Len(t) = Len(a) + Len(b)
      /\ \A k \in 1 .. Len(a) : t[k] = a[k]
      /\ \A k \in Len(a) + 1 .. Len(a) + Len(b) : t[k] = b[k - Len(a)]
  BY <1>4, <1>5, ConcatIs
<1> HIDE DEF t
<1>7. ASSUME NEW k \in 1 .. Len(t)
      PROVE  /\ t[k].call = "args"
             /\ \/ k = 1 /\ Len(a) = 1 /\ t[k].node = node.left
                \/ k = Len(a) + 1 /\ t[k].node = node.right
  <2>1. CASE k \in 1 .. Len(a)
    <3>1. t[k] = a[k] /\ k = 1 /\ a[k].call = "args" /\ a[k].node = node.left
      BY <1>4, <1>6, <2>1
    <3>2. Len(a) = 1
      BY <1>4, <2>1
    <3> QED  BY <3>1, <3>2
  <2>2. CASE k \notin 1 .. Len(a)
    <3>1. k - Len(a) \in 1 .. Len(b) /\ k \in Len(a) + 1 .. Len(a) + Len(b)
      BY <1>4, <1>5, <1>6, <2>2
    <3>2. t[k] = b[k - Len(a)]
      BY <1>6, <3>1
    <3>3. k - Len(a) = 1 /\ t[k].call = "args" /\ t[k].node = node.right
      BY <1>5, <3>1, <3>2
    <3>4. k = Len(a) + 1
      BY <1>4, <3>3
    <3> QED  BY <3>3, <3>4
  <2> QED  BY <2>1, <2>2
<1>8. ASSUME NEW k \in 1 .. Len(work), work[k].call = "program"
      PROVE  Splits(t, node, gs, gs, names)
  <2>1. Len(RegStates(gs)) = Symbols(gs).argnum /\ Listed(work[1], gs, names)
    <3>1. k # 1 /\ Len(work) \in Nat
      BY <1>1, <1>2, <1>8, SeqFacts
    <3>2. 1 \in 1 .. k - 1
      BY <3>1
    <3> QED  BY <1>8, <3>2 DEF PortsApart
  <2>2. node \in DOMAIN names
    BY <1>2, <2>1 DEF Listed
  <2>3. node # Null
    BY <1>1 DEF Null
  <2>4. /\ node.left \in DOMAIN names /\ node.right \in DOMAIN names
        /\ names[node] = names[node.left] \cup names[node.right]
        /\ names[node.left] \cap names[node.right] = {}
    BY <1>1, <2>2, <2>3 DEF ParametersDiffer
  <2>5. \A j \in 1 .. Len(t) : /\ t[j].call = "args" /\ t[j].node \in DOMAIN names
                               /\ names[t[j].node] \subseteq names[node]
    BY <1>7, <2>4
  <2>6. ASSUME NEW i \in 1 .. Len(t), NEW j \in 1 .. Len(t), i # j
        PROVE  names[t[i].node] \cap names[t[j].node] = {}
    <3>1. \/ t[i].node = node.left /\ t[j].node = node.right
          \/ t[i].node = node.right /\ t[j].node = node.left
      BY <1>4, <1>7, <2>6
    <3> QED  BY <2>4, <3>1
  <2> QED  BY <2>1, <2>5, <2>6 DEF Splits
<1> QED  BY <1>1, <1>2, <1>3, <1>6, <1>7, <1>8, SplitsApart

\* a name is given the next register,
LEMMA ApartArgsName ==
  ASSUME Inv, NEW names, ParametersDiffer(source, names), PortsApart(work, gs, names), ArgsName
  PROVE  PortsApart(work', gs', names)
<1> DEFINE c == WithSymbols(gs, [Symbols(gs) EXCEPT !.argnum = @ + 1])
           h == FetchVariableRegister(c, Variable(node.tok))
<1>1. /\ outcome = "running" /\ work # <<>> /\ Task.call = "args" /\ Stmt(h, <<>>)
      /\ node.t # "SPLIT"
  BY DEF ArgsName, Running
<1>2. IsSeq(work) /\ Task = work[1] /\ node = work[1].node /\ Good(gs) /\ Open(gs)
      /\ node \in Body(source) /\ source \in Sources
  BY <1>1, AtTask, OtherNode DEF Definition
<1>3. gs' = h /\ Splice(work', <<>>, work)
  BY <1>1 DEF Stmt, Then, Splice
<1>4. ASSUME NEW k \in 1 .. Len(work), work[k].call = "program"
      PROVE  Splits(<<>>, node, gs, h, names)
  <2>1. Len(RegStates(gs)) = Symbols(gs).argnum /\ Listed(work[1], gs, names)
    <3>1. k # 1 /\ Len(work) \in Nat
      BY <1>1, <1>2, <1>4, SeqFacts
    <3>2. 1 \in 1 .. k - 1
      BY <3>1
    <3> QED  BY <1>4, <3>2 DEF PortsApart
  <2>2. node \in DOMAIN names
    BY <1>2, <2>1 DEF Listed
  <2>3. node # Null
    BY <1>2, BodyNode
  <2>4. names[node] = {node.tok}
    BY <1>1, <2>2, <2>3 DEF ParametersDiffer
  <2>5. \A r \in 1 .. Len(RegStates(gs)) : RegStates(gs)[r].name # Variable(node.tok)
    BY <1>2, <2>1, <2>4 DEF Listed
  <2>6. Len(Variable(node.tok)) # 4
    BY VariableName
  <2> HIDE DEF h
  <2>7. /\ Symbols(h).argnum = Symbols(gs).argnum + 1
        /\ Len(RegStates(h)) = Len(RegStates(gs)) + 1
        /\ \A r \in 1 .. Len(RegStates(h)) :
             \/ r \in 1 .. Len(RegStates(gs)) /\ RegStates(h)[r].name = RegStates(gs)[r].name
             \/ RegStates(h)[r].name = Variable(node.tok)
    BY <1>2, <2>5, <2>6, ParameterGiven DEF h
  <2>8. \A j : j \notin 1 .. Len(<<>>)
    BY NoneIs
  <2> QED  BY <2>1, <2>4, <2>7, <2>8 DEF Splits
<1> HIDE DEF h
<1>5. IsSeq(<<>>) /\ \A j : j \notin 1 .. Len(<<>>)
  BY NoneIs
<1> QED  BY <1>1, <1>2, <1>3, <1>4, <1>5, SplitsApart

\* a definition begins with no register,
LEMMA ApartVoidProgram ==
  ASSUME Inv, NEW names, ParametersDiffer(source, names), VoidProgram, outcome' = "running"
  PROVE  PortsApart(work', gs', names)
<1> DEFINE g == RemoveTopPotBreak(AtLine)
           after == NewLabel(g)
           g1 == CreateLabel(g)
           jumping == EmitBackpatched(g1, Jmp(after))
           ports == node.left.right
           name == node.left.left.tok
           h == PushSymbols(jumping, name)
           a == DispatchArgs(ports.left)
           r == [call |-> "program", node |-> node, after |-> after]
           t == a \o <<r>>
<1>1. /\ outcome = "running" /\ work # <<>> /\ Task.call = "void" /\ node.t = "PROGRAM"
      /\ ports # Null /\ Stmt(h, t)
  BY DEF VoidProgram, On, Running
<1>2. /\ IsSeq(work) /\ node \in Spine[source] /\ Onto(gs, AtLine) /\ Outer(Task, source)
  <2>1. node = Task.node /\ node \in Spine[source] \cup Body(source) /\ IsSeq(work)
        /\ source \in Sources /\ Onto(gs, AtLine)
    BY <1>1, AtTask, AtLineOnto DEF Fits, node
  <2>2. node \notin Body(source)
    BY <1>1, <2>1, BodyNode
  <2> QED  BY <1>1, <2>1, <2>2 DEF Outer
<1>3. ~ Loose(gs) /\ \A j \in 2 .. Len(work) : work[j].call = "void"
  BY <1>1, <1>2, OuterDepth
<1>4. gs' = h /\ Splice(work', t, work)
  BY <1>1 DEF Stmt, Then, Splice
<1>5. Good(g) /\ Open(g)
  <2>1. Good(AtLine) /\ Open(AtLine) /\ ~ Loose(AtLine)
    BY <1>2, <1>3, OntoGrows
  <2>2. Good(g) /\ Grows(AtLine, g)
    BY <2>1, RemoveTopGood
  <2> QED  BY <2>1, <2>2 DEF Grows, Wider, Open
<1>r. r.call = "program"
  OBVIOUS
<1> HIDE DEF g, r
<1>6. Onto(g, g1) /\ after \in Labels(g1)
  BY <1>5, CreateLabelOnto
<1> HIDE DEF g1, after
<1>7. Onto(g1, jumping)
  BY <1>6, OntoGrows, JumpsOn, EmitBackpatchedOnto
<1>8. Good(jumping)
  BY <1>7, OntoGrows
<1> HIDE DEF jumping
<1>9. Symbols(h) = [name |-> name, register_state |-> <<>>, argnum |-> 0, marks |-> <<>>]
  BY <1>8, PushSymbolsGood
<1> HIDE DEF h
<1>10. Symbols(h).argnum = 0 /\ Len(RegStates(h)) = 0 /\ \A i : i \notin 1 .. Len(RegStates(h))
  BY <1>9, NoneIs DEF RegStates
<1>11. ports.left \in DOMAIN names
  BY <1>1, <1>2 DEF ParametersDiffer
<1>12. /\ IsSeq(a) /\ (Len(a) = 0 \/ Len(a) = 1)
       /\ \A k \in 1 .. Len(a) : a[k].call = "args" /\ a[k].node = ports.left
  BY ArgsDispatched
<1> HIDE DEF a, ports
<1>13. /\ IsSeq(t) /\ Len(t) = Len(a) + 1
       /\ \A k \in 1 .. Len(a) : t[k] = a[k]
  <2>1. IsSeq(<<r>>) /\ Len(<<r>>) = 1
    BY OneIs
  <2> QED  BY <1>12, <2>1, ConcatIs
<1> HIDE DEF t
<1>14. IsSeq(work) /\ work # <<>> /\ IsSeq(t) /\ Splice(work', t, work)
  BY <1>1, <1>2, <1>4, <1>13
<1>15. /\ \A q \in 1 .. Len(work') :
            \/ q \in 1 .. Len(t) /\ work'[q] = t[q]
            \/ \E j \in 2 .. Len(work) : q = Len(t) + j - 1 /\ work'[q] = work[j]
       /\ \A k \in 1 .. Len(t) : k \in 1 .. Len(work') /\ work'[k] = t[k]
  BY <1>14, Spliced
<1>16. ASSUME NEW q \in 1 .. Len(work'), work'[q].call = "program"
       PROVE  \A j \in 1 .. q - 1 : j \in 1 .. Len(a) /\ work'[j] = a[j] /\ q = Len(a) + 1
  <2>1. q \in 1 .. Len(t)
    BY <1>3, <1>15, <1>16
  <2>2. q = Len(a) + 1
    <3>1. q \notin 1 .. Len(a)
      BY <1>12, <1>13, <1>15, <1>16, <2>1
    <3> QED  BY <1>12, <1>13, <2>1, <3>1
  <2>3. ASSUME NEW j \in 1 .. q - 1  PROVE j \in 1 .. Len(a) /\ work'[j] = a[j]
    <3>1. j \in 1 .. Len(a) /\ j \in 1 .. Len(t)
      BY <1>12, <1>13, <2>2
    <3> QED  BY <1>13, <1>15, <3>1
  <2> QED  BY <2>2, <2>3
<1>17. ASSUME NEW q \in 1 .. Len(work'), work'[q].call = "program"
       PROVE  /\ \A j \in 1 .. q - 1 : Listed(work'[j], h, names)
              /\ \A i, j \in 1 .. q - 1 : i = j
  <2>1. ASSUME NEW j \in 1 .. q - 1  PROVE Listed(work'[j], h, names)
    <3>1. work'[j].call = "args" /\ work'[j].node = ports.left
      BY <1>12, <1>16, <1>17
    <3> QED  BY <1>10, <1>11, <3>1 DEF Listed
  <2>2. ASSUME NEW j \in 1 .. q - 1  PROVE j = 1
    <3>1. j \in 1 .. Len(a)
      BY <1>16, <1>17
    <3> QED  BY <1>12, <3>1
  <2> QED  BY <2>1, <2>2
<1> QED  BY <1>4, <1>10, <1>17 DEF PortsApart

\* and once it goes on with its body, or returns, none waits for its ports.
LEMMA ApartProgram ==
  ASSUME Inv, NEW names, ProgramBody \/ ProgramEnd
  PROVE  PortsApart(work', gs', names)
<1> DEFINE r == [call |-> "endprogram", node |-> node, after |-> Task.after,
                 ind |-> NextPos(gs)]
           a == DispatchVoid(node.right)
<1>1. /\ outcome = "running" /\ work # <<>> /\ Task.call \in Definition
      /\ \E t : NoneBegun(t) /\ Then(t)
  <2>1. CASE ProgramBody
    <3>1. Then(a \o <<r>>) /\ r.call = "endprogram"
      BY <2>1 DEF ProgramBody, Stmt
    <3>2. NoneBegun(a)
      BY DispatchesBeginNone
    <3> HIDE DEF a, r
    <3>3. outcome = "running" /\ work # <<>> /\ Task.call \in Definition
      BY <2>1 DEF ProgramBody, Running, Definition
    <3> QED  BY <3>1, <3>2, <3>3, NoneBegunIn
  <2>2. CASE ProgramEnd
    <3>1. Then(<<>>)
      BY <2>2 DEF ProgramEnd, Return
    <3>2. outcome = "running" /\ work # <<>> /\ Task.call \in Definition
      BY <2>2 DEF ProgramEnd, Running, Definition
    <3> QED  BY <3>1, <3>2, NoneBegunIn, SMTT(30)
  <2> QED  BY <2>1, <2>2
<1>2. IsSeq(work) /\ \A j \in 2 .. Len(work) : work[j].call # "program"
  <2>1. \A j \in 2 .. Len(work) : work[j].call = "void"
    BY <1>1, OuterDepth DEF Outer, Definition
  <2> QED  BY <1>1, <2>1, AtTask
<1>3. PICK t : NoneBegun(t) /\ Splice(work', t, work)
  BY <1>1 DEF Then, Splice
<1>4. NoneBegun(work')
  BY <1>1, <1>2, <1>3, NoneBegunOn
<1> QED  BY <1>4, NoneApart

\* While ports are dispatched nothing but lists of parameters stands before
\* their definition: at any other call, none waits.
LEMMA NoneWaits ==
  ASSUME Inv, outcome = "running", NEW names, PortsApart(work, gs, names),
         work # <<>> => Task.call \notin {"args", "program"}
  PROVE  NoneBegun(work)
<1>1. IsSeq(work)
  BY DEF Inv, Traversal
<1>2. ASSUME NEW k \in 1 .. Len(work), work[k].call = "program"  PROVE FALSE
  <2>1. work # <<>>
    BY NoneIs
  <2>2. Task = work[1] /\ Len(work) \in Nat
    BY <2>1, AtTask
  <2>3. k # 1
    BY <1>2, <2>1, <2>2
  <2>4. 1 \in 1 .. k - 1
    BY <2>2, <2>3
  <2>5. work[1].call = "args"
    BY <1>2, <2>4 DEF PortsApart, Listed
  <2> QED  BY <2>1, <2>2, <2>5
<1> QED  BY <1>1, <1>2 DEF NoneBegun

\* All other steps begin no definition.
LEMMA ApartOther ==
  ASSUME Inv, outcome = "running", work # <<>>, Task.call \notin {"args", "program"},
         NEW names, PortsApart(work, gs, names), NEW t, NoneBegun(t), Then(t)
  PROVE  PortsApart(work', gs', names)
<1>1. NoneBegun(work)
  BY NoneWaits
<1>2. IsSeq(work) /\ \A j \in 2 .. Len(work) : work[j].call # "program"
  <2>1. \A j \in 2 .. Len(work) : j \in 1 .. Len(work)
    OBVIOUS
  <2> QED  BY <1>1, <2>1 DEF NoneBegun
<1>3. Splice(work', t, work)
  BY DEF Then, Splice
<1>4. NoneBegun(work')
  BY <1>2, <1>3, NoneBegunOn
<1> QED  BY <1>4, NoneApart

\* Statements are not executed while ports are dispatched,
LEMMA StatementsRun ==
  ASSUME VoidSplit \/ VoidAssign \/ VoidStop \/ VoidMark \/ VoidGoto \/ VoidMalformed
           \/ VoidIf \/ IfTest \/ VoidWhile \/ WhileBody \/ WhileEnd
           \/ VoidLoop \/ LoopBody \/ LoopEnd
  PROVE  outcome = "running" /\ work # <<>> /\ Task.call \notin {"args", "program"}
<1>1. CASE VoidSplit \/ VoidAssign \/ VoidStop \/ VoidMark \/ VoidGoto \/ VoidMalformed
  BY <1>1 DEF VoidSplit, VoidAssign, VoidStop, VoidMark, VoidGoto, VoidMalformed, On, Running
<1>2. CASE VoidIf \/ IfTest \/ VoidWhile \/ WhileBody \/ WhileEnd
  BY <1>2 DEF VoidIf, IfTest, VoidWhile, WhileBody, WhileEnd, On, Running
<1>3. CASE VoidLoop \/ LoopBody \/ LoopEnd
  BY <1>3 DEF VoidLoop, LoopBody, LoopEnd, On, Running
<1> QED  BY <1>1, <1>2, <1>3

\* so that they keep parameters apart;
LEMMA ApartStatement ==
  ASSUME Inv, NEW names, PortsApart(work, gs, names),
         VoidSplit \/ VoidAssign \/ VoidStop \/ VoidMark \/ VoidGoto \/ VoidMalformed
           \/ VoidIf \/ IfTest \/ VoidWhile \/ WhileBody \/ WhileEnd
           \/ VoidLoop \/ LoopBody \/ LoopEnd
  PROVE  PortsApart(work', gs', names)
<1>1. outcome = "running" /\ work # <<>> /\ Task.call \notin {"args", "program"}
  BY StatementsRun
<1>2. PICK t : NoneBegun(t) /\ Then(t)
  BY StatementsBeginNone
<1> QED  BY <1>1, <1>2, ApartOther

\* nor are values computed,
LEMMA ApartValue ==
  ASSUME Inv, NEW names, PortsApart(work, gs, names),
         ValueName \/ ValueNumber \/ ValueCall \/ ValueMalformed \/ CallArgsSplit
           \/ CallInbuilt \/ CallUnknown \/ CallMismatch \/ CallSequence
  PROVE  PortsApart(work', gs', names)
<1>1. outcome = "running" /\ work # <<>> /\ Task.call \notin {"args", "program"}
  <2>1. CASE ValueName \/ ValueNumber \/ ValueCall \/ ValueMalformed \/ CallArgsSplit
    BY <2>1 DEF ValueName, ValueNumber, ValueCall, ValueMalformed, CallArgsSplit, On, Running
  <2>2. CASE CallInbuilt \/ CallUnknown \/ CallMismatch \/ CallSequence
    BY <2>2 DEF CallInbuilt, CallUnknown, CallMismatch, CallSequence, Running
  <2> QED  BY <2>1, <2>2
<1>2. PICK t : NoneBegun(t) /\ Then(t)
  BY ValuesBeginNone
<1> QED  BY <1>1, <1>2, ApartOther

\* or those of arguments.
LEMMA ApartCallArgsValue ==
  ASSUME Inv, NEW names, PortsApart(work, gs, names), CallArgsValue
  PROVE  PortsApart(work', gs', names)
<1> DEFINE tmp == Temporary(gs)
           C == Caller
           x == [call |-> "value", node |-> node, tgt |-> tmp]
           c == [work[C] EXCEPT !.arglocs = Append(@, tmp)]
<1>1. outcome = "running" /\ work # <<>> /\ Task.call = "callargs"
  BY DEF CallArgsValue, Running
<1>2. NoneBegun(work)
  BY <1>1, NoneWaits
<1>3. Collected(work', work, x, C, c)
  BY ArgCollected
<1> HIDE DEF x, c, C
<1>4. \A k \in 1 .. Len(work') :
        \/ work'[k].call \in {"value", "call"}
        \/ k \in 1 .. Len(work) /\ work'[k] = work[k]
  <2>1. \A k \in 1 .. Len(work') : k = 1 \/ k = C \/ (k \in 2 .. Len(work) /\ k # C)
    BY <1>3 DEF Collected
  <2>2. \A k \in 2 .. Len(work) : k \in 1 .. Len(work)
    OBVIOUS
  <2> QED  BY <1>3, <2>1, <2>2 DEF Collected
<1>5. NoneBegun(work')
  BY <1>2, <1>3, <1>4 DEF NoneBegun, Collected
<1> QED  BY <1>5, NoneApart

\* The parameters of the programs of the text have different names, and while
\* one is compiled they are told apart.
Separate ==
  \E names : /\ ParametersDiffer(source, names)
             /\ outcome = "running" => PortsApart(work, gs, names)

\* Initially no definition is compiled.
LEMMA SeparateInit ==
  ASSUME Init, \E names : ParametersDiffer(source, names)
  PROVE  Separate
<1>1. NoneBegun(work)
  BY NoneBegunIn, DispatchesBeginNone DEF Init
<1> QED  BY <1>1, NoneApart DEF Separate

\* Statements and values keep the text and the names,
LEMMA SeparateOn ==
  ASSUME Inv, NEW names, ParametersDiffer(source, names), PortsApart(work, gs, names),
         \/ VoidSplit \/ VoidAssign \/ VoidStop \/ VoidMark \/ VoidGoto \/ VoidMalformed
           \/ VoidIf \/ IfTest \/ VoidWhile \/ WhileBody \/ WhileEnd
           \/ VoidLoop \/ LoopBody \/ LoopEnd
         \/ ValueName \/ ValueNumber \/ ValueCall \/ ValueMalformed \/ CallArgsSplit
           \/ CallInbuilt \/ CallUnknown \/ CallMismatch \/ CallSequence
         \/ CallArgsValue
  PROVE  source' = source /\ PortsApart(work', gs', names)
<1>1. source' = source
  <2>1. CASE CallArgsValue
    BY <2>1 DEF CallArgsValue
  <2>2. CASE ~ CallArgsValue
    <3>1. PICK t : Then(t)
      BY <2>2, StatementsBeginNone, ValuesBeginNone, Zenon
    <3> QED  BY <3>1 DEF Then
  <2> QED  BY <2>1, <2>2
<1>2. PortsApart(work', gs', names)
  BY ApartStatement, ApartValue, ApartCallArgsValue, Zenon
<1> QED  BY <1>1, <1>2

\* and so do definitions.
LEMMA SeparateDefinition ==
  ASSUME Inv, NEW names, ParametersDiffer(source, names), PortsApart(work, gs, names),
         VoidProgram \/ ArgsSplit \/ ArgsName \/ ProgramBody \/ ProgramEnd
  PROVE  /\ source' = source
         /\ outcome' = "running" => PortsApart(work', gs', names)
<1>1. source' = source
  <2>1. CASE VoidProgram
    BY <2>1, Zenon DEF VoidProgram, Stmt, Then
  <2>2. CASE ArgsSplit \/ ArgsName
    BY <2>2, Zenon DEF ArgsSplit, ArgsName, Stmt, Then
  <2>3. CASE ProgramBody \/ ProgramEnd
    BY <2>3, Zenon DEF ProgramBody, ProgramEnd, Stmt, Return, Then
  <2> QED  BY <2>1, <2>2, <2>3
<1>2. outcome' = "running" => PortsApart(work', gs', names)
  BY ApartVoidProgram, ApartArgsSplit, ApartArgsName, ApartProgram, Zenon
<1> QED  BY <1>1, <1>2

\* So the parameters stay separate,
LEMMA SeparateStep ==
  Inv /\ Separate /\ [Next]_vars => Separate'
<1>1. SUFFICES ASSUME Inv, Separate, [Next]_vars  PROVE Separate'
  OBVIOUS
<1>2. PICK names : /\ ParametersDiffer(source, names)
                   /\ outcome = "running" => PortsApart(work, gs, names)
  BY <1>1 DEF Separate
<1>3. ASSUME source' = source, outcome' = "running" => PortsApart(work', gs', names)
      PROVE  Separate'
  BY <1>2, <1>3 DEF Separate
<1>4. CASE \/ VoidSplit \/ VoidAssign \/ VoidStop \/ VoidMark \/ VoidGoto \/ VoidMalformed
           \/ VoidIf \/ IfTest \/ VoidWhile \/ WhileBody \/ WhileEnd
           \/ VoidLoop \/ LoopBody \/ LoopEnd
  <2>1. outcome = "running"
    BY <1>4, StatementsRun
  <2> QED  BY <1>1, <1>2, <1>3, <1>4, <2>1, SeparateOn
<1>5. CASE \/ ValueName \/ ValueNumber \/ ValueCall \/ ValueMalformed \/ CallArgsSplit
           \/ CallInbuilt \/ CallUnknown \/ CallMismatch \/ CallSequence
           \/ CallArgsValue
  <2>1. outcome = "running"
    BY <1>5 DEF ValueName, ValueNumber, ValueCall, ValueMalformed, CallArgsSplit,
      CallInbuilt, CallUnknown, CallMismatch, CallSequence, CallArgsValue, On, Running
  <2> QED  BY <1>1, <1>2, <1>3, <1>5, <2>1, SeparateOn, SMTT(30)
<1>6. CASE VoidProgram \/ ArgsSplit \/ ArgsName \/ ProgramBody \/ ProgramEnd
  <2>1. outcome = "running"
    BY <1>6 DEF VoidProgram, ArgsSplit, ArgsName, ProgramBody, ProgramEnd, On, Running
  <2> QED  BY <1>1, <1>2, <1>3, <1>6, <2>1, SeparateDefinition
<1>7. CASE Finish
  BY <1>3, <1>7 DEF Finish
<1>8. CASE Idle \/ UNCHANGED vars
  BY <1>2, <1>3, <1>8 DEF Idle, vars
<1> QED  BY <1>1, <1>4, <1>5, <1>6, <1>7, <1>8, Zenon DEF Next

\* and when all are dispatched, they have one register each.
LEMMA SeparateRegisters ==
  ASSUME Inv, Separate
  PROVE  ArgsOccupyFirstRegisters
<1>1. SUFFICES ASSUME Running("program")
               PROVE  Len(RegStates(gs)) = Symbols(gs).argnum
  BY DEF ArgsOccupyFirstRegisters
<1>2. outcome = "running" /\ work # <<>> /\ Task.call = "program"
  BY <1>1 DEF Running
<1>3. PICK names : PortsApart(work, gs, names)
  BY <1>2 DEF Separate
<1>4. Task = work[1] /\ 1 \in 1 .. Len(work)
  BY <1>2, AtTask
<1> QED  BY <1>2, <1>3, <1>4 DEF PortsApart

\* Parameters occupy the first registers, as the comment in dispatchVoid has it
\* (gen.cpp:351), if no program has two of the same name.
THEOREM ParametersHaveRegisters ==
  Spec /\ (\E names : ParametersDiffer(source, names)) => []ArgsOccupyFirstRegisters
<1>1. Init /\ (\E names : ParametersDiffer(source, names)) => Separate
  BY SeparateInit
<1>2. Inv /\ Separate => ArgsOccupyFirstRegisters
  BY SeparateRegisters
<1> QED  BY <1>1, <1>2, SeparateStep, InvIsInvariant, PTL DEF Spec

\* Then whatever gen() returns without an error can be run (vm.cpp).
THEOREM DifferingParametersRun ==
  Spec /\ (\E names : ParametersDiffer(source, names)) => []OutputRuns
BY ParametersHaveRegisters, OutputCanRun, PTL
=============================================================================
