----------------------------- MODULE ScanProofs -----------------------------
(***************************************************************************)
(* Proofs about Scan: for any files and whichever way they include each    *)
(* other, the stack of open files is sound and bounded.                    *)
(***************************************************************************)
EXTENDS Scan, FiniteSetTheorems, TLAPS

\* The inductive invariant.  That no file is open twice is what bounds the
\* stack; that the files are those given is what makes them finitely many.
IInv ==
  /\ files \in Files
  /\ TypeOK
  /\ NoFileInsideItself

Open == [f : DOMAIN files, read : Nat]

\* What a step that reads the stack needs to know of it.
LEMMA OpenStack ==
  ASSUME IInv
  PROVE  /\ lex_stack \in Seq(Open)
         /\ Len(lex_stack) \in Nat
         /\ DOMAIN lex_stack = 1 .. Len(lex_stack)
         /\ \A k \in 1 .. Len(lex_stack) :
              /\ lex_stack[k] \in Open
              /\ lex_stack[k].f \in DOMAIN files
              /\ lex_stack[k].read \in Nat
              /\ Len(files[lex_stack[k].f]) \in Nat
         /\ lex_stack # <<>> => Len(lex_stack) \in 1 .. Len(lex_stack)
  <1>1. lex_stack \in Seq(Open)
    BY DEF IInv, TypeOK, Open
  <1>2. Len(lex_stack) \in Nat /\ DOMAIN lex_stack = 1 .. Len(lex_stack)
    BY <1>1
  <1>3. \A k \in 1 .. Len(lex_stack) : lex_stack[k] \in Open
    BY <1>1
  <1>4. \A k \in 1 .. Len(lex_stack) :
          /\ lex_stack[k].f \in DOMAIN files
          /\ lex_stack[k].read \in Nat
    BY <1>3 DEF Open
  <1>5. \A k \in 1 .. Len(lex_stack) : Len(files[lex_stack[k].f]) \in Nat
    BY <1>4, FilesAssumption DEF IInv
  <1>6. lex_stack # <<>> => Len(lex_stack) \in 1 .. Len(lex_stack)
    BY <1>1
  <1> QED
    BY <1>1, <1>2, <1>3, <1>4, <1>5, <1>6

LEMMA InitIInv == Init => IInv
  <1> SUFFICES ASSUME Init PROVE IInv
    OBVIOUS
  <1>1. CASE main \in DOMAIN files
    <2>1. lex_stack = <<[f |-> main, read |-> 0]>>
      BY <1>1 DEF Init, Scanner
    <2>2. [f |-> main, read |-> 0] \in [f : DOMAIN files, read : Nat]
      BY <1>1
    <2>3. Len(files[main]) \in Nat
      BY <1>1, FilesAssumption DEF Init
    <2>4. \A k \in DOMAIN files : Len(files[k]) >= 0
      BY FilesAssumption DEF Init
    <2> QED
      BY <1>1, <2>1, <2>2, <2>3, <2>4 DEF Init, IInv, TypeOK, NoFileInsideItself
  <1>2. CASE main \notin DOMAIN files
    BY <1>2 DEF Init, IInv, TypeOK, NoFileInsideItself
  <1> QED
    BY <1>1, <1>2

\* Reading on in the file on top changes no name and stays in the file.
LEMMA AdvancedIInv ==
  ASSUME IInv, NEW n \in Nat, Scanning,
         Top.read + n <= Len(files[Top.f]),
         lex_stack' = Advanced(n), UNCHANGED <<files, main, outcome>>
  PROVE  IInv'
  <1> DEFINE L == Len(lex_stack)
  <1>1. L \in 1 .. L /\ lex_stack[L] \in Open /\ DOMAIN lex_stack = 1 .. L
    BY OpenStack DEF Scanning
  <1>2. [lex_stack[L] EXCEPT !.read = @ + n] \in Open
    BY <1>1 DEF Open
  <1>3. lex_stack' = [lex_stack EXCEPT
                        ![L] = [lex_stack[L] EXCEPT !.read = @ + n]]
    BY DEF Advanced
  <1>4. lex_stack' \in Seq(Open)
    BY <1>1, <1>2, <1>3 DEF IInv, TypeOK, Open
  <1>5. DOMAIN lex_stack' = DOMAIN lex_stack
    BY <1>3, <1>1 DEF IInv, TypeOK, Open
  <1>6. \A k \in DOMAIN lex_stack :
          /\ lex_stack'[k].f = lex_stack[k].f
          /\ lex_stack'[k].read =
               IF k = L THEN lex_stack[k].read + n ELSE lex_stack[k].read
    <2> SUFFICES ASSUME NEW k \in DOMAIN lex_stack
                 PROVE  /\ lex_stack'[k].f = lex_stack[k].f
                        /\ lex_stack'[k].read =
                             IF k = L THEN lex_stack[k].read + n
                             ELSE lex_stack[k].read
      OBVIOUS
    <2>1. lex_stack[k] \in Open
      BY OpenStack
    <2>2. CASE k = L
      BY <2>1, <2>2, <1>1, <1>3 DEF Open
    <2>3. CASE k # L
      BY <2>3, <1>3
    <2> QED
      BY <2>2, <2>3
  <1>7. TypeOK'
    BY <1>4, <1>5, <1>6, <1>1 DEF IInv, TypeOK, Open, Top
  <1>8. NoFileInsideItself'
    BY <1>5, <1>6 DEF IInv, NoFileInsideItself
  <1> QED
    BY <1>7, <1>8 DEF IInv

\* Leaving a file.
LEMMA EndOfFileIInv == IInv /\ EndOfFile => IInv'
  <1> SUFFICES ASSUME IInv, EndOfFile PROVE IInv'
    OBVIOUS
  <1> DEFINE L == Len(lex_stack)
  <1>1. L >= 1 /\ lex_stack \in Seq(Open)
    BY DEF IInv, TypeOK, EndOfFile, Scanning, Open
  <1>2. /\ lex_stack' \in Seq(Open)
        /\ DOMAIN lex_stack' = 1 .. L - 1
        /\ \A k \in 1 .. L - 1 : lex_stack'[k] = lex_stack[k]
    BY <1>1 DEF EndOfFile
  <1>3. DOMAIN lex_stack = 1 .. L /\ \A k \in 1 .. L - 1 : k \in 1 .. L
    BY <1>1
  <1>4. UNCHANGED files /\ outcome' = outcome
    BY DEF EndOfFile, Unchanged
  <1> HIDE DEF L
  <1>5. TypeOK'
    BY <1>2, <1>3, <1>4 DEF IInv, TypeOK, Open
  <1>6. NoFileInsideItself'
    BY <1>2, <1>3 DEF IInv, NoFileInsideItself
  <1> QED
    BY <1>4, <1>5, <1>6 DEF IInv

\* Opening a file that is not open.
LEMMA IncludeFileIInv == IInv /\ IncludeFile => IInv'
  <1> SUFFICES ASSUME IInv, IncludeFile PROVE IInv'
    OBVIOUS
  <1> DEFINE L == Len(lex_stack)
             s == Advanced(2)
  <1>1. /\ L \in 1 .. L /\ lex_stack[L] \in Open
        /\ DOMAIN lex_stack = 1 .. L /\ lex_stack \in Seq(Open)
    BY OpenStack DEF IncludeFile, Naming, Including, Scanning
  <1>2. Len(files[Top.f]) \in Nat /\ Top.read \in Nat
    BY <1>1, FilesAssumption DEF IInv, Open, Top
  <1>3. Top.read + 2 <= Len(files[Top.f])
    BY <1>2 DEF IncludeFile, Naming, EndsAfter
  <1>4. [lex_stack[L] EXCEPT !.read = @ + 2] \in Open
    BY <1>1 DEF Open
  <1>5. s = [lex_stack EXCEPT ![L] = [lex_stack[L] EXCEPT !.read = @ + 2]]
    BY DEF Advanced
  <1>6. s \in Seq(Open) /\ Len(s) = L /\ DOMAIN s = 1 .. L
    BY <1>1, <1>4, <1>5
  <1>7. \A k \in 1 .. L :
          s[k].f = lex_stack[k].f /\ s[k].read <= Len(files[s[k].f])
    <2> SUFFICES ASSUME NEW k \in 1 .. L
                 PROVE  /\ s[k].f = lex_stack[k].f
                        /\ s[k].read <= Len(files[s[k].f])
      OBVIOUS
    <2>1. lex_stack[k] \in Open
      BY <1>1
    <2>2. CASE k = L
      BY <2>1, <2>2, <1>1, <1>3, <1>5 DEF Open, Top
    <2>3. CASE k # L
      BY <2>1, <2>3, <1>1, <1>5 DEF IInv, TypeOK, Open
    <2> QED
      BY <2>2, <2>3
  <1>8. [f |-> nfn, read |-> 0] \in Open
    BY DEF IncludeFile, Open
  <1>9. lex_stack' = Append(s, [f |-> nfn, read |-> 0])
    BY DEF IncludeFile, Scanner
  <1> HIDE DEF s
  <1>10. /\ lex_stack' \in Seq(Open)
         /\ DOMAIN lex_stack' = 1 .. L + 1
         /\ lex_stack'[L + 1] = [f |-> nfn, read |-> 0]
         /\ \A k \in 1 .. L : lex_stack'[k] = s[k]
    BY <1>6, <1>8, <1>9
  <1>11. Len(files[nfn]) \in Nat
    BY FilesAssumption DEF IInv, IncludeFile
  <1>12. \A k \in 1 .. L : lex_stack[k].f # nfn
    BY <1>1 DEF IncludeFile, exists_scanner
  <1>13. TypeOK'
    <2>1. lex_stack' \in Seq([f : DOMAIN files, read : Nat])'
      BY <1>10 DEF IncludeFile, Unchanged, Open
    <2>2. \A k \in 1 .. L :
            lex_stack'[k].read <= Len(files'[lex_stack'[k].f])
      BY <1>10, <1>7 DEF IncludeFile, Unchanged
    <2>3. lex_stack'[L + 1].read <= Len(files'[lex_stack'[L + 1].f])
      BY <1>10, <1>11 DEF IncludeFile, Unchanged
    <2>4. \A k \in DOMAIN lex_stack' : k \in 1 .. L \/ k = L + 1
      BY <1>10, <1>1
    <2>5. outcome' \in {"running", "returned", "undefined"}
      BY DEF IInv, TypeOK, IncludeFile, Unchanged
    <2> QED
      BY <2>1, <2>2, <2>3, <2>4, <2>5 DEF TypeOK
  <1>14. NoFileInsideItself'
    BY <1>10, <1>7, <1>12, <1>1 DEF IInv, NoFileInsideItself
  <1> QED
    BY <1>13, <1>14 DEF IInv, IncludeFile, Unchanged

LEMMA NextIInv == IInv /\ [Next]_vars => IInv'
  <1> SUFFICES ASSUME IInv, [Next]_vars PROVE IInv'
    OBVIOUS
  <1>1. Scanning => Len(files[Top.f]) \in Nat /\ Top.read \in Nat
    BY OpenStack DEF Scanning, Top
  <1>2. CASE EndOfFile
    BY <1>2, EndOfFileIInv
  <1>3. CASE PushToken
    BY <1>3, <1>1, AdvancedIInv DEF PushToken, EndsAfter, Unchanged, Scanning
  <1>4. CASE IncludeAtEnd
    <2>1. Scanning /\ ~ EndsAfter(0) /\ lex_stack' = Advanced(1) /\ Unchanged
      BY <1>4 DEF IncludeAtEnd, Including, Failed
    <2>2. Top.read + 1 <= Len(files[Top.f])
      BY <2>1, <1>1 DEF EndsAfter
    <2> QED
      BY <2>1, <2>2, AdvancedIInv DEF Unchanged
  <1>5. CASE IncludeNoName \/ IncludeMissing \/ IncludeRecursive
    <2>1. Scanning /\ ~ EndsAfter(1) /\ lex_stack' = Advanced(2) /\ Unchanged
      BY <1>5 DEF IncludeNoName, IncludeMissing, IncludeRecursive, Naming,
                  Including, Failed
    <2>2. Top.read + 2 <= Len(files[Top.f])
      BY <2>1, <1>1 DEF EndsAfter
    <2> QED
      BY <2>1, <2>2, AdvancedIInv DEF Unchanged
  <1>6. CASE IncludeFile
    BY <1>6, IncludeFileIInv
  <1>7. CASE Finish \/ FinishEmpty
    BY <1>7 DEF Finish, FinishEmpty, IInv, TypeOK, NoFileInsideItself
  <1>8. CASE UNCHANGED vars
    BY <1>8 DEF vars, IInv, TypeOK, NoFileInsideItself
  <1> QED
    BY <1>2, <1>3, <1>4, <1>5, <1>6, <1>7, <1>8 DEF Next

THEOREM OpenFilesInvariant == Spec => []IInv
  BY InitIInv, NextIInv, PTL DEF Spec

\* The stack is a sequence of files that exist, each read up to a place in it,
\* whatever the files contain.
THEOREM StackType == Spec => []TypeOK
  <1>1. IInv => TypeOK
    BY DEF IInv
  <1> QED
    BY <1>1, OpenFilesInvariant, PTL

\* As many distinct names as open files fit into the names of the files.
LEMMA DistinctNamesFit == IInv => DepthBounded
  <1> SUFFICES ASSUME IInv, ~ DepthBounded PROVE FALSE
    OBVIOUS
  <1> DEFINE S == 1 .. Len(lex_stack)
             D == DOMAIN files
             name == [k \in S |-> lex_stack[k].f]
  <1>1. Len(lex_stack) \in Nat /\ DOMAIN lex_stack = S
    BY OpenStack
  <1>2. IsFiniteSet(D) /\ Cardinality(D) \in Nat
    BY FilesAssumption, FS_CardinalityType DEF IInv
  <1>3. IsFiniteSet(S) /\ Cardinality(S) = Len(lex_stack)
    <2>1. \A b \in Nat : IsFiniteSet(1 .. b) /\ Cardinality(1 .. b) = b
      BY FS_Interval
    <2> QED
      BY <1>1, <2>1
  <1>4. Cardinality(D) < Cardinality(S)
    BY <1>1, <1>2, <1>3 DEF DepthBounded
  <1>5. name \in [S -> D]
    BY OpenStack
  <1> HIDE DEF S, D, name
  <1>6. \E x, y \in S : x # y /\ name[x] = name[y]
    BY <1>2, <1>3, <1>4, <1>5, FS_PigeonHole
  <1> USE DEF name
  <1> QED
    BY <1>1, <1>6 DEF IInv, NoFileInsideItself

\* However files include each other, themselves included, never are more of
\* them open than there are: scan() needs no more memory for its stack.
THEOREM OpenFilesBounded == Spec => []DepthBounded
  BY DistinctNamesFit, OpenFilesInvariant, PTL
=============================================================================
