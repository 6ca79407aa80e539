---------------------------- MODULE ParserProofs ----------------------------
(***************************************************************************)
(* Proofs about Parser: for any tokens, whatever is missing or too much in *)
(* them, the parser stays on the stream, and it follows a null pointer     *)
(* only if it has reported an error before.                                *)
(*                                                                         *)
(* That a function returns a null pointer is no error in itself: most of   *)
(* them do for what is optional.  So the second needs to know, of all the  *)
(* work that is still to be done, which nodes it will find on the stack.   *)
(***************************************************************************)
EXTENDS Parser, Vectors

\* A call of parse() with a stream as it gets it.
Called == \E tokens : IsSeq(tokens) /\ EndsInEOF(tokens) /\ Begin(tokens)

ParserSpec == Idle /\ [][Called \/ Next]_pvars

-----------------------------------------------------------------------------
(* What work does to the stack of nodes *)

\* What is known of the stack at some time: how many nodes are on it, and where
\* some of those are that are no null pointers.
Stacks == {m \in [height : Nat, solid : SUBSET Nat] :
             \A b \in m.solid : 1 <= b /\ b <= m.height}

\* At least as much is known of m as of n.
Covers(m, n) == n.height = m.height /\ n.solid \subseteq m.solid

\* One node more, a null pointer or a node.
Maybe(m) == [height |-> m.height + 1, solid |-> m.solid]
Surely(m) == [height |-> m.height + 1, solid |-> m.solid \cup {m.height + 1}]

Shapes == {"PROGRAM", "LOOP", "WHILE", "IF", "ASSIGN", "MARK", "PORTS", "LIST",
           "CALL", "GOTO", "STOP", "NAME"}

\* Doing `item` without reporting an error makes n of m.  A construction needs its
\* first part; PID needs the name that P has made, to put a statement in its place.
Leads(item, m, n) ==
  \/ item.do = "match" /\ Covers(m, n)
  \/ item.do = "matchmk" /\ Covers(Surely(m), n)
  \/ item.do = "call" /\ item.f = "END" /\ Covers(m, n)
  \/ item.do = "call" /\ item.f = "PID" /\ m.height \in m.solid /\ Covers(m, n)
  \/ item.do = "call" /\ item.f \in {"ARGS", "VALUE"} /\ Covers(Surely(m), n)
  \/ item.do = "call" /\ item.f \notin {"END", "PID", "ARGS", "VALUE"}
       /\ Covers(Maybe(m), n)
  \/ /\ item.do = "make" /\ item.shape \in Shapes
     /\ n.height = m.height - Parts(item.shape) + 1 /\ n.height \in m.solid
     /\ n.solid \subseteq m.solid
  \/ item.do = "drop" /\ n.height = m.height - 1 /\ n.solid \subseteq m.solid
  \/ item.do = "finish"

\* ms[k] is known before items[k] is done.
Chain(items, ms) ==
  /\ ms \in [1 .. Len(items) + 1 -> Stacks]
  /\ \A k \in 1 .. Len(items) : Leads(items[k], ms[k], ms[k + 1])

\* Doing the items one after the other makes n of m.
Reaches(items, m, n) ==
  \E ms : Chain(items, ms) /\ ms[1] = m /\ ms[Len(items) + 1] = n

\* What is known of a stack is true.
Known(m) == m.height = Len(nodes) /\ \A b \in m.solid : nodes[b] # Null

\* All that is to be done finds what it needs.
Provided(m) == \E ms : Chain(work, ms) /\ ms[1] = m

\* The inductive invariant of the stack.
StackInv ==
  /\ IsSeq(work) /\ IsSeq(errors)
  /\ state \in {"idle", "running", "done", "crashed"}
  /\ state = "idle" => work = <<>> /\ nodes = <<>> /\ errors = <<>>
  /\ state = "crashed" => errors # <<>>
  /\ state = "running" /\ errors = <<>> =>
       IsSeq(nodes) /\ \E m \in Stacks : Known(m) /\ Provided(m)

-----------------------------------------------------------------------------
(* Chains *)

\* What replaces the first item may lead to what that would have led to.
LEMMA Replaced ==
  ASSUME NEW items, IsSeq(items), items # <<>>, NEW ms, Chain(items, ms),
         NEW body, IsSeq(body), NEW bs, Chain(body, bs),
         bs[Len(body) + 1] = ms[2]
  PROVE  \E new : Chain(body \o Tail(items), new) /\ new[1] = bs[1]
<1> DEFINE n    == Len(body)
           all  == body \o Tail(items)
           new  == [k \in 1 .. Len(all) + 1 |-> IF k <= n + 1 THEN bs[k]
                                                ELSE ms[k - n + 1]]
<1>1. /\ IsSeq(Tail(items)) /\ Len(items) \in Nat /\ Len(items) >= 1
      /\ Len(Tail(items)) = Len(items) - 1
      /\ \A k \in 1 .. Len(items) - 1 : Tail(items)[k] = items[k + 1]
  BY TailIs, SeqFacts
<1>2. /\ n \in Nat /\ Len(all) = n + Len(items) - 1
      /\ \A k \in 1 .. n : all[k] = body[k]
      /\ \A k \in n + 1 .. n + Len(items) - 1 : all[k] = Tail(items)[k - n]
  <2> DEFINE rest == Tail(items)
  <2>1. IsSeq(rest) /\ Len(rest) = Len(items) - 1
    BY <1>1
  <2> HIDE DEF rest
  <2>2. /\ Len(body) \in Nat /\ Len(body \o rest) = Len(body) + Len(rest)
        /\ \A k \in 1 .. Len(body) : (body \o rest)[k] = body[k]
        /\ \A k \in Len(body) + 1 .. Len(body) + Len(rest) :
             (body \o rest)[k] = rest[k - Len(body)]
    BY <2>1, ConcatIs, SeqFacts
  <2> QED BY <1>1, <2>1, <2>2 DEF rest
<1>3. /\ ms \in [1 .. Len(items) + 1 -> Stacks]
      /\ \A k \in 1 .. Len(items) : Leads(items[k], ms[k], ms[k + 1])
  BY DEF Chain
<1>4. /\ bs \in [1 .. n + 1 -> Stacks]
      /\ \A k \in 1 .. n : Leads(body[k], bs[k], bs[k + 1])
  BY DEF Chain
<1> HIDE DEF n, all
<1>5. new \in [1 .. Len(all) + 1 -> Stacks]
  BY <1>1, <1>2, <1>3, <1>4
<1>6. \A k \in 1 .. n + 1 : new[k] = bs[k]
  BY <1>1, <1>2
<1>7. \A k \in n + 1 .. Len(all) + 1 : new[k] = ms[k - n + 1]
  BY <1>1, <1>2 DEF n
<1> HIDE DEF new
<1>8. ASSUME NEW k \in 1 .. Len(all) PROVE Leads(all[k], new[k], new[k + 1])
  <2>1. CASE k <= n
    BY <2>1, <1>2, <1>4, <1>6
  <2>2. CASE k > n
    <3>1. k \in n + 1 .. n + Len(items) - 1 /\ k - n \in 1 .. Len(items) - 1
      BY <2>2, <1>1, <1>2
    <3>2. all[k] = items[k - n + 1]
      BY <3>1, <1>1, <1>2
    <3>3. new[k] = ms[k - n + 1] /\ new[k + 1] = ms[k - n + 1 + 1]
      BY <3>1, <1>1, <1>2, <1>7
    <3>4. k - n + 1 \in 1 .. Len(items)
      BY <3>1, <1>1, <1>2
    <3> QED BY <3>2, <3>3, <3>4, <1>3
  <2> QED BY <2>1, <2>2, <1>2
<1>9. Chain(all, new)
  BY <1>5, <1>8 DEF Chain
<1> QED BY <1>6, <1>9, <1>2 DEF all
-----------------------------------------------------------------------------
(* Bodies *)

LEMMA Tuples ==
  ASSUME NEW a, NEW b, NEW c, NEW d, NEW e, NEW f, NEW g, NEW h
  PROVE  /\ IsSeq(<<a>>)
         /\ IsSeq(<<a, b>>)
         /\ IsSeq(<<a, b, c>>)
         /\ IsSeq(<<a, b, c, d>>)
         /\ IsSeq(<<a, b, c, d, e>>)
         /\ IsSeq(<<a, b, c, d, e, f>>)
         /\ IsSeq(<<a, b, c, d, e, f, g>>)
         /\ IsSeq(<<a, b, c, d, e, f, g, h>>)
<1>1. IsSeq(<<a>>)
  <2>1. <<a>> \in Seq({a})
    OBVIOUS
  <2> QED BY <2>1, SeqIs
<1>2. IsSeq(<<a, b>>)
  <2>1. <<a, b>> \in Seq({a, b})
    OBVIOUS
  <2> QED BY <2>1, SeqIs
<1>3. IsSeq(<<a, b, c>>)
  <2>1. <<a, b, c>> \in Seq({a, b, c})
    OBVIOUS
  <2> QED BY <2>1, SeqIs
<1>4. IsSeq(<<a, b, c, d>>)
  <2>1. <<a, b, c, d>> \in Seq({a, b, c, d})
    OBVIOUS
  <2> QED BY <2>1, SeqIs
<1>5. IsSeq(<<a, b, c, d, e>>)
  <2>1. <<a, b, c, d, e>> \in Seq({a, b, c, d, e})
    OBVIOUS
  <2> QED BY <2>1, SeqIs
<1>6. IsSeq(<<a, b, c, d, e, f>>)
  <2>1. <<a, b, c, d, e, f>> \in Seq({a, b, c, d, e, f})
    OBVIOUS
  <2> QED BY <2>1, SeqIs
<1>7. IsSeq(<<a, b, c, d, e, f, g>>)
  <2>1. <<a, b, c, d, e, f, g>> \in Seq({a, b, c, d, e, f, g})
    OBVIOUS
  <2> QED BY <2>1, SeqIs
<1>8. IsSeq(<<a, b, c, d, e, f, g, h>>)
  <2>1. <<a, b, c, d, e, f, g, h>> \in Seq({a, b, c, d, e, f, g, h})
    OBVIOUS
  <2> QED BY <2>1, SeqIs
<1> QED BY <1>1, <1>2, <1>3, <1>4, <1>5, <1>6, <1>7, <1>8

LEMMA Chained ==
  ASSUME NEW u, IsSeq(u), NEW v, IsSeq(v),
         NEW k \in Stacks, NEW m \in Stacks, NEW n \in Stacks,
         Reaches(u, k, m), Reaches(v, m, n)
  PROVE  IsSeq(u \o v) /\ Reaches(u \o v, k, n)
<1>1. /\ IsSeq(u \o v) /\ Len(u) \in Nat /\ Len(v) \in Nat
      /\ Len(u \o v) = Len(u) + Len(v)
      /\ \A i \in 1 .. Len(u) : (u \o v)[i] = u[i]
      /\ \A i \in Len(u) + 1 .. Len(u) + Len(v) : (u \o v)[i] = v[i - Len(u)]
  BY ConcatIs, SeqFacts
<1>2. PICK us : Chain(u, us) /\ us[1] = k /\ us[Len(u) + 1] = m
  BY DEF Reaches
<1>3. PICK vs : Chain(v, vs) /\ vs[1] = m /\ vs[Len(v) + 1] = n
  BY DEF Reaches
<1> DEFINE w  == u \o v
           l  == Len(u)
           ws == [i \in 1 .. Len(w) + 1 |-> IF i <= l + 1 THEN us[i] ELSE vs[i - l]]
<1>4. /\ us \in [1 .. l + 1 -> Stacks]
      /\ \A i \in 1 .. l : Leads(u[i], us[i], us[i + 1])
  BY <1>2 DEF Chain
<1>5. /\ vs \in [1 .. Len(v) + 1 -> Stacks]
      /\ \A i \in 1 .. Len(v) : Leads(v[i], vs[i], vs[i + 1])
  BY <1>3 DEF Chain
<1>6. /\ l \in Nat /\ Len(v) \in Nat /\ Len(w) = l + Len(v)
      /\ \A i \in 1 .. l : w[i] = u[i]
      /\ \A i \in l + 1 .. l + Len(v) : w[i] = v[i - l]
      /\ us[1] = k /\ us[l + 1] = m /\ vs[1] = m /\ vs[Len(v) + 1] = n
  BY <1>1, <1>2, <1>3
<1> HIDE DEF w, l
<1>7. ws \in [1 .. Len(w) + 1 -> Stacks]
  BY <1>4, <1>5, <1>6
<1>8. /\ \A i \in 1 .. l + 1 : ws[i] = us[i]
      /\ \A i \in l + 1 .. Len(w) + 1 : ws[i] = vs[i - l]
  <2>1. \A i \in 1 .. l + 1 : ws[i] = us[i]
    BY <1>6
  <2>2. \A i \in l + 2 .. Len(w) + 1 : ws[i] = vs[i - l]
    BY <1>6
  <2> HIDE DEF ws
  <2>3. ASSUME NEW i \in l + 1 .. Len(w) + 1 PROVE ws[i] = vs[i - l]
    <3>1. CASE i = l + 1
      <4>1. i \in 1 .. l + 1 /\ i - l = 1
        BY <3>1, <1>6
      <4>2. ws[i] = us[i]
        BY <4>1, <2>1
      <4>3. us[i] = m /\ vs[i - l] = m
        BY <3>1, <4>1, <1>6
      <4> QED BY <4>2, <4>3
    <3>2. CASE i # l + 1
      <4>1. i \in l + 2 .. Len(w) + 1
        BY <3>2, <1>6
      <4> QED BY <4>1, <2>2, Zenon
    <3> QED BY <3>1, <3>2
  <2> QED BY <2>1, <2>3
<1> HIDE DEF ws
<1>9. ASSUME NEW i \in 1 .. Len(w) PROVE Leads(w[i], ws[i], ws[i + 1])
  <2>1. CASE i <= l
    BY <2>1, <1>4, <1>6, <1>8
  <2>2. CASE i > l
    <3>1. i - l \in 1 .. Len(v) /\ i + 1 - l = i - l + 1
      BY <2>2, <1>6
    <3> QED BY <2>2, <3>1, <1>5, <1>6, <1>8
  <2> QED BY <2>1, <2>2, <1>6
<1>10. Chain(w, ws)
  BY <1>7, <1>9 DEF Chain
<1>11. ws[1] = k /\ ws[Len(w) + 1] = n
  BY <1>6, <1>8
<1> QED BY <1>1, <1>10, <1>11 DEF Reaches, w

\* A body is done item by item.
LEMMA One ==
  ASSUME NEW a,
         NEW m0 \in Stacks, NEW m1 \in Stacks,
         Leads(a, m0, m1)
  PROVE  Reaches(<<a>>, m0, m1)
<1> DEFINE body == <<a>>
           bs   == <<m0, m1>>
<1>1. body \in Seq({a}) /\ Len(body) = 1
  OBVIOUS
<1>2. bs \in [1 .. 2 -> Stacks]
  OBVIOUS
<1>3. body[1] = a
  OBVIOUS
<1>4. bs[1] = m0 /\ bs[2] = m1
  OBVIOUS
<1> HIDE DEF body, bs
<1>5. \A k \in 1 .. 1 : Leads(body[k], bs[k], bs[k + 1])
  BY <1>3, <1>4
<1>6. Chain(body, bs)
  BY <1>1, <1>2, <1>5 DEF Chain
<1>7. Reaches(body, m0, m1)
  BY <1>1, <1>4, <1>6 DEF Reaches
<1> QED BY <1>1, <1>7 DEF body

LEMMA Two ==
  ASSUME NEW a, NEW b,
         NEW m0 \in Stacks, NEW m1 \in Stacks, NEW m2 \in Stacks,
         Leads(a, m0, m1), Leads(b, m1, m2)
  PROVE  Reaches(<<a, b>>, m0, m2)
<1> DEFINE body == <<a, b>>
           bs   == <<m0, m1, m2>>
<1>1. body \in Seq({a, b}) /\ Len(body) = 2
  OBVIOUS
<1>2. bs \in [1 .. 3 -> Stacks]
  OBVIOUS
<1>3. body[1] = a /\ body[2] = b
  OBVIOUS
<1>4. bs[1] = m0 /\ bs[2] = m1 /\ bs[3] = m2
  OBVIOUS
<1> HIDE DEF body, bs
<1>5. \A k \in 1 .. 2 : Leads(body[k], bs[k], bs[k + 1])
  BY <1>3, <1>4
<1>6. Chain(body, bs)
  BY <1>1, <1>2, <1>5 DEF Chain
<1>7. Reaches(body, m0, m2)
  BY <1>1, <1>4, <1>6 DEF Reaches
<1> QED BY <1>1, <1>7 DEF body

LEMMA Three ==
  ASSUME NEW a, NEW b, NEW c,
         NEW m0 \in Stacks, NEW m1 \in Stacks, NEW m2 \in Stacks, NEW m3 \in Stacks,
         Leads(a, m0, m1), Leads(b, m1, m2), Leads(c, m2, m3)
  PROVE  Reaches(<<a, b, c>>, m0, m3)
<1> DEFINE body == <<a, b, c>>
           bs   == <<m0, m1, m2, m3>>
<1>1. body \in Seq({a, b, c}) /\ Len(body) = 3
  OBVIOUS
<1>2. bs \in [1 .. 4 -> Stacks]
  OBVIOUS
<1>3. body[1] = a /\ body[2] = b /\ body[3] = c
  OBVIOUS
<1>4. bs[1] = m0 /\ bs[2] = m1 /\ bs[3] = m2 /\ bs[4] = m3
  OBVIOUS
<1> HIDE DEF body, bs
<1>5. \A k \in 1 .. 3 : Leads(body[k], bs[k], bs[k + 1])
  BY <1>3, <1>4
<1>6. Chain(body, bs)
  BY <1>1, <1>2, <1>5 DEF Chain
<1>7. Reaches(body, m0, m3)
  BY <1>1, <1>4, <1>6 DEF Reaches
<1> QED BY <1>1, <1>7 DEF body

LEMMA Four ==
  ASSUME NEW a, NEW b, NEW c, NEW d,
         NEW m0 \in Stacks, NEW m1 \in Stacks, NEW m2 \in Stacks,
         NEW m3 \in Stacks, NEW m4 \in Stacks,
         Leads(a, m0, m1), Leads(b, m1, m2), Leads(c, m2, m3), Leads(d, m3, m4)
  PROVE  Reaches(<<a, b, c, d>>, m0, m4)
<1> DEFINE body == <<a, b, c, d>>
           bs   == <<m0, m1, m2, m3, m4>>
<1>1. body \in Seq({a, b, c, d}) /\ Len(body) = 4
  OBVIOUS
<1>2. bs \in [1 .. 5 -> Stacks]
  OBVIOUS
<1>3. body[1] = a /\ body[2] = b /\ body[3] = c /\ body[4] = d
  OBVIOUS
<1>4. bs[1] = m0 /\ bs[2] = m1 /\ bs[3] = m2 /\ bs[4] = m3 /\ bs[5] = m4
  OBVIOUS
<1> HIDE DEF body, bs
<1>5. \A k \in 1 .. 4 : Leads(body[k], bs[k], bs[k + 1])
  BY <1>3, <1>4
<1>6. Chain(body, bs)
  BY <1>1, <1>2, <1>5 DEF Chain
<1>7. Reaches(body, m0, m4)
  BY <1>1, <1>4, <1>6 DEF Reaches
<1> QED BY <1>1, <1>7 DEF body

LEMMA Five ==
  ASSUME NEW a, NEW b, NEW c, NEW d, NEW e,
         NEW m0 \in Stacks, NEW m1 \in Stacks, NEW m2 \in Stacks,
         NEW m3 \in Stacks, NEW m4 \in Stacks, NEW m5 \in Stacks,
         Leads(a, m0, m1), Leads(b, m1, m2), Leads(c, m2, m3), Leads(d, m3, m4),
         Leads(e, m4, m5)
  PROVE  Reaches(<<a, b, c, d, e>>, m0, m5)
<1> DEFINE body == <<a, b, c, d, e>>
           bs   == <<m0, m1, m2, m3, m4, m5>>
<1>1. body \in Seq({a, b, c, d, e}) /\ Len(body) = 5
  OBVIOUS
<1>2. bs \in [1 .. 6 -> Stacks]
  OBVIOUS
<1>3. body[1] = a /\ body[2] = b /\ body[3] = c /\ body[4] = d /\ body[5] = e
  OBVIOUS
<1>4. bs[1] = m0 /\ bs[2] = m1 /\ bs[3] = m2 /\ bs[4] = m3 /\ bs[5] = m4 /\ bs[6] = m5
  OBVIOUS
<1> HIDE DEF body, bs
<1>5. \A k \in 1 .. 5 : Leads(body[k], bs[k], bs[k + 1])
  BY <1>3, <1>4
<1>6. Chain(body, bs)
  BY <1>1, <1>2, <1>5 DEF Chain
<1>7. Reaches(body, m0, m5)
  BY <1>1, <1>4, <1>6 DEF Reaches
<1> QED BY <1>1, <1>7 DEF body

LEMMA Six ==
  ASSUME NEW a, NEW b, NEW c, NEW d, NEW e, NEW f,
         NEW m0 \in Stacks, NEW m1 \in Stacks, NEW m2 \in Stacks,
         NEW m3 \in Stacks, NEW m4 \in Stacks, NEW m5 \in Stacks,
         NEW m6 \in Stacks,
         Leads(a, m0, m1), Leads(b, m1, m2), Leads(c, m2, m3), Leads(d, m3, m4),
         Leads(e, m4, m5), Leads(f, m5, m6)
  PROVE  Reaches(<<a, b, c, d, e, f>>, m0, m6)
<1> DEFINE body == <<a, b, c, d, e, f>>
           bs   == <<m0, m1, m2, m3, m4, m5, m6>>
<1>1. body \in Seq({a, b, c, d, e, f}) /\ Len(body) = 6
  OBVIOUS
<1>2. bs \in [1 .. 7 -> Stacks]
  OBVIOUS
<1>3. /\ body[1] = a /\ body[2] = b /\ body[3] = c /\ body[4] = d
      /\ body[5] = e /\ body[6] = f
  OBVIOUS
<1>4. /\ bs[1] = m0 /\ bs[2] = m1 /\ bs[3] = m2 /\ bs[4] = m3
      /\ bs[5] = m4 /\ bs[6] = m5 /\ bs[7] = m6
  OBVIOUS
<1> HIDE DEF body, bs
<1>5. \A k \in 1 .. 6 : Leads(body[k], bs[k], bs[k + 1])
  BY <1>3, <1>4
<1>6. Chain(body, bs)
  BY <1>1, <1>2, <1>5 DEF Chain
<1>7. Reaches(body, m0, m6)
  BY <1>1, <1>4, <1>6 DEF Reaches
<1> QED BY <1>1, <1>7 DEF body

LEMMA Seven ==
  ASSUME NEW a, NEW b, NEW c, NEW d, NEW e, NEW f, NEW g,
         NEW m0 \in Stacks, NEW m1 \in Stacks, NEW m2 \in Stacks,
         NEW m3 \in Stacks, NEW m4 \in Stacks, NEW m5 \in Stacks,
         NEW m6 \in Stacks, NEW m7 \in Stacks,
         Leads(a, m0, m1), Leads(b, m1, m2), Leads(c, m2, m3), Leads(d, m3, m4),
         Leads(e, m4, m5), Leads(f, m5, m6), Leads(g, m6, m7)
  PROVE  Reaches(<<a, b, c, d, e, f, g>>, m0, m7)
<1> DEFINE body == <<a, b, c, d, e, f, g>>
           bs   == <<m0, m1, m2, m3, m4, m5, m6, m7>>
<1>1. body \in Seq({a, b, c, d, e, f, g}) /\ Len(body) = 7
  OBVIOUS
<1>2. bs \in [1 .. 8 -> Stacks]
  OBVIOUS
<1>3. /\ body[1] = a /\ body[2] = b /\ body[3] = c /\ body[4] = d
      /\ body[5] = e /\ body[6] = f /\ body[7] = g
  OBVIOUS
<1>4. /\ bs[1] = m0 /\ bs[2] = m1 /\ bs[3] = m2 /\ bs[4] = m3
      /\ bs[5] = m4 /\ bs[6] = m5 /\ bs[7] = m6 /\ bs[8] = m7
  OBVIOUS
<1> HIDE DEF body, bs
<1>5. \A k \in 1 .. 7 : Leads(body[k], bs[k], bs[k + 1])
  BY <1>3, <1>4
<1>6. Chain(body, bs)
  BY <1>1, <1>2, <1>5 DEF Chain
<1>7. Reaches(body, m0, m7)
  BY <1>1, <1>4, <1>6 DEF Reaches
<1> QED BY <1>1, <1>7 DEF body

LEMMA Eight ==
  ASSUME NEW a, NEW b, NEW c, NEW d, NEW e, NEW f, NEW g, NEW h,
         NEW m0 \in Stacks, NEW m1 \in Stacks, NEW m2 \in Stacks,
         NEW m3 \in Stacks, NEW m4 \in Stacks, NEW m5 \in Stacks,
         NEW m6 \in Stacks, NEW m7 \in Stacks, NEW m8 \in Stacks,
         Leads(a, m0, m1), Leads(b, m1, m2), Leads(c, m2, m3), Leads(d, m3, m4),
         Leads(e, m4, m5), Leads(f, m5, m6), Leads(g, m6, m7), Leads(h, m7, m8)
  PROVE  Reaches(<<a, b, c, d, e, f, g, h>>, m0, m8)
<1> DEFINE body == <<a, b, c, d, e, f, g, h>>
           bs   == <<m0, m1, m2, m3, m4, m5, m6, m7, m8>>
<1>1. body \in Seq({a, b, c, d, e, f, g, h}) /\ Len(body) = 8
  OBVIOUS
<1>2. bs \in [1 .. 9 -> Stacks]
  OBVIOUS
<1>3. /\ body[1] = a /\ body[2] = b /\ body[3] = c /\ body[4] = d
      /\ body[5] = e /\ body[6] = f /\ body[7] = g /\ body[8] = h
  OBVIOUS
<1>4. /\ bs[1] = m0 /\ bs[2] = m1 /\ bs[3] = m2 /\ bs[4] = m3
      /\ bs[5] = m4 /\ bs[6] = m5 /\ bs[7] = m6 /\ bs[8] = m7 /\ bs[9] = m8
  OBVIOUS
<1> HIDE DEF body, bs
<1>5. \A k \in 1 .. 8 : Leads(body[k], bs[k], bs[k + 1])
  BY <1>3, <1>4
<1>6. Chain(body, bs)
  BY <1>1, <1>2, <1>5 DEF Chain
<1>7. Reaches(body, m0, m8)
  BY <1>1, <1>4, <1>6 DEF Reaches
<1> QED BY <1>1, <1>7 DEF body

-----------------------------------------------------------------------------
(* Steps *)

LEMMA Pushes ==
  ASSUME NEW m \in Stacks
  PROVE  /\ Maybe(m) \in Stacks /\ Surely(m) \in Stacks
         /\ Maybe(m).height = m.height + 1 /\ Surely(m).height = m.height + 1
         /\ Maybe(m).solid = m.solid
         /\ Surely(m).solid = m.solid \cup {m.height + 1}
         /\ m.height \in Nat /\ m.solid \subseteq 1 .. m.height
BY DEF Stacks, Maybe, Surely

\* What the items of a body lead to.
LEMMA ItemsLead ==
  ASSUME NEW m \in Stacks
  PROVE  /\ \A t : Leads(match(t), m, m) /\ Leads(matchmk(t), m, Surely(m))
         /\ Leads(Do("END"), m, m)
         /\ \A f \in {"S", "PORTS", "OPORTS", "MARGS", "P", "MOREP", "EXCESS",
                      "VARGS", "MVARGS"} : Leads(Do(f), m, Maybe(m))
         /\ \A f \in {"ARGS", "VALUE"} : Leads(Do(f), m, Surely(m))
         /\ m.height \in m.solid => Leads(Do("PID"), m, m)
         /\ \A first, n : Leads(Finish(first), m, n)
BY DEF Leads, match, matchmk, Do, Finish, Covers

\* A construction from the last but p of the nodes.
LEMMA MakeLeads ==
  ASSUME NEW m \in Stacks, NEW n \in Stacks, NEW shape \in Shapes,
         NEW p \in Nat, Parts(shape) = p + 1, m.height = n.height + p,
         n.height \in m.solid, n.solid \subseteq m.solid
  PROVE  Leads(Make(shape), m, n)
<1>1. n.height = m.height - Parts(shape) + 1
  BY DEF Stacks
<1> QED BY <1>1 DEF Leads, Make

LEMMA PartsOf ==
  /\ Parts("PROGRAM") = 5 /\ Parts("LOOP") = 4 /\ Parts("WHILE") = 4
  /\ Parts("IF") = 4 /\ Parts("ASSIGN") = 3 /\ Parts("MARK") = 3
  /\ Parts("PORTS") = 2 /\ Parts("LIST") = 2 /\ Parts("CALL") = 2
  /\ Parts("GOTO") = 2 /\ Parts("STOP") = 2 /\ Parts("NAME") = 2
BY DEF Parts

LEMMA Nothing ==
  ASSUME NEW m \in Stacks
  PROVE  Reaches(<<>>, m, m)
<1> DEFINE bs == <<m>>
<1>1. bs \in [1 .. 1 -> Stacks] /\ bs[1] = m
  OBVIOUS
<1>2. Len(<<>>) = 0
  OBVIOUS
<1> HIDE DEF bs
<1>3. Chain(<<>>, bs)
  BY <1>1, <1>2 DEF Chain
<1> QED BY <1>1, <1>2, <1>3 DEF Reaches

\* The first thing to do is replaced by its body.
LEMMA Stepping ==
  ASSUME StackInv, state = "running", work # <<>>,
         NEW body, IsSeq(body), Becomes(body), state' = "running",
         IsSeq(errors'),
         errors' = <<>> =>
           /\ errors = <<>> /\ IsSeq(nodes')
           /\ \A m \in Stacks, n \in Stacks :
                Known(m) /\ Leads(work[1], m, n) =>
                  \E k \in Stacks : Reaches(body, k, n) /\ Known(k)'
  PROVE  StackInv'
<1>1. IsSeq(work) /\ work' = body \o Tail(work)
  BY DEF StackInv, Becomes
<1>2. IsSeq(work')
  <2> DEFINE rest == Tail(work)
  <2>1. IsSeq(rest)
    BY <1>1, TailIs, SeqFacts
  <2> HIDE DEF rest
  <2> QED BY <1>1, <2>1, ConcatIs, SeqFacts DEF rest
<1>3. ASSUME errors' = <<>>
      PROVE  \E k \in Stacks : Known(k)' /\ Provided(k)'
  <2>1. PICK m \in Stacks : Known(m) /\ Provided(m)
    BY <1>3 DEF StackInv
  <2>2. PICK ms : Chain(work, ms) /\ ms[1] = m
    BY <2>1 DEF Provided
  <2>3. Len(work) \in Nat /\ Len(work) >= 1
    BY <1>1, TailIs, SeqFacts
  <2>4. ms[2] \in Stacks /\ Leads(work[1], m, ms[2])
    BY <2>2, <2>3 DEF Chain
  <2>5. PICK k \in Stacks : Reaches(body, k, ms[2]) /\ Known(k)'
    BY <1>3, <2>1, <2>4
  <2>6. PICK bs : Chain(body, bs) /\ bs[1] = k /\ bs[Len(body) + 1] = ms[2]
    BY <2>5 DEF Reaches
  <2>7. \E new : Chain(body \o Tail(work), new) /\ new[1] = bs[1]
    BY <1>1, <2>2, <2>6, Replaced
  <2>8. Provided(k)'
    BY <1>1, <2>6, <2>7 DEF Provided
  <2> QED BY <2>5, <2>8
<1> QED BY <1>2, <1>3 DEF StackInv

\* A call that leaves the nodes alone.
LEMMA Calls ==
  ASSUME StackInv, NEW f, Calling(f), NEW body, IsSeq(body), Optional(body),
         IsSeq(errors'),
         errors' = <<>> =>
           /\ errors = <<>>
           /\ \A m \in Stacks, n \in Stacks :
                Leads(Do(f), m, n) => Reaches(body, m, n)
  PROVE  StackInv'
<1>1. /\ state = "running" /\ state' = state /\ work # <<>>
      /\ work[1].do = "call" /\ work[1].f = f /\ nodes' = nodes /\ Becomes(body)
  BY DEF Calling, Pending, Constant, Optional
<1>2. \A m, n : Leads(work[1], m, n) <=> Leads(Do(f), m, n)
  BY <1>1 DEF Leads, Do
<1>3. \A m : Known(m)' <=> Known(m)
  BY <1>1 DEF Known
<1>4. errors' = <<>> => IsSeq(nodes')
  BY <1>1 DEF StackInv
<1> QED BY <1>1, <1>2, <1>3, <1>4, Stepping

\* A node is pushed, a null pointer only where one is reckoned with.
LEMMA Returning ==
  ASSUME StackInv, state = "running", state' = "running", work # <<>>,
         NEW node, Return(node), IsSeq(errors'),
         errors' = <<>> =>
           /\ errors = <<>>
           /\ \A m \in Stacks, n \in Stacks :
                Leads(work[1], m, n) =>
                  Covers(IF node = Null THEN Maybe(m) ELSE Surely(m), n)
  PROVE  StackInv'
<1>1. Becomes(<<>>) /\ nodes' = Append(nodes, node) /\ IsSeq(<<>>)
  BY EmptyIs DEF Return, Push
<1>2. errors' = <<>> =>
        /\ IsSeq(nodes') /\ Len(nodes) \in Nat /\ Len(nodes') = Len(nodes) + 1
        /\ \A b \in 1 .. Len(nodes) : nodes'[b] = nodes[b]
        /\ nodes'[Len(nodes) + 1] = node
  BY <1>1, AppendIs, SeqFacts DEF StackInv
<1>3. ASSUME errors' = <<>>, NEW m \in Stacks, NEW n \in Stacks,
             Known(m), Leads(work[1], m, n)
      PROVE  Reaches(<<>>, n, n) /\ Known(n)'
  <2>1. Covers(IF node = Null THEN Maybe(m) ELSE Surely(m), n)
    BY <1>3
  <2>2. n.height = m.height + 1
        /\ \A b \in n.solid : b \in m.solid \/ (b = m.height + 1 /\ node # Null)
    BY <2>1, Pushes DEF Covers
  <2>3. m.height = Len(nodes) /\ \A b \in m.solid : nodes[b] # Null /\ b \in 1 .. Len(nodes)
    BY <1>3, Pushes DEF Known
  <2>4. Known(n)'
    BY <1>2, <1>3, <2>2, <2>3 DEF Known
  <2> QED BY <2>4, Nothing
<1> QED BY <1>1, <1>2, <1>3, Stepping

LEMMA Reported ==
  ASSUME StackInv, NEW t, Report(t)
  PROVE  IsSeq(errors') /\ errors' # <<>>
BY AppendIs, SeqFacts DEF StackInv, Report

LEMMA Silence ==
  ASSUME StackInv, Silent
  PROVE  IsSeq(errors') /\ errors' = errors
BY DEF StackInv, Silent

\* A match moves on, silently or not.
LEMMA MatchingErrors ==
  ASSUME StackInv, NEW t, Matching(t)
  PROVE  IsSeq(errors') /\ (errors' = <<>> => errors = <<>>)
BY Reported, Silence DEF Matching

\* Nothing is pushed or popped.
LEMMA Skipping ==
  ASSUME StackInv, state = "running", state' = "running", work # <<>>,
         nodes' = nodes, Becomes(<<>>), IsSeq(errors'),
         errors' = <<>> => errors = <<>>,
         \A m \in Stacks, n \in Stacks : Leads(work[1], m, n) => Covers(m, n)
  PROVE  StackInv'
<1>1. ASSUME NEW m \in Stacks, NEW n \in Stacks, Known(m), Leads(work[1], m, n)
      PROVE  Reaches(<<>>, n, n) /\ Known(n)'
  <2>1. Covers(m, n)
    BY <1>1
  <2>2. Known(n)'
    BY <1>1, <2>1 DEF Known, Covers
  <2> QED BY <2>2, Nothing
<1>2. errors' = <<>> => IsSeq(nodes')
  BY DEF StackInv
<1>3. IsSeq(<<>>)
  BY EmptyIs
<1> QED BY <1>1, <1>2, <1>3, Stepping

LEMMA MatchInv == StackInv /\ Match => StackInv'
<1> SUFFICES ASSUME StackInv, Match PROVE StackInv'
  OBVIOUS
<1>1. /\ state = "running" /\ state' = "running" /\ work # <<>>
      /\ work[1].do = "match" /\ nodes' = nodes /\ Becomes(<<>>)
      /\ IsSeq(errors') /\ (errors' = <<>> => errors = <<>>)
  BY MatchingErrors DEF Match, Pending, Constant
<1>2. \A m, n : Leads(work[1], m, n) => Covers(m, n)
  BY <1>1 DEF Leads
<1> QED BY <1>1, <1>2, Skipping

LEMMA NamesAreNodes ==
  ASSUME NEW at, NEW text
  PROVE  /\ Name(at, text) # Null /\ Number(at, text) # Null
         /\ Mk("STOP", at, text, Null, Null) # Null
<1>1. \A t, l, r : Mk(t, at, text, l, r).t = t
  BY DEF Mk
<1>2. Null.t = "NULL"
  BY DEF Null
<1> QED BY <1>1, <1>2 DEF Name, Number

LEMMA MatchMkInv == StackInv /\ MatchMk => StackInv'
<1> SUFFICES ASSUME StackInv, MatchMk PROVE StackInv'
  OBVIOUS
<1>1. /\ state = "running" /\ state' = "running" /\ work # <<>>
      /\ work[1].do = "matchmk"
      /\ IsSeq(errors') /\ (errors' = <<>> => errors = <<>>)
  BY MatchingErrors DEF MatchMk, Pending, Constant
<1>2. PICK node : node # Null /\ Return(node)
  <2> DEFINE node == CASE work[1].t = "INT"  -> Number(Here, Current.text)
         [] work[1].t = "STOP" -> Mk("STOP", Here, Current.text, Null, Null)
                       [] OTHER              -> Name(Here, Current.text)
  <2>1. node # Null
    BY NamesAreNodes
  <2>2. Return(node)
    BY DEF MatchMk
  <2> HIDE DEF node
  <2> QED BY <2>1, <2>2
<1>3. \A m, n : Leads(work[1], m, n) => Covers(Surely(m), n)
  BY <1>1 DEF Leads
<1> QED BY <1>1, <1>2, <1>3, Returning

-----------------------------------------------------------------------------
(* The functions of the nonterminals *)

LEMMA CoversMore ==
  ASSUME NEW m \in Stacks, NEW n \in Stacks, Covers(Maybe(m), n)
  PROVE  Covers(Surely(m), n)
BY Pushes DEF Covers

\* A construction whose parts are all that has been pushed since m, the first
\* of them a node, leads to what was expected.
LEMMA MakeCloses ==
  ASSUME NEW m \in Stacks, NEW n \in Stacks, Covers(Surely(m), n),
         NEW e \in Stacks, NEW p \in Nat, e.height = m.height + 1 + p,
         Surely(m).solid \subseteq e.solid,
         NEW shape \in Shapes, Parts(shape) = p + 1
  PROVE  Leads(Make(shape), e, n)
<1>1. /\ n.height = m.height + 1 /\ n.height \in e.solid
      /\ n.solid \subseteq e.solid /\ e.height = n.height + p
  BY Pushes DEF Covers
<1> QED BY <1>1, MakeLeads

\* What comes behind a statement, whose other parts have been pushed since m.
LEMMA MoreCloses ==
  ASSUME NEW m \in Stacks, NEW n \in Stacks, Covers(Surely(m), n),
         NEW e \in Stacks, NEW p \in Nat, e.height = m.height + 1 + p,
         Surely(m).solid \subseteq e.solid,
         NEW shape \in Shapes, Parts(shape) = p + 2
  PROVE  IsSeq(More(shape)) /\ Reaches(More(shape), e, n)
<1> DEFINE a == Maybe(e)
<1>1. /\ a \in Stacks /\ a.height = m.height + 1 + (p + 1)
      /\ Surely(m).solid \subseteq a.solid
  BY Pushes
<1>2. Leads(Do("MOREP"), e, a) /\ Leads(Do("END"), a, a)
  BY <1>1, ItemsLead
<1> HIDE DEF a
<1>3. Leads(Make(shape), a, n)
  <2>1. p + 1 \in Nat /\ Parts(shape) = (p + 1) + 1
    OBVIOUS
  <2> QED BY <1>1, <2>1, MakeCloses
<1> QED BY <1>1, <1>2, <1>3, Three, Tuples DEF More

\* A null pointer is returned for what is not there.
LEMMA ReturnsNull ==
  ASSUME StackInv, NEW f, f \notin {"END", "PID", "ARGS", "VALUE"}, Calling(f),
         Return(Null), IsSeq(errors'), errors' = <<>> => errors = <<>>
  PROVE  StackInv'
<1>1. /\ state = "running" /\ state' = "running" /\ work # <<>>
      /\ work[1].do = "call" /\ work[1].f = f
  BY DEF Calling, Pending, Constant
<1>2. \A m, n : Leads(work[1], m, n) => Covers(Maybe(m), n)
  BY <1>1 DEF Leads
<1> QED BY <1>1, <1>2, Returning

LEMMA MoreIs == ASSUME NEW shape PROVE IsSeq(More(shape))
BY Tuples DEF More

LEMMA SInv == StackInv /\ S => StackInv'
<1> SUFFICES ASSUME StackInv, S PROVE StackInv'
  OBVIOUS
<1>1. Calling("S") /\ UNCHANGED nodes /\ IsSeq(errors') /\ errors' = errors
  BY Silence DEF S
<1>2. CASE lookahead = "PROGRAM"
  <2> DEFINE body == <<match("PROGRAM"), matchmk("ID"), Do("PORTS"), match("DO"),
                       Do("P"), matchmk("END"), Do("S"), Make("PROGRAM")>>
  <2>1. ASSUME NEW m \in Stacks, NEW n \in Stacks, Leads(Do("S"), m, n)
        PROVE  Reaches(body, m, n)
    <3> DEFINE a == Surely(m)
               b == Maybe(a)
               c == Maybe(b)
               d == Surely(c)
               e == Maybe(d)
    <3>1. a \in Stacks /\ b \in Stacks /\ c \in Stacks /\ d \in Stacks /\ e \in Stacks
      BY Pushes
    <3>2. Covers(Surely(m), n)
      BY <2>1, CoversMore DEF Leads, Do
    <3>3. e.height = m.height + 1 + 4 /\ Surely(m).solid \subseteq e.solid
      BY <3>1, Pushes
    <3>4. /\ Leads(match("PROGRAM"), m, m)
          /\ Leads(matchmk("ID"), m, a)
          /\ Leads(Do("PORTS"), a, b)
          /\ Leads(match("DO"), b, b)
          /\ Leads(Do("P"), b, c)
          /\ Leads(matchmk("END"), c, d)
          /\ Leads(Do("S"), d, e)
      BY <3>1, ItemsLead
    <3> HIDE DEF a, b, c, d, e
    <3>5. Leads(Make("PROGRAM"), e, n)
      <4>1. "PROGRAM" \in Shapes /\ Parts("PROGRAM") = 4 + 1
        BY PartsOf DEF Shapes
      <4> QED BY <3>1, <3>2, <3>3, <4>1, MakeCloses
    <3> QED BY <3>1, <3>4, <3>5, Eight
  <2>2. Optional(body)
    BY <1>1, <1>2 DEF S, Optional
  <2>3. IsSeq(body)
    BY Tuples
  <2> HIDE DEF body
  <2> QED BY <1>1, <2>1, <2>2, <2>3, Calls
<1>3. CASE lookahead # "PROGRAM"
  <2> DEFINE body == <<Do("P")>>
  <2>1. ASSUME NEW m \in Stacks, NEW n \in Stacks, Leads(Do("S"), m, n)
        PROVE  Reaches(body, m, n)
    <3>1. Leads(Do("P"), m, n)
      BY <2>1, CoversMore DEF Leads, Do, matchmk
    <3> QED BY <3>1, One
  <2>2. Optional(body)
    BY <1>1, <1>3 DEF S, Optional
  <2>3. IsSeq(body)
    BY Tuples
  <2> HIDE DEF body
  <2> QED BY <1>1, <2>1, <2>2, <2>3, Calls
<1> QED BY <1>2, <1>3

LEMMA PORTSInv == StackInv /\ PORTS => StackInv'
<1> SUFFICES ASSUME StackInv, PORTS PROVE StackInv'
  OBVIOUS
<1>1. Calling("PORTS") /\ IsSeq(errors') /\ errors' = errors
  BY Silence DEF PORTS
<1>2. CASE lookahead = "IN"
  <2> DEFINE body == <<match("IN"), Do("ARGS"), Do("OPORTS"), Make("PORTS")>>
  <2>1. ASSUME NEW m \in Stacks, NEW n \in Stacks, Leads(Do("PORTS"), m, n)
        PROVE  Reaches(body, m, n)
    <3> DEFINE a == Surely(m)
               b == Maybe(a)
    <3>1. a \in Stacks /\ b \in Stacks
      BY Pushes
    <3>2. Covers(Surely(m), n)
      BY <2>1, CoversMore DEF Leads, Do
    <3>3. b.height = m.height + 1 + 1 /\ Surely(m).solid \subseteq b.solid
      BY <3>1, Pushes
    <3>4. /\ Leads(match("IN"), m, m)
          /\ Leads(Do("ARGS"), m, a)
          /\ Leads(Do("OPORTS"), a, b)
      BY <3>1, ItemsLead
    <3> HIDE DEF a, b
    <3>5. Leads(Make("PORTS"), b, n)
      <4>1. "PORTS" \in Shapes /\ Parts("PORTS") = 1 + 1
        BY PartsOf DEF Shapes
      <4> QED BY <3>1, <3>2, <3>3, <4>1, MakeCloses
    <3> QED BY <3>1, <3>4, <3>5, Four
  <2>2. Optional(body)
    BY <1>2 DEF PORTS, Optional
  <2>3. IsSeq(body)
    BY Tuples
  <2> HIDE DEF body
  <2> QED BY <1>1, <2>1, <2>2, <2>3, Calls
<1>3. CASE lookahead # "IN"
  <2>1. Return(Null)
    BY <1>3 DEF PORTS
  <2> QED BY <1>1, <2>1, ReturnsNull
<1> QED BY <1>2, <1>3

LEMMA OPORTSInv == StackInv /\ OPORTS => StackInv'
<1> SUFFICES ASSUME StackInv, OPORTS PROVE StackInv'
  OBVIOUS
<1>1. Calling("OPORTS") /\ IsSeq(errors') /\ errors' = errors
  BY Silence DEF OPORTS
<1>2. CASE lookahead = "OUT"
  <2> DEFINE body == <<match("OUT"), matchmk("ID")>>
  <2>1. ASSUME NEW m \in Stacks, NEW n \in Stacks, Leads(Do("OPORTS"), m, n)
        PROVE  Reaches(body, m, n)
    <3>1. Leads(matchmk("ID"), m, n)
      BY <2>1, CoversMore DEF Leads, Do, matchmk
    <3>2. Leads(match("OUT"), m, m)
      BY ItemsLead
    <3> QED BY <3>1, <3>2, Two
  <2>2. Optional(body)
    BY <1>2 DEF OPORTS, Optional
  <2>3. IsSeq(body)
    BY Tuples
  <2> HIDE DEF body
  <2> QED BY <1>1, <2>1, <2>2, <2>3, Calls
<1>3. CASE lookahead # "OUT"
  <2>1. Return(Null)
    BY <1>3 DEF OPORTS
  <2> QED BY <1>1, <2>1, ReturnsNull
<1> QED BY <1>2, <1>3

LEMMA ARGSInv == StackInv /\ ARGS => StackInv'
<1> SUFFICES ASSUME StackInv, ARGS PROVE StackInv'
  OBVIOUS
<1> DEFINE body == <<matchmk("ID"), Do("MARGS"), Make("LIST")>>
<1>1. Calling("ARGS") /\ Optional(body) /\ IsSeq(errors') /\ errors' = errors
  BY Silence DEF ARGS
<1>2. ASSUME NEW m \in Stacks, NEW n \in Stacks, Leads(Do("ARGS"), m, n)
      PROVE  Reaches(body, m, n)
  <2> DEFINE a == Surely(m)
             b == Maybe(a)
  <2>1. a \in Stacks /\ b \in Stacks
    BY Pushes
  <2>2. Covers(Surely(m), n)
    BY <1>2 DEF Leads, Do
  <2>3. b.height = m.height + 1 + 1 /\ Surely(m).solid \subseteq b.solid
    BY <2>1, Pushes
  <2>4. Leads(matchmk("ID"), m, a) /\ Leads(Do("MARGS"), a, b)
    BY <2>1, ItemsLead
  <2> HIDE DEF a, b
  <2>5. Leads(Make("LIST"), b, n)
    <3>1. "LIST" \in Shapes /\ Parts("LIST") = 1 + 1
      BY PartsOf DEF Shapes
    <3> QED BY <2>1, <2>2, <2>3, <3>1, MakeCloses
  <2> QED BY <2>1, <2>4, <2>5, Three
<1>3. IsSeq(body)
  BY Tuples
<1> HIDE DEF body
<1> QED BY <1>1, <1>2, <1>3, Calls

LEMMA MARGSInv == StackInv /\ MARGS => StackInv'
<1> SUFFICES ASSUME StackInv, MARGS PROVE StackInv'
  OBVIOUS
<1>1. Calling("MARGS") /\ IsSeq(errors') /\ errors' = errors
  BY Silence DEF MARGS
<1>2. CASE lookahead = "ARGSEP"
  <2> DEFINE body == <<match("ARGSEP"), Do("ARGS")>>
  <2>1. ASSUME NEW m \in Stacks, NEW n \in Stacks, Leads(Do("MARGS"), m, n)
        PROVE  Reaches(body, m, n)
    <3>1. Leads(Do("ARGS"), m, n)
      BY <2>1, CoversMore DEF Leads, Do, matchmk
    <3>2. Leads(match("ARGSEP"), m, m)
      BY ItemsLead
    <3> QED BY <3>1, <3>2, Two
  <2>2. Optional(body)
    BY <1>2 DEF MARGS, Optional
  <2>3. IsSeq(body)
    BY Tuples
  <2> HIDE DEF body
  <2> QED BY <1>1, <2>1, <2>2, <2>3, Calls
<1>3. CASE lookahead # "ARGSEP"
  <2>1. Return(Null)
    BY <1>3 DEF MARGS
  <2> QED BY <1>1, <2>1, ReturnsNull
<1> QED BY <1>2, <1>3

LEMMA P_StatementInv == StackInv /\ P_Statement => StackInv'
<1> SUFFICES ASSUME StackInv, P_Statement PROVE StackInv'
  OBVIOUS
<1>1. Calling("P") /\ UNCHANGED nodes /\ IsSeq(errors') /\ errors' = errors
  BY Silence DEF P_Statement
<1>2. CASE lookahead = "LOOP"
  <2> DEFINE first == <<match("LOOP"), matchmk("ID"), match("DO"), Do("P"), matchmk("END")>>
             body  == first \o More("LOOP")
  <2>0. "LOOP" \in Shapes /\ Parts("LOOP") = 2 + 2
    BY PartsOf DEF Shapes
  <2>1. ASSUME NEW m \in Stacks, NEW n \in Stacks, Leads(Do("P"), m, n)
        PROVE  Reaches(body, m, n)
    <3> DEFINE a == Surely(m)
               b == Maybe(a)
               c == Surely(b)
    <3>1. a \in Stacks /\ b \in Stacks /\ c \in Stacks
      BY Pushes
    <3>2. Covers(Surely(m), n)
      BY <2>1, CoversMore DEF Leads, Do
    <3>3. c.height = m.height + 1 + 2 /\ Surely(m).solid \subseteq c.solid
      BY <3>1, Pushes
    <3>4. /\ Leads(match("LOOP"), m, m)
          /\ Leads(matchmk("ID"), m, a)
          /\ Leads(match("DO"), a, a)
          /\ Leads(Do("P"), a, b)
          /\ Leads(matchmk("END"), b, c)
      BY <3>1, ItemsLead
    <3> HIDE DEF a, b, c
    <3>5. IsSeq(first) /\ Reaches(first, m, c)
      BY <3>1, <3>4, Five, Tuples
    <3>6. IsSeq(More("LOOP")) /\ Reaches(More("LOOP"), c, n)
      BY <2>0, <3>1, <3>2, <3>3, MoreCloses
    <3> HIDE DEF first
    <3> QED BY <3>1, <3>5, <3>6, Chained
  <2>2. Optional(body)
    BY <1>2, <1>1 DEF P_Statement, Statement, Optional
  <2>3. IsSeq(body)
    BY Tuples, MoreIs, ConcatIs, SeqFacts
  <2> HIDE DEF body
  <2> QED BY <1>1, <2>1, <2>2, <2>3, Calls
<1>3. CASE lookahead = "WHILE"
  <2> DEFINE first == <<match("WHILE"), matchmk("ID"), match("NEQ_ZERO"), match("DO"), Do("P"),
                        matchmk("END")>>
             body  == first \o More("WHILE")
  <2>0. "WHILE" \in Shapes /\ Parts("WHILE") = 2 + 2
    BY PartsOf DEF Shapes
  <2>1. ASSUME NEW m \in Stacks, NEW n \in Stacks, Leads(Do("P"), m, n)
        PROVE  Reaches(body, m, n)
    <3> DEFINE a == Surely(m)
               b == Maybe(a)
               c == Surely(b)
    <3>1. a \in Stacks /\ b \in Stacks /\ c \in Stacks
      BY Pushes
    <3>2. Covers(Surely(m), n)
      BY <2>1, CoversMore DEF Leads, Do
    <3>3. c.height = m.height + 1 + 2 /\ Surely(m).solid \subseteq c.solid
      BY <3>1, Pushes
    <3>4. /\ Leads(match("WHILE"), m, m)
          /\ Leads(matchmk("ID"), m, a)
          /\ Leads(match("NEQ_ZERO"), a, a)
          /\ Leads(match("DO"), a, a)
          /\ Leads(Do("P"), a, b)
          /\ Leads(matchmk("END"), b, c)
      BY <3>1, ItemsLead
    <3> HIDE DEF a, b, c
    <3>5. IsSeq(first) /\ Reaches(first, m, c)
      BY <3>1, <3>4, Six, Tuples
    <3>6. IsSeq(More("WHILE")) /\ Reaches(More("WHILE"), c, n)
      BY <2>0, <3>1, <3>2, <3>3, MoreCloses
    <3> HIDE DEF first
    <3> QED BY <3>1, <3>5, <3>6, Chained
  <2>2. Optional(body)
    BY <1>3, <1>1 DEF P_Statement, Statement, Optional
  <2>3. IsSeq(body)
    BY Tuples, MoreIs, ConcatIs, SeqFacts
  <2> HIDE DEF body
  <2> QED BY <1>1, <2>1, <2>2, <2>3, Calls
<1>4. CASE lookahead = "GOTO"
  <2> DEFINE first == <<match("GOTO"), matchmk("ID")>>
             body  == first \o More("GOTO")
  <2>0. "GOTO" \in Shapes /\ Parts("GOTO") = 0 + 2
    BY PartsOf DEF Shapes
  <2>1. ASSUME NEW m \in Stacks, NEW n \in Stacks, Leads(Do("P"), m, n)
        PROVE  Reaches(body, m, n)
    <3> DEFINE a == Surely(m)
    <3>1. a \in Stacks
      BY Pushes
    <3>2. Covers(Surely(m), n)
      BY <2>1, CoversMore DEF Leads, Do
    <3>3. a.height = m.height + 1 + 0 /\ Surely(m).solid \subseteq a.solid
      BY <3>1, Pushes
    <3>4. /\ Leads(match("GOTO"), m, m)
          /\ Leads(matchmk("ID"), m, a)
      BY <3>1, ItemsLead
    <3> HIDE DEF a
    <3>5. IsSeq(first) /\ Reaches(first, m, a)
      BY <3>1, <3>4, Two, Tuples
    <3>6. IsSeq(More("GOTO")) /\ Reaches(More("GOTO"), a, n)
      BY <2>0, <3>1, <3>2, <3>3, MoreCloses
    <3> HIDE DEF first
    <3> QED BY <3>1, <3>5, <3>6, Chained
  <2>2. Optional(body)
    BY <1>4, <1>1 DEF P_Statement, Statement, Optional
  <2>3. IsSeq(body)
    BY Tuples, MoreIs, ConcatIs, SeqFacts
  <2> HIDE DEF body
  <2> QED BY <1>1, <2>1, <2>2, <2>3, Calls
<1>5. CASE lookahead = "IF"
  <2> DEFINE first == <<match("IF"), matchmk("ID"), match("EQ"), matchmk("INT"), match("THEN"),
                        match("GOTO"), matchmk("ID")>>
             body  == first \o More("IF")
  <2>0. "IF" \in Shapes /\ Parts("IF") = 2 + 2
    BY PartsOf DEF Shapes
  <2>1. ASSUME NEW m \in Stacks, NEW n \in Stacks, Leads(Do("P"), m, n)
        PROVE  Reaches(body, m, n)
    <3> DEFINE a == Surely(m)
               b == Surely(a)
               c == Surely(b)
    <3>1. a \in Stacks /\ b \in Stacks /\ c \in Stacks
      BY Pushes
    <3>2. Covers(Surely(m), n)
      BY <2>1, CoversMore DEF Leads, Do
    <3>3. c.height = m.height + 1 + 2 /\ Surely(m).solid \subseteq c.solid
      BY <3>1, Pushes
    <3>4. /\ Leads(match("IF"), m, m)
          /\ Leads(matchmk("ID"), m, a)
          /\ Leads(match("EQ"), a, a)
          /\ Leads(matchmk("INT"), a, b)
          /\ Leads(match("THEN"), b, b)
          /\ Leads(match("GOTO"), b, b)
          /\ Leads(matchmk("ID"), b, c)
      BY <3>1, ItemsLead
    <3> HIDE DEF a, b, c
    <3>5. IsSeq(first) /\ Reaches(first, m, c)
      BY <3>1, <3>4, Seven, Tuples
    <3>6. IsSeq(More("IF")) /\ Reaches(More("IF"), c, n)
      BY <2>0, <3>1, <3>2, <3>3, MoreCloses
    <3> HIDE DEF first
    <3> QED BY <3>1, <3>5, <3>6, Chained
  <2>2. Optional(body)
    BY <1>5, <1>1 DEF P_Statement, Statement, Optional
  <2>3. IsSeq(body)
    BY Tuples, MoreIs, ConcatIs, SeqFacts
  <2> HIDE DEF body
  <2> QED BY <1>1, <2>1, <2>2, <2>3, Calls
<1>6. CASE lookahead = "STOP"
  <2> DEFINE first == <<matchmk("STOP")>>
             body  == first \o More("STOP")
  <2>0. "STOP" \in Shapes /\ Parts("STOP") = 0 + 2
    BY PartsOf DEF Shapes
  <2>1. ASSUME NEW m \in Stacks, NEW n \in Stacks, Leads(Do("P"), m, n)
        PROVE  Reaches(body, m, n)
    <3> DEFINE a == Surely(m)
    <3>1. a \in Stacks
      BY Pushes
    <3>2. Covers(Surely(m), n)
      BY <2>1, CoversMore DEF Leads, Do
    <3>3. a.height = m.height + 1 + 0 /\ Surely(m).solid \subseteq a.solid
      BY <3>1, Pushes
    <3>4. /\ Leads(matchmk("STOP"), m, a)
      BY <3>1, ItemsLead
    <3> HIDE DEF a
    <3>5. IsSeq(first) /\ Reaches(first, m, a)
      BY <3>1, <3>4, One, Tuples
    <3>6. IsSeq(More("STOP")) /\ Reaches(More("STOP"), a, n)
      BY <2>0, <3>1, <3>2, <3>3, MoreCloses
    <3> HIDE DEF first
    <3> QED BY <3>1, <3>5, <3>6, Chained
  <2>2. Optional(body)
    BY <1>6, <1>1 DEF P_Statement, Statement, Optional
  <2>3. IsSeq(body)
    BY Tuples, MoreIs, ConcatIs, SeqFacts
  <2> HIDE DEF body
  <2> QED BY <1>1, <2>1, <2>2, <2>3, Calls
<1> QED BY <1>2, <1>3, <1>4, <1>5, <1>6 DEF P_Statement

LEMMA P_NameInv == StackInv /\ P_Name => StackInv'
<1> SUFFICES ASSUME StackInv, P_Name PROVE StackInv'
  OBVIOUS
<1> DEFINE body == <<matchmk("ID"), Do("PID")>>
<1>1. Calling("P") /\ Optional(body) /\ IsSeq(errors') /\ errors' = errors
  BY Silence DEF P_Name, Optional
<1>2. ASSUME NEW m \in Stacks, NEW n \in Stacks, Leads(Do("P"), m, n)
      PROVE  Reaches(body, m, n)
  <2> DEFINE a == Surely(m)
  <2>1. a \in Stacks /\ a.height \in a.solid /\ Leads(matchmk("ID"), m, a)
    BY Pushes, ItemsLead
  <2>2. Covers(a, n)
    BY <1>2, CoversMore DEF Leads, Do
  <2> HIDE DEF a
  <2>3. Leads(Do("PID"), a, n)
    BY <2>1, <2>2 DEF Leads, Do
  <2> QED BY <2>1, <2>3, Two
<1>3. IsSeq(body)
  BY Tuples
<1> HIDE DEF body
<1> QED BY <1>1, <1>2, <1>3, Calls

\* In place of the name comes what it begins.
LEMMA PIDMore ==
  ASSUME NEW m \in Stacks, NEW n \in Stacks, Leads(Do("PID"), m, n),
         NEW e \in Stacks, NEW p \in Nat, e.height = m.height + p,
         m.solid \subseteq e.solid, NEW shape \in Shapes, Parts(shape) = p + 2
  PROVE  Reaches(More(shape), e, n)
<1> DEFINE a == Maybe(e)
<1>1. /\ a \in Stacks /\ a.height = e.height + 1 /\ a.solid = e.solid
  BY Pushes
<1>2. Leads(Do("MOREP"), e, a) /\ Leads(Do("END"), a, a)
  BY <1>1, ItemsLead
<1> HIDE DEF a
<1>3. m.height \in m.solid /\ n.height = m.height /\ n.solid \subseteq m.solid
  BY DEF Leads, Do, Covers
<1>4. n.height \in Nat /\ a.height = n.height + (p + 1) /\ p + 1 \in Nat
      /\ n.height \in a.solid /\ n.solid \subseteq a.solid
      /\ Parts(shape) = (p + 1) + 1
  BY <1>1, <1>3 DEF Stacks
<1>5. Leads(Make(shape), a, n)
  BY <1>1, <1>4, MakeLeads
<1> QED BY <1>1, <1>2, <1>5, Three DEF More

LEMMA PIDInv == StackInv /\ PID => StackInv'
<1> SUFFICES ASSUME StackInv, PID PROVE StackInv'
  OBVIOUS
<1>1. Calling("PID")
  BY DEF PID
<1>2. CASE lookahead = "ASSIGN"
  <2> DEFINE first == <<match("ASSIGN"), Do("VALUE")>>
             body  == first \o More("ASSIGN")
  <2>1. Optional(body) /\ IsSeq(errors') /\ errors' = errors
    BY <1>2, Silence DEF PID
  <2>2. IsSeq(first) /\ IsSeq(body)
    BY Tuples, MoreIs, ConcatIs, SeqFacts
  <2>3. ASSUME NEW m \in Stacks, NEW n \in Stacks, Leads(Do("PID"), m, n)
        PROVE  Reaches(body, m, n)
    <3> DEFINE a == Surely(m)
    <3>1. /\ a \in Stacks /\ a.height = m.height + 1 /\ m.solid \subseteq a.solid
          /\ Leads(match("ASSIGN"), m, m) /\ Leads(Do("VALUE"), m, a)
      BY Pushes, ItemsLead
    <3> HIDE DEF a
    <3>2. Reaches(first, m, a)
      BY <3>1, Two
    <3>3. "ASSIGN" \in Shapes /\ Parts("ASSIGN") = 1 + 2
      BY PartsOf DEF Shapes
    <3>4. Reaches(More("ASSIGN"), a, n)
      BY <2>3, <3>1, <3>3, PIDMore
    <3> HIDE DEF first
    <3> QED BY <2>2, <3>1, <3>2, <3>4, Chained, MoreIs
  <2> HIDE DEF body
  <2> QED BY <1>1, <2>1, <2>2, <2>3, Calls
<1>3. CASE lookahead = "LABELDEC"
  <2> DEFINE first == <<match("LABELDEC"), Do("P")>>
             body  == first \o More("MARK")
  <2>1. Optional(body) /\ IsSeq(errors') /\ errors' = errors
    BY <1>3, Silence DEF PID
  <2>2. IsSeq(first) /\ IsSeq(body)
    BY Tuples, MoreIs, ConcatIs, SeqFacts
  <2>3. ASSUME NEW m \in Stacks, NEW n \in Stacks, Leads(Do("PID"), m, n)
        PROVE  Reaches(body, m, n)
    <3> DEFINE a == Maybe(m)
    <3>1. /\ a \in Stacks /\ a.height = m.height + 1 /\ m.solid \subseteq a.solid
          /\ Leads(match("LABELDEC"), m, m) /\ Leads(Do("P"), m, a)
      BY Pushes, ItemsLead
    <3> HIDE DEF a
    <3>2. Reaches(first, m, a)
      BY <3>1, Two
    <3>3. "MARK" \in Shapes /\ Parts("MARK") = 1 + 2
      BY PartsOf DEF Shapes
    <3>4. Reaches(More("MARK"), a, n)
      BY <2>3, <3>1, <3>3, PIDMore
    <3> HIDE DEF first
    <3> QED BY <2>2, <3>1, <3>2, <3>4, Chained, MoreIs
  <2> HIDE DEF body
  <2> QED BY <1>1, <2>1, <2>2, <2>3, Calls
<1>4. CASE lookahead \notin {"ASSIGN", "LABELDEC"}
  <2>1. Optional(More("NAME")) /\ Report("expected assignment or label")
    BY <1>4 DEF PID
  <2> QED BY <1>1, <2>1, Reported, MoreIs, Calls
<1> QED BY <1>2, <1>3, <1>4

LEMMA P_NothingInv == StackInv /\ P_Nothing => StackInv'
<1> SUFFICES ASSUME StackInv, P_Nothing PROVE StackInv'
  OBVIOUS
<1>1. /\ state = "running" /\ state' = "running" /\ work # <<>>
      /\ Becomes(<<Do("END")>>) /\ nodes' = Append(nodes, Null)
      /\ IsSeq(errors') /\ errors' # <<>>
  BY Reported DEF P_Nothing, Calling, Pending, Constant, Push
<1>2. IsSeq(<<Do("END")>>)
  BY Tuples
<1> QED BY <1>1, <1>2, Stepping

LEMMA EndInv == StackInv /\ expected_end_or_semicolon => StackInv'
<1> SUFFICES ASSUME StackInv, expected_end_or_semicolon PROVE StackInv'
  OBVIOUS
<1> DEFINE begins == {"ID", "LOOP", "WHILE", "GOTO", "IF", "STOP"}
<1>1. Calling("END")
  BY DEF expected_end_or_semicolon
<1>2. CASE lookahead \in begins
  <2>1. Optional(<<Do("P"), Drop, Do("END")>>) /\ Report("missing ;")
    BY <1>2 DEF expected_end_or_semicolon
  <2> QED BY <1>1, <2>1, Reported, Tuples, Calls
<1>3. CASE lookahead = "PROGRAM"
  <2>1. Optional(<<Do("S"), Drop, Do("END")>>) /\ Report("not allowed here")
    BY <1>3 DEF expected_end_or_semicolon
  <2> QED BY <1>1, <2>1, Reported, Tuples, Calls
<1>4. CASE lookahead = "PROGSEP"
  <2> DEFINE body == <<Do("MOREP"), Drop, Do("END")>>
  <2>1. Optional(body) /\ IsSeq(errors') /\ errors' = errors
    BY <1>4, Silence DEF expected_end_or_semicolon
  <2>2. ASSUME NEW m \in Stacks, NEW n \in Stacks, Leads(Do("END"), m, n)
        PROVE  Reaches(body, m, n)
    <3> DEFINE a == Maybe(m)
    <3>1. a \in Stacks /\ Leads(Do("MOREP"), m, a)
      BY Pushes, ItemsLead
    <3>2. Leads(Drop, a, m)
      BY Pushes DEF Leads, Drop
    <3> HIDE DEF a
    <3> QED BY <2>2, <3>1, <3>2, Three
  <2>3. IsSeq(body)
    BY Tuples
  <2> HIDE DEF body
  <2> QED BY <1>1, <2>1, <2>2, <2>3, Calls
<1>5. CASE lookahead \notin begins \cup {"PROGRAM", "PROGSEP"}
  <2>1. Optional(<<>>) /\ IsSeq(errors') /\ errors' = errors
    BY <1>5, Silence DEF expected_end_or_semicolon
  <2>2. /\ state = "running" /\ state' = "running" /\ work # <<>>
        /\ work[1].do = "call" /\ work[1].f = "END"
    BY <1>1 DEF Calling, Pending, Constant
  <2>3. \A m, n : Leads(work[1], m, n) => Covers(m, n)
    BY <2>2 DEF Leads
  <2> QED BY <2>1, <2>2, <2>3, Skipping DEF Optional
<1> QED BY <1>2, <1>3, <1>4, <1>5

LEMMA MOREPInv == StackInv /\ MOREP => StackInv'
<1> SUFFICES ASSUME StackInv, MOREP PROVE StackInv'
  OBVIOUS
<1>1. Calling("MOREP") /\ IsSeq(errors') /\ errors' = errors
  BY Silence DEF MOREP
<1>2. CASE lookahead = "PROGSEP"
  <2> DEFINE body == <<match("PROGSEP"), Do("EXCESS")>>
  <2>1. ASSUME NEW m \in Stacks, NEW n \in Stacks, Leads(Do("MOREP"), m, n)
        PROVE  Reaches(body, m, n)
    <3>1. Leads(Do("EXCESS"), m, n)
      BY <2>1, CoversMore DEF Leads, Do, matchmk
    <3>2. Leads(match("PROGSEP"), m, m)
      BY ItemsLead
    <3> QED BY <3>1, <3>2, Two
  <2>2. Optional(body)
    BY <1>2 DEF MOREP, Optional
  <2>3. IsSeq(body)
    BY Tuples
  <2> HIDE DEF body
  <2> QED BY <1>1, <2>1, <2>2, <2>3, Calls
<1>3. CASE lookahead # "PROGSEP"
  <2>1. Return(Null)
    BY <1>3 DEF MOREP
  <2> QED BY <1>1, <2>1, ReturnsNull
<1> QED BY <1>2, <1>3

LEMMA MOREP_ExcessInv == StackInv /\ MOREP_Excess => StackInv'
<1> SUFFICES ASSUME StackInv, MOREP_Excess PROVE StackInv'
  OBVIOUS
<1>1. /\ Calling("EXCESS") /\ Optional(<<Do("P")>>)
      /\ IsSeq(errors') /\ (errors' = <<>> => errors = <<>>)
  BY Reported, Silence DEF MOREP_Excess
<1>2. \A m, n : Leads(Do("EXCESS"), m, n) <=> Leads(Do("P"), m, n)
  BY DEF Leads, Do
<1>3. \A m \in Stacks, n \in Stacks :
        Leads(Do("EXCESS"), m, n) => Reaches(<<Do("P")>>, m, n)
  BY <1>2, One
<1> QED BY <1>1, <1>3, Tuples, Calls

LEMMA VALUEInv == StackInv /\ VALUE => StackInv'
<1> SUFFICES ASSUME StackInv, VALUE PROVE StackInv'
  OBVIOUS
<1>1. Calling("VALUE") /\ IsSeq(errors')
      /\ (lookahead \in {"ID", "INT", "RUN"} => errors' = errors)
  BY Reported, Silence DEF VALUE
<1>2. CASE lookahead = "ID"
  <2> DEFINE body == <<matchmk("ID")>>
  <2>1. ASSUME NEW m \in Stacks, NEW n \in Stacks, Leads(Do("VALUE"), m, n)
        PROVE  Reaches(body, m, n)
    <3>1. Leads(matchmk("ID"), m, n)
      BY <2>1, CoversMore DEF Leads, Do, matchmk
    <3> QED BY <3>1, One
  <2>2. Optional(body)
    BY <1>2 DEF VALUE, Value, Optional
  <2>3. IsSeq(body)
    BY Tuples
  <2> HIDE DEF body
  <2> QED BY <1>1, <1>2, <2>1, <2>2, <2>3, Calls
<1>3. CASE lookahead = "INT"
  <2> DEFINE body == <<matchmk("INT")>>
  <2>1. ASSUME NEW m \in Stacks, NEW n \in Stacks, Leads(Do("VALUE"), m, n)
        PROVE  Reaches(body, m, n)
    <3>1. Leads(matchmk("INT"), m, n)
      BY <2>1, CoversMore DEF Leads, Do, matchmk
    <3> QED BY <3>1, One
  <2>2. Optional(body)
    BY <1>3 DEF VALUE, Value, Optional
  <2>3. IsSeq(body)
    BY Tuples
  <2> HIDE DEF body
  <2> QED BY <1>1, <1>3, <2>1, <2>2, <2>3, Calls
<1>4. CASE lookahead = "RUN"
  <2> DEFINE body == <<match("RUN"), matchmk("ID"), match("WITH"), Do("VARGS"),
                       match("END"), Make("CALL")>>
  <2>1. ASSUME NEW m \in Stacks, NEW n \in Stacks, Leads(Do("VALUE"), m, n)
        PROVE  Reaches(body, m, n)
    <3> DEFINE a == Surely(m)
               b == Maybe(a)
    <3>1. a \in Stacks /\ b \in Stacks
      BY Pushes
    <3>2. Covers(Surely(m), n)
      BY <2>1, CoversMore DEF Leads, Do
    <3>3. b.height = m.height + 1 + 1 /\ Surely(m).solid \subseteq b.solid
      BY <3>1, Pushes
    <3>4. /\ Leads(match("RUN"), m, m)
          /\ Leads(matchmk("ID"), m, a)
          /\ Leads(match("WITH"), a, a)
          /\ Leads(Do("VARGS"), a, b)
          /\ Leads(match("END"), b, b)
      BY <3>1, ItemsLead
    <3> HIDE DEF a, b
    <3>5. Leads(Make("CALL"), b, n)
      <4>1. "CALL" \in Shapes /\ Parts("CALL") = 1 + 1
        BY PartsOf DEF Shapes
      <4> QED BY <3>1, <3>2, <3>3, <4>1, MakeCloses
    <3> QED BY <3>1, <3>4, <3>5, Six
  <2>2. Optional(body)
    BY <1>4 DEF VALUE, Value, Optional
  <2>3. IsSeq(body)
    BY Tuples
  <2> HIDE DEF body
  <2> QED BY <1>1, <1>4, <2>1, <2>2, <2>3, Calls
<1>5. CASE lookahead \notin {"ID", "INT", "RUN"}
  <2>1. Return(Null) /\ IsSeq(errors') /\ errors' # <<>>
    BY <1>5, Reported DEF VALUE
  <2>2. state = "running" /\ state' = "running" /\ work # <<>>
    BY <1>1 DEF Calling, Pending, Constant
  <2> QED BY <2>1, <2>2, Returning
<1> QED BY <1>2, <1>3, <1>4, <1>5

LEMMA VARGSInv == StackInv /\ VARGS => StackInv'
<1> SUFFICES ASSUME StackInv, VARGS PROVE StackInv'
  OBVIOUS
<1>1. Calling("VARGS") /\ IsSeq(errors') /\ errors' = errors
  BY Silence DEF VARGS
<1>2. CASE lookahead \in {"ID", "INT", "RUN"}
  <2> DEFINE body == <<Do("VALUE"), Do("MVARGS"), Make("LIST")>>
  <2>1. ASSUME NEW m \in Stacks, NEW n \in Stacks, Leads(Do("VARGS"), m, n)
        PROVE  Reaches(body, m, n)
    <3> DEFINE a == Surely(m)
               b == Maybe(a)
    <3>1. a \in Stacks /\ b \in Stacks
      BY Pushes
    <3>2. Covers(Surely(m), n)
      BY <2>1, CoversMore DEF Leads, Do
    <3>3. b.height = m.height + 1 + 1 /\ Surely(m).solid \subseteq b.solid
      BY <3>1, Pushes
    <3>4. /\ Leads(Do("VALUE"), m, a)
          /\ Leads(Do("MVARGS"), a, b)
      BY <3>1, ItemsLead
    <3> HIDE DEF a, b
    <3>5. Leads(Make("LIST"), b, n)
      <4>1. "LIST" \in Shapes /\ Parts("LIST") = 1 + 1
        BY PartsOf DEF Shapes
      <4> QED BY <3>1, <3>2, <3>3, <4>1, MakeCloses
    <3> QED BY <3>1, <3>4, <3>5, Three
  <2>2. Optional(body)
    BY <1>2 DEF VARGS, Optional
  <2>3. IsSeq(body)
    BY Tuples
  <2> HIDE DEF body
  <2> QED BY <1>1, <2>1, <2>2, <2>3, Calls
<1>3. CASE lookahead \notin {"ID", "INT", "RUN"}
  <2>1. Return(Null)
    BY <1>3 DEF VARGS
  <2> QED BY <1>1, <2>1, ReturnsNull
<1> QED BY <1>2, <1>3

LEMMA MVARGSInv == StackInv /\ MVARGS => StackInv'
<1> SUFFICES ASSUME StackInv, MVARGS PROVE StackInv'
  OBVIOUS
<1>1. Calling("MVARGS") /\ IsSeq(errors') /\ errors' = errors
  BY Silence DEF MVARGS
<1>2. CASE lookahead = "ARGSEP"
  <2> DEFINE body == <<match("ARGSEP"), Do("VALUE"), Do("MVARGS"), Make("LIST")>>
  <2>1. ASSUME NEW m \in Stacks, NEW n \in Stacks, Leads(Do("MVARGS"), m, n)
        PROVE  Reaches(body, m, n)
    <3> DEFINE a == Surely(m)
               b == Maybe(a)
    <3>1. a \in Stacks /\ b \in Stacks
      BY Pushes
    <3>2. Covers(Surely(m), n)
      BY <2>1, CoversMore DEF Leads, Do
    <3>3. b.height = m.height + 1 + 1 /\ Surely(m).solid \subseteq b.solid
      BY <3>1, Pushes
    <3>4. /\ Leads(match("ARGSEP"), m, m)
          /\ Leads(Do("VALUE"), m, a)
          /\ Leads(Do("MVARGS"), a, b)
      BY <3>1, ItemsLead
    <3> HIDE DEF a, b
    <3>5. Leads(Make("LIST"), b, n)
      <4>1. "LIST" \in Shapes /\ Parts("LIST") = 1 + 1
        BY PartsOf DEF Shapes
      <4> QED BY <3>1, <3>2, <3>3, <4>1, MakeCloses
    <3> QED BY <3>1, <3>4, <3>5, Four
  <2>2. Optional(body)
    BY <1>2 DEF MVARGS, Optional
  <2>3. IsSeq(body)
    BY Tuples
  <2> HIDE DEF body
  <2> QED BY <1>1, <2>1, <2>2, <2>3, Calls
<1>3. CASE lookahead # "ARGSEP"
  <2>1. Return(Null)
    BY <1>3 DEF MVARGS
  <2> QED BY <1>1, <2>1, ReturnsNull
<1> QED BY <1>2, <1>3

-----------------------------------------------------------------------------
(* Construction, and the end *)

LEMMA MadeIsNode ==
  ASSUME NEW shape \in Shapes, NEW n
  PROVE  Made(shape, n) # Null
<1>1. \A t, at, l, r : Inner(t, at, l, r).t = t
  BY DEF Inner, Mk
<1>2. /\ \A at, l, r : Split(at, l, r).t = "SPLIT"
      /\ Inner("CALL", n[1], n[1], n[2]).t = "CALL"
  BY <1>1 DEF Split
<1>3. Made(shape, n).t \in {"SPLIT", "CALL"}
  BY <1>2 DEF Made, Shapes, Assignment, Goto, IfGoto
<1>4. Null.t = "NULL"
  BY DEF Null
<1> QED BY <1>3, <1>4

\* What is known of the stack before and after the first thing to do.
LEMMA Ahead ==
  ASSUME StackInv, state = "running", work # <<>>, errors = <<>>
  PROVE  \E m \in Stacks, n \in Stacks : Known(m) /\ Leads(work[1], m, n)
<1>1. PICK m \in Stacks : Known(m) /\ Provided(m)
  BY DEF StackInv
<1>2. PICK ms : Chain(work, ms) /\ ms[1] = m
  BY <1>1 DEF Provided
<1>3. Len(work) \in Nat /\ Len(work) >= 1
  BY TailIs, SeqFacts DEF StackInv
<1>4. ms[2] \in Stacks /\ Leads(work[1], m, ms[2])
  BY <1>2, <1>3 DEF Chain
<1> QED BY <1>1, <1>4

LEMMA MakeNodeInv == StackInv /\ MakeNode => StackInv'
<1> SUFFICES ASSUME StackInv, MakeNode PROVE StackInv'
  OBVIOUS
<1> DEFINE shape == work[1].shape
           left  == Len(nodes) - Parts(shape)
           node  == Made(shape, TheParts)
<1>1. /\ state = "running" /\ state' = "running" /\ work # <<>>
      /\ work[1].do = "make" /\ errors' = errors /\ IsSeq(errors')
      /\ Becomes(<<>>) /\ nodes' = Append(SubSeq(nodes, 1, left), node)
  BY DEF MakeNode, Making, Pending, StackInv
<1>2. ASSUME errors' = <<>>, NEW m \in Stacks, NEW n \in Stacks,
             Known(m), Leads(work[1], m, n)
      PROVE  IsSeq(nodes') /\ Reaches(<<>>, n, n) /\ Known(n)'
  <2>1. /\ shape \in Shapes /\ n.height = m.height - Parts(shape) + 1
        /\ n.height \in m.solid /\ n.solid \subseteq m.solid
    BY <1>1, <1>2 DEF Leads
  <2>2. m.height = Len(nodes) /\ \A b \in m.solid : nodes[b] # Null
    BY <1>2 DEF Known
  <2>3. IsSeq(nodes)
    BY <1>1, <1>2 DEF StackInv
  <2>4. Parts(shape) \in Nat /\ Parts(shape) >= 2
    BY <2>1, PartsOf DEF Shapes
  <2>5. node # Null
    BY <2>1, MadeIsNode
  <2> HIDE DEF shape, node
  <2>6. left \in Nat /\ left <= Len(nodes) /\ n.height = left + 1
    BY <2>1, <2>2, <2>4 DEF Stacks
  <2> HIDE DEF left
  <2>7. /\ IsSeq(SubSeq(nodes, 1, left)) /\ Len(SubSeq(nodes, 1, left)) = left
        /\ \A k \in 1 .. left : SubSeq(nodes, 1, left)[k] = nodes[k]
    BY <2>3, <2>6, PrefixIs
  <2> DEFINE kept == SubSeq(nodes, 1, left)
  <2> HIDE DEF kept
  <2>8. /\ IsSeq(nodes') /\ Len(nodes') = left + 1
        /\ \A k \in 1 .. left : nodes'[k] = nodes[k]
        /\ nodes'[left + 1] = node
    <3>1. IsSeq(kept) /\ Len(kept) = left /\ nodes' = Append(kept, node)
          /\ \A k \in 1 .. left : kept[k] = nodes[k]
      BY <1>1, <2>7 DEF kept
    <3> QED BY <3>1, AppendIs, SeqFacts
  <2>9. ASSUME NEW b \in n.solid PROVE nodes'[b] # Null
    <3>1. b \in m.solid /\ b \in 1 .. left + 1
      BY <2>1, <2>6 DEF Stacks
    <3> QED BY <3>1, <2>2, <2>5, <2>6, <2>8
  <2>10. Known(n)'
    BY <2>6, <2>8, <2>9 DEF Known
  <2> QED BY <2>8, <2>10, Nothing
<1>3. errors' = <<>> =>
        \E m \in Stacks, n \in Stacks : Known(m) /\ Leads(work[1], m, n)
  BY <1>1, Ahead
<1>4. errors' = <<>> => IsSeq(nodes')
  BY <1>2, <1>3
<1>5. IsSeq(<<>>)
  BY EmptyIs
<1> QED BY <1>1, <1>2, <1>4, <1>5, Stepping

\* Without an error the first part of a construction is there.
LEMMA FollowNullInv == StackInv /\ FollowNull => StackInv'
<1> SUFFICES ASSUME StackInv, FollowNull PROVE StackInv'
  OBVIOUS
<1> DEFINE shape == work[1].shape
           left  == Len(nodes) - Parts(shape)
<1>1. /\ state = "running" /\ state' = "crashed" /\ work # <<>>
      /\ work[1].do = "make" /\ UNCHANGED <<errors, work, nodes>>
      /\ SubSeq(nodes, left + 1, Len(nodes))[1] = Null
  BY DEF FollowNull, Making, Pending, TheParts
<1>2. ASSUME errors = <<>> PROVE FALSE
  <2>1. PICK m \in Stacks, n \in Stacks : Known(m) /\ Leads(work[1], m, n)
    BY <1>1, <1>2, Ahead
  <2>2. /\ shape \in Shapes /\ n.height = m.height - Parts(shape) + 1
        /\ n.height \in m.solid
    BY <1>1, <2>1 DEF Leads
  <2>3. m.height = Len(nodes) /\ nodes[n.height] # Null
    BY <2>1, <2>2 DEF Known
  <2>4. Parts(shape) \in Nat /\ Parts(shape) >= 2
    BY <2>2, PartsOf DEF Shapes
  <2> HIDE DEF shape
  <2>5. left \in Nat /\ left + 1 <= Len(nodes) /\ n.height = left + 1 /\ Len(nodes) \in Nat
    BY <2>2, <2>3, <2>4 DEF Stacks
  <2> HIDE DEF left
  <2>6. PICK U : nodes \in Seq(U)
    BY <1>1, <1>2 DEF StackInv, IsSeq
  <2>7. SubSeq(nodes, left + 1, Len(nodes))[1] = nodes[left + 1]
    BY <2>5, <2>6
  <2> QED BY <1>1, <2>3, <2>5, <2>7
<1>3. IsSeq(work') /\ IsSeq(errors')
  BY <1>1 DEF StackInv
<1> QED BY <1>1, <1>2, <1>3 DEF StackInv

LEMMA DropNodeInv == StackInv /\ DropNode => StackInv'
<1> SUFFICES ASSUME StackInv, DropNode PROVE StackInv'
  OBVIOUS
<1>1. /\ state = "running" /\ state' = "running" /\ work # <<>>
      /\ work[1].do = "drop" /\ errors' = errors /\ IsSeq(errors')
      /\ Becomes(<<>>) /\ nodes' = SubSeq(nodes, 1, Len(nodes) - 1)
  BY DEF DropNode, Pending, Silent, Constant, StackInv, Front
<1>2. ASSUME errors' = <<>>, NEW m \in Stacks, NEW n \in Stacks,
             Known(m), Leads(work[1], m, n)
      PROVE  IsSeq(nodes') /\ Reaches(<<>>, n, n) /\ Known(n)'
  <2>1. n.height = m.height - 1 /\ n.solid \subseteq m.solid
    BY <1>1, <1>2 DEF Leads
  <2>2. m.height = Len(nodes) /\ \A b \in m.solid : nodes[b] # Null
    BY <1>2 DEF Known
  <2>3. n.height \in Nat /\ n.height = Len(nodes) - 1 /\ IsSeq(nodes)
        /\ n.height <= Len(nodes) /\ \A b \in n.solid : b \in 1 .. n.height
    BY <1>1, <1>2, <2>1, <2>2 DEF Stacks, StackInv
  <2>4. /\ IsSeq(nodes') /\ Len(nodes') = n.height
        /\ \A k \in 1 .. n.height : nodes'[k] = nodes[k]
    BY <1>1, <2>3, PrefixIs
  <2>5. Known(n)'
    BY <2>1, <2>2, <2>3, <2>4 DEF Known
  <2> QED BY <2>4, <2>5, Nothing
<1>3. errors' = <<>> => IsSeq(nodes')
  BY <1>1, <1>2, Ahead
<1> QED BY <1>1, <1>2, <1>3, EmptyIs, Stepping

\* After the end nothing is expected of the stack any more: either there is an
\* error, or there is no work.
LEMMA FinishingInv == StackInv /\ (Excess \/ EndOfParse) => StackInv'
<1> SUFFICES ASSUME StackInv, Excess \/ EndOfParse PROVE StackInv'
  OBVIOUS
<1>1. CASE Excess
  <2>1. /\ state' = "running" /\ IsSeq(errors') /\ errors' # <<>>
        /\ \/ work' = <<Finish(FALSE)>>
           \/ work' = <<Do("S"), Finish(FALSE)>>
    BY <1>1, Reported DEF Excess, Finishing, Pending
  <2>2. IsSeq(work')
    BY <2>1, Tuples
  <2> QED BY <2>1, <2>2 DEF StackInv
<1>2. CASE EndOfParse
  <2>1. state' = "done" /\ work' = <<>> /\ errors' = errors
    BY <1>2 DEF EndOfParse
  <2> QED BY <2>1, EmptyIs DEF StackInv
<1> QED BY <1>1, <1>2

LEMMA BeginInv == ASSUME StackInv, NEW tokens, Begin(tokens) PROVE StackInv'
<1> DEFINE body == <<Do("S"), Finish(TRUE)>>
           m == [height |-> 0, solid |-> {}]
           n == [height |-> 1, solid |-> {}]
<1>1. /\ state' = "running" /\ work' = body
      /\ nodes' = <<>> /\ errors' = <<>>
  BY DEF Begin, StackInv
<1>2. m \in Stacks /\ n \in Stacks /\ Maybe(m) = n
  BY DEF Stacks, Maybe
<1>3. Leads(Do("S"), m, n) /\ Leads(Finish(TRUE), n, n)
  BY <1>2, ItemsLead
<1>4. Known(m)'
  BY <1>1 DEF Known
<1> HIDE DEF m, n
<1>5. Reaches(body, m, n) /\ IsSeq(body)
  BY <1>2, <1>3, Two, Tuples
<1> HIDE DEF body
<1>6. Provided(m)'
  BY <1>1, <1>5 DEF Provided, Reaches
<1> QED BY <1>1, <1>2, <1>4, <1>5, <1>6, EmptyIs DEF StackInv

LEMMA InitStackInv == Idle => StackInv
BY EmptyIs DEF Idle, StackInv

LEMMA StackInvUnchanged == StackInv /\ UNCHANGED pvars => StackInv'
<1> SUFFICES ASSUME StackInv, UNCHANGED pvars PROVE StackInv'
  OBVIOUS
<1>1. UNCHANGED <<work, nodes, errors, state>>
  BY DEF pvars
<1>2. \A m : (Known(m)' <=> Known(m)) /\ (Provided(m)' <=> Provided(m))
  BY <1>1 DEF Known, Provided
<1> QED BY <1>1, <1>2 DEF StackInv

LEMMA NextStackInv == StackInv /\ Next => StackInv'
BY MatchInv, MatchMkInv, SInv, PORTSInv, OPORTSInv, ARGSInv, MARGSInv,
   P_StatementInv, P_NameInv, PIDInv, P_NothingInv, EndInv, MOREPInv,
   MOREP_ExcessInv, VALUEInv, VARGSInv, MVARGSInv, MakeNodeInv, FollowNullInv,
   DropNodeInv, FinishingInv
   DEF Next

-----------------------------------------------------------------------------
(* The position *)

\* The stream that the parser has ends in the one end-of-file token, and the
\* parser is at a token of it.
PosInv ==
  /\ state = "idle" => pos = 1
  /\ state # "idle" => IsSeq(stream) /\ EndsInEOF(stream) /\ pos \in DOMAIN stream

LEMMA BehindIsThere ==
  ASSUME IsSeq(stream), EndsInEOF(stream), NEW n \in DOMAIN stream
  PROVE  Behind(n) \in DOMAIN stream
<1>1. Len(stream) \in Nat /\ DOMAIN stream = 1 .. Len(stream)
  BY SeqFacts
<1>2. CASE stream[n].t = "T_EOF"
  BY <1>2 DEF Behind
<1>3. CASE stream[n].t # "T_EOF"
  <2>1. n # Len(stream)
    BY <1>3 DEF EndsInEOF
  <2> QED BY <1>1, <1>3, <2>1 DEF Behind
<1> QED BY <1>2, <1>3

\* The search for a place to go on at ends at the end of the file at the latest.
LEMMA RecoveryIsThere ==
  ASSUME IsSeq(stream), EndsInEOF(stream), pos \in DOMAIN stream
  PROVE  Recovery \in DOMAIN stream
<1> DEFINE Stops == {n \in pos .. Len(stream) : stream[n].t \in {"PROGSEP", "T_EOF"}}
<1>1. Len(stream) \in Nat /\ DOMAIN stream = 1 .. Len(stream) /\ pos \in 1 .. Len(stream)
  BY SeqFacts
<1>2. Len(stream) \in Stops
  BY <1>1 DEF EndsInEOF
<1>3. Stops \subseteq Nat /\ Stops # {}
  BY <1>1, <1>2
<1>4. PICK n \in Stops : \A m \in Stops : n <= m
  <2> HIDE DEF Stops
  <2> QED BY <1>3, LeastNatural
<1>5. \A m \in pos .. n - 1 : stream[m].t \notin {"PROGSEP", "T_EOF"}
  <2>1. \A m \in pos .. n - 1 : m \in pos .. Len(stream) /\ ~ (n <= m)
    BY <1>1, <1>4
  <2> QED BY <1>4, <2>1
<1>6. \E i \in pos .. Len(stream) :
        /\ stream[i].t \in {"PROGSEP", "T_EOF"}
        /\ \A m \in pos .. i - 1 : stream[m].t \notin {"PROGSEP", "T_EOF"}
  BY <1>4, <1>5
<1>7. Recovery \in pos .. Len(stream)
  BY <1>6 DEF Recovery
<1> QED BY <1>1, <1>7

LEMMA BeginPos ==
  ASSUME PosInv, NEW tokens, IsSeq(tokens), EndsInEOF(tokens), Begin(tokens)
  PROVE  PosInv'
<1>1. state = "idle" /\ stream' = tokens /\ state' = "running" /\ pos' = 1
  BY DEF Begin, PosInv
<1>2. Len(tokens) \in Nat /\ DOMAIN tokens = 1 .. Len(tokens) /\ tokens # <<>>
  BY SeqFacts DEF EndsInEOF
<1>3. Len(tokens) # 0
  BY <1>2, EmptySeq DEF IsSeq
<1> QED BY <1>1, <1>2, <1>3 DEF PosInv, EndsInEOF

LEMMA NextPos == PosInv /\ Next => PosInv'
<1> SUFFICES ASSUME PosInv, Next PROVE PosInv'
  OBVIOUS
<1>1. state # "idle" /\ state' # "idle" /\ stream' = stream
  BY DEF Next, Match, MatchMk, S, PORTS, OPORTS, ARGS, MARGS, P_Statement, P_Name,
         PID, P_Nothing, expected_end_or_semicolon, MOREP, MOREP_Excess, VALUE,
         VARGS, MVARGS, MakeNode, FollowNull, DropNode, Excess, EndOfParse,
         Calling, Making, Finishing, Pending, Constant
<1>2. IsSeq(stream) /\ EndsInEOF(stream) /\ pos \in DOMAIN stream
  BY <1>1 DEF PosInv
<1>3. pos' \in {pos, Behind(pos), Behind(Recovery)}
  BY DEF Next, Match, MatchMk, S, PORTS, OPORTS, ARGS, MARGS, P_Statement, P_Name,
         PID, P_Nothing, expected_end_or_semicolon, MOREP, MOREP_Excess, VALUE,
         VARGS, MVARGS, MakeNode, FollowNull, DropNode, Excess, EndOfParse,
         Calling, Making, Matching
<1>4. pos' \in DOMAIN stream
  BY <1>2, <1>3, BehindIsThere, RecoveryIsThere
<1>5. IsSeq(stream') /\ EndsInEOF(stream') /\ pos' \in DOMAIN stream'
  BY <1>1, <1>2, <1>4
<1> QED BY <1>1, <1>5 DEF PosInv, EndsInEOF

-----------------------------------------------------------------------------

ParserInv == StackInv /\ PosInv

LEMMA ParserInvUnchanged == ParserInv /\ UNCHANGED pvars => ParserInv'
<1>1. PosInv /\ UNCHANGED pvars => PosInv'
  BY DEF PosInv, pvars, EndsInEOF
<1> QED BY <1>1, StackInvUnchanged DEF ParserInv

LEMMA InitParserInv == Idle => ParserInv
BY InitStackInv DEF ParserInv, PosInv, Idle

LEMMA CalledParserInv == ParserInv /\ Called => ParserInv'
BY BeginInv, BeginPos DEF ParserInv, Called

LEMMA NextParserInv == ParserInv /\ Next => ParserInv'
BY NextStackInv, NextPos DEF ParserInv

\* Whatever tokens the parser gets, it stays on the stream up to its end, and as
\* long as there is no error, all that is still to be done finds its nodes: the
\* first part of every construction is no null pointer (parse.cpp:14-326).
THEOREM ParserInvariance == ParserSpec => []ParserInv
<1>1. ParserInv /\ [Called \/ Next]_pvars => ParserInv'
  BY CalledParserInv, NextParserInv, ParserInvUnchanged
<1> QED BY InitParserInv, <1>1, PTL DEF ParserSpec
=============================================================================
