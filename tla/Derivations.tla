----------------------------- MODULE Derivations -----------------------------
(***************************************************************************)
(* Reference for the LR generator and parser: the words of a grammar, and  *)
(* the LR(1) condition, by derivations alone, without elements or tables.  *)
(***************************************************************************)
EXTENDS Grammar

-----------------------------------------------------------------------------
(* Words of at most n terminals *)

\* The words of a sequence of symbols, if W has those of each nonterminal.
WordsOf(W, string, n) ==
  FoldLeft(LAMBDA words, s :
             {w \in IF IsTerminal(s) THEN {Append(w, s[2]) : w \in words}
                    ELSE IF s \in DOMAIN W THEN {v \o w : v \in words, w \in W[s]}
                    ELSE {} : Len(w) <= n},
           {<<>>}, string)

RECURSIVE Languages(_, _, _)
Languages(G, W, n) ==
  LET more == [A \in DOMAIN W |-> UNION {WordsOf(W, Alternatives(G, A)[k], n) :
                                           k \in DOMAIN Alternatives(G, A)}]
  IN  IF more = W THEN W ELSE Languages(G, more, n)

Words(G, S, n) == Languages(G, [A \in DOMAIN G.right_sides |-> {}], n)[S]

-----------------------------------------------------------------------------
(* Derivation trees *)

RECURSIVE IsDerivation(_, _)
IsDerivation(G, tree) ==
  IF IsTerminal(tree.symbol) THEN tree.children = <<>>
  ELSE /\ tree.alternative \in DOMAIN Alternatives(G, tree.symbol)
       /\ Alternatives(G, tree.symbol)[tree.alternative]
            = [k \in DOMAIN tree.children |-> tree.children[k].symbol]
       /\ \A k \in DOMAIN tree.children : IsDerivation(G, tree.children[k])

RECURSIVE Yield(_)
Yield(tree) ==
  IF IsTerminal(tree.symbol) THEN <<tree.symbol[2]>>
  ELSE FlattenSeq([k \in DOMAIN tree.children |-> Yield(tree.children[k])])

-----------------------------------------------------------------------------
(* Rightmost derivations, of forms with at most n symbols *)

\* A step: what is replaced by which alternative, and what is around it.
StepsFrom(G, form) ==
  LET places == {p \in DOMAIN form : IsNonTerminal(form[p])}
      p == Max(places)
  IN  IF places = {} THEN {}
      ELSE {[before |-> SubSeq(form, 1, p - 1), left |-> form[p],
             alternative |-> k, after |-> SubSeq(form, p + 1, Len(form))]
              : k \in DOMAIN Alternatives(G, form[p])}

RightSide(G, step) == Alternatives(G, step.left)[step.alternative]

Derived(G, step) == step.before \o RightSide(G, step) \o step.after

RECURSIVE AllSteps(_, _, _, _)
AllSteps(G, forms, fresh, n) ==
  IF fresh = {} THEN UNION {StepsFrom(G, form) : form \in forms}
  ELSE LET next == {Derived(G, s) : s \in UNION {StepsFrom(G, f) : f \in fresh}}
           more == {f \in next : Len(f) <= n} \ forms
       IN  AllSteps(G, forms \cup more, more, n)

\* What a parser that reads from left to right has to do when it has reduced
\* what it has read to `read` and sees `ahead`.  If a prefix may be accepted,
\* anything may follow a word.
Deed(read, ahead, what) == <<read, ahead, what>>

Ahead(after, eof, accept_prefix, terminals) ==
  IF after # <<>> THEN {after[1][2]}
  ELSE IF accept_prefix THEN terminals ELSE {eof[2]}

Deeds(G, S, eof, accept_prefix, terminals, n) ==
  LET steps == AllSteps(G, {<<S>>}, {<<S>>}, n)
      Reductions(s) ==
        {Deed(s.before \o RightSide(G, s), a, <<s.left, s.alternative>>)
           : a \in Ahead(s.after, eof, accept_prefix, terminals)}
      Shifts(s) ==
        LET read == s.before \o RightSide(G, s)
        IN  {Deed(SubSeq(read, 1, k - 1), read[k][2], <<"shift">>)
               : k \in {j \in DOMAIN read : IsTerminal(read[j])}}
      Acceptances ==
        {Deed(<<S>>, a, <<"accept">>)
           : a \in Ahead(<<>>, eof, accept_prefix, terminals)}
  IN  Acceptances \cup UNION {Reductions(s) \cup Shifts(s) : s \in steps}

\* Knuth's condition: what has been read and one terminal determine what to do.
IsLR1(G, S, eof, accept_prefix, terminals, n) ==
  LET deeds == Deeds(G, S, eof, accept_prefix, terminals, n)
  IN  Cardinality(deeds) = Cardinality({<<d[1], d[2]>> : d \in deeds})
=============================================================================
