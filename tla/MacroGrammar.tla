----------------------------- MODULE MacroGrammar -----------------------------
(***************************************************************************)
(* Reference for MacroExtract: the grammar that the comments of macro.cpp  *)
(* give (macro.cpp:124, 129, 145, 177, 194, 221),                          *)
(*                                                                         *)
(*   S -> EOF | "DEFINE" ["PRIORITY" INT] D S | ... S                      *)
(*   D -> ... MD     MD -> "AS" A | ... MD     A -> END_DEFINE | ... A     *)
(*                                                                         *)
(* in which a definition has neither "DEFINE" nor, behind its "AS", "AS"   *)
(* in it, together with the macros and the rest that a text consists of.   *)
(***************************************************************************)
EXTENDS Macros

None == [macros |-> <<>>, rest |-> <<>>, legal |-> FALSE]

\* The first token of one of these types from n on, which end of file is for all.
Upcoming(ts, n, types) ==
  Min({m \in n .. Len(ts) : ts[m].t \in types \cup {"T_EOF"}})

Indices(rule, types) ==
  SelectSeq([n \in DOMAIN rule |-> n - 1], LAMBDA i : rule[i + 1].t \in types)

InRange(text) == ValueOf(text) < IntMax

\* The macro with the rule ts[r .. s - 1] and the replacement ts[s + 1 .. e - 1].
Macro(ts, priority, r, s, e) ==
  LET rule == SubSeq(ts, r, s - 1)
  IN  [priority |-> priority, rule |-> rule,
       content_constraint_token_indices |-> Indices(rule, Constraints),
       template_token_indices |-> Indices(rule, Templates),
       replacement |-> SubSeq(ts, s + 1, e - 1)]

Insertions(md) == {n \in DOMAIN md.replacement : md.replacement[n].t = "INSERTION"}

\* The pieces of a definition are where they have to be, and its numbers in range.
IsDefinition(ts, d, r, s, e) ==
  /\ r > d + 1 => ts[d + 2].t = "INT" /\ InRange(ts[d + 2].text)
  /\ s > r /\ ts[s].t = "AS"
  /\ e > s /\ ts[e].t = "END_DEFINE"
  /\ LET md == Macro(ts, 0, r, s, e)
     IN  \A n \in Insertions(md) : /\ InRange(md.replacement[n].text)
                                   /\ Resolves(md, md.replacement[n])

RECURSIVE Parsed(_)
Parsed(ts) ==
  LET d == Upcoming(ts, 1, {"DEFINE"})
      prioritized == ts[d + 1].t = "PRIORITY"
      r == IF prioritized THEN d + 3 ELSE d + 1
      s == Upcoming(ts, r, {"AS", "DEFINE"})
      e == Upcoming(ts, s + 1, {"END_DEFINE", "AS", "DEFINE"})
  IN  CASE ts[d].t = "T_EOF" -> [macros |-> <<>>, rest |-> ts, legal |-> TRUE]
        [] OTHER ->
             IF r > Len(ts) \/ s = Len(ts) \/ ~ IsDefinition(ts, d, r, s, e) THEN None
             ELSE LET more == Parsed(SubSeq(ts, e + 1, Len(ts)))
                      priority == IF prioritized THEN ValueOf(ts[d + 2].text) ELSE 0
                  IN  [macros |-> <<Macro(ts, priority, r, s, e)>> \o more.macros,
                       rest   |-> SubSeq(ts, 1, d - 1) \o more.rest,
                       legal  |-> more.legal]
=============================================================================
