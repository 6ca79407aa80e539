----------------------------- MODULE MacroApply -----------------------------
(***************************************************************************)
(* Macro application (Compiler/src/macro.cpp, apply_macros): rewrites a    *)
(* token stream with macro definitions, one match at a time, until nothing *)
(* matches or the limit of passes is reached.                              *)
(*                                                                         *)
(* What a macro's parser makes of a piece of the stream is a parameter;    *)
(* MacroDetector gives it the LR parser the code generates for the rule.   *)
(***************************************************************************)
EXTENDS Macros

CONSTANTS
  Linear(_),               \* the parse tables for a rule have no conflict
  Parse(_, _),             \* a rule's parser run on the beginning of a stream:
                           \* [t |-> "REJECT"], or [t |-> "ACCEPT",
                           \* total |-> the tokens matched,
                           \* split |-> those of each symbol of the rule]
  Generated(_, _, _, _)    \* the name for a TEMP_VAL made of its text, its
                           \* file, a line and the number of the pass

VARIABLES
  input,         \* the stream
  definitions,   \* the argument
  apply_errors,
  usable,        \* the definitions whose detectors have tables
  apply_state,   \* "idle"; "detectors" while they are built; "pass" between
                 \* passes; "bins", "detect", "choose" in a pass; "done"
  pass, changed,
  tried,         \* the priorities whose detectors found nothing in this pass
  k,             \* counts definitions, detectors and then their matches
  detected,      \* detected_macros
  best           \* where std::min_element's result is, so far

avars == <<input, definitions, apply_errors, usable, apply_state, pass, changed,
           tried, k, detected, best>>

Rest == pass = 0 /\ changed = FALSE /\ tried = {} /\ k = 1 /\ detected = <<>>
          /\ best = 1

ApplyIdle ==
  /\ input = <<>> /\ definitions = <<>> /\ apply_errors = <<>> /\ usable = <<>>
  /\ apply_state = "idle"
  /\ Rest

\* apply_macros(stream, macros, Passes) is called.
BeginApplication(stream, macros) ==
  /\ apply_state = "idle"
  /\ input' = stream /\ definitions' = macros
  /\ apply_state' = "detectors"
  /\ UNCHANGED <<apply_errors, usable, pass, changed, tried, k, detected, best>>

-----------------------------------------------------------------------------
(* Detectors *)

\* No terminal of a rule's grammar is the end of file (macro.cpp:291-387), and so
\* its parser shifts none: a match is shorter than the stream it begins, and what
\* stands for the symbols of the rule is tokens in front of the last.
StopsBeforeEOF(rule, in) ==
  LET answer == Parse(rule, in)
  IN  answer.t = "ACCEPT" =>
        /\ Len(answer.total) \in 0 .. Len(in) - 1
        /\ \A n \in DOMAIN rule : answer.split[n] \in Seq(Range(Front(in)))

\* A token that stands for itself, as an ID or a number does, has to have the
\* text it has in the rule.
check_constraint(md, matched) ==
  \A c \in DOMAIN md.content_constraint_token_indices :
    LET cindex == md.content_constraint_token_indices[c] + 1
        found  == matched[cindex]
    IN  Len(found) = 1 /\ found[1].text = md.rule[cindex].text

Answer(md, in, i) == Parse(md.rule, SubSeq(in, i + 1, Len(in)))

Accepted(md, answer) ==
  answer.t = "ACCEPT" /\ check_constraint(md, answer.split)

Matches(md, in, i) == Accepted(md, Answer(md, in, i))

Locations(md, in) == {i \in 0 .. Len(in) - 1 : Matches(md, in, i)}

\* detect() returns something, and the Response it returns.
Detects(md, in) == Locations(md, in) # {}

Found(i, answer) ==
  [location |-> i, length |-> Len(answer.total), matched |-> answer.split]

ResponseAt(md, in, i) == Found(i, Answer(md, in, i))

Response(md, in) == ResponseAt(md, in, Min(Locations(md, in)))

\* One more detector; an error if its tables have a conflict.
GetDetector ==
  /\ apply_state = "detectors" /\ k <= Len(definitions)
  /\ LET md == definitions[k]
     IN  IF Linear(md.rule)
           THEN usable' = Append(usable, md) /\ UNCHANGED apply_errors
           ELSE /\ apply_errors' = Append(apply_errors,
                                   ErrorAt("MACRO_COMPILE_NON_LR", md.rule[1]))
                /\ UNCHANGED usable
  /\ k' = k + 1
  /\ UNCHANGED <<input, definitions, apply_state, pass, changed, tried,
                 detected, best>>

HaveDetectors ==
  /\ apply_state = "detectors" /\ k > Len(definitions)
  /\ apply_state' = "pass"
  /\ UNCHANGED <<input, definitions, apply_errors, usable, pass, changed, tried,
                 k, detected, best>>

\* The bins of detectors, prios, each in the order of the definitions.
Priorities == {usable[n].priority : n \in DOMAIN usable}

Bin(p) == {n \in DOMAIN usable : usable[n].priority = p}

Untried == Priorities \ tried

\* The iterator into prios, which goes from the highest priority down.
Highest == Max(Untried)

-----------------------------------------------------------------------------
(* Passes *)

BeginPass ==
  /\ apply_state = "pass" /\ pass < Passes
  /\ changed' = FALSE /\ tried' = {}
  /\ apply_state' = "bins"
  /\ UNCHANGED <<input, definitions, apply_errors, usable, pass, k, detected,
                 best>>

EnterBin ==
  /\ apply_state = "bins" /\ Untried # {}
  /\ detected' = <<>> /\ k' = 0
  /\ apply_state' = "detect"
  /\ UNCHANGED <<input, definitions, apply_errors, usable, pass, changed, tried,
                 best>>

\* The detectors of the bin behind the last one that has been run.
Left == {n \in Bin(Highest) : n > k}

Find(n) == [md |-> usable[n], r |-> Response(usable[n], input)]

Detect ==
  /\ apply_state = "detect" /\ Left # {}
  /\ LET n == Min(Left)
     IN  /\ detected' = IF Detects(usable[n], input) THEN Append(detected, Find(n))
                        ELSE detected
         /\ k' = n
  /\ UNCHANGED <<input, definitions, apply_errors, usable, apply_state, pass,
                 changed, tried, best>>

Detected == apply_state = "detect" /\ Left = {}

\* Mutant of NothingDetected: a bin without a match ends the pass.
NothingDetectedBreaks ==
  /\ Detected /\ detected = <<>>
  /\ tried' = Priorities
  /\ apply_state' = "bins"
  /\ UNCHANGED <<input, definitions, apply_errors, usable, pass, changed, k,
                 detected, best>>

\* Mutant of NothingDetected: the iterator stays at its bin.
NothingDetectedAgain ==
  /\ Detected /\ detected = <<>>
  /\ apply_state' = "bins"
  /\ UNCHANGED <<input, definitions, apply_errors, usable, pass, changed, tried,
                 k, detected, best>>

NothingDetected ==
  /\ Detected /\ detected = <<>>
  /\ tried' = tried \cup {Highest}
  /\ apply_state' = "bins"
  /\ UNCHANGED <<input, definitions, apply_errors, usable, pass, changed, k,
                 detected, best>>

\* std::min_element starts with the first element.
BeginChoice ==
  /\ Detected /\ detected # <<>>
  /\ best' = 1 /\ k' = 2
  /\ apply_state' = "choose"
  /\ UNCHANGED <<input, definitions, apply_errors, usable, pass, changed, tried,
                 detected>>

\* Mutant of Before: a longer match is preferred to one further left.
BeforeByLength(r1, r2) ==
  \/ r1.length > r2.length
  \/ r1.length = r2.length /\ r1.location < r2.location

\* The comparison given to it.  In its last line both matches are the wrong
\* way round, so that of two with different lengths each is before the other.
Before(r1, r2) ==
  \/ r1.location < r2.location
  \/ /\ r1.location = r2.location
     /\ r1.length > r2.length \/ r2.length > r1.length

Choose ==
  /\ apply_state = "choose" /\ k <= Len(detected)
  /\ best' = IF Before(detected[k].r, detected[best].r) THEN k ELSE best
  /\ k' = k + 1
  /\ UNCHANGED <<input, definitions, apply_errors, usable, apply_state, pass,
                 changed, tried, detected>>

\* Mutant of Instance: a name is generated without the pass.
InstanceSameName(md, r, token) ==
  CASE token.t = "INSERTION" ->
         r.matched[md.template_token_indices[IntOf(token.text) + 1] + 1]
    [] token.t = "TEMP_VAL" ->
         <<[token EXCEPT !.t = "ID",
              !.text = Generated(token.text, token.file,
                                 md.replacement[1].line, 0)]>>
    [] OTHER -> <<token>>

\* What a token of the replacement stands for.
Instance(md, r, token) ==
  CASE token.t = "INSERTION" ->
         r.matched[md.template_token_indices[IntOf(token.text) + 1] + 1]
    [] token.t = "TEMP_VAL" ->
         <<[token EXCEPT !.t = "ID",
              !.text = Generated(token.text, token.file,
                                 md.replacement[1].line, pass)]>>
    [] OTHER -> <<token>>

get_replacement(md, r) ==
  FlattenSeq([n \in DOMAIN md.replacement |->
                Instance(md, r, md.replacement[n])])

Chosen == detected[best]

\* Mutant of Spliced: one token too many is erased.
SplicedTooFar(r, replacement) ==
  SubSeq(input, 1, r.location) \o replacement
    \o SubSeq(input, r.location + r.length + 2, Len(input))

\* The stream before the match, a replacement, and the stream behind it.
Spliced(r, replacement) ==
  SubSeq(input, 1, r.location) \o replacement
    \o SubSeq(input, r.location + r.length + 1, Len(input))

Replacing == apply_state = "choose" /\ k > Len(detected)

Replace ==
  /\ Replacing
  /\ input' = Spliced(Chosen.r, get_replacement(Chosen.md, Chosen.r))
  /\ changed' = TRUE
  /\ pass' = pass + 1
  /\ apply_state' = "pass"
  /\ UNCHANGED <<definitions, apply_errors, usable, tried, k, detected, best>>

\* Every bin has been tried in vain.
Unchanged ==
  /\ apply_state = "bins" /\ Untried = {}
  /\ apply_state' = "done"
  /\ UNCHANGED <<input, definitions, apply_errors, usable, pass, changed, tried,
                 k, detected, best>>

ReachedMaxPasses == ErrorAt("MACRO_APPLY_REACHED_MAX_PASSES",
                            [file |-> "-", line |-> -1])

EndPasses ==
  /\ apply_state = "pass" /\ pass = Passes
  /\ apply_errors' = IF changed THEN Append(apply_errors, ReachedMaxPasses)
                      ELSE apply_errors
  /\ apply_state' = "done"
  /\ UNCHANGED <<input, definitions, usable, pass, changed, tried, k, detected,
                 best>>

ApplyNext ==
  \/ GetDetector \/ HaveDetectors \/ BeginPass \/ EnterBin
  \/ Detect \/ NothingDetected \/ BeginChoice \/ Choose \/ Replace
  \/ Unchanged \/ EndPasses

-----------------------------------------------------------------------------

LimitReached == \E n \in DOMAIN apply_errors : apply_errors[n] = ReachedMaxPasses

\* Unless the limit of passes is reported, the result is one that no macro
\* applies to any more: no bin was left out, and no match overlooked
\* (macro.cpp:493-541).
NormalFormOrError ==
  apply_state = "done" /\ ~ LimitReached =>
    \A n \in DOMAIN usable : Passes > 0 => ~ Detects(usable[n], input)

\* A match is replaced only if no macro of higher priority applies anywhere,
\* and none of the same priority further left (macro.cpp:496-523).
MostUrgent ==
  \A n \in DOMAIN usable :
    LET md == usable[n]
    IN  Detects(md, input) =>
          /\ md.priority <= Chosen.md.priority
          /\ md.priority = Chosen.md.priority =>
               Chosen.r.location <= Response(md, input).location
ReplacesMostUrgent == [][Replace => MostUrgent]_avars

\* The end-of-file token, at which every parser of the stream stops, is neither
\* taken by a match nor doubled by a replacement (macro.cpp:525-531).
InputEndsInEOF == apply_state # "idle" => EndsInEOF(input)

\* The names of temporaries in the replacement are none that any token of the
\* stream has: two expansions of one macro never share a temporary
\* (macro.cpp:458-467).
FreshNames ==
  LET md == Chosen.md
      names == {Instance(md, Chosen.r, md.replacement[n])[1].text :
                  n \in {i \in DOMAIN md.replacement :
                           md.replacement[i].t = "TEMP_VAL"}}
  IN  \A n \in DOMAIN input : input[n].text \notin names
NamesAreFresh == [][Replace => FreshNames]_avars

\* macro.cpp:513, of the match that is replaced: "get the leftest, longest
\* match".  Among the matches at the chosen place none is longer.
Longest ==
  Replacing =>
    \A n \in DOMAIN detected :
      detected[n].r.location = Chosen.r.location =>
        detected[n].r.length <= Chosen.r.length
=============================================================================
