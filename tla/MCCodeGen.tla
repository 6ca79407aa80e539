----------------------------- MODULE MCCodeGen -----------------------------
(***************************************************************************)
(* Source texts for model-checking CodeGen, as descriptors from which their *)
(* trees are built: the definitions the text starts with, a layout, and    *)
(* two statements, the first of them perhaps inside of loops.              *)
(***************************************************************************)
EXTENDS CodeGen

Static == INSTANCE StaticSemantics

V(at, v)   == Name(at, v)
One(at)    == Number(at, 1)
Two(at)    == Number(at, 2)
Run(at, f, vargs) == Call(Name(at, f), vargs)
OneArg(v)  == VargList(v, Null)

\* x := a value of each kind.
ValueOf(kind, at) ==
  CASE kind = "number"   -> One(at)
    [] kind = "copy"     -> V(at, "y")
    [] kind = "sum"      -> Increment(V(at, "x"), One(at))
    [] kind = "difference" -> Decrement(V(at, "x"), One(at))
    [] kind = "call"     -> Run(at, "f", OneArg(V(at, "x")))
    [] kind = "nested"   -> Run(at, "g", VargList(Run(at, "f", OneArg(One(at))),
                                                  OneArg(V(at, "x"))))
    [] kind = "noargs"   -> Run(at, "f", Null)
    [] kind = "notbuilt" -> Run(at, "__DEC__", VargList(One(at),
                                                       OneArg(V(at, "x"))))
    [] kind = "toolarge" -> Number(at, MaxWord)

ValueKinds == {"number", "copy", "sum", "difference", "call", "nested", "noargs",
               "notbuilt", "toolarge"}

Simple(kind, at, more) ==
  CASE kind = "stop" -> Stop(at, more)
    [] kind = "goto" -> Goto(Name(at, "a"), more)
    [] kind = "if"   -> IfGoto(V(at, "x"), One(at), Name(at, "a"), more)
    [] kind = "mark" -> Marked(Name(at, "a"), Assignment(V(at, "x"), One(at), more))
    [] OTHER         -> Assignment(V(at, "x"), ValueOf(kind, at), more)

SimpleKinds == ValueKinds \cup {"stop", "goto", "if", "mark"}

\* A statement that begins on line l of file m, wrapped in a loop or not; each
\* loop takes three lines, or everything stands on one line.
At1(layout, l) == At("m", IF layout = "lines" THEN l ELSE 1)

Statement(wrap, kind, layout, l, more) ==
  LET here == At1(layout, l)
      body == Simple(kind, At1(layout, l + 1), Null)
      end  == At1(layout, l + 2)
  IN  CASE wrap = "plain" -> Simple(kind, here, more)
        [] wrap = "loop"  -> Loop(V(here, "x"), body, end, more)
        [] wrap = "while" -> While(V(here, "x"), body, end, more)
        [] wrap = "loops" ->
             Loop(V(here, "x"), Loop(V(here, "x"), body, end, Null), end, more)

\* Definitions of f with one and of g with two parameters, the second of
\* which has a jump and a loop with a call, and what may follow them.
F(at, body, more) ==
  Program(Name(at, "f"), Ports(ArgList(Name(at, "a"), Null), Null), body,
          At(at.file, at.line + 1), more)
G(at, more) ==
  Program(Name(at, "g"),
          Ports(ArgList(Name(at, "a"), ArgList(Name(at, "b"), Null)),
                Name(at, "c")),
          Loop(V(At(at.file, at.line + 1), "b"),
               Assignment(V(at, "c"), Run(at, "f", OneArg(V(at, "a"))),
                          IfGoto(V(at, "c"), One(at), Name(at, "a"), Null)),
               At(at.file, at.line + 2),
               Stop(at, Marked(Name(at, "a"),
                               Assignment(V(at, "c"), V(at, "b"), Null)))),
          At(at.file, at.line + 2), more)

Copy(at) == Assignment(V(at, "x0"), V(at, "a"), Null)

Text(defs, main) ==
  CASE defs = "none" -> main
    [] defs = "f"    -> F(At("b", 1), Copy(At("b", 1)), main)
    [] defs = "fg"   -> F(At("b", 1), Copy(At("b", 2)), G(At("b", 4), main))
    [] defs = "selfcall" ->
         F(At("b", 1), Assignment(V(At("b", 2), "x0"),
                                  Run(At("b", 2), "f", OneArg(One(At("b", 2)))),
                                  Null), main)
    [] defs = "twice" ->
         F(At("b", 1), Copy(At("b", 2)), F(At("b", 1), Copy(At("b", 2)), main))

Tree(root) == [parsed_correctly |-> TRUE, errors |-> <<>>, root |-> root]

Generated == {"none", "f", "fg", "selfcall", "twice"}
  \X {"lines", "one"} \X {"plain", "loop", "while", "loops"} \X SimpleKinds
  \X SimpleKinds

TreeOf(s) ==
  LET first == At1(s[2], 1)
  IN  Tree(Text(s[1], Assignment(V(first, "x"), Two(first),
                        Statement(s[3], s[4], s[2], 2,
                                  Simple(s[5], At1(s[2], 5), Null)))))

-----------------------------------------------------------------------------
(* Trees to give to gen() that are not of the generated kind *)

Special == {"parse error", "malformed statement", "malformed value",
            "too large to subtract", "same parameter twice", "no ports",
            "definition on a used line"}

Here == At("m", 1)

SpecialTree(s) ==
  CASE s = "parse error" ->
         [parsed_correctly |-> FALSE, root |-> Null,
          errors |-> <<[t |-> "PARSE_ERROR", file |-> "m", line |-> 1]>>]
    [] s = "malformed statement" -> Tree(Split(Here, One(Here), Null))
    [] s = "malformed value" ->
         Tree(Assignment(V(Here, "x"), End(Here), Null))
    [] s = "too large to subtract" ->
         Tree(Assignment(V(Here, "x"),
                Decrement(V(Here, "x"), Number(Here, MaxWord + 1)), Null))
    [] s = "same parameter twice" ->
         Tree(Program(Name(Here, "f"),
                Ports(ArgList(Name(Here, "a"), ArgList(Name(Here, "a"), Null)),
                      Name(Here, "a")),
                Stop(Here, Null), Here,
                Assignment(V(Here, "x"),
                  Run(Here, "f", VargList(One(Here), OneArg(One(Here)))), Null)))
    [] s = "no ports" ->
         Tree(Program(Name(Here, "f"), Null, Stop(Here, Null), Here, Stop(Here, Null)))
    [] s = "definition on a used line" ->
         Tree(F(At("m", 1), Copy(At("m", 1)),
                F(At("b", 1), Copy(At("b", 1)),
                  F(At("m", 2), Copy(At("m", 3)), Stop(At("m", 5), Null)))))

-----------------------------------------------------------------------------

\* Texts on which no property is known to fail: not those with a parameter
\* twice, or with a definition on a line another one ends on.
MCSources ==
  {<<s>> : s \in {"parse error", "malformed statement", "malformed value",
                  "too large to subtract", "no ports"}}
    \cup Generated

SpecialSources == {<<s>> : s \in Special}

MCParsed == [s \in MCSources \cup SpecialSources |->
               IF Len(s) = 1 THEN SpecialTree(s[1]) ELSE TreeOf(s)]

RECURSIVE NodesOf(_), HasProgram(_)

NodesOf(n) ==
  IF n = Null THEN {} ELSE {n} \cup NodesOf(n.left) \cup NodesOf(n.right)

HasProgram(n) ==
  n # Null /\ (n.t = "PROGRAM" \/ HasProgram(n.left) \/ HasProgram(n.right))

MCSpine ==
  [s \in DOMAIN MCParsed |-> {n \in NodesOf(MCParsed[s].root) : HasProgram(n)}]
MCBodyNodes ==
  [s \in DOMAIN MCParsed |-> {n \in NodesOf(MCParsed[s].root) : ~ HasProgram(n)}]

RECURSIVE ParametersIn(_)

ParametersIn(n) ==
  CASE n = Null      -> {}
    [] n.t = "SPLIT" -> ParametersIn(n.left) \cup ParametersIn(n.right)
    [] OTHER         -> {n.tok}

ListsOf(s) ==
  {Null} \cup UNION {NodesOf(n.left.right.left) :
                      n \in {m \in MCSpine[s] : m.t = "PROGRAM" /\ m.left.right # Null}}

\* The condition on parameters holds of texts, whatever else is wrong with them.
ASSUME ParametersOfTexts ==
  \A s \in MCSources : ParametersDiffer(s, [n \in ListsOf(s) |-> ParametersIn(n)])

\* The generator reports an error exactly for the trees that are not legal:
\* nothing wrong is compiled silently, and nothing right is refused, whatever
\* was compiled before (gen.cpp:88-99, 139-145, 199-216, 385-391, 436-450).
ErrorsAreDeserved ==
  outcome = "returned" => (gs.errors = <<>> <=> Static!Legal(ast))

\* In a program that compiles, a debugger can stop at every line that has a
\* statement or an END on it, except lines on which a definition starts
\* (gen.cpp:110-127, 167-179, the list of breakpoints in gen_test.cpp:94-97).
LinesCanStop ==
  Succeeded =>
    Static!StatementLines(ast.root) \ Static!DefinitionLines(ast.root)
      \subseteq DOMAIN gs.potential_breaks
=============================================================================
