------------------------------- MODULE Meaning -------------------------------
(***************************************************************************)
(* What a program computes, said of its tree alone: the values of its      *)
(* variables when it ends or stops, by recursion over its statements.  A   *)
(* call is a value; there is no code, and there are no registers.          *)
(*                                                                         *)
(* A block in the middle of its execution is a list of what is still to be *)
(* done.  What is to be done behind a mark is known from the tree, so a    *)
(* jump just replaces the list.                                            *)
(***************************************************************************)
EXTENDS StaticSemantics, Integers, Sequences

CONSTANT Limit    \* of the steps of a block; what takes more stays unknown

\* A variable that has no value yet is 0.
Get(env, name) == IF name \in DOMAIN env THEN env[name] ELSE 0

Value(v)       == [how |-> "value", value |-> v]
Ends(env)      == [how |-> "end", frames |-> <<env>>]
Stops(frames)  == [how |-> "stop", frames |-> frames]

\* Too many steps, or a sum that no int holds.
Unknown == [how |-> "unknown"]

RECURSIVE Items(_)
Items(n) == CASE n.t = "NULL"  -> <<>>
              [] n.t = "SPLIT" -> Items(n.left) \o Items(n.right)
              [] OTHER         -> <<n>>

\* The end of the body of a loop, where it is counted.
Next(loop) == [t |-> "NEXT", loop |-> loop]

\* The marks in n, where k is to be done behind n, with what is to be done
\* behind each of them.
RECURSIVE Marks(_, _)
Marks(n, k) ==
  CASE n.t = "SPLIT" -> Marks(n.left, <<n.right>> \o k) \o Marks(n.right, k)
    [] n.t = "LOOP"  -> Marks(n.right, <<Next(n)>> \o k)
    [] n.t = "WHILE" -> Marks(n.right, <<n>> \o k)
    [] n.t = "MARK"  -> <<[name |-> n.left.tok, todo |-> k]>>
    [] OTHER         -> <<>>

\* Of two marks with one name the last one counts.
Behind(block, name) ==
  LET marks == SelectSeq(Marks(block, <<>>), LAMBDA m : m.name = name)
  IN  marks[Len(marks)].todo

\* The iterations a loop at its end has still to go: a loop that is jumped
\* into goes on as it was left, and with none if it never began.
Left(c, place) == IF place \in DOMAIN c.counts THEN c.counts[place] ELSE 0

Counting(c, place, count, k) ==
  [c EXCEPT !.counts = (place :> count) @@ @,
            !.todo = IF count = 0 THEN k
                     ELSE <<place.loop.right, Next(place.loop)>> \o k]

RECURSIVE ValueOf(_, _, _), Steps(_, _, _, _)

\* The value of n, or how it came that there is none.
ValueOf(n, env, programs) ==
  LET given == Items(n.right)
      args  == [k \in DOMAIN given |-> ValueOf(given[k], env, programs)]
      fails == {k \in DOMAIN args : args[k].how # "value"}
      x     == args[1].value
      int   == args[2].value
      p     == programs[n.left.tok]
      names == Items(p.node.left.right.left)
      out   == p.node.left.right.right
      ended == Steps([todo |-> <<p.node.right>>, counts |-> <<>>,
                      env |-> [a \in {names[k].tok : k \in DOMAIN names} |->
                                 args[CHOOSE k \in DOMAIN names : names[k].tok = a].value]],
                     p.node.right, p.programs, Limit)
  IN  CASE n.t = "NAME"   -> Value(Get(env, n.tok))
        [] n.t = "NUMBER" -> Value(n.tok)
        [] n.t = "CALL" /\ fails # {} ->
             args[CHOOSE k \in fails : \A l \in fails : k <= l]
        [] n.t = "CALL" /\ fails = {} /\ Builtin(n) ->
             IF n.left.tok = "__DEC__" THEN Value(IF x < int THEN 0 ELSE x - int)
             ELSE IF x + int > MaxWord THEN Unknown ELSE Value(x + int)
        [] n.t = "CALL" /\ fails = {} /\ ~ Builtin(n) ->
             IF ended.how = "end"
               THEN Value(Get(ended.frames[1], IF out = Null THEN "x0" ELSE out.tok))
               ELSE ended

\* From a configuration c of block: what is to be done, the variables, and how
\* far the loops are, each named by where it is.
Steps(c, block, programs, limit) ==
  LET n == c.todo[1]
      k == SubSeq(c.todo, 2, Len(c.todo))
      Go(d)    == Steps(d, block, programs, limit - 1)
      Do(todo) == Go([c EXCEPT !.todo = todo])
      \* Then, with the value of m, unless that has none.
      With(m, Then(_)) ==
        LET r == ValueOf(m, c.env, programs)
        IN  CASE r.how = "value" -> Then(r.value)
              [] r.how = "stop"  -> Stops(<<c.env>> \o r.frames)
              [] OTHER           -> Unknown
      Place(loop) == [loop |-> loop, todo |-> k]
  IN  CASE c.todo = <<>>      -> Ends(c.env)
        [] c.todo # <<>> /\ limit = 0 -> Unknown
        [] OTHER ->
    CASE n.t \in {"NULL", "MARK"} -> Do(k)
      [] n.t = "SPLIT" -> Do(<<n.left, n.right>> \o k)
      [] n.t = "STOP"  -> Stops(<<c.env>>)
      [] n.t = "GOTO"  -> Do(Behind(block, n.left.tok))
      [] n.t = "IF"    ->
           With(n.left.left, LAMBDA v1 : With(n.left.right, LAMBDA v2 :
             Do(IF v1 = v2 THEN Behind(block, n.right.left.tok) ELSE k)))
      [] n.t = "WHILE" ->
           With(n.left, LAMBDA v : Do(IF v = 0 THEN k ELSE <<n.right, n>> \o k))
      [] n.t = "ASSIGN" ->
           With(n.right, LAMBDA v :
             Go([c EXCEPT !.todo = k, !.env = (n.left.tok :> v) @@ @]))
      [] n.t = "LOOP"  ->
           With(n.left, LAMBDA v : Go(Counting(c, Place(n), v, k)))
      [] n.t = "NEXT"  ->
           LET left == Left(c, Place(n.loop))
           IN  Go(Counting(c, Place(n.loop), IF left = 0 THEN 0 ELSE left - 1, k))

\* A program runs those defined before it, and of two with one name the later.
RECURSIVE MeaningFrom(_, _)
MeaningFrom(n, programs) ==
  IF IsDefinition(n)
    THEN LET defined == [node |-> n.left, programs |-> programs]
         IN  MeaningFrom(n.right, (n.left.left.left.tok :> defined) @@ programs)
    ELSE Steps([todo |-> <<n>>, env |-> <<>>, counts |-> <<>>], n, programs, Limit)

MeaningOf(ast) == MeaningFrom(ast.root, <<>>)
=============================================================================
