------------------------------- MODULE MCMain -------------------------------
(***************************************************************************)
(* Main with the source texts of MCCodeGen.                                *)
(***************************************************************************)
EXTENDS Main, MCCodeGen

Semantics == INSTANCE Meaning WITH Limit <- 60

\* A frame has the values of env, and 0 for what env does not have.
Agrees(frame, env) ==
  /\ \A v \in Variables(frame) : v[2] = Semantics!Get(env, v[1])
  /\ DOMAIN env \subseteq {v[1] : v \in Variables(frame)}

\* A program that is printed shows the values its source computes, in each of
\* the activations that are left: jumps lead where the marks are, calls get and
\* return what they should, and no register is overwritten while it is needed.
ComputesMeaning ==
  main = "printed" =>
    LET meant == Semantics!MeaningOf(ast)
    IN  meant.how # "unknown" =>
          /\ Len(frames) = Len(meant.frames)
          /\ \A k \in DOMAIN frames : Agrees(frames[k], meant.frames[k])
=============================================================================
