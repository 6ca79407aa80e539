----------------------------- MODULE MCDebugger -----------------------------
(***************************************************************************)
(* Debugger with the programs MCTheoVM checks TheoVM on.                   *)
(***************************************************************************)
EXTENDS Debugger, MCTheoVM
=============================================================================
