-------------------------- MODULE MCContextManager --------------------------
(***************************************************************************)
(* ContextManager for TLC.  Clients are interchangeable, and so are ids.   *)
(***************************************************************************)
EXTENDS ContextManager, TLC

Symmetry == Permutations(Clients) \cup Permutations(Ids)
=============================================================================
