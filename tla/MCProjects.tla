----------------------------- MODULE MCProjects -----------------------------
(***************************************************************************)
(* Projects for TLC: tokens and handlers are interchangeable.              *)
(***************************************************************************)
EXTENDS Projects, TLC

Symmetry == Permutations(Tokens) \union Permutations(Handlers)
=============================================================================
