-------------------------- MODULE MCProviderBindings --------------------------
(* Instances of ProviderBindings for TLC: commands are interchangeable. *)
EXTENDS ProviderBindings, TLC

CONSTANTS p, q

\* p serves both API types, q one of them.
Aliases == p :> {1, 2} @@ q :> {1}

Symmetry == Permutations(Cmd)
=============================================================================
