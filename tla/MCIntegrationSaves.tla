------------------------- MODULE MCIntegrationSaves -------------------------
(* Instances of IntegrationSaves for TLC: saves, slots and pins are interchangeable. *)
EXTENDS IntegrationSaves, TLC

Symmetry == Permutations(Saver) \cup Permutations(Slot) \cup Permutations(Pin)
=============================================================================
