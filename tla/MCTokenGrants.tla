---------------------------- MODULE MCTokenGrants ----------------------------
(* Instances of TokenGrants for TLC: slots, scopes and the actors of a kind *)
(* are interchangeable.                                                     *)
EXTENDS TokenGrants, TLC

ActorSymmetry ==
    Permutations(Slot) \cup Permutations(Scope) \cup Permutations(Saver)
        \cup Permutations(Acquirer) \cup Permutations(Validator)
=============================================================================
