------------------------- MODULE MCCredentialJournal -------------------------
(* Instances of CredentialJournal for TLC: commands are interchangeable.   *)
EXTENDS CredentialJournal, TLC

CommandSymmetry == Permutations(Op)
=============================================================================
