--------------------------- MODULE MCGroupCommit ---------------------------
(* Instances of GroupCommit for TLC. *)
EXTENDS GroupCommit, TLC

CallSymmetry == Permutations(Call \ Unframeable) \cup Permutations(Ckpt)

=============================================================================
