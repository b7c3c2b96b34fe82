------------------------------ MODULE MCClient ------------------------------
(* TLC instances of Client; the .cfg files give the constants values.      *)
EXTENDS Client, TLC

\* Nothing tells one accepted client, or one worker, from another.
Symmetry == Permutations(Accepted) \cup Permutations(Workers)

=============================================================================
