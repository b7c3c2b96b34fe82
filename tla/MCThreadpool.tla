---------------------------- MODULE MCThreadpool ----------------------------
(* TLC instances of Threadpool; the .cfg files give the constants values.  *)
EXTENDS Threadpool, TLC

MCSymmetry == Permutations(Users) \cup Permutations(Workers) \cup Permutations(Jobs)

=============================================================================
