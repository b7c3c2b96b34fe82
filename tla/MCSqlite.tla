------------------------------ MODULE MCSqlite ------------------------------
(* The TLC instance of Sqlite; the .cfg gives the constants values.        *)
EXTENDS Sqlite, TLC

MCSymmetry == Permutations(Threads) \cup Permutations(Stmts) \cup Permutations(Params)

=============================================================================
