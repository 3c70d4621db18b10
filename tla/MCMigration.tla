------------------------------ MODULE MCMigration ------------------------------
(* Migration for TLC: two servers.                                          *)
EXTENDS Migration, TLC
CONSTANTS a, b
Symmetry == Permutations({a, b})
================================================================================
