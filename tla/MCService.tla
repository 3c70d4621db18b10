------------------------------ MODULE MCService ------------------------------
(* Service for TLC.  One initdb, whose two connections can both be lost.     *)
EXTENDS Service
==============================================================================
