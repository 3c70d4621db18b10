------------------------------- MODULE MCModules -------------------------------
(* Modules for TLC.                                                          *)
EXTENDS Modules
================================================================================
