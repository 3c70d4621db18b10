------------------------------ MODULE MCConnPool ------------------------------
(* ConnPool for TLC.  Connections are taken in any order, and closed ones    *)
(* come back as new ones, so five addresses are enough for two initdb calls. *)
EXTENDS ConnPool
==============================================================================
