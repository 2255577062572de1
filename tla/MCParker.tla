------------------------------ MODULE MCParker ------------------------------
(* Parker for TLC: one thread that parks and three that unpark it.         *)
EXTENDS Parker
=============================================================================
