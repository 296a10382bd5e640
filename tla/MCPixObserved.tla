---------------------------- MODULE MCPixObserved ----------------------------
(* Instances of PixObserved for TLC: those of MCPixGraph, watched *)
EXTENDS MCPixGraph, PixObserved
=============================================================================
