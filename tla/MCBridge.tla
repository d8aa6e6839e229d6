------------------------------ MODULE MCBridge ------------------------------
(***************************************************************************)
(* Small instances of Bridge for TLC: the threads are model values, and    *)
(* interchangeable.                                                        *)
(***************************************************************************)
EXTENDS Bridge, TLC

ThreadSymmetry == Permutations(Threads)
=============================================================================
