---------------------------- MODULE EventLoopMC ----------------------------
(***************************************************************************)
(* Instances of EventLoop for TLC: descriptors as small numbers, two       *)
(* clients that may be exchanged (no temporal property is checked with     *)
(* the symmetry).                                                          *)
(***************************************************************************)
EXTENDS EventLoopProperties, TLC

ClientSymmetry == Permutations(Clients)
=============================================================================
