---------------------------- MODULE MCForwarder ----------------------------
(***************************************************************************)
(* Small instances of Forwarder for TLC: frames are model values, and the  *)
(* frames of a kind are interchangeable, except that an undecodable        *)
(* downlink is not a decodable one.  Symmetry is used for safety only.     *)
(***************************************************************************)
EXTENDS Forwarder, TLC

FrameSymmetry ==
  Permutations(Uplinks) \cup Permutations(Downlinks \ Undecodable)
=============================================================================
