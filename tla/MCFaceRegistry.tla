--------------------------- MODULE MCFaceRegistry ---------------------------
(***************************************************************************)
(* The instance of FaceRegistry for TLC.  Users are interchangeable.       *)
(***************************************************************************)
EXTENDS FaceRegistry, TLC

CONSTANTS u1, u2

Users == Permutations({u1, u2})
=============================================================================
