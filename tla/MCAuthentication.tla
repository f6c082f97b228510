--------------------------- MODULE MCAuthentication ---------------------------
(***************************************************************************)
(* Instances of Authentication for TLC.                                    *)
(***************************************************************************)
EXTENDS Authentication, TLC

CONSTANTS c1, c2

Symmetry == Permutations(Challenge)
=============================================================================
