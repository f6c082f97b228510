---------------------------- MODULE MCSharedChip ----------------------------
(***************************************************************************)
(* Instances of SharedChip for TLC.                                        *)
(***************************************************************************)
EXTENDS SharedChip

CONSTANTS c1, c2

FieldSets == SUBSET Field
=============================================================================
