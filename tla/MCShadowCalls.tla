---------------------------- MODULE MCShadowCalls ----------------------------
(***************************************************************************)
(* ShadowCalls for TLC.                                                    *)
(***************************************************************************)
EXTENDS ShadowCalls, TLC

Symmetry == Permutations(Sites)
=============================================================================
