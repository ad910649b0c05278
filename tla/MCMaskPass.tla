----------------------------- MODULE MCMaskPass -----------------------------
(***************************************************************************)
(* MaskPass for TLC: all graphs of three blocks; addresses of three bits,   *)
(* of which the mask keeps one.                                             *)
(***************************************************************************)
EXTENDS MaskPass

MCKinds == {<<>>, <<"plain">>, <<"m-ignore", "plain", "plain">>}

MCFacts == {[range |-> {0, 1}, zero |-> {2, 4}, max |-> 7],
            [range |-> {0, 1}, zero |-> {}, max |-> 1],
            [range |-> {2, 3}, zero |-> {4}, max |-> 3],
            [range |-> {1, 6}, zero |-> {}, max |-> 7]}

MCBuilds == {{}, {"DOMTREE"}, {"KNOWNBITS", "SCEV", "DOMTREE"}}
=============================================================================
