------------------------------- MODULE MCBridge -------------------------------
(***************************************************************************)
(* The bridge on small chains.                                             *)
(***************************************************************************)
EXTENDS RecrawlInvariant

CONSTANTS k1, k2, k3

OneKey == {k1}

TwoKeys == {k1, k2}

ThreeKeys == {k1, k2, k3}

AllOps == {"create", "update", "delete"}

CreateOnly == {"create"}

AllSelected == {TRUE}
=============================================================================
