------------------------------- MODULE MCAudit -------------------------------
(***************************************************************************)
(* The audit and paranoid mode on a small chain.                           *)
(***************************************************************************)
EXTENDS Audit, TLC

CONSTANT k1

OneKey == {k1}

AllOps == {"create", "update", "delete"}

AllSelected == {TRUE}

Both == {"primary", "backup"}
=============================================================================
