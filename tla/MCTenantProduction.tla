------------------------- MODULE MCTenantProduction -------------------------
(* Instances of TenantProduction for TLC. *)
EXTENDS TenantProduction, TLC

CONSTANTS t1, t2, t3, g1, g2

TxnSymmetry == Permutations(Txns)
=============================================================================
