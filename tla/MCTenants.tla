----------------------------- MODULE MCTenants -----------------------------
(* TLC instances of Tenants. *)
EXTENDS Tenants, TLC

TenantSymmetry == Permutations(Tenant)
=============================================================================
