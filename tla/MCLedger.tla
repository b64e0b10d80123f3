------------------------------ MODULE MCLedger ------------------------------
(***************************************************************************)
(* Small instances of the ledger under arbitrary callers.                  *)
(***************************************************************************)
EXTENDS LedgerInv, TLC

\* Ids, agents, keys and tenants are only ever compared, and no property of the run is
\* a liveness property, so permuting them is sound.
LedgerSymmetry ==
    Permutations(Responses) \cup Permutations(Agents)
        \cup Permutations(Keys) \cup Permutations(Tenants)
=============================================================================
