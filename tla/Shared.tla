------------------------------- MODULE Shared -------------------------------
(***************************************************************************)
(* What the three adapters share: the ids they exchange and the read-only  *)
(* flag of the one MemStore behind them (verify/mock/server/src/store.rs). *)
(***************************************************************************)
CONSTANTS
    Responses,      \* response ids
    Tenants,
    None            \* the absent value of an Option

ASSUME SharedConstants == None \notin Responses /\ None \notin Tenants

VARIABLE readOnly   \* the read-only degrade (INV-32)
=============================================================================
