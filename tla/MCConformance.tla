--------------------------- MODULE MCConformance ---------------------------
(***************************************************************************)
(* The conformance suite over small stores.                                *)
(***************************************************************************)
EXTENDS Conformance

\* Whatever a case may name, in every pass.
Minted ==
    (1..Passes) \X {"event-log", "ledger", "cancel", "context", "global", "overload",
                    "provenance", "durability", "concurrency", "conversation", "events"}
                \X (1..Slots)
=============================================================================
