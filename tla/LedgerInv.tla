----------------------------- MODULE LedgerInv -----------------------------
(***************************************************************************)
(* The inductive invariant behind the ledger's promises.                   *)
(***************************************************************************)
EXTENDS Ledger

\* The queue never names an id twice, nor an id that was never produced.
QueueIsSound ==
    /\ \A i, j \in 1..Len(queued) : queued[i] = queued[j] => i = j
    /\ \A i \in 1..Len(queued) : queued[i] \in minted

\* Who may be where: a waiting response is in the queue and was granted to
\* nobody; a running one is at its first attempt, with its holder on record.
StatusMatchesHistory ==
    \A id \in Responses :
        /\ Exists(id) => id \in minted
        /\ records[id].status = "queued" =>
              /\ \E i \in 1..Len(queued) : queued[i] = id
              /\ records[id].attempt = 0
              /\ \A g \in granted : g.id # id
        /\ records[id].status = "in_progress" => records[id].attempt = 1
        /\ records[id].status \in InFlight => records[id].usage = 0

\* A grant names a produced id.
GrantsAreMinted == \A g \in granted : g.id \in minted

\* Every admitted key still points at the response it admitted.
KeysRemember == \A p \in admitted : idem[p[1]] = p[2]

\* The inductive invariant: it implies every safety invariant of the ledger.
LedgerInvariant ==
    /\ TypeOK
    /\ QueueIsSound
    /\ StatusMatchesHistory
    /\ GrantsAreMinted
    /\ RunningHasItsHolder
    /\ AtMostOneGrant
    /\ KeysRemember
=============================================================================
