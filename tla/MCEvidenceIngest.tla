-------------------------- MODULE MCEvidenceIngest --------------------------
(* Small instances of EvidenceIngest for TLC. *)
EXTENDS EvidenceIngest, TLC

CONSTANTS e1, e2, x, y, k1, k2, k3

M(e, content, key, superseded) ==
  [entity |-> e, content |-> content, idempotency_key |-> key,
   supersedes |-> superseded]

MCPuts == Clients \cup Uploads
MCKeys == {<<e1, x>>, <<e1, y>>, <<e2, x>>}

\* Two entities: two different contents for the first, a claim of its
\* idempotency key by the second, and two decisions that supersede one another.
MCManifests ==
  {M(e1, x, k1, NoEntity), M(e1, y, k2, NoEntity), M(e2, x, k1, NoEntity),
   M(e2, x, k3, e1), M(e1, y, k2, e2)}

Symmetric == Permutations(Clients)
=============================================================================
