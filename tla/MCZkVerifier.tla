---------------------------- MODULE MCZkVerifier ----------------------------
\* Two users, two circuits, the last id, which none may have, and five proofs:
\* q1 and q2 are two splits of the same bytes (one nullifier), q3 and q4 two
\* more, bad has an empty component.
EXTENDS ZkVerifier

CONSTANTS q1, q2, q3, q4, bad, h12, h3, h4, hbad

MCProof == {q1, q2, q3, q4, bad}
MCWellFormed == MCProof \ {bad}
MCDigest == [p \in MCProof |-> CASE p \in {q1, q2} -> h12
                                 [] p = q3 -> h3
                                 [] p = q4 -> h4
                                 [] p = bad -> hbad]
MCInputs == {<<>>, <<"score">>}
=============================================================================
