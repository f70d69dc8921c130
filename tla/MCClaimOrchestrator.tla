------------------------ MODULE MCClaimOrchestrator ------------------------
\* The admin is a player too, shares two achievements with p1, who administers
\* the registry.  Proofs q1 and q2 have one nullifier, q3 another, bad has an
\* empty component.
EXTENDS ClaimOrchestrator

CONSTANTS adm, p1, q1, q2, q3, bad, h12, h3, hbad, a1, a2, n1, n2

MCAccount == {adm, p1}
MCProof == {q1, q2, q3, bad}
MCWellFormed == MCProof \ {bad}
MCDigest == [p \in MCProof |-> CASE p \in {q1, q2} -> h12
                                 [] p = q3 -> h3
                                 [] p = bad -> hbad]
MCInputs == {<<>>, <<"score">>}
MCUsernameOf == [p \in MCAccount |-> IF p = adm THEN n1 ELSE n2]
MCRepPerClaim == {-1, 0, 1}
MCMinted == [a \in MCAccount |-> IF a = adm THEN 3 ELSE 0]

Good == [player |-> p1, circuit |-> 0, proof |-> q1, inputs |-> <<"score">>,
         achievement |-> a1, amount |-> 1, badgeType |-> 0, auth |-> MCAccount]

\* Every player, proof and achievement, and each way a request can be wrong.
MCRequests ==
    {[Good EXCEPT !.player = p, !.proof = q, !.achievement = a] :
        p \in MCAccount, q \in MCWellFormed, a \in {a1, a2}}
    \cup {[Good EXCEPT !.proof = bad], [Good EXCEPT !.inputs = <<>>],
          [Good EXCEPT !.circuit = 1], [Good EXCEPT !.badgeType = 1],
          [Good EXCEPT !.amount = 0], [Good EXCEPT !.amount = 3],
          [Good EXCEPT !.auth = {p1}], [Good EXCEPT !.auth = {adm}],
          [Good EXCEPT !.player = adm, !.auth = {adm}]}
MCRetried == {Good}
=============================================================================
