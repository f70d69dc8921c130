----------------------------- MODULE ZkVerifier -----------------------------
(***************************************************************************)
(* zk_verifier: an admin registers circuits, users have proofs checked     *)
(* against them, and the nullifier of a checked proof is spent for good.   *)
(*                                                                         *)
(* A proof is a model value.  The cryptography is a stub in the code       *)
(* (verify_proof_internal only repeats that no component is empty), so     *)
(* WellFormed is all there is to validity.  A nullifier is the SHA-256 of  *)
(* the three components concatenated: Digest maps a proof to it, and is    *)
(* not injective, since two splits of the same bytes share a nullifier.    *)
(***************************************************************************)
EXTENDS Integers, Sequences, FiniteSets

CONSTANTS
    Account,        \* addresses that can sign
    NoAdmin,        \* value of admin before initialize
    Proof,          \* what a user may submit
    WellFormed,     \* the proofs none of whose components is empty
    Digest,         \* [Proof -> nullifiers]
    Inputs,         \* public inputs: sequences, the empty one included
    MaxU32          \* largest u32

CircuitId == 0 .. MaxU32
Nullifier == {Digest[p] : p \in Proof}

ASSUME ZkAssumption ==
    /\ NoAdmin \notin Account
    /\ WellFormed \subseteq Proof
    /\ DOMAIN Digest = Proof
    /\ MaxU32 \in Nat

VARIABLES
    admin,          \* DataKey::Admin
    nextCircuitId,  \* DataKey::NextCircuitId
    circuit,        \* DataKey::VerifyingKey: absent, or its active flag
    spent,          \* DataKey::Nullifier
    userRecords     \* DataKey::UserRecords, in the order they were pushed

vars == <<admin, nextCircuitId, circuit, spent, userRecords>>

Record == [circuit_id : CircuitId, proof_hash : Nullifier]

TypeOK ==
    /\ admin \in Account \cup {NoAdmin}
    /\ nextCircuitId \in 0 .. MaxU32
    /\ circuit \in [CircuitId -> {"absent", "active", "inactive"}]
    /\ spent \in SUBSET Nullifier
    /\ userRecords \in [Account -> Seq(Record)]

Init ==
    /\ admin = NoAdmin
    /\ nextCircuitId = 0
    /\ circuit = [c \in CircuitId |-> "absent"]
    /\ spent = {}
    /\ userRecords = [a \in Account |-> <<>>]

-----------------------------------------------------------------------------
RequireAdmin(auth) == admin # NoAdmin /\ admin \in auth

Initialize(auth, a) ==
    /\ admin = NoAdmin
    /\ a \in auth
    /\ admin' = a
    /\ nextCircuitId' = 0
    /\ UNCHANGED <<circuit, spent, userRecords>>

\* A mutation of register_circuit that lets the id counter run over.
MutRegisterCircuit(auth, vkLen) ==
    /\ RequireAdmin(auth)
    /\ vkLen > 0
    /\ circuit' = [circuit EXCEPT ![nextCircuitId] = "active"]
    /\ nextCircuitId' = nextCircuitId + 1
    /\ UNCHANGED <<admin, spent, userRecords>>

\* A mutation whose counter stays at its end.
MutSaturating(auth, vkLen) ==
    /\ RequireAdmin(auth)
    /\ vkLen > 0
    /\ circuit' = [circuit EXCEPT ![nextCircuitId] = "active"]
    /\ nextCircuitId' = IF nextCircuitId < MaxU32 THEN nextCircuitId + 1 ELSE MaxU32
    /\ UNCHANGED <<admin, spent, userRecords>>

\* The key is stored first; id + 1 then panics on overflow and undoes that, so
\* that the last u32 is never used as an id.
RegisterCircuit(auth, vkLen) ==
    /\ RequireAdmin(auth)
    /\ vkLen > 0
    /\ nextCircuitId < MaxU32
    /\ circuit' = [circuit EXCEPT ![nextCircuitId] = "active"]
    /\ nextCircuitId' = nextCircuitId + 1
    /\ UNCHANGED <<admin, spent, userRecords>>

DeactivateCircuit(auth, c) ==
    /\ RequireAdmin(auth)
    /\ circuit[c] # "absent"
    /\ circuit' = [circuit EXCEPT ![c] = "inactive"]
    /\ UNCHANGED <<admin, nextCircuitId, spent, userRecords>>

\* The query of that name; verify makes the same check itself.
is_nullifier_used(nullifier) == nullifier \in spent

\* A mutation that looks the proof up among the user's own records only.
MutUnspent(user, proof) ==
    \A i \in DOMAIN userRecords[user] :
        userRecords[user][i].proof_hash # Digest[proof]

Unspent(user, proof) == ~is_nullifier_used(Digest[proof])

Accepting(c) == circuit[c] = "active"

\* A mutation that spends the nullifier of proofs of the first circuit only.
MutSpend(c, proof) ==
    spent' = IF c = 0 THEN spent \cup {Digest[proof]} ELSE spent

Spend(c, proof) == spent' = spent \cup {Digest[proof]}

\* verify needs the user's signature only, and may be called directly as well
\* as by the claim orchestrator: either way the proof is spent.
Verify(auth, user, c, proof, inputs) ==
    /\ user \in auth
    /\ Accepting(c)
    /\ proof \in WellFormed
    /\ inputs # <<>>
    /\ Unspent(user, proof)
    /\ Spend(c, proof)
    /\ userRecords' = [userRecords EXCEPT ![user] =
           Append(@, [circuit_id |-> c, proof_hash |-> Digest[proof]])]
    /\ UNCHANGED <<admin, nextCircuitId, circuit>>

Next ==
    \E s \in Account :
        \/ \E a \in Account : Initialize({s}, a)
        \/ \E vkLen \in 0 .. 1 : RegisterCircuit({s}, vkLen)
        \/ \E c \in CircuitId : DeactivateCircuit({s}, c)
        \/ \E user \in Account, c \in CircuitId, proof \in Proof,
              inputs \in Inputs : Verify({s}, user, c, proof, inputs)

Spec == Init /\ [][Next]_vars

-----------------------------------------------------------------------------
(***************************************************************************)
(* Replay protection: no nullifier stands in two records, of one user or   *)
(* of two, of one circuit or of two.                                       *)
(***************************************************************************)
ProofUsedOnce ==
    \A u, v \in Account :
        \A i \in DOMAIN userRecords[u], j \in DOMAIN userRecords[v] :
            userRecords[u][i].proof_hash = userRecords[v][j].proof_hash
                => u = v /\ i = j

(***************************************************************************)
(* The spent nullifiers are exactly those on record: a proof is neither    *)
(* burned without leaving a record nor recorded without being burned.      *)
(***************************************************************************)
SpentIsRecorded ==
    spent = UNION {{userRecords[u][i].proof_hash : i \in DOMAIN userRecords[u]}
                       : u \in Account}

(***************************************************************************)
(* The life of a circuit: it is registered under an id never used before,  *)
(* which the counter has passed then and never comes back to, not even at  *)
(* the end of the u32; no step makes it active again once it is inactive;  *)
(* and every new record is of a circuit that was active before the step.   *)
(***************************************************************************)
LifeCycleStep ==
    /\ nextCircuitId <= nextCircuitId'
    /\ \A c \in CircuitId :
           /\ circuit[c] = "inactive" => circuit'[c] = "inactive"
           /\ circuit[c] = "absent" /\ circuit'[c] # "absent"
                  => nextCircuitId <= c /\ c < nextCircuitId'
    /\ \A u \in Account : userRecords'[u] # userRecords[u] =>
           circuit[userRecords'[u][Len(userRecords'[u])].circuit_id] = "active"

CircuitLifeCycle == [][LifeCycleStep]_vars
=============================================================================
