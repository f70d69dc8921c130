-------------------------- MODULE ZkVerifierProofs --------------------------
(***************************************************************************)
(* The properties of ZkVerifier, for every set of users and proofs, every  *)
(* Digest, injective or not, and every width of the circuit counter.       *)
(*                                                                         *)
(* ProofUsedOnce alone is not inductive: a step that accepts a proof must  *)
(* know that a nullifier which is not spent is on no record, and that is   *)
(* SpentIsRecorded.  The two with TypeOK are.                              *)
(***************************************************************************)
EXTENDS ZkVerifier, SequenceTheorems, TLAPS

(***************************************************************************)
(* A record pushed at the end leaves the others where they were.           *)
(***************************************************************************)
LEMMA PushedRecord ==
    ASSUME NEW s \in Seq(Record), NEW r \in Record
    PROVE  /\ Append(s, r) \in Seq(Record)
           /\ DOMAIN s = 1 .. Len(s) /\ Len(s) \in Nat
           /\ Len(Append(s, r)) = Len(s) + 1
           /\ DOMAIN Append(s, r) = 1 .. Len(s) + 1
           /\ Append(s, r)[Len(s) + 1] = r
           /\ \A i \in DOMAIN s : Append(s, r)[i] = s[i]
OBVIOUS

(***************************************************************************)
(* What verify does to the records, seen record by record: the n-th of     *)
(* user is new.                                                            *)
(***************************************************************************)
Recorded(user, c, proof, n) ==
    /\ n \in Nat \ {0}
    /\ DOMAIN userRecords[user] = 1 .. n - 1
    /\ DOMAIN userRecords'[user] = 1 .. n
    /\ Len(userRecords'[user]) = n
    /\ userRecords'[user][n].circuit_id = c
    /\ userRecords'[user][n].proof_hash = Digest[proof]
    /\ \A i \in 1 .. n - 1 : userRecords'[user][i] = userRecords[user][i]
    /\ \A u \in Account \ {user} : userRecords'[u] = userRecords[u]

LEMMA VerifyEffect ==
    ASSUME TypeOK, NEW auth, NEW user \in Account, NEW c \in CircuitId,
           NEW proof \in Proof, NEW inputs, Verify(auth, user, c, proof, inputs)
    PROVE  /\ userRecords' \in [Account -> Seq(Record)]
           /\ \E n \in Nat : Recorded(user, c, proof, n)
<1> DEFINE r == [circuit_id |-> c, proof_hash |-> Digest[proof]]
<1>1. r \in Record
  BY DEF Record, Nullifier
<1>2. userRecords \in [Account -> Seq(Record)]
  BY DEF TypeOK
<1>3. userRecords' = [userRecords EXCEPT ![user] = Append(@, r)]
  BY DEF Verify
<1> HIDE DEF r
<1>4. userRecords'[user] = Append(userRecords[user], r)
      /\ \A u \in Account \ {user} : userRecords'[u] = userRecords[u]
  BY <1>2, <1>3
<1>5. /\ Append(userRecords[user], r) \in Seq(Record)
      /\ DOMAIN userRecords[user] = 1 .. Len(userRecords[user])
      /\ Len(userRecords[user]) \in Nat
      /\ Len(Append(userRecords[user], r)) = Len(userRecords[user]) + 1
      /\ DOMAIN Append(userRecords[user], r) = 1 .. Len(userRecords[user]) + 1
      /\ Append(userRecords[user], r)[Len(userRecords[user]) + 1] = r
      /\ \A i \in DOMAIN userRecords[user] :
             Append(userRecords[user], r)[i] = userRecords[user][i]
  BY <1>1, <1>2, PushedRecord
<1>6. userRecords' \in [Account -> Seq(Record)]
  BY <1>2, <1>3, <1>5
<1>7. r.circuit_id = c /\ r.proof_hash = Digest[proof]
  BY DEF r
<1>8. Recorded(user, c, proof, Len(userRecords[user]) + 1)
  BY <1>4, <1>5, <1>7 DEF Recorded
<1> QED BY <1>5, <1>6, <1>8

-----------------------------------------------------------------------------
(***************************************************************************)
(* The verifier before initialize has the types.                           *)
(***************************************************************************)
LEMMA InitType == Init => TypeOK
BY ZkAssumption DEF Init, TypeOK, CircuitId

(***************************************************************************)
(* Every step keeps the types: the guard of register_circuit bounds the    *)
(* counter, and verify only records circuits and nullifiers there are.     *)
(***************************************************************************)
LEMMA StepType == TypeOK /\ [Next]_vars => TypeOK'
<1> SUFFICES ASSUME TypeOK, [Next]_vars PROVE TypeOK'
  OBVIOUS
<1> USE ZkAssumption
<1>1. ASSUME NEW s \in Account, NEW a \in Account, Initialize({s}, a)
      PROVE  TypeOK'
  BY <1>1 DEF Initialize, TypeOK
<1>2. ASSUME NEW s \in Account, NEW vkLen \in 0 .. 1, RegisterCircuit({s}, vkLen)
      PROVE  TypeOK'
  BY <1>2 DEF RegisterCircuit, TypeOK, CircuitId
<1>3. ASSUME NEW s \in Account, NEW c \in CircuitId, DeactivateCircuit({s}, c)
      PROVE  TypeOK'
  BY <1>3 DEF DeactivateCircuit, TypeOK
<1>4. ASSUME NEW s \in Account, NEW user \in Account, NEW c \in CircuitId,
             NEW proof \in Proof, NEW inputs \in Inputs,
             Verify({s}, user, c, proof, inputs)
      PROVE  TypeOK'
  <2>1. userRecords' \in [Account -> Seq(Record)]
    BY <1>4, VerifyEffect
  <2>2. spent' \in SUBSET Nullifier
    BY <1>4 DEF Verify, Spend, Nullifier, TypeOK
  <2> QED BY <1>4, <2>1, <2>2 DEF Verify, TypeOK
<1>5. CASE UNCHANGED vars
  BY <1>5 DEF vars, TypeOK
<1> QED BY <1>1, <1>2, <1>3, <1>4, <1>5 DEF Next

(***************************************************************************)
(* Type correctness: ids stay below the end of the u32, and every record   *)
(* is of a circuit id and a nullifier there can be.                        *)
(***************************************************************************)
THEOREM TypeCorrect == Spec => []TypeOK
<1> QED BY InitType, StepType, PTL DEF Spec

-----------------------------------------------------------------------------
(***************************************************************************)
(* Only verify spends, and it records what it spends.                      *)
(***************************************************************************)
LEMMA StepRecorded == TypeOK /\ SpentIsRecorded /\ [Next]_vars => SpentIsRecorded'
<1> SUFFICES ASSUME TypeOK, SpentIsRecorded, [Next]_vars PROVE SpentIsRecorded'
  OBVIOUS
<1>1. ASSUME NEW s \in Account, NEW user \in Account, NEW c \in CircuitId,
             NEW proof \in Proof, NEW inputs \in Inputs,
             Verify({s}, user, c, proof, inputs)
      PROVE  SpentIsRecorded'
  <2>0. PICK n \in Nat : Recorded(user, c, proof, n)
    BY <1>1, VerifyEffect
  <2> DEFINE Old == {userRecords[user][i].proof_hash : i \in DOMAIN userRecords[user]}
             New == {userRecords'[user][i].proof_hash : i \in DOMAIN userRecords'[user]}
  <2>1. spent' = spent \cup {Digest[proof]}
    BY <1>1 DEF Verify, Spend
  <2>2. New = Old \cup {Digest[proof]}
    <3>1. /\ DOMAIN userRecords[user] = 1 .. n - 1
          /\ DOMAIN userRecords'[user] = (1 .. n - 1) \cup {n}
          /\ userRecords'[user][n].proof_hash = Digest[proof]
          /\ \A i \in 1 .. n - 1 : userRecords'[user][i] = userRecords[user][i]
      BY <2>0 DEF Recorded
    <3> QED BY <3>1, Zenon
  <2>3. \A u \in Account \ {user} : userRecords'[u] = userRecords[u]
    BY <2>0 DEF Recorded
  <2> QED BY <2>1, <2>2, <2>3 DEF SpentIsRecorded
<1>2. CASE UNCHANGED <<spent, userRecords>>
  BY <1>2 DEF SpentIsRecorded
<1> QED BY <1>1, <1>2
        DEF Next, vars, Initialize, RegisterCircuit, DeactivateCircuit

(***************************************************************************)
(* Nullifiers are spent exactly when a record names them.                  *)
(***************************************************************************)
THEOREM SpendingIsRecorded == Spec => []SpentIsRecorded
<1>1. Init => TypeOK /\ SpentIsRecorded
  BY InitType DEF Init, SpentIsRecorded
<1>2. TypeOK /\ SpentIsRecorded /\ [Next]_vars => (TypeOK /\ SpentIsRecorded)'
  BY StepType, StepRecorded
<1> QED BY <1>1, <1>2, PTL DEF Spec

-----------------------------------------------------------------------------
(***************************************************************************)
(* verify accepts a nullifier that is not spent, hence on no record, so    *)
(* that the new record differs from all others.                            *)
(***************************************************************************)
LEMMA StepUsedOnce ==
    TypeOK /\ SpentIsRecorded /\ ProofUsedOnce /\ [Next]_vars => ProofUsedOnce'
<1> SUFFICES ASSUME TypeOK, SpentIsRecorded, ProofUsedOnce, [Next]_vars
             PROVE  ProofUsedOnce'
  OBVIOUS
<1>1. ASSUME NEW s \in Account, NEW user \in Account, NEW c \in CircuitId,
             NEW proof \in Proof, NEW inputs \in Inputs,
             Verify({s}, user, c, proof, inputs)
      PROVE  ProofUsedOnce'
  <2>0. PICK n \in Nat : Recorded(user, c, proof, n)
    BY <1>1, VerifyEffect
  <2> DEFINE IsNew(u, i) == u = user /\ i = n
  <2>1. \A u \in Account : \A i \in DOMAIN userRecords[u] :
            userRecords[u][i].proof_hash # Digest[proof]
    BY <1>1 DEF Verify, Unspent, is_nullifier_used, SpentIsRecorded
  <2>2. userRecords'[user][n].proof_hash = Digest[proof]
    BY <2>0 DEF Recorded
  <2>3. \A u \in Account : \A i \in DOMAIN userRecords'[u] : ~IsNew(u, i) =>
            /\ i \in DOMAIN userRecords[u]
            /\ userRecords'[u][i] = userRecords[u][i]
    BY <2>0 DEF Recorded
  <2>4. SUFFICES ASSUME NEW u \in Account, NEW v \in Account,
                        NEW i \in DOMAIN userRecords'[u], NEW j \in DOMAIN userRecords'[v],
                        userRecords'[u][i].proof_hash = userRecords'[v][j].proof_hash
                 PROVE  u = v /\ i = j
    BY DEF ProofUsedOnce
  <2>5. IsNew(u, i) <=> IsNew(v, j)
    BY <2>1, <2>2, <2>3, <2>4
  <2>6. CASE ~IsNew(u, i) /\ ~IsNew(v, j)
    BY <2>3, <2>4, <2>6 DEF ProofUsedOnce
  <2> QED BY <2>5, <2>6
<1>2. CASE UNCHANGED userRecords
  BY <1>2 DEF ProofUsedOnce
<1> QED BY <1>1, <1>2
        DEF Next, vars, Initialize, RegisterCircuit, DeactivateCircuit

(***************************************************************************)
(* Replay protection: whichever users, circuits and proofs with the same   *)
(* bytes are tried, a nullifier stands in one record at most.              *)
(***************************************************************************)
THEOREM NoReplay == Spec => []ProofUsedOnce
<1> DEFINE IInv == TypeOK /\ SpentIsRecorded /\ ProofUsedOnce
<1>1. Init => IInv
  BY InitType DEF Init, SpentIsRecorded, ProofUsedOnce
<1>2. IInv /\ [Next]_vars => IInv'
  BY StepType, StepRecorded, StepUsedOnce
<1> QED BY <1>1, <1>2, PTL DEF Spec

-----------------------------------------------------------------------------
(***************************************************************************)
(* A counter that names the next circuit: those at and above it are        *)
(* unused, so register_circuit never writes over an inactive one.          *)
(***************************************************************************)
FreshAbove == \A c \in CircuitId : c >= nextCircuitId => circuit[c] = "absent"

(***************************************************************************)
(* Before initialize, which sets the counter back, no circuit exists.      *)
(***************************************************************************)
NoneBefore == admin = NoAdmin => nextCircuitId = 0

(***************************************************************************)
(* Circuits are registered at the counter, which then moves past them.     *)
(***************************************************************************)
LEMMA StepFresh ==
    TypeOK /\ NoneBefore /\ FreshAbove /\ [Next]_vars => (NoneBefore /\ FreshAbove)'
<1> SUFFICES ASSUME TypeOK, NoneBefore, FreshAbove, [Next]_vars
             PROVE  (NoneBefore /\ FreshAbove)'
  OBVIOUS
<1> USE ZkAssumption DEF TypeOK, NoneBefore, FreshAbove, CircuitId
<1>1. ASSUME NEW s \in Account, NEW a \in Account, Initialize({s}, a)
      PROVE  (NoneBefore /\ FreshAbove)'
  BY <1>1 DEF Initialize
<1>2. ASSUME NEW s \in Account, NEW vkLen \in 0 .. 1, RegisterCircuit({s}, vkLen)
      PROVE  (NoneBefore /\ FreshAbove)'
  BY <1>2 DEF RegisterCircuit, RequireAdmin
<1>3. ASSUME NEW s \in Account, NEW c \in CircuitId, DeactivateCircuit({s}, c)
      PROVE  (NoneBefore /\ FreshAbove)'
  BY <1>3 DEF DeactivateCircuit
<1>4. CASE UNCHANGED <<admin, nextCircuitId, circuit>>
  BY <1>4
<1> QED BY <1>1, <1>2, <1>3, <1>4 DEF Next, vars, Verify

(***************************************************************************)
(* Every step of the verifier is one of the life of a circuit.             *)
(***************************************************************************)
LEMMA StepLifeCycle ==
    TypeOK /\ NoneBefore /\ FreshAbove /\ [Next]_vars => LifeCycleStep
<1> SUFFICES ASSUME TypeOK, NoneBefore, FreshAbove, [Next]_vars PROVE LifeCycleStep
  OBVIOUS
<1>0. nextCircuitId \in Nat
  BY ZkAssumption DEF TypeOK
<1>1. ASSUME NEW s \in Account, NEW a \in Account, Initialize({s}, a)
      PROVE  LifeCycleStep
  BY <1>0, <1>1 DEF Initialize, NoneBefore, LifeCycleStep
<1>2. ASSUME NEW s \in Account, NEW vkLen \in 0 .. 1, RegisterCircuit({s}, vkLen)
      PROVE  LifeCycleStep
  <2>1. circuit[nextCircuitId] = "absent"
    BY <1>0, <1>2, ZkAssumption DEF RegisterCircuit, FreshAbove, CircuitId
  <2> QED BY <1>0, <1>2, <2>1 DEF RegisterCircuit, LifeCycleStep, TypeOK
<1>3. ASSUME NEW s \in Account, NEW c \in CircuitId, DeactivateCircuit({s}, c)
      PROVE  LifeCycleStep
  BY <1>0, <1>3 DEF DeactivateCircuit, LifeCycleStep, TypeOK
<1>4. ASSUME NEW s \in Account, NEW user \in Account, NEW c \in CircuitId,
             NEW proof \in Proof, NEW inputs \in Inputs,
             Verify({s}, user, c, proof, inputs)
      PROVE  LifeCycleStep
  <2>0. PICK n \in Nat : Recorded(user, c, proof, n)
    BY <1>4, VerifyEffect
  <2>1. \A u \in Account \ {user} : userRecords'[u] = userRecords[u]
    BY <2>0 DEF Recorded
  <2>2. userRecords'[user][Len(userRecords'[user])].circuit_id = c
    BY <2>0 DEF Recorded
  <2>3. circuit[c] = "active" /\ UNCHANGED <<circuit, nextCircuitId>>
    BY <1>4 DEF Verify, Accepting
  <2> QED BY <1>0, <2>1, <2>2, <2>3 DEF LifeCycleStep
<1>5. CASE UNCHANGED vars
  BY <1>0, <1>5 DEF vars, LifeCycleStep
<1> QED BY <1>1, <1>2, <1>3, <1>4, <1>5 DEF Next

(***************************************************************************)
(* The counter only grows, and passes each circuit as it is registered;    *)
(* an inactive circuit stays inactive, and takes no more proofs.           *)
(***************************************************************************)
THEOREM CircuitsLiveOnce == Spec => CircuitLifeCycle
<1> DEFINE IInv == TypeOK /\ NoneBefore /\ FreshAbove
<1>1. Init => IInv
  BY InitType DEF Init, NoneBefore, FreshAbove
<1>2. IInv /\ [Next]_vars => IInv'
  BY StepType, StepFresh
<1>3. IInv /\ [Next]_vars => [LifeCycleStep]_vars
  BY StepLifeCycle
<1> QED BY <1>1, <1>2, <1>3, PTL DEF Spec, CircuitLifeCycle
=============================================================================
