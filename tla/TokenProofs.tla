---------------------------- MODULE TokenProofs ----------------------------
(***************************************************************************)
(* Facts about Total, the sum of an accounting function with finitely many *)
(* accounts (it is a natural number, 0 where all accounts are empty, and   *)
(* moves by exactly what one account moves by; it respects the order of    *)
(* the accounts, their scaling and their relabelling), about the products  *)
(* it is scaled by, and about the transfers of a token, which it is not    *)
(* changed by.                                                             *)
(***************************************************************************)
EXTENDS Token, FiniteSetTheorems, TLAPS

(***************************************************************************)
(* Products of natural numbers, which are not linear arithmetic.           *)
(***************************************************************************)
LEMMA Product ==
    ASSUME NEW m \in Nat, NEW n \in Nat
    PROVE  m * n \in Nat /\ m * (n + 1) = m * n + m
BY SMT

LEMMA ProductOrder ==
    ASSUME NEW m \in Nat, NEW b \in Nat, NEW c \in Nat, b <= c
    PROVE  m * b <= m * c
<1>1. m * (c - b) >= 0
  BY SMT
<1>2. m * (c - b) = m * c - m * b
  BY SMT
<1> QED BY <1>1, <1>2, Product

(***************************************************************************)
(* An account with n units contributes n to the sum.                       *)
(***************************************************************************)
LEMMA UnitsOfOne ==
    ASSUME NEW x, NEW n \in Nat
    PROVE  /\ IsFiniteSet({x} \X (1 .. n))
           /\ Cardinality({x} \X (1 .. n)) = n
<1>1. IsFiniteSet({x}) /\ Cardinality({x}) = 1
  BY FS_Singleton, Zenon
<1>2. IsFiniteSet(1 .. n) /\ Cardinality(1 .. n) = n
  BY FS_Interval
<1>3. /\ IsFiniteSet({x} \X (1 .. n))
      /\ Cardinality({x} \X (1 .. n)) = Cardinality({x}) * Cardinality(1 .. n)
  BY <1>1, <1>2, FS_Product
<1> QED BY <1>1, <1>2, <1>3

(***************************************************************************)
(* The units of finitely many bounded accounts are finite in number.       *)
(***************************************************************************)
LEMMA UnitsFinite ==
    ASSUME NEW S, IsFiniteSet(S), NEW M \in Nat, NEW f \in [S -> 0 .. M]
    PROVE  IsFiniteSet(Units(f)) /\ Total(f) \in Nat
<1>1. IsFiniteSet(S \X (1 .. M))
  <2>1. IsFiniteSet(1 .. M)
    BY FS_Interval
  <2> QED BY <2>1, FS_Product, Zenon
<1>2. Units(f) \subseteq S \X (1 .. M)
  BY DEF Units
<1>3. IsFiniteSet(Units(f))
  BY <1>1, <1>2, FS_Subset
<1> QED BY <1>3, FS_CardinalityType DEF Total

(***************************************************************************)
(* Adding an account with n units to a disjoint set of units adds n.       *)
(***************************************************************************)
LEMMA UnitsAdd ==
    ASSUME NEW R, IsFiniteSet(R), NEW x, NEW n \in Nat,
           R \cap ({x} \X (1 .. n)) = {}
    PROVE  Cardinality(R \cup ({x} \X (1 .. n))) = Cardinality(R) + n
<1> DEFINE U == {x} \X (1 .. n)
<1>1. IsFiniteSet(U) /\ Cardinality(U) = n
  BY UnitsOfOne
<1>2. Cardinality(R \cup U) = Cardinality(R) + Cardinality(U) - Cardinality(R \cap U)
  BY <1>1, FS_Union, Zenon
<1>3. Cardinality(R \cap U) = 0
  BY FS_EmptySet
<1>4. Cardinality(R) \in Nat
  BY FS_CardinalityType
<1> HIDE DEF U
<1>5. Cardinality(R \cup U) = Cardinality(R) + n
  BY <1>1, <1>2, <1>3, <1>4
<1> QED BY <1>5 DEF U

(***************************************************************************)
(* Empty accounts add up to 0.                                             *)
(***************************************************************************)
LEMMA TotalZero ==
    ASSUME NEW S
    PROVE  Total([x \in S |-> 0]) = 0
<1>1. Units([x \in S |-> 0]) = {}
  BY DEF Units
<1> QED BY <1>1, FS_EmptySet DEF Total

(***************************************************************************)
(* When two states of the accounts differ in one account at most, their    *)
(* sums differ by what that account does.                                  *)
(***************************************************************************)
LEMMA TotalChange ==
    ASSUME NEW S, IsFiniteSet(S), NEW M \in Nat,
           NEW f \in [S -> 0 .. M], NEW g \in [S -> 0 .. M], NEW x \in S,
           \A y \in S \ {x} : g[y] = f[y]
    PROVE  Total(g) = Total(f) - f[x] + g[x]
<1> DEFINE Rest == UNION {{y} \X (1 .. f[y]) : y \in S \ {x}}
<1>1. Units(f) = Rest \cup ({x} \X (1 .. f[x]))
  BY DEF Units
<1>2. Units(g) = Rest \cup ({x} \X (1 .. g[x]))
  BY DEF Units
<1>3. Rest \cap ({x} \X (1 .. f[x])) = {} /\ Rest \cap ({x} \X (1 .. g[x])) = {}
  OBVIOUS
<1>4. IsFiniteSet(Rest)
  <2>1. Rest \subseteq Units(f)
    BY <1>1
  <2> QED BY <2>1, UnitsFinite, FS_Subset
<1>5. f[x] \in Nat /\ g[x] \in Nat
  OBVIOUS
<1>6. Cardinality(Rest) \in Nat
  BY <1>4, FS_CardinalityType
<1> HIDE DEF Rest
<1>7. Cardinality(Units(f)) = Cardinality(Rest) + f[x]
  <2>1. Cardinality(Rest \cup ({x} \X (1 .. f[x]))) = Cardinality(Rest) + f[x]
    BY <1>3, <1>4, <1>5, UnitsAdd
  <2> QED BY <2>1, <1>1
<1>8. Cardinality(Units(g)) = Cardinality(Rest) + g[x]
  <2>1. Cardinality(Rest \cup ({x} \X (1 .. g[x]))) = Cardinality(Rest) + g[x]
    BY <1>3, <1>4, <1>5, UnitsAdd
  <2> QED BY <2>1, <1>2
<1> QED BY <1>5, <1>6, <1>7, <1>8 DEF Total

(***************************************************************************)
(* No account holds more than all of them.                                 *)
(***************************************************************************)
LEMMA TotalBound ==
    ASSUME NEW S, IsFiniteSet(S), NEW M \in Nat, NEW f \in [S -> 0 .. M], NEW x \in S
    PROVE  f[x] <= Total(f)
<1>1. IsFiniteSet(Units(f)) /\ Total(f) \in Nat
  BY UnitsFinite
<1>2. {x} \X (1 .. f[x]) \subseteq Units(f)
  BY DEF Units
<1>3. f[x] \in Nat
  OBVIOUS
<1>4. Cardinality({x} \X (1 .. f[x])) = f[x]
  BY <1>3, UnitsOfOne
<1>5. Cardinality({x} \X (1 .. f[x])) <= Cardinality(Units(f))
  BY <1>1, <1>2, FS_Subset
<1> QED BY <1>4, <1>5 DEF Total

(***************************************************************************)
(* What holds less, account by account, holds less in all.                 *)
(***************************************************************************)
LEMMA TotalMonotone ==
    ASSUME NEW S, IsFiniteSet(S), NEW M \in Nat, NEW f \in [S -> 0 .. M],
           NEW g \in [S -> 0 .. M], \A x \in S : f[x] <= g[x]
    PROVE  Total(f) <= Total(g)
<1>1. IsFiniteSet(Units(g))
  BY UnitsFinite
<1>2. Units(f) \subseteq Units(g)
  BY DEF Units
<1>3. Cardinality(Units(f)) <= Cardinality(Units(g))
  BY <1>1, <1>2, FS_Subset
<1> QED BY <1>3 DEF Total

(***************************************************************************)
(* Accounts that are not counted might as well be empty.                   *)
(***************************************************************************)
LEMMA TotalPadded ==
    ASSUME NEW S, NEW T, T \subseteq S, NEW f, DOMAIN f = T,
           NEW g, DOMAIN g = S, \A x \in T : g[x] = f[x], \A x \in S \ T : g[x] = 0
    PROVE  Total(f) = Total(g)
<1>1. Units(f) = Units(g)
  BY DEF Units
<1> QED BY <1>1 DEF Total

(***************************************************************************)
(* Accounts that are relabelled, no two with one label, hold no more than  *)
(* the accounts with those labels.                                         *)
(***************************************************************************)
LEMMA TotalRelabelled ==
    ASSUME NEW S, NEW T, IsFiniteSet(T), NEW M \in Nat,
           NEW f \in [S -> 0 .. M], NEW g \in [T -> 0 .. M], NEW label \in [S -> T],
           \A x, y \in S : label[x] = label[y] => x = y,
           \A x \in S : f[x] <= g[label[x]]
    PROVE  Total(f) <= Total(g)
<1> DEFINE relabel == [u \in Units(f) |-> <<label[u[1]], u[2]>>]
<1>1. IsFiniteSet(Units(g))
  BY UnitsFinite
<1>2. ASSUME NEW u \in Units(f)
      PROVE  u[1] \in S /\ u[2] \in 1 .. f[u[1]] /\ u = <<u[1], u[2]>>
  BY DEF Units
<1>3. ASSUME NEW x \in T, NEW k \in 1 .. g[x] PROVE <<x, k>> \in Units(g)
  BY DEF Units
<1>4. \A u \in Units(f) : <<label[u[1]], u[2]>> \in Units(g)
  <2> SUFFICES ASSUME NEW u \in Units(f) PROVE <<label[u[1]], u[2]>> \in Units(g)
    OBVIOUS
  <2>1. u[1] \in S /\ u[2] \in 1 .. f[u[1]]
    BY <1>2
  <2>2. label[u[1]] \in T /\ u[2] \in 1 .. g[label[u[1]]]
    BY <2>1
  <2> QED BY <1>3, <2>2
<1>5. \A u, v \in Units(f) : relabel[u] = relabel[v] => u = v
  BY <1>2
<1>6. relabel \in [Units(f) -> Units(g)]
  BY <1>4
<1> HIDE DEF relabel
<1>8. relabel \in Injection(Units(f), Units(g))
  BY <1>5, <1>6 DEF Injection, IsInjective
<1>7. Cardinality(Units(f)) <= Cardinality(Units(g))
  BY <1>1, <1>8, FS_Injection, Zenon
<1> QED BY <1>7 DEF Total

(***************************************************************************)
(* n times c units can be numbered by pairs, of one of n and one of c.     *)
(***************************************************************************)
Numbers(b, n, c) ==
    /\ \A k \in 1 .. n, j \in 1 .. c : b[<<k, j>>] \in 1 .. n * c
    /\ \A k \in 1 .. n, j \in 1 .. c, m \in 1 .. n, l \in 1 .. c :
           b[<<k, j>>] = b[<<m, l>>] => k = m /\ j = l
    /\ \A i \in 1 .. n * c : \E k \in 1 .. n, j \in 1 .. c : b[<<k, j>>] = i

LEMMA NumberedPairs ==
    ASSUME NEW n \in Nat, NEW c \in Nat
    PROVE  \E b : Numbers(b, n, c)
<1> DEFINE Pairs == (1 .. n) \X (1 .. c)
<1>1. n * c \in Nat
  BY SMT
<1>2. /\ IsFiniteSet(1 .. n) /\ Cardinality(1 .. n) = n
      /\ IsFiniteSet(1 .. c) /\ Cardinality(1 .. c) = c
  BY FS_Interval
<1>3. IsFiniteSet(Pairs) /\ Cardinality(Pairs) = n * c
  <2>1. /\ IsFiniteSet(Pairs)
        /\ Cardinality(Pairs) = Cardinality(1 .. n) * Cardinality(1 .. c)
    BY <1>2, FS_Product, Zenon
  <2> QED BY <1>2, <2>1, Zenon
<1>4. \A m \in Nat : IsFiniteSet(1 .. m) /\ Cardinality(1 .. m) = m
  BY FS_Interval
<1>5. IsFiniteSet(1 .. n * c) /\ Cardinality(1 .. n * c) = n * c
  BY <1>1, <1>4
<1>6. ExistsBijection(Pairs, 1 .. n * c)
  BY <1>3, <1>5, FS_SameCardinalityBij
<1>7. PICK b : b \in Bijection(Pairs, 1 .. n * c)
  BY <1>6 DEF ExistsBijection
<1>8. /\ b \in [Pairs -> 1 .. n * c]
      /\ \A p, q \in Pairs : b[p] = b[q] => p = q
      /\ \A i \in 1 .. n * c : \E p \in Pairs : b[p] = i
  BY <1>7 DEF Bijection, Injection, Surjection, IsInjective
<1>9. /\ \A k \in 1 .. n, j \in 1 .. c : <<k, j>> \in Pairs
      /\ \A p \in Pairs : \E k \in 1 .. n, j \in 1 .. c : p = <<k, j>>
  OBVIOUS
<1> HIDE DEF Pairs
<1>10. \A k \in 1 .. n, j \in 1 .. c : b[<<k, j>>] \in 1 .. n * c
  BY <1>8, <1>9
<1>11. \A k \in 1 .. n, j \in 1 .. c, m \in 1 .. n, l \in 1 .. c :
           b[<<k, j>>] = b[<<m, l>>] => k = m /\ j = l
  BY <1>8, <1>9
<1>12. \A i \in 1 .. n * c : \E k \in 1 .. n, j \in 1 .. c : b[<<k, j>>] = i
  <2> SUFFICES ASSUME NEW i \in 1 .. n * c
               PROVE  \E k \in 1 .. n, j \in 1 .. c : b[<<k, j>>] = i
    OBVIOUS
  <2>1. PICK p \in Pairs : b[p] = i
    BY <1>8, Zenon
  <2>2. PICK k \in 1 .. n, j \in 1 .. c : p = <<k, j>>
    BY <1>9, Zenon
  <2> QED BY <2>1, <2>2, Zenon
<1>13. Numbers(b, n, c)
  BY <1>10, <1>11, <1>12 DEF Numbers
<1> QED BY <1>13

(***************************************************************************)
(* Accounts that hold c times as much hold c times as much in all: c units *)
(* stand for one, in every account.                                        *)
(***************************************************************************)
LEMMA TotalScaled ==
    ASSUME NEW S, IsFiniteSet(S), NEW M \in Nat, NEW c \in Nat,
           NEW f \in [S -> 0 .. M], NEW g, DOMAIN g = S, \A x \in S : g[x] = f[x] * c
    PROVE  Total(g) = Total(f) * c
<1> DEFINE pick(x) == CHOOSE b : Numbers(b, f[x], c)
           Source == Units(f) \X (1 .. c)
           spread == [v \in Source |-> <<v[1][1], pick(v[1][1])[<<v[1][2], v[2]>>]>>]
<1>1. ASSUME NEW x \in S PROVE Numbers(pick(x), f[x], c)
  <2>1. f[x] \in Nat
    OBVIOUS
  <2> QED BY <2>1, NumberedPairs, Zenon
<1> HIDE DEF pick
<1>2. ASSUME NEW x \in S
      PROVE  /\ \A k \in 1 .. f[x], j \in 1 .. c : pick(x)[<<k, j>>] \in 1 .. g[x]
             /\ \A k \in 1 .. f[x], j \in 1 .. c, m \in 1 .. f[x], l \in 1 .. c :
                    pick(x)[<<k, j>>] = pick(x)[<<m, l>>] => k = m /\ j = l
             /\ \A i \in 1 .. g[x] :
                    \E k \in 1 .. f[x], j \in 1 .. c : pick(x)[<<k, j>>] = i
  <2>1. g[x] = f[x] * c
    OBVIOUS
  <2> QED BY <1>1, <2>1, Zenon DEF Numbers
<1>3. ASSUME NEW v \in Source
      PROVE  \E x \in S : \E k \in 1 .. f[x], j \in 1 .. c : v = <<<<x, k>>, j>>
  BY DEF Units
<1>4. ASSUME NEW x \in S, NEW k \in 1 .. f[x], NEW j \in 1 .. c
      PROVE  /\ <<<<x, k>>, j>> \in Source
             /\ spread[<<<<x, k>>, j>>] = <<x, pick(x)[<<k, j>>]>>
  <2>1. <<<<x, k>>, j>> \in Source
    BY DEF Units
  <2> QED BY <2>1
<1>5. ASSUME NEW u \in Units(g)
      PROVE  \E x \in S : \E i \in 1 .. g[x] : u = <<x, i>>
  BY DEF Units
<1>6. ASSUME NEW x \in S, NEW i \in 1 .. g[x]
      PROVE  <<x, i>> \in Units(g)
  BY DEF Units
<1>7. spread = [v \in Source |-> spread[v]]
  OBVIOUS
<1> HIDE DEF spread, Source
<1>8. ASSUME NEW v \in Source
      PROVE  spread[v] \in Units(g)
  <2>1. PICK x \in S : \E k \in 1 .. f[x], j \in 1 .. c : v = <<<<x, k>>, j>>
    BY <1>3
  <2>2. PICK k \in 1 .. f[x], j \in 1 .. c : v = <<<<x, k>>, j>>
    BY <2>1
  <2>3. spread[v] = <<x, pick(x)[<<k, j>>]>>
    BY <1>4, <2>2
  <2>4. pick(x)[<<k, j>>] \in 1 .. g[x]
    BY <1>2
  <2> QED BY <1>6, <2>3, <2>4
<1>9. ASSUME NEW v \in Source, NEW w \in Source, spread[v] = spread[w]
      PROVE  v = w
  <2>1. PICK x \in S : \E k \in 1 .. f[x], j \in 1 .. c : v = <<<<x, k>>, j>>
    BY <1>3
  <2>2. PICK k \in 1 .. f[x], j \in 1 .. c : v = <<<<x, k>>, j>>
    BY <2>1
  <2>3. PICK y \in S : \E m \in 1 .. f[y], l \in 1 .. c : w = <<<<y, m>>, l>>
    BY <1>3
  <2>4. PICK m \in 1 .. f[y], l \in 1 .. c : w = <<<<y, m>>, l>>
    BY <2>3
  <2>5. spread[v] = <<x, pick(x)[<<k, j>>]>>
    BY <1>4, <2>2
  <2>6. spread[w] = <<y, pick(y)[<<m, l>>]>>
    BY <1>4, <2>4
  <2>7. x = y /\ pick(x)[<<k, j>>] = pick(y)[<<m, l>>]
    <3>1. <<x, pick(x)[<<k, j>>]>> = <<y, pick(y)[<<m, l>>]>>
      BY <1>9, <2>5, <2>6, Zenon
    <3>2. \A p, q, r, s : <<p, q>> = <<r, s>> => p = r /\ q = s
      OBVIOUS
    <3> QED BY <3>1, <3>2, Zenon
  <2>8. m \in 1 .. f[x] /\ pick(x)[<<k, j>>] = pick(x)[<<m, l>>]
    BY <2>7
  <2>9. k = m /\ j = l
    BY <1>2, <2>8
  <2> QED BY <2>2, <2>4, <2>7, <2>9
<1>10. ASSUME NEW u \in Units(g)
       PROVE  \E v \in Source : spread[v] = u
  <2>1. PICK x \in S : \E i \in 1 .. g[x] : u = <<x, i>>
    BY <1>5
  <2>2. PICK i \in 1 .. g[x] : u = <<x, i>>
    BY <2>1
  <2>3. PICK k \in 1 .. f[x], j \in 1 .. c : pick(x)[<<k, j>>] = i
    BY <1>2
  <2> QED BY <1>4, <2>2, <2>3
<1>11. spread \in Bijection(Source, Units(g))
  <2>1. spread \in [Source -> Units(g)]
    BY <1>7, <1>8
  <2> QED BY <2>1, <1>9, <1>10 DEF Bijection, Injection, Surjection, IsInjective
<1>12. IsFiniteSet(Units(f)) /\ IsFiniteSet(1 .. c) /\ Cardinality(1 .. c) = c
  BY UnitsFinite, FS_Interval
<1>13. /\ IsFiniteSet(Source)
       /\ Cardinality(Source) = Cardinality(Units(f)) * c
  BY <1>12, FS_Product DEF Source
<1>14. ExistsBijection(Source, Units(g))
  BY <1>11 DEF ExistsBijection
<1>15. Cardinality(Units(g)) = Cardinality(Source)
  BY <1>13, <1>14, FS_Bijection
<1> QED BY <1>13, <1>15 DEF Total

-----------------------------------------------------------------------------
(***************************************************************************)
(* A transfer between two addresses debits one and credits the other, a    *)
(* transfer to oneself changes nothing, and no balance becomes negative.   *)
(***************************************************************************)
LEMMA TransferEffect ==
    ASSUME NEW A, NEW bal \in [A -> Nat], NEW from \in A, NEW to \in A,
           NEW amount \in Int, CanTransfer(bal, from, amount)
    PROVE  LET new == Transferred(bal, from, to, amount) IN
           /\ new \in [A -> Nat]
           /\ from = to => new = bal
           /\ from # to => /\ new[from] = bal[from] - amount
                           /\ new[to] = bal[to] + amount
           /\ \A x \in A \ {from, to} : new[x] = bal[x]
<1> DEFINE debited == [bal EXCEPT ![from] = @ - amount]
           new == [debited EXCEPT ![to] = @ + amount]
<1>1. amount \in Nat /\ bal[from] >= amount /\ bal[from] \in Nat
  BY DEF CanTransfer
<1>2. debited \in [A -> Nat]
  BY <1>1
<1>3. debited[from] = bal[from] - amount /\ \A x \in A \ {from} : debited[x] = bal[x]
  BY <1>1
<1>4. new \in [A -> Nat]
  BY <1>1, <1>2
<1>5. new[to] = debited[to] + amount /\ \A x \in A \ {to} : new[x] = debited[x]
  BY <1>2
<1>6. ASSUME from = to PROVE new = bal
  <2>1. \A x \in A : new[x] = bal[x]
    BY <1>1, <1>3, <1>5, <1>6
  <2> HIDE DEF new
  <2> QED BY <1>4, <2>1
<1>7. from # to => /\ new[from] = bal[from] - amount
                   /\ new[to] = bal[to] + amount
  BY <1>3, <1>5
<1>8. \A x \in A \ {from, to} : new[x] = bal[x]
  BY <1>3, <1>5
<1>9. Transferred(bal, from, to, amount) = new
  BY DEF Transferred
<1> HIDE DEF new
<1> QED BY <1>4, <1>6, <1>7, <1>8, <1>9

(***************************************************************************)
(* A transfer neither makes nor loses tokens, so that nobody ever holds    *)
(* more than there are.                                                    *)
(***************************************************************************)
LEMMA TransferConserves ==
    ASSUME NEW A, IsFiniteSet(A), NEW M \in Nat, NEW bal \in [A -> 0 .. M],
           NEW from \in A, NEW to \in A, NEW amount \in Int,
           CanTransfer(bal, from, amount)
    PROVE  /\ Total(Transferred(bal, from, to, amount)) = Total(bal)
           /\ Transferred(bal, from, to, amount) \in [A -> 0 .. Total(bal)]
<1> DEFINE debited == [bal EXCEPT ![from] = @ - amount]
           new == [debited EXCEPT ![to] = @ + amount]
           N == M + amount
<1>1. amount \in Nat /\ amount <= bal[from] /\ bal[from] \in 0 .. M
  BY DEF CanTransfer
<1>2. N \in Nat /\ bal \in [A -> 0 .. N]
  BY <1>1
<1>3. /\ debited \in [A -> 0 .. M]
      /\ debited[from] = bal[from] - amount
      /\ \A x \in A \ {from} : debited[x] = bal[x]
  BY <1>1
<1>4. debited \in [A -> 0 .. N]
  BY <1>1, <1>3
<1> HIDE DEF debited
<1>5. /\ new \in [A -> 0 .. N]
      /\ new[to] = debited[to] + amount
      /\ \A x \in A \ {to} : new[x] = debited[x]
  BY <1>1, <1>3
<1> HIDE DEF new, N
<1>6. Total(debited) = Total(bal) - bal[from] + debited[from]
  BY <1>2, <1>3, <1>4, TotalChange
<1>7. Total(new) = Total(debited) - debited[to] + new[to]
  BY <1>2, <1>4, <1>5, TotalChange
<1>8. Total(bal) \in Nat /\ Total(debited) \in Nat
  BY <1>2, <1>4, UnitsFinite
<1>9. debited[to] \in Int
  BY <1>3
<1>10. Total(new) = Total(bal)
  BY <1>1, <1>3, <1>5, <1>6, <1>7, <1>8, <1>9
<1>11. \A x \in A : new[x] \in 0 .. Total(bal)
  <2> SUFFICES ASSUME NEW x \in A PROVE new[x] \in 0 .. Total(bal)
    OBVIOUS
  <2>1. new[x] <= Total(new) /\ new[x] \in Nat
    BY <1>2, <1>5, TotalBound
  <2> QED BY <1>8, <1>10, <2>1
<1>12. new \in [A -> 0 .. Total(bal)]
  BY <1>5, <1>11
<1>13. Transferred(bal, from, to, amount) = new
  BY DEF Transferred, new, debited
<1> QED BY <1>10, <1>12, <1>13
=============================================================================
