---------------------- MODULE TournamentRewardsProofs ----------------------
(***************************************************************************)
(* The properties of TournamentRewards, for every set of accounts, number  *)
(* of tokens, table of splits and ranking, and every width of ids and      *)
(* amounts.                                                                *)
(*                                                                         *)
(* PaidExactly and Solvent are inductive together with the types once it   *)
(* is known, of every tournament (SoundOf, a predicate of what is stored   *)
(* under one id), that it was created with a split the contract accepts,   *)
(* that the pool holds fees of entrants only, counted by entrantCount, and *)
(* that only ranked winners of a finalised one are marked as claimed; that *)
(* an unused id has left no trace (Fresh, and BeforeInitialize for the     *)
(* step that sets the counter back); and that the balance of the contract  *)
(* is what is left of the pools (Balanced).  That the shares of any        *)
(* ranking fit the pool is WinnersFit: a sum of shares, each rounded down, *)
(* over winners whose best ranks differ.                                   *)
(*                                                                         *)
(* Then: what DuesDrawn rests on, without its fairness, and that results   *)
(* are final.  At the end: the arithmetic of the common crate, and the     *)
(* treasury.                                                               *)
(***************************************************************************)
EXTENDS TournamentRewards, TokenProofs

\* All of a pool, in basis points.
Whole == 10000

\* The places of a split, or of a ranking.
Places(s) == 1 .. Len(s)

NoFees == [a \in Account |-> 0]

-----------------------------------------------------------------------------
(***************************************************************************)
(* Sets of naturals have a least element, and finitely many naturals a     *)
(* common bound.                                                           *)
(***************************************************************************)
LEMMA Least ==
    ASSUME NEW T, T \subseteq Nat, T # {}
    PROVE  \E m \in T : \A n \in T : m <= n
<1>1. PICK m \in T : \A n \in T : ~(<<n, m>> \in OpToRel(<, Nat))
  BY NatLessThanWellFounded, WFMin, Zenon
<1>2. \A n \in T : ~(n < m)
  BY <1>1, Zenon DEF OpToRel
<1> QED BY <1>2

LEMMA CommonBound ==
    ASSUME NEW n \in Nat, NEW S, S = 1 .. n, NEW f \in [S -> Nat]
    PROVE  \E M \in Nat : f \in [S -> 0 .. M]
<1> DEFINE Bounded(m) == \E M \in Nat : \A i \in 1 .. m : f[i] <= M
           Bad == {m \in 0 .. n : ~Bounded(m)}
<1>1. Bounded(0)
  OBVIOUS
<1>2. ASSUME NEW m \in 1 .. n, Bounded(m - 1) PROVE Bounded(m)
  <2>1. PICK M \in Nat : \A i \in 1 .. m - 1 : f[i] <= M
    BY <1>2
  <2>2. f[m] \in Nat /\ \A i \in 1 .. m - 1 : f[i] \in Nat
    OBVIOUS
  <2>3. M + f[m] \in Nat
    BY <2>1, <2>2
  <2>4. \A i \in 1 .. m : f[i] <= M + f[m]
    BY <2>1, <2>2
  <2> QED BY <2>3, <2>4
<1>3. Bounded(n) => \E M \in Nat : f \in [S -> 0 .. M]
  OBVIOUS
<1> HIDE DEF Bounded
<1>4. Bad = {}
  <2> SUFFICES ASSUME Bad # {} PROVE FALSE
    OBVIOUS
  <2>1. Bad \subseteq Nat
    OBVIOUS
  <2> HIDE DEF Bad
  <2>2. PICK m \in Bad : \A k \in Bad : m <= k
    BY <2>1, Least
  <2> USE DEF Bad
  <2>3. m \in 1 .. n /\ ~Bounded(m)
    BY <1>1, <2>2
  <2>4. ~(m <= m - 1) /\ m - 1 \in 0 .. n
    BY <2>3
  <2>5. Bounded(m - 1)
    BY <2>2, <2>4
  <2> QED BY <1>2, <2>3, <2>5
<1>5. Bounded(n)
  BY <1>4
<1> QED BY <1>3, <1>5

(***************************************************************************)
(* The best rank of a winner is a place it is listed at.                   *)
(***************************************************************************)
LEMMA RankOfWinner ==
    ASSUME NEW t \in Tournament, NEW w \in Winners(t)
    PROVE  /\ Rank(t, w) \in Places(t.ranked_winners)
           /\ t.ranked_winners[Rank(t, w)] = w
<1> DEFINE places == {r \in 1 .. Len(t.ranked_winners) : t.ranked_winners[r] = w}
<1>1. DOMAIN t.ranked_winners = 1 .. Len(t.ranked_winners) /\ Len(t.ranked_winners) \in Nat
  BY DEF Tournament
<1>2. places # {} /\ places \subseteq Nat
  BY <1>1 DEF Winners
<1>3. PICK r \in places : \A q \in places : r <= q
  BY <1>2, Least
<1>4. \A q \in 1 .. r - 1 : t.ranked_winners[q] # w
  BY <1>1, <1>3
<1>5. \E x \in DOMAIN t.ranked_winners :
          /\ t.ranked_winners[x] = w
          /\ \A q \in 1 .. x - 1 : t.ranked_winners[q] # w
  BY <1>1, <1>3, <1>4
<1>6. /\ Rank(t, w) \in DOMAIN t.ranked_winners
      /\ t.ranked_winners[Rank(t, w)] = w
  BY <1>5, Zenon DEF Rank
<1> QED BY <1>1, <1>6 DEF Places

(***************************************************************************)
(* A share is at least 0, at most the pool, and 10000 of it at most the    *)
(* product it is rounded down from.                                        *)
(***************************************************************************)
LEMMA RoundedDown ==
    ASSUME NEW x \in Nat
    PROVE  x \div Whole \in Nat /\ (x \div Whole) * Whole <= x
BY SMT DEF Whole

LEMMA WithinPool ==
    ASSUME NEW q \in Nat, NEW x \in Nat, NEW pool \in Nat,
           q * Whole <= x, x <= pool * Whole
    PROVE  q \in 0 .. pool
BY DEF Whole

SplitOf(t) ==
    /\ t.payout_bps \in ValidSplits
    /\ Len(t.ranked_winners) <= Len(t.payout_bps)

LEMMA WholeBounds ==
    ASSUME NEW n \in Nat, NEW S, S = 1 .. n, NEW f \in [S -> Nat], Total(f) <= Whole
    PROVE  IsFiniteSet(S) /\ f \in [S -> 0 .. Whole] /\ Total(f) \in 0 .. Whole
<1>1. IsFiniteSet(S)
  BY FS_Interval
<1>2. PICK M \in Nat : f \in [S -> 0 .. M]
  BY CommonBound
<1>3. Total(f) \in Nat /\ Whole \in Nat
  BY <1>1, <1>2, UnitsFinite DEF Whole
<1>4. \A r \in S : f[r] <= Total(f) /\ f[r] \in Nat
  BY <1>1, <1>2, TotalBound
<1>5. \A r \in S : f[r] \in 0 .. Whole
  BY <1>3, <1>4
<1> QED BY <1>1, <1>3, <1>5

LEMMA SplitSum ==
    ASSUME NEW bps \in Seq(Nat), Total(bps) <= Whole
    PROVE  /\ IsFiniteSet(Places(bps))
           /\ bps \in [Places(bps) -> 0 .. Whole]
           /\ Total(bps) \in 0 .. Whole
<1>1. PICK n, S : n \in Nat /\ S = Places(bps) /\ S = 1 .. n /\ bps \in [S -> Nat]
  <2>1. Len(bps) \in Nat /\ bps \in [1 .. Len(bps) -> Nat]
    OBVIOUS
  <2> QED BY <2>1 DEF Places
<1> QED BY <1>1, WholeBounds, Zenon

LEMMA SplitType ==
    ASSUME NEW t \in Tournament, SplitOf(t)
    PROVE  /\ IsFiniteSet(Places(t.payout_bps))
           /\ t.payout_bps \in [Places(t.payout_bps) -> 0 .. Whole]
           /\ Total(t.payout_bps) \in 0 .. Whole
           /\ Places(t.ranked_winners) \subseteq Places(t.payout_bps)
<1>1. PICK s : s = t.payout_bps /\ s \in Seq(Nat) /\ Total(s) <= Whole
  BY TournamentAssumption DEF SplitOf, ValidSplits, Whole
<1>2. PICK w : w = t.ranked_winners /\ w \in Seq(Address)
  BY DEF Tournament
<1>3. Len(s) \in Nat /\ Len(w) \in Nat /\ Len(w) <= Len(s)
  BY <1>1, <1>2 DEF SplitOf
<1>4. Places(w) \subseteq Places(s)
  BY <1>3 DEF Places
<1>5. /\ IsFiniteSet(Places(s))
      /\ s \in [Places(s) -> 0 .. Whole]
      /\ Total(s) \in 0 .. Whole
  BY <1>1, SplitSum, Zenon
<1> QED BY <1>1, <1>2, <1>4, <1>5, Zenon

LEMMA ShareBounds ==
    ASSUME NEW t \in Tournament, SplitOf(t), NEW r \in Places(t.ranked_winners)
    PROVE  /\ t.payout_bps[r] \in Nat
           /\ Share(t, r) \in 0 .. t.total_pool
           /\ Share(t, r) * Whole <= t.payout_bps[r] * t.total_pool
<1> DEFINE b == t.payout_bps[r]
           pool == t.total_pool
           x == pool * b
<1>1. b \in 0 .. Whole /\ pool \in Nat
  <2>1. pool \in Nat
    BY TournamentAssumption DEF Tournament
  <2>2. /\ t.payout_bps \in [Places(t.payout_bps) -> 0 .. Whole]
        /\ r \in Places(t.payout_bps)
    BY SplitType, Zenon
  <2>3. b \in 0 .. Whole
    BY <2>2
  <2> QED BY <2>1, <2>3
<1> HIDE DEF b, pool
<1>2. x \in Nat /\ x <= pool * Whole /\ x = b * pool
  BY <1>1, Product, ProductOrder DEF Whole
<1> HIDE DEF x
<1>3. x \div Whole \in Nat /\ (x \div Whole) * Whole <= x
  BY <1>2, RoundedDown
<1>4. Share(t, r) = x \div Whole
  BY DEF Share, Whole, x, b, pool
<1>5. Share(t, r) \in 0 .. pool
  BY <1>1, <1>2, <1>3, <1>4, WithinPool
<1>6. Share(t, r) * Whole <= b * pool
  BY <1>2, <1>3, <1>4
<1>7. b \in Nat
  BY <1>1
<1> QED BY <1>5, <1>6, <1>7 DEF b, pool

(***************************************************************************)
(* The prizes of a tournament fit its pool, whoever is listed and however  *)
(* often: 10000 times the prizes is at most the pool times the shares of   *)
(* their best ranks, which differ, and all shares come to 10000 at most.   *)
(***************************************************************************)
Prize(t, a) == IF a \in Winners(t) THEN Share(t, Rank(t, a)) ELSE 0

Prizes(t) == [a \in Account |-> Prize(t, a)]

LEMMA PrizesType ==
    ASSUME NEW t \in Tournament, SplitOf(t)
    PROVE  Prizes(t) \in [Account -> 0 .. t.total_pool] /\ t.total_pool \in Nat
<1>1. t.total_pool \in Nat
  BY TournamentAssumption DEF Tournament
<1>2. \A a \in Winners(t) : Share(t, Rank(t, a)) \in 0 .. t.total_pool
  BY RankOfWinner, ShareBounds, Zenon
<1>3. \A a \in Account : Prize(t, a) \in 0 .. t.total_pool
  BY <1>1, <1>2 DEF Prize
<1> QED BY <1>1, <1>3 DEF Prizes

LEMMA WinnersFit ==
    ASSUME NEW t \in Tournament, SplitOf(t)
    PROVE  Total(Prizes(t)) \in 0 .. t.total_pool
<1>1. PICK pool \in Nat : pool = t.total_pool
  BY PrizesType
<1>2. PICK prizes \in [Account -> 0 .. pool] : prizes = Prizes(t)
  BY <1>1, PrizesType
<1>3. PICK S, bps :
          /\ S = Places(t.payout_bps) /\ bps = t.payout_bps
          /\ IsFiniteSet(S) /\ bps \in [S -> 0 .. Whole]
          /\ Total(bps) \in 0 .. Whole
  BY SplitType, Zenon
<1>4. IsFiniteSet(Account) /\ Whole \in Nat
  BY TournamentAssumption DEF Whole
<1> DEFINE W == Account \cap Winners(t)
           M == Whole * pool
           f == [a \in W |-> prizes[a] * Whole]
           padded == [a \in Account |-> prizes[a] * Whole]
           g == [r \in S |-> bps[r] * pool]
           label == [a \in W |-> Rank(t, a)]
<1>5. Total(padded) = Total(prizes) * Whole
  BY <1>4, TotalScaled
<1>6. Total(g) = Total(bps) * pool
  BY <1>3, <1>4, TotalScaled
<1>7. Total(f) = Total(padded)
  <2>1. \A a \in Account \ W : prizes[a] = 0
    BY <1>2 DEF Prizes, Prize
  <2>2. \A a \in Account \ W : padded[a] = 0
    BY <1>4, <2>1
  <2>3. W \subseteq Account /\ DOMAIN f = W /\ DOMAIN padded = Account
    OBVIOUS
  <2>4. \A a \in W : padded[a] = f[a]
    OBVIOUS
  <2> HIDE DEF f, padded, W
  <2> QED BY <2>2, <2>3, <2>4, TotalPadded
<1>8. \A a \in W : /\ label[a] \in S
                   /\ f[a] <= g[label[a]]
                   /\ t.ranked_winners[label[a]] = a
  <2> SUFFICES ASSUME NEW a \in W
               PROVE  /\ label[a] \in S
                      /\ f[a] <= g[label[a]]
                      /\ t.ranked_winners[label[a]] = a
    OBVIOUS
  <2>1. /\ label[a] = Rank(t, a)
        /\ label[a] \in Places(t.ranked_winners)
        /\ t.ranked_winners[label[a]] = a
    BY RankOfWinner
  <2>2. label[a] \in S
    BY <1>3, <2>1, SplitType, Zenon
  <2>3. prizes[a] = Share(t, label[a])
    BY <1>2, <2>1 DEF Prizes, Prize
  <2>4. Share(t, label[a]) * Whole <= bps[label[a]] * pool
    BY <1>1, <1>3, <2>1, ShareBounds
  <2>5. f[a] = prizes[a] * Whole /\ g[label[a]] = bps[label[a]] * pool
    BY <2>2
  <2> QED BY <2>1, <2>2, <2>3, <2>4, <2>5, Zenon
<1>9. f \in [W -> 0 .. M] /\ g \in [S -> 0 .. M] /\ M \in Nat
  <2>1. M \in Nat /\ M = pool * Whole
    BY <1>4, Product
  <2>2. ASSUME NEW a \in W PROVE prizes[a] * Whole \in 0 .. M
    <3>1. prizes[a] \in Nat /\ prizes[a] <= pool
      OBVIOUS
    <3>2. Whole * prizes[a] \in Nat /\ Whole * prizes[a] <= Whole * pool
      BY <1>4, <3>1, Product, ProductOrder
    <3>3. Whole * prizes[a] = prizes[a] * Whole
      BY <1>4, <3>1
    <3> QED BY <2>1, <3>2, <3>3
  <2>3. ASSUME NEW r \in S PROVE bps[r] * pool \in 0 .. M
    <3>1. bps[r] \in Nat /\ bps[r] <= Whole
      BY <1>3, <1>4
    <3>2. pool * bps[r] \in Nat /\ pool * bps[r] <= pool * Whole
      BY <1>4, <3>1, Product, ProductOrder
    <3>3. pool * bps[r] = bps[r] * pool
      BY <3>1
    <3> QED BY <2>1, <3>2, <3>3
  <2> QED BY <2>1, <2>2, <2>3
<1> HIDE DEF f, g, padded, M
<1>10. label \in [W -> S] /\ \A a, b \in W : label[a] = label[b] => a = b
  BY <1>8
<1> HIDE DEF label, W
<1>11. Total(f) <= Total(g)
  BY <1>3, <1>8, <1>9, <1>10, TotalRelabelled
<1>12. Total(prizes) \in Nat
  BY <1>4, UnitsFinite
<1>13. Total(bps) * pool <= pool * Whole
  <2>1. Total(bps) \in Nat /\ Total(bps) <= Whole
    BY <1>3, <1>4
  <2>2. pool * Total(bps) <= pool * Whole
    BY <1>4, <2>1, ProductOrder
  <2>3. pool * Total(bps) = Total(bps) * pool
    BY <2>1
  <2> QED BY <2>2, <2>3
<1>14. Total(prizes) * Whole <= Total(bps) * pool
  BY <1>5, <1>6, <1>7, <1>11
<1>15. Total(bps) * pool \in Nat
  BY <1>3, <1>4, Product
<1>16. Total(prizes) \in 0 .. pool
  BY <1>12, <1>13, <1>14, <1>15, WithinPool
<1> QED BY <1>1, <1>2, <1>16

-----------------------------------------------------------------------------
(***************************************************************************)
(* What is stored under one id: a tournament t (or none), its entrants E,  *)
(* the fees h held for them and their number n, the accounts c that have   *)
(* claimed and the amount p paid out.                                      *)
(***************************************************************************)
Live(t) == t # NoTournament

Owing(t, h, c) ==
    [a \in Account |->
        IF Live(t) /\ t.status = "Finalised"
        THEN IF a \in c THEN 0 ELSE Prize(t, a)
        ELSE h[a]]

Left(t, p) == IF Live(t) THEN t.total_pool - p ELSE 0

PaidPrizes(t, c) == Total([w \in c |-> Share(t, Rank(t, w))])

TypesOf(t, E, h, n, c, p) ==
    /\ t \in Tournament \cup {NoTournament}
    /\ E \in SUBSET Account /\ h \in [Account -> 0 .. MaxI128] /\ n \in Nat
    /\ c \in SUBSET Account /\ p \in Nat

Untouched(E, h, n, c, p) == E = {} /\ h = NoFees /\ n = 0 /\ c = {} /\ p = 0

SoundOf(t, E, h, n, c, p) ==
    /\ ~Live(t) => Untouched(E, h, n, c, p)
    /\ Live(t) =>
           /\ SplitOf(t) /\ t.entry_fee \in Fees
           /\ \A a \in Account \ E : h[a] = 0
           /\ t.status = "Finalised" => c \subseteq Winners(t) /\ p = PaidPrizes(t, c)
           /\ t.status # "Finalised" => c = {}
           /\ t.status = "Cancelled" => p = t.entry_fee * n - Total(h)
           /\ t.status \in {"Open", "InProgress"} => p = 0 /\ Total(h) = t.entry_fee * n
    /\ Total(Owing(t, h, c)) <= Left(t, p)

(***************************************************************************)
(* The writes to a tournament.                                             *)
(***************************************************************************)
New(k, fee, bps) ==
    [reward_token |-> k, entry_fee |-> fee, total_pool |-> 0,
     status |-> "Open", ranked_winners |-> <<>>, payout_bps |-> bps]
WithPool(t, pool) == [t EXCEPT !.total_pool = pool]
WithStatus(t, s) == [t EXCEPT !.status = s]
WithResult(t, winners) == [t EXCEPT !.ranked_winners = winners, !.status = "Finalised"]

LEMMA NewTournament ==
    ASSUME NEW k \in RewardToken, NEW fee \in Fees, fee >= 0, NEW bps \in ValidSplits
    PROVE  /\ New(k, fee, bps) \in Tournament /\ Live(New(k, fee, bps))
           /\ New(k, fee, bps).reward_token = k
           /\ New(k, fee, bps).total_pool = 0
           /\ New(k, fee, bps).status = "Open"
           /\ New(k, fee, bps).entry_fee = fee
           /\ SplitOf(New(k, fee, bps))
<1> DEFINE t == New(k, fee, bps)
<1>1. fee \in 0 .. MaxI128 /\ 0 \in 0 .. MaxI128
  BY TournamentAssumption DEF I128
<1>2. bps \in Seq(Nat) /\ <<>> \in Seq(Address) /\ Len(<<>>) = 0
  BY TournamentAssumption DEF ValidSplits
<1>3. t \in Tournament
  BY <1>1, <1>2 DEF New, Tournament, Status
<1>4. Live(t)
  BY <1>3, TournamentAssumption DEF Live
<1>5. t.payout_bps = bps /\ t.ranked_winners = <<>>
  BY DEF New
<1>6. Len(bps) \in Nat
  BY <1>2
<1>7. SplitOf(t)
  BY <1>2, <1>5, <1>6 DEF SplitOf
<1> QED BY <1>3, <1>4, <1>7 DEF New

LEMMA LiveTournament ==
    ASSUME NEW t \in Tournament
    PROVE  /\ Live(t)
           /\ t.reward_token \in RewardToken /\ t.entry_fee \in 0 .. MaxI128
           /\ t.total_pool \in 0 .. MaxI128 /\ t.status \in Status
           /\ t.entry_fee \in Nat /\ t.total_pool \in Nat
BY TournamentAssumption DEF Live, Tournament

\* Two tournaments that differ in pool and status only.
SameTerms(t, u) ==
    /\ u.reward_token = t.reward_token
    /\ u.entry_fee = t.entry_fee
    /\ u.payout_bps = t.payout_bps

LEMMA PoolUpdate ==
    ASSUME NEW t \in Tournament, NEW pool \in 0 .. MaxI128
    PROVE  /\ WithPool(t, pool) \in Tournament /\ SameTerms(t, WithPool(t, pool))
           /\ WithPool(t, pool).total_pool = pool
           /\ WithPool(t, pool).status = t.status
           /\ WithPool(t, pool).ranked_winners = t.ranked_winners
BY DEF WithPool, Tournament, SameTerms

LEMMA StatusUpdate ==
    ASSUME NEW t \in Tournament, NEW s \in Status
    PROVE  /\ WithStatus(t, s) \in Tournament /\ SameTerms(t, WithStatus(t, s))
           /\ WithStatus(t, s).total_pool = t.total_pool
           /\ WithStatus(t, s).status = s
           /\ WithStatus(t, s).ranked_winners = t.ranked_winners
BY DEF WithStatus, Tournament, SameTerms

LEMMA ResultUpdate ==
    ASSUME NEW t \in Tournament, NEW w \in Seq(Address)
    PROVE  /\ WithResult(t, w) \in Tournament /\ SameTerms(t, WithResult(t, w))
           /\ WithResult(t, w).total_pool = t.total_pool
           /\ WithResult(t, w).status = "Finalised"
           /\ WithResult(t, w).ranked_winners = w
BY DEF WithResult, Tournament, SameTerms, Status

(***************************************************************************)
(* What is owed and left: the debts of one account are amounts, and what   *)
(* is left of a sound pool is an amount too.                               *)
(***************************************************************************)
LEMMA OwingType ==
    ASSUME NEW t, NEW E, NEW h, NEW n, NEW c, NEW p,
           TypesOf(t, E, h, n, c, p), Live(t) => SplitOf(t)
    PROVE  /\ Owing(t, h, c) \in [Account -> 0 .. MaxI128]
           /\ Total(Owing(t, h, c)) \in Nat
<1>1. MaxI128 \in Nat /\ IsFiniteSet(Account) /\ h \in [Account -> 0 .. MaxI128]
  BY TournamentAssumption DEF TypesOf
<1>2. ASSUME NEW a \in Account, Live(t) PROVE Prize(t, a) \in 0 .. MaxI128
  <2>1. t \in Tournament /\ SplitOf(t)
    BY <1>2 DEF TypesOf, Live
  <2>2. PICK f, pool : /\ f = Prizes(t) /\ pool = t.total_pool /\ f \in [Account -> 0 .. pool]
                       /\ pool \in 0 .. MaxI128
    BY <2>1, PrizesType, LiveTournament
  <2>3. Prize(t, a) = f[a]
    BY <2>2 DEF Prizes
  <2>4. f[a] \in 0 .. MaxI128
    BY <1>1, <2>2
  <2> QED BY <2>3, <2>4
<1>3. \A a \in Account : Owing(t, h, c)[a] \in 0 .. MaxI128
  BY <1>1, <1>2 DEF Owing
<1>4. Owing(t, h, c) \in [Account -> 0 .. MaxI128]
  BY <1>3 DEF Owing
<1> QED BY <1>1, <1>4, UnitsFinite

LEMMA LeftIsAmount ==
    ASSUME NEW t, NEW E, NEW h, NEW n, NEW c, NEW p,
           TypesOf(t, E, h, n, c, p), SoundOf(t, E, h, n, c, p)
    PROVE  Left(t, p) \in 0 .. MaxI128
<1>1. Total(Owing(t, h, c)) \in Nat /\ Total(Owing(t, h, c)) <= Left(t, p)
  BY OwingType DEF SoundOf
<1>2. CASE Live(t)
  <2>1. t.total_pool \in 0 .. MaxI128 /\ p \in Nat
    BY <1>2, LiveTournament DEF TypesOf, Live
  <2> QED BY <1>1, <1>2, <2>1, TournamentAssumption DEF Left
<1>3. CASE ~Live(t)
  BY <1>3, TournamentAssumption DEF Left
<1> QED BY <1>2, <1>3

(***************************************************************************)
(* Nothing stored is sound, and owes nothing.                              *)
(***************************************************************************)
LEMMA NothingOwed ==
    ASSUME NEW t, ~Live(t) \/ t.status = "Open"
    PROVE  Total(Owing(t, NoFees, {})) = 0
<1>1. Owing(t, NoFees, {}) = [a \in Account |-> 0]
  BY DEF Owing, NoFees
<1> QED BY <1>1, TotalZero

LEMMA NothingSound ==
    SoundOf(NoTournament, {}, NoFees, 0, {}, 0)
<1>1. ~Live(NoTournament)
  BY DEF Live
<1>2. Total(Owing(NoTournament, NoFees, {})) = 0
  BY <1>1, NothingOwed
<1> QED BY <1>1, <1>2 DEF SoundOf, Untouched, Left

(***************************************************************************)
(* Each operation leaves what it writes sound.                             *)
(***************************************************************************)
LEMMA SoundNew ==
    ASSUME NEW k \in RewardToken, NEW fee \in Fees, fee >= 0, NEW bps \in ValidSplits
    PROVE  SoundOf(New(k, fee, bps), {}, NoFees, 0, {}, 0)
<1>1. PICK t : t = New(k, fee, bps)
  OBVIOUS
<1>2. /\ Live(t) /\ t.total_pool = 0 /\ t.status = "Open" /\ t.entry_fee = fee
      /\ SplitOf(t) /\ fee \in Nat
  BY <1>1, NewTournament, LiveTournament
<1>3. Total(Owing(t, NoFees, {})) = 0
  BY <1>2, NothingOwed
<1>4. Total(NoFees) = 0 /\ \A a \in Account : NoFees[a] = 0
  BY TotalZero DEF NoFees
<1>5. fee * 0 = 0
  BY <1>2
<1>6. SoundOf(t, {}, NoFees, 0, {}, 0)
  BY <1>2, <1>3, <1>4, <1>5 DEF SoundOf, Left
<1> QED BY <1>1, <1>6

LEMMA SplitKept ==
    ASSUME NEW t, NEW u, SplitOf(t), SameTerms(t, u), u.ranked_winners = t.ranked_winners
    PROVE  SplitOf(u)
BY DEF SplitOf, SameTerms

\* Until a tournament is finalised the fees are what is owed.
LEMMA FeesOwed ==
    ASSUME NEW t, Live(t), t.status # "Finalised", NEW h \in [Account -> 0 .. MaxI128], NEW c
    PROVE  Owing(t, h, c) = h
<1>1. \A a \in Account : Owing(t, h, c)[a] = h[a]
  BY DEF Owing
<1>2. Owing(t, h, c) = [a \in Account |-> h[a]]
  BY <1>1 DEF Owing
<1> QED BY <1>2

LEMMA SoundEnter ==
    ASSUME NEW t \in Tournament, NEW E, NEW h, NEW n, NEW p,
           TypesOf(t, E, h, n, {}, p), SoundOf(t, E, h, n, {}, p),
           t.status = "Open", NEW a \in Account, a \notin E,
           t.total_pool + t.entry_fee <= MaxI128
    PROVE  SoundOf(WithPool(t, t.total_pool + t.entry_fee), E \cup {a},
                   [h EXCEPT ![a] = t.entry_fee], n + 1, {}, p)
<1> DEFINE fee == t.entry_fee
           pool == t.total_pool
           g == [h EXCEPT ![a] = fee]
<1>1. /\ fee \in 0 .. MaxI128 /\ pool \in 0 .. MaxI128 /\ MaxI128 \in Nat
      /\ fee \in Nat /\ pool \in Nat /\ Live(t) /\ IsFiniteSet(Account)
  BY LiveTournament, TournamentAssumption
<1>2. pool + fee \in 0 .. MaxI128
  BY <1>1
<1>3. PICK u \in Tournament :
          /\ u = WithPool(t, pool + fee) /\ SameTerms(t, u) /\ u.total_pool = pool + fee
          /\ u.status = t.status /\ u.ranked_winners = t.ranked_winners
  BY <1>2, PoolUpdate
<1>4. h \in [Account -> 0 .. MaxI128] /\ n \in Nat /\ p \in Nat
  BY DEF TypesOf
<1>5. /\ SplitOf(t) /\ fee \in Fees /\ h[a] = 0
      /\ \A x \in Account \ E : h[x] = 0
      /\ p = 0 /\ Total(h) = fee * n /\ Total(Owing(t, h, {})) <= Left(t, p)
  BY <1>1 DEF SoundOf
<1>6. /\ g \in [Account -> 0 .. MaxI128] /\ g[a] = fee
      /\ \A x \in Account \ {a} : g[x] = h[x]
  BY <1>1, <1>4
<1> HIDE DEF g
<1>7. Total(h) \in Nat /\ Total(g) = Total(h) + fee
  <2>1. Total(g) = Total(h) - h[a] + g[a]
    BY <1>1, <1>4, <1>6, TotalChange
  <2>2. Total(h) \in Nat
    BY <1>1, <1>4, UnitsFinite
  <2> QED BY <1>1, <1>5, <1>6, <2>1, <2>2
<1>8. Total(h) <= pool
  BY <1>1, <1>4, <1>5, FeesOwed DEF Left
<1>9. Live(u) /\ SplitOf(u) /\ u.entry_fee = fee /\ u.status = "Open"
  BY <1>3, <1>5, SplitKept, LiveTournament DEF SameTerms
<1>10. Total(Owing(u, g, {})) <= Left(u, p)
  <2>1. Owing(u, g, {}) = g
    BY <1>6, <1>9, FeesOwed
  <2>2. Left(u, p) = pool + fee
    BY <1>1, <1>3, <1>5, <1>9 DEF Left
  <2> QED BY <1>1, <1>7, <1>8, <2>1, <2>2
<1>11. Total(g) = fee * (n + 1)
  <2>1. fee * (n + 1) = fee * n + fee
    BY <1>1, <1>4, Product
  <2> QED BY <1>5, <1>7, <2>1
<1>12. \A x \in Account \ (E \cup {a}) : g[x] = 0
  BY <1>5, <1>6
<1>13. SoundOf(u, E \cup {a}, g, n + 1, {}, p)
  BY <1>5, <1>9, <1>10, <1>11, <1>12 DEF SoundOf
<1> QED BY <1>3, <1>13 DEF g

LEMMA SoundTopUp ==
    ASSUME NEW t \in Tournament, NEW E, NEW h, NEW n, NEW p,
           TypesOf(t, E, h, n, {}, p), SoundOf(t, E, h, n, {}, p),
           t.status \in {"Open", "InProgress"}, NEW amount \in Nat,
           t.total_pool + amount <= MaxI128
    PROVE  SoundOf(WithPool(t, t.total_pool + amount), E, h, n, {}, p)
<1> DEFINE pool == t.total_pool
<1>1. pool \in 0 .. MaxI128 /\ MaxI128 \in Nat /\ pool \in Nat /\ Live(t)
  BY LiveTournament, TournamentAssumption
<1>2. pool + amount \in 0 .. MaxI128
  BY <1>1
<1>3. PICK u \in Tournament :
          /\ u = WithPool(t, pool + amount) /\ SameTerms(t, u) /\ u.total_pool = pool + amount
          /\ u.status = t.status /\ u.ranked_winners = t.ranked_winners
  BY <1>2, PoolUpdate
<1>4. /\ h \in [Account -> 0 .. MaxI128] /\ p \in Nat
      /\ SplitOf(t) /\ Total(h) \in Nat /\ Total(Owing(t, h, {})) <= Left(t, p)
  BY <1>1, TournamentAssumption, UnitsFinite DEF TypesOf, SoundOf
<1>5. Live(u) /\ SplitOf(u) /\ u.entry_fee = t.entry_fee /\ u.status = t.status
  BY <1>3, <1>4, SplitKept, LiveTournament DEF SameTerms
<1>6. Owing(u, h, {}) = h /\ Owing(t, h, {}) = h
  BY <1>1, <1>4, <1>5, FeesOwed
<1>7. Total(Owing(u, h, {})) <= Left(u, p)
  BY <1>1, <1>3, <1>4, <1>5, <1>6 DEF Left
<1>8. SoundOf(u, E, h, n, {}, p)
  BY <1>1, <1>5, <1>7 DEF SoundOf
<1> QED BY <1>3, <1>8

LEMMA SoundStart ==
    ASSUME NEW t \in Tournament, NEW E, NEW h, NEW n, NEW p, NEW s,
           TypesOf(t, E, h, n, {}, p), SoundOf(t, E, h, n, {}, p),
           t.status \in {"Open", "InProgress"}, s \in {"InProgress", "Cancelled"}
    PROVE  SoundOf(WithStatus(t, s), E, h, n, {}, p)
<1>1. Live(t) /\ s \in Status
  BY LiveTournament DEF Status
<1>2. PICK u \in Tournament :
          /\ u = WithStatus(t, s) /\ SameTerms(t, u) /\ u.total_pool = t.total_pool
          /\ u.status = s /\ u.ranked_winners = t.ranked_winners
  BY <1>1, StatusUpdate
<1>3. /\ h \in [Account -> 0 .. MaxI128] /\ SplitOf(t)
      /\ Total(Owing(t, h, {})) <= Left(t, p)
  BY <1>1 DEF TypesOf, SoundOf
<1>4. Live(u) /\ SplitOf(u) /\ u.entry_fee = t.entry_fee
  BY <1>2, <1>3, SplitKept, LiveTournament DEF SameTerms
<1>5. Owing(u, h, {}) = h /\ Owing(t, h, {}) = h
  BY <1>1, <1>2, <1>3, <1>4, FeesOwed
<1>6. Total(Owing(u, h, {})) <= Left(u, p)
  BY <1>1, <1>2, <1>3, <1>4, <1>5 DEF Left
<1>7. p = 0 /\ Total(h) = t.entry_fee * n /\ Total(h) \in Nat
  BY <1>1, <1>3, TournamentAssumption, UnitsFinite DEF SoundOf
<1>8. s = "Cancelled" => p = u.entry_fee * n - Total(h)
  <2>1. u.entry_fee * n = Total(h)
    BY <1>4, <1>7
  <2> QED BY <1>7, <2>1
<1>9. SoundOf(u, E, h, n, {}, p)
  BY <1>1, <1>2, <1>4, <1>6, <1>7, <1>8 DEF SoundOf
<1> QED BY <1>2, <1>9

LEMMA SoundFinalise ==
    ASSUME NEW t \in Tournament, NEW E, NEW h, NEW n, NEW p, NEW w \in Seq(Address),
           TypesOf(t, E, h, n, {}, p), SoundOf(t, E, h, n, {}, p),
           t.status = "InProgress", Len(w) <= Len(t.payout_bps)
    PROVE  /\ SoundOf(WithResult(t, w), E, h, n, {}, p)
           /\ Total(Owing(WithResult(t, w), h, {})) <= Left(t, p)
<1>1. /\ Live(t) /\ SplitOf(t) /\ t.entry_fee \in Fees /\ t.total_pool \in Nat
      /\ p = 0 /\ \A a \in Account \ E : h[a] = 0
  BY LiveTournament DEF SoundOf
<1>2. PICK u \in Tournament :
          /\ u = WithResult(t, w) /\ SameTerms(t, u) /\ u.total_pool = t.total_pool
          /\ u.status = "Finalised" /\ u.ranked_winners = w
  BY ResultUpdate
<1>3. Live(u) /\ SplitOf(u) /\ u.entry_fee = t.entry_fee
  BY <1>1, <1>2, LiveTournament DEF SameTerms, SplitOf
<1>4. Owing(u, h, {}) = Prizes(u)
  BY <1>2, <1>3 DEF Owing, Prizes
<1>5. Total(Owing(u, h, {})) <= Left(u, p) /\ Left(u, p) = Left(t, p)
  <2>1. Total(Prizes(u)) \in 0 .. u.total_pool
    BY <1>3, WinnersFit
  <2> QED BY <1>1, <1>2, <1>3, <1>4, <2>1 DEF Left
<1>6. PaidPrizes(u, {}) = 0
  <2>1. PICK f : f = [x \in {} |-> Share(u, Rank(u, x))]
    OBVIOUS
  <2>2. f = [x \in {} |-> 0]
    BY <2>1
  <2> QED BY <2>1, <2>2, TotalZero DEF PaidPrizes
<1>7. SoundOf(u, E, h, n, {}, p)
  BY <1>1, <1>2, <1>3, <1>5, <1>6 DEF SoundOf
<1> QED BY <1>2, <1>5, <1>7

(***************************************************************************)
(* A draw takes from the debts and from the pool what it pays.             *)
(***************************************************************************)
LEMMA DebtDrawn ==
    ASSUME NEW f \in [Account -> 0 .. MaxI128], NEW g \in [Account -> 0 .. MaxI128],
           NEW a \in Account, g[a] = 0, \A x \in Account \ {a} : g[x] = f[x]
    PROVE  /\ Total(g) = Total(f) - f[a]
           /\ Total(f) \in Nat /\ Total(g) \in Nat /\ f[a] \in Nat
<1>1. MaxI128 \in Nat /\ IsFiniteSet(Account)
  BY TournamentAssumption
<1>2. Total(g) = Total(f) - f[a] + g[a]
  BY <1>1, TotalChange
<1>3. Total(f) \in Nat /\ Total(g) \in Nat
  BY <1>1, UnitsFinite
<1>4. f[a] \in Nat
  BY <1>1
<1> QED BY <1>2, <1>3, <1>4

LEMMA PaidPrizesGrow ==
    ASSUME NEW t \in Tournament, SplitOf(t), NEW c \in SUBSET Account, c \subseteq Winners(t),
           NEW a \in Account, a \in Winners(t), a \notin c
    PROVE  /\ PaidPrizes(t, c \cup {a}) = PaidPrizes(t, c) + Share(t, Rank(t, a))
           /\ PaidPrizes(t, c) \in Nat
<1>1. PICK pool \in Nat : pool = t.total_pool
  BY PrizesType
<1>2. \A x \in Winners(t) : Share(t, Rank(t, x)) \in 0 .. pool
  BY <1>1, RankOfWinner, ShareBounds, Zenon
<1> DEFINE d == c \cup {a}
           f == [x \in Account |-> IF x \in c THEN Share(t, Rank(t, x)) ELSE 0]
           g == [x \in Account |-> IF x \in d THEN Share(t, Rank(t, x)) ELSE 0]
           fc == [x \in c |-> Share(t, Rank(t, x))]
           gd == [x \in d |-> Share(t, Rank(t, x))]
<1>3. f \in [Account -> 0 .. pool] /\ g \in [Account -> 0 .. pool]
  BY <1>1, <1>2
<1>4. f[a] = 0 /\ g[a] = Share(t, Rank(t, a)) /\ \A x \in Account \ {a} : g[x] = f[x]
  OBVIOUS
<1>5. /\ DOMAIN fc = c /\ DOMAIN gd = d /\ DOMAIN f = Account /\ DOMAIN g = Account
      /\ d \subseteq Account
      /\ \A x \in c : f[x] = fc[x]
      /\ \A x \in d : g[x] = gd[x]
      /\ \A x \in Account \ c : f[x] = 0
      /\ \A x \in Account \ d : g[x] = 0
  OBVIOUS
<1>6. PaidPrizes(t, c) = Total(fc) /\ PaidPrizes(t, d) = Total(gd)
  BY DEF PaidPrizes
<1> HIDE DEF d, f, g, fc, gd
<1>7. Total(fc) = Total(f) /\ Total(gd) = Total(g)
  BY <1>5, TotalPadded
<1>8. IsFiniteSet(Account)
  BY TournamentAssumption
<1>9. Total(g) = Total(f) - f[a] + g[a] /\ Total(f) \in Nat
  BY <1>1, <1>3, <1>4, <1>8, TotalChange, UnitsFinite
<1>10. g[a] \in Nat
  BY <1>1, <1>3
<1> QED BY <1>4, <1>6, <1>7, <1>9, <1>10 DEF d

LEMMA SoundClaim ==
    ASSUME NEW t \in Tournament, NEW E, NEW h, NEW n, NEW c, NEW p,
           TypesOf(t, E, h, n, c, p), SoundOf(t, E, h, n, c, p),
           t.status = "Finalised", NEW a \in Account, a \in Winners(t), a \notin c
    PROVE  /\ SoundOf(t, E, h, n, c \cup {a}, p + Share(t, Rank(t, a)))
           /\ Owing(t, h, c)[a] = Share(t, Rank(t, a))
           /\ Owing(t, h, c \cup {a}) = [Owing(t, h, c) EXCEPT ![a] = 0]
           /\ Share(t, Rank(t, a)) \in Nat
<1> DEFINE share == Share(t, Rank(t, a))
           d == c \cup {a}
           q == p + share
<1>1. /\ Live(t) /\ SplitOf(t) /\ c \in SUBSET Account /\ c \subseteq Winners(t)
      /\ p = PaidPrizes(t, c) /\ p \in Nat
      /\ Total(Owing(t, h, c)) <= Left(t, p) /\ t.total_pool \in Nat
  BY LiveTournament DEF SoundOf, TypesOf
<1>2. PaidPrizes(t, d) = q /\ d \in SUBSET Account /\ d \subseteq Winners(t)
  BY <1>1, PaidPrizesGrow
<1>3. share \in Nat
  <2>1. PICK pool \in Nat : pool = t.total_pool
    BY <1>1
  <2>2. share \in 0 .. pool
    BY <1>1, <2>1, RankOfWinner, ShareBounds, Zenon
  <2> QED BY <2>2
<1>4. q \in Nat
  BY <1>1, <1>3
<1>5. TypesOf(t, E, h, n, d, q)
  BY <1>2, <1>4 DEF TypesOf
<1>6. /\ Owing(t, h, c) \in [Account -> 0 .. MaxI128]
      /\ Owing(t, h, d) \in [Account -> 0 .. MaxI128]
  BY <1>1, <1>5, OwingType, Zenon
<1>7. /\ Owing(t, h, c)[a] = share
      /\ Owing(t, h, d)[a] = 0
      /\ \A x \in Account \ {a} : Owing(t, h, d)[x] = Owing(t, h, c)[x]
  BY <1>1 DEF Owing, Prize
<1>8. Total(Owing(t, h, d)) = Total(Owing(t, h, c)) - share /\ Total(Owing(t, h, c)) \in Nat
  <2>1. PICK f, g : f = Owing(t, h, c) /\ g = Owing(t, h, d)
    OBVIOUS
  <2>2. /\ f \in [Account -> 0 .. MaxI128] /\ g \in [Account -> 0 .. MaxI128]
        /\ f[a] = share /\ g[a] = 0 /\ \A x \in Account \ {a} : g[x] = f[x]
    BY <1>6, <1>7, <2>1, Zenon
  <2> HIDE DEF share, d
  <2>3. Total(g) = Total(f) - share /\ Total(f) \in Nat
    BY <2>2, DebtDrawn
  <2> QED BY <2>1, <2>3
<1>9. Total(Owing(t, h, d)) <= Left(t, q)
  BY <1>1, <1>3, <1>8 DEF Left
<1>10. Owing(t, h, d) = [Owing(t, h, c) EXCEPT ![a] = 0]
  <2>1. PICK f \in [Account -> 0 .. MaxI128], g \in [Account -> 0 .. MaxI128] :
            f = Owing(t, h, c) /\ g = Owing(t, h, d)
    BY <1>6
  <2>2. g = [f EXCEPT ![a] = 0]
    BY <1>7, <2>1
  <2> QED BY <2>1, <2>2
<1> HIDE DEF share, q, d
<1>11. SoundOf(t, E, h, n, d, q)
  BY <1>1, <1>2, <1>9 DEF SoundOf
<1> QED BY <1>3, <1>7, <1>10, <1>11 DEF share, q, d

LEMMA SoundRefund ==
    ASSUME NEW t \in Tournament, NEW E, NEW h, NEW n, NEW c, NEW p,
           TypesOf(t, E, h, n, c, p), SoundOf(t, E, h, n, c, p),
           t.status = "Cancelled", NEW a \in Account
    PROVE  /\ SoundOf(t, E, [h EXCEPT ![a] = 0], n, c, p + h[a])
           /\ Owing(t, h, c)[a] = h[a]
           /\ Owing(t, [h EXCEPT ![a] = 0], c) = [Owing(t, h, c) EXCEPT ![a] = 0]
           /\ h[a] \in Nat
<1> DEFINE g == [h EXCEPT ![a] = 0]
           q == p + h[a]
<1>1. /\ Live(t) /\ SplitOf(t) /\ t.entry_fee \in Fees /\ c = {}
      /\ \A x \in Account \ E : h[x] = 0
      /\ p = t.entry_fee * n - Total(h) /\ p \in Nat /\ n \in Nat
      /\ Total(Owing(t, h, c)) <= Left(t, p)
      /\ t.total_pool \in Nat /\ t.entry_fee \in Nat
  BY LiveTournament DEF SoundOf, TypesOf
<1>2. h \in [Account -> 0 .. MaxI128] /\ MaxI128 \in Nat
  BY TournamentAssumption DEF TypesOf
<1>3. /\ g \in [Account -> 0 .. MaxI128] /\ g[a] = 0
      /\ \A x \in Account \ {a} : g[x] = h[x]
  BY <1>2
<1>4. Owing(t, h, c) = h /\ Owing(t, g, c) = g
  BY <1>1, <1>2, <1>3, FeesOwed
<1>5. /\ Total(g) = Total(h) - h[a]
      /\ Total(h) \in Nat /\ Total(g) \in Nat /\ h[a] \in Nat
  BY <1>2, <1>3, DebtDrawn
<1>6. q \in Nat /\ Total(g) <= Left(t, q)
  BY <1>1, <1>4, <1>5 DEF Left
<1>7. q = t.entry_fee * n - Total(g)
  <2>1. t.entry_fee * n \in Nat
    BY <1>1, Product
  <2> QED BY <1>1, <1>5, <2>1
<1>8. \A x \in Account \ E : g[x] = 0
  BY <1>1, <1>3
<1>9. SoundOf(t, E, g, n, c, q)
  <2> HIDE DEF g, q
  <2> QED BY <1>1, <1>4, <1>6, <1>7, <1>8 DEF SoundOf
<1> QED BY <1>4, <1>5, <1>9

-----------------------------------------------------------------------------
(***************************************************************************)
(* The invariant.                                                          *)
(***************************************************************************)
BeforeInitialize == admin = NoAdmin => nextId = 0

Fresh == \A i \in TournamentId : i >= nextId => ~Live(tournament[i])

TypesAt(i) ==
    TypesOf(tournament[i], entrants[i], feeHeld[i], entrantCount[i], claimed[i], paidOut[i])

SoundAt(i) ==
    SoundOf(tournament[i], entrants[i], feeHeld[i], entrantCount[i], claimed[i], paidOut[i])

Sound == \A i \in TournamentId : SoundAt(i)

\* What is left of a pool of token k, and of all of them.
KeptOf(t, p, k) == IF Live(t) /\ t.reward_token = k THEN Left(t, p) ELSE 0
Kept(k) == [i \in TournamentId |-> KeptOf(tournament[i], paidOut[i], k)]

Balanced == \A k \in RewardToken : Total(Kept(k)) = tokens[k][Contract]

IInv == TypeOK /\ BeforeInitialize /\ Fresh /\ Sound /\ Balanced

LEMMA TypesOfId ==
    ASSUME TypeOK, NEW i \in TournamentId
    PROVE  TypesAt(i)
BY TournamentAssumption DEF TypeOK, TypesAt, TypesOf

(***************************************************************************)
(* A step that writes what is stored under one id.                         *)
(***************************************************************************)
WritesAt(id, t, E, h, n, c, p) ==
    /\ tournament' = [tournament EXCEPT ![id] = t]
    /\ entrants' = [entrants EXCEPT ![id] = E]
    /\ feeHeld' = [feeHeld EXCEPT ![id] = h]
    /\ entrantCount' = [entrantCount EXCEPT ![id] = n]
    /\ claimed' = [claimed EXCEPT ![id] = c]
    /\ paidOut' = [paidOut EXCEPT ![id] = p]

\* ... and moves between the contract and the accounts what the pool changes by.
TokensFollow(id, t, p) ==
    /\ tokens' \in [RewardToken -> [Address -> Nat]]
    /\ \A k \in RewardToken :
           tokens'[k][Contract] = tokens[k][Contract]
               - KeptOf(tournament[id], paidOut[id], k) + KeptOf(t, p, k)

LEMMA KeptIsAmount ==
    ASSUME NEW t, NEW E, NEW h, NEW n, NEW c, NEW p, NEW k,
           TypesOf(t, E, h, n, c, p), SoundOf(t, E, h, n, c, p)
    PROVE  KeptOf(t, p, k) \in 0 .. MaxI128
<1>1. Left(t, p) \in 0 .. MaxI128
  BY LeftIsAmount, Zenon
<1> QED BY <1>1, TournamentAssumption DEF KeptOf

LEMMA WriteTypes ==
    ASSUME TypeOK, NEW id \in TournamentId,
           NEW t, NEW E, NEW h, NEW n, NEW c, NEW p,
           TypesOf(t, E, h, n, c, p), n <= MaxU32, WritesAt(id, t, E, h, n, c, p),
           tokens' \in [RewardToken -> [Address -> Nat]],
           admin' \in Account \cup {NoAdmin}, nextId' \in 0 .. MaxU32
    PROVE  TypeOK'
<1>1. n \in 0 .. MaxU32
  BY TournamentAssumption DEF TypesOf
<1>2. /\ tournament' \in [TournamentId -> Tournament \cup {NoTournament}]
      /\ entrants' \in [TournamentId -> SUBSET Account]
  BY DEF TypeOK, TypesOf, WritesAt
<1>3. /\ feeHeld' \in [TournamentId -> [Account -> 0 .. MaxI128]]
      /\ entrantCount' \in [TournamentId -> 0 .. MaxU32]
  BY <1>1 DEF TypeOK, TypesOf, WritesAt
<1>4. /\ claimed' \in [TournamentId -> SUBSET Account]
      /\ paidOut' \in [TournamentId -> Nat]
  BY DEF TypeOK, TypesOf, WritesAt
<1> QED BY <1>2, <1>3, <1>4 DEF TypeOK

LEMMA WriteSound ==
    ASSUME TypeOK, Sound, Balanced, NEW id \in TournamentId,
           NEW t, NEW E, NEW h, NEW n, NEW c, NEW p,
           TypesOf(t, E, h, n, c, p), SoundOf(t, E, h, n, c, p),
           WritesAt(id, t, E, h, n, c, p), TokensFollow(id, t, p)
    PROVE  Sound' /\ Balanced'
<1>1. /\ tournament'[id] = t /\ entrants'[id] = E /\ feeHeld'[id] = h
      /\ entrantCount'[id] = n /\ claimed'[id] = c /\ paidOut'[id] = p
  BY DEF TypeOK, WritesAt
<1>2. \A i \in TournamentId \ {id} :
          /\ tournament'[i] = tournament[i] /\ entrants'[i] = entrants[i]
          /\ feeHeld'[i] = feeHeld[i] /\ entrantCount'[i] = entrantCount[i]
          /\ claimed'[i] = claimed[i] /\ paidOut'[i] = paidOut[i]
  BY DEF TypeOK, WritesAt
<1>3. Sound'
  <2> SUFFICES ASSUME NEW i \in TournamentId PROVE SoundAt(i)'
    BY DEF Sound
  <2>1. CASE i = id
    BY <1>1, <2>1 DEF SoundAt
  <2>2. CASE i # id
    BY <1>2, <2>2 DEF Sound, SoundAt
  <2> QED BY <2>1, <2>2
<1>4. Balanced'
  <2> SUFFICES ASSUME NEW k \in RewardToken
               PROVE  Total(Kept(k)') = tokens'[k][Contract]
    BY DEF Balanced
  <2>1. \A i \in TournamentId : KeptOf(tournament[i], paidOut[i], k) \in 0 .. MaxI128
    BY TypesOfId, KeptIsAmount, Zenon DEF TypesAt, Sound, SoundAt
  <2>2. KeptOf(t, p, k) \in 0 .. MaxI128
    BY KeptIsAmount, Zenon
  <2>3. Kept(k) \in [TournamentId -> 0 .. MaxI128]
    BY <2>1 DEF Kept
  <2>4. PICK f, g : f = Kept(k) /\ g = Kept(k)'
    OBVIOUS
  <2>5. /\ f \in [TournamentId -> 0 .. MaxI128] /\ g \in [TournamentId -> 0 .. MaxI128]
        /\ f[id] = KeptOf(tournament[id], paidOut[id], k)
        /\ g[id] = KeptOf(t, p, k)
        /\ \A i \in TournamentId \ {id} : g[i] = f[i]
    <3>1. /\ f[id] = KeptOf(tournament[id], paidOut[id], k)
          /\ g[id] = KeptOf(t, p, k)
          /\ \A i \in TournamentId \ {id} : g[i] = f[i]
      BY <1>1, <1>2, <2>4 DEF Kept
    <3>2. \A i \in TournamentId : g[i] \in 0 .. MaxI128
      BY <2>2, <2>3, <2>4, <3>1
    <3>3. g = [i \in TournamentId |-> g[i]]
      BY <2>4 DEF Kept
    <3> QED BY <2>3, <2>4, <3>1, <3>2, <3>3
  <2>6. IsFiniteSet(TournamentId) /\ MaxI128 \in Nat
    <3>1. 0 \in Int /\ MaxU32 - 1 \in Int
      BY TournamentAssumption
    <3> QED BY <3>1, FS_Interval, TournamentAssumption DEF TournamentId
  <2>7. Total(g) = Total(f) - f[id] + g[id]
    BY <2>5, <2>6, TotalChange
  <2>8. Total(f) = tokens[k][Contract]
    BY <2>4 DEF Balanced
  <2> QED BY <2>4, <2>5, <2>7, <2>8 DEF TokensFollow
<1> QED BY <1>3, <1>4

(***************************************************************************)
(* What the token contract does: two balances of one token change.         *)
(***************************************************************************)
Moved(k, from, to, amount) ==
    /\ amount \in 0 .. tokens[k][from]
    /\ tokens' \in [RewardToken -> [Address -> Nat]]
    /\ tokens'[k][from] = tokens[k][from] - amount
    /\ tokens'[k][to] = tokens[k][to] + amount
    /\ \A x \in Address \ {from, to} : tokens'[k][x] = tokens[k][x]
    /\ \A j \in RewardToken \ {k} : tokens'[j] = tokens[j]

LEMMA PaysEffect ==
    ASSUME TypeOK, NEW k \in RewardToken, NEW from \in Address, NEW to \in Address,
           from # to, NEW amount \in Int, Pays(k, from, to, amount)
    PROVE  Moved(k, from, to, amount)
<1>1. PICK bal \in [Address -> Nat] : bal = tokens[k]
  BY DEF TypeOK
<1>2. PICK new : new = Transferred(bal, from, to, amount)
  OBVIOUS
<1>3. CanTransfer(bal, from, amount)
  BY <1>1 DEF Pays
<1>4. tokens' = [tokens EXCEPT ![k] = new]
  BY <1>1, <1>2 DEF Pays
<1>5. /\ new \in [Address -> Nat]
      /\ new[from] = bal[from] - amount
      /\ new[to] = bal[to] + amount
      /\ \A x \in Address \ {from, to} : new[x] = bal[x]
  BY <1>2, <1>3, TransferEffect
<1>6. amount \in 0 .. bal[from]
  BY <1>3 DEF CanTransfer
<1>7. /\ tokens' \in [RewardToken -> [Address -> Nat]]
      /\ tokens'[k] = new /\ \A j \in RewardToken \ {k} : tokens'[j] = tokens[j]
  BY <1>4, <1>5 DEF TypeOK
<1> QED BY <1>1, <1>5, <1>6, <1>7 DEF Moved

LEMMA NothingMoved ==
    ASSUME TypeOK, NEW k \in RewardToken, NEW from \in Address, NEW to \in Address,
           UNCHANGED tokens
    PROVE  Moved(k, from, to, 0)
<1>1. tokens[k] \in [Address -> Nat]
  BY DEF TypeOK
<1>2. tokens[k][from] \in Nat /\ tokens[k][to] \in Nat
  BY <1>1
<1> QED BY <1>2 DEF Moved, TypeOK

-----------------------------------------------------------------------------
(***************************************************************************)
(* Payments into a pool, out of it, and none: the balance of the contract  *)
(* changes by what is left of the pool.                                    *)
(***************************************************************************)
LEMMA PaidIn ==
    ASSUME TypeOK, NEW id \in TournamentId, NEW u \in Tournament, NEW t \in Tournament,
           u = tournament[id], t.reward_token = u.reward_token,
           NEW a \in Account, NEW amount \in Nat, t.total_pool = u.total_pool + amount,
           Moved(u.reward_token, a, Contract, amount)
    PROVE  TokensFollow(id, t, paidOut[id])
<1>1. /\ Live(u) /\ Live(t) /\ u.total_pool \in Nat /\ u.reward_token \in RewardToken
      /\ paidOut[id] \in Nat /\ Contract \in Address /\ a # Contract
  BY LiveTournament, TournamentAssumption DEF TypeOK, Address
<1>2. ASSUME NEW k \in RewardToken
      PROVE  tokens'[k][Contract] = tokens[k][Contract]
                 - KeptOf(u, paidOut[id], k) + KeptOf(t, paidOut[id], k)
  <2>1. tokens[k][Contract] \in Nat
    BY <1>1 DEF TypeOK
  <2>2. CASE k = u.reward_token
    BY <1>1, <2>1, <2>2 DEF Moved, KeptOf, Left
  <2>3. CASE k # u.reward_token
    BY <1>1, <2>1, <2>3 DEF Moved, KeptOf
  <2> QED BY <2>2, <2>3
<1> QED BY <1>2 DEF TokensFollow, Moved

LEMMA PaidOut ==
    ASSUME TypeOK, NEW id \in TournamentId, NEW t \in Tournament, t = tournament[id],
           NEW a \in Account, NEW amount \in Nat,
           Moved(t.reward_token, Contract, a, amount)
    PROVE  TokensFollow(id, t, paidOut[id] + amount)
<1>1. /\ Live(t) /\ t.total_pool \in Nat /\ t.reward_token \in RewardToken
      /\ paidOut[id] \in Nat /\ Contract \in Address /\ a # Contract
  BY LiveTournament, TournamentAssumption DEF TypeOK, Address
<1>2. ASSUME NEW k \in RewardToken
      PROVE  tokens'[k][Contract] = tokens[k][Contract]
                 - KeptOf(t, paidOut[id], k) + KeptOf(t, paidOut[id] + amount, k)
  <2>1. tokens[k][Contract] \in Nat
    BY <1>1 DEF TypeOK
  <2>2. CASE k = t.reward_token
    BY <1>1, <2>1, <2>2 DEF Moved, KeptOf, Left
  <2>3. CASE k # t.reward_token
    BY <1>1, <2>1, <2>3 DEF Moved, KeptOf
  <2> QED BY <2>2, <2>3
<1> QED BY <1>2 DEF TokensFollow, Moved

LEMMA NonePaid ==
    ASSUME TypeOK, NEW id \in TournamentId, NEW t, UNCHANGED tokens,
           \A k \in RewardToken :
               /\ KeptOf(t, paidOut[id], k) = KeptOf(tournament[id], paidOut[id], k)
               /\ KeptOf(t, paidOut[id], k) \in 0 .. MaxI128
    PROVE  TokensFollow(id, t, paidOut[id])
<1>1. \A k \in RewardToken : tokens[k][Contract] \in Nat
  BY DEF TypeOK, Address
<1> QED BY <1>1, TournamentAssumption DEF TokensFollow, TypeOK

(***************************************************************************)
(* What an operation does: it leaves what it writes typed and sound, and   *)
(* the tokens follow.                                                      *)
(***************************************************************************)
StepTo(id, t, E, h, n, c, p) ==
    /\ TypesOf(t, E, h, n, c, p) /\ n <= MaxU32
    /\ SoundOf(t, E, h, n, c, p)
    /\ WritesAt(id, t, E, h, n, c, p)
    /\ TokensFollow(id, t, p)

LEMMA StepToInv ==
    ASSUME TypeOK, Sound, Balanced, NEW id \in TournamentId,
           NEW t, NEW E, NEW h, NEW n, NEW c, NEW p, StepTo(id, t, E, h, n, c, p),
           admin' \in Account \cup {NoAdmin}, nextId' \in 0 .. MaxU32
    PROVE  TypeOK' /\ Sound' /\ Balanced'
<1>1. Sound' /\ Balanced'
  BY WriteSound DEF StepTo
<1>2. TypeOK'
  BY WriteTypes DEF StepTo, TokensFollow
<1> QED BY <1>1, <1>2

\* What is known of a tournament before it is written to.
Stored(id, t, E, h, n, c, p) ==
    /\ t = tournament[id] /\ E = entrants[id] /\ h = feeHeld[id] /\ n = entrantCount[id]
    /\ c = claimed[id] /\ p = paidOut[id]
    /\ TypesOf(t, E, h, n, c, p) /\ n <= MaxU32
    /\ SoundOf(t, E, h, n, c, p)

LEMMA StoredAt ==
    ASSUME TypeOK, Sound, NEW id \in TournamentId
    PROVE  \E t, E, h, n, c, p : Stored(id, t, E, h, n, c, p)
<1>1. TypesAt(id) /\ SoundAt(id)
  BY TypesOfId DEF Sound
<1>2. entrantCount[id] <= MaxU32
  BY TournamentAssumption DEF TypeOK
<1>3. Stored(id, tournament[id], entrants[id], feeHeld[id], entrantCount[id],
             claimed[id], paidOut[id])
  BY <1>1, <1>2 DEF Stored, TypesAt, SoundAt
<1> QED BY <1>3

LEMMA StoredTournament ==
    ASSUME NEW id, NEW t, NEW E, NEW h, NEW n, NEW c, NEW p,
           Stored(id, t, E, h, n, c, p), NEW statuses, In(id, statuses)
    PROVE  /\ t \in Tournament /\ Live(t) /\ t.status \in statuses
           /\ t.reward_token \in RewardToken /\ t.entry_fee \in 0 .. MaxI128
           /\ t.total_pool \in 0 .. MaxI128
           /\ t.entry_fee \in Nat /\ t.total_pool \in Nat
           /\ h \in [Account -> 0 .. MaxI128] /\ n \in Nat /\ n <= MaxU32
           /\ c \in SUBSET Account /\ E \in SUBSET Account /\ p \in Nat
           /\ t.status # "Finalised" => c = {}
<1>1. t \in Tournament /\ Live(t) /\ t.status \in statuses
  BY DEF Stored, In, TypesOf, Live
<1>2. t.status # "Finalised" => c = {}
  BY <1>1 DEF Stored, SoundOf
<1> QED BY <1>1, <1>2, LiveTournament DEF Stored, TypesOf

(***************************************************************************)
(* The effect of each operation.                                           *)
(***************************************************************************)
LEMMA CreateEffect ==
    ASSUME TypeOK, Fresh, Sound, NEW s \in Account, NEW k \in RewardToken, NEW fee \in Fees,
           NEW bps \in Splits, CreateTournament({s}, k, fee, bps)
    PROVE  /\ nextId \in TournamentId /\ ~Live(tournament[nextId])
           /\ fee >= 0 /\ bps \in ValidSplits
           /\ StepTo(nextId, New(k, fee, bps), {}, NoFees, 0, {}, 0)
<1>1. nextId \in TournamentId /\ nextId >= nextId
  BY TournamentAssumption DEF TypeOK, CreateTournament, TournamentId
<1>2. ~Live(tournament[nextId])
  BY <1>1 DEF Fresh
<1>3. paidOut[nextId] = 0
  BY <1>1, <1>2 DEF Sound, SoundAt, SoundOf, Untouched
<1>4. fee >= 0 /\ bps \in ValidSplits
  BY DEF CreateTournament
<1>5. PICK t \in Tournament : /\ t = New(k, fee, bps) /\ Live(t) /\ t.reward_token = k
                              /\ t.total_pool = 0
  BY <1>4, NewTournament
<1>6. SoundOf(t, {}, NoFees, 0, {}, 0)
  BY <1>4, <1>5, SoundNew
<1>7. NoFees \in [Account -> 0 .. MaxI128]
  BY TournamentAssumption DEF NoFees
<1>8. TypesOf(t, {}, NoFees, 0, {}, 0) /\ 0 <= MaxU32
  BY <1>7, TournamentAssumption DEF TypesOf
<1>9. WritesAt(nextId, t, {}, NoFees, 0, {}, 0)
  BY <1>1, <1>3, <1>5 DEF CreateTournament, WritesAt, New, NoFees, TypeOK
<1>10. TokensFollow(nextId, t, 0)
  <2>1. \A j \in RewardToken : KeptOf(t, 0, j) = 0 /\ KeptOf(tournament[nextId], 0, j) = 0
    BY <1>2, <1>5 DEF KeptOf, Left
  <2>2. 0 \in 0 .. MaxI128 /\ UNCHANGED tokens
    BY TournamentAssumption DEF CreateTournament
  <2>3. TokensFollow(nextId, t, paidOut[nextId])
    BY <1>1, <1>3, <2>1, <2>2, NonePaid
  <2> QED BY <1>3, <2>3
<1> QED BY <1>1, <1>2, <1>4, <1>5, <1>6, <1>8, <1>9, <1>10 DEF StepTo

LEMMA EnterEffect ==
    ASSUME TypeOK, Sound, NEW s \in Account, NEW a \in Account, NEW id \in TournamentId,
           Enter({s}, a, id),
           NEW t, NEW E, NEW h, NEW n, NEW c, NEW p, Stored(id, t, E, h, n, c, p)
    PROVE  /\ t.status = "Open" /\ a \notin E /\ c = {}
           /\ Moved(t.reward_token, a, Contract, t.entry_fee)
           /\ StepTo(id, WithPool(t, t.total_pool + t.entry_fee), E \cup {a},
                     [h EXCEPT ![a] = t.entry_fee], n + 1, {}, p)
<1> DEFINE fee == t.entry_fee
           pool == t.total_pool
           g == [h EXCEPT ![a] = fee]
<1>1. /\ In(id, {"Open"}) /\ a \notin E /\ n < MaxU32
      /\ IF fee > 0 THEN /\ Pays(t.reward_token, a, Contract, fee)
                         /\ pool + fee \in I128
                    ELSE UNCHANGED tokens
      /\ tournament' = [tournament EXCEPT ![id].total_pool = @ + fee]
      /\ feeHeld' = [feeHeld EXCEPT ![id][a] = fee]
      /\ entrants' = [entrants EXCEPT ![id] = @ \cup {a}]
      /\ entrantCount' = [entrantCount EXCEPT ![id] = @ + 1]
      /\ UNCHANGED <<claimed, paidOut>>
  BY DEF Enter, Stored
<1>2. /\ t \in Tournament /\ Live(t) /\ t.status = "Open" /\ c = {}
      /\ t.reward_token \in RewardToken /\ fee \in 0 .. MaxI128 /\ pool \in 0 .. MaxI128
      /\ fee \in Nat /\ pool \in Nat
      /\ h \in [Account -> 0 .. MaxI128] /\ n \in Nat
      /\ E \in SUBSET Account /\ p \in Nat
  <2>1. /\ t \in Tournament /\ Live(t) /\ t.status \in {"Open"}
        /\ t.status # "Finalised" => c = {}
        /\ t.reward_token \in RewardToken /\ fee \in 0 .. MaxI128 /\ pool \in 0 .. MaxI128
        /\ fee \in Nat /\ pool \in Nat
        /\ h \in [Account -> 0 .. MaxI128] /\ n \in Nat
        /\ E \in SUBSET Account /\ p \in Nat
    <3>1. In(id, {"Open"})
      BY <1>1
    <3> QED BY <3>1, StoredTournament
  <2> QED BY <2>1
<1>3. MaxI128 \in Nat /\ MaxU32 \in Nat /\ Contract \in Address /\ a \in Address /\ a # Contract
  BY TournamentAssumption DEF Address
<1>4. Moved(t.reward_token, a, Contract, fee)
  <2>1. CASE fee > 0
    BY <1>1, <1>2, <1>3, <2>1, PaysEffect
  <2>2. CASE ~(fee > 0)
    <3>1. fee = 0 /\ UNCHANGED tokens
      BY <1>1, <1>2, <2>2
    <3>2. Moved(t.reward_token, a, Contract, 0)
      BY <1>2, <1>3, <3>1, NothingMoved
    <3> QED BY <3>1, <3>2
  <2> QED BY <2>1, <2>2
<1>5. pool + fee <= MaxI128 /\ pool + fee \in 0 .. MaxI128
  BY <1>1, <1>2, <1>3 DEF I128
<1>6. PICK u \in Tournament : /\ u = WithPool(t, pool + fee) /\ SameTerms(t, u)
                              /\ u.total_pool = pool + fee
  BY <1>2, <1>5, PoolUpdate
<1>7. SoundOf(u, E \cup {a}, g, n + 1, {}, p)
  <2>1. TypesOf(t, E, h, n, {}, p) /\ SoundOf(t, E, h, n, {}, p)
    BY <1>2 DEF Stored
  <2> QED BY <1>1, <1>2, <1>5, <1>6, <2>1, SoundEnter
<1>8. TypesOf(u, E \cup {a}, g, n + 1, {}, p) /\ n + 1 <= MaxU32
  BY <1>1, <1>2, <1>3 DEF TypesOf
<1>9. WritesAt(id, u, E \cup {a}, g, n + 1, {}, p)
  <2>1. tournament' = [tournament EXCEPT ![id] = u]
    BY <1>1, <1>6 DEF Stored, WithPool, TypeOK
  <2>2. feeHeld' = [feeHeld EXCEPT ![id] = g]
    BY <1>1 DEF Stored, TypeOK
  <2>3. /\ entrants' = [entrants EXCEPT ![id] = E \cup {a}]
        /\ entrantCount' = [entrantCount EXCEPT ![id] = n + 1]
    BY <1>1 DEF Stored, TypeOK
  <2>4. claimed' = [claimed EXCEPT ![id] = {}] /\ paidOut' = [paidOut EXCEPT ![id] = p]
    BY <1>1, <1>2 DEF Stored, TypeOK
  <2> QED BY <2>1, <2>2, <2>3, <2>4 DEF WritesAt
<1>10. TokensFollow(id, u, p)
  <2>1. t = tournament[id] /\ p = paidOut[id]
    BY DEF Stored
  <2> QED BY <1>2, <1>4, <1>6, <2>1, PaidIn DEF SameTerms
<1> QED BY <1>1, <1>2, <1>4, <1>6, <1>7, <1>8, <1>9, <1>10 DEF StepTo

LEMMA TopUpEffect ==
    ASSUME TypeOK, Sound, NEW s \in Account, NEW a \in Account, NEW id \in TournamentId,
           NEW amount \in Amounts, TopUp({s}, a, id, amount),
           NEW t, NEW E, NEW h, NEW n, NEW c, NEW p, Stored(id, t, E, h, n, c, p)
    PROVE  /\ t.status \in {"Open", "InProgress"} /\ amount \in Nat /\ c = {}
           /\ Moved(t.reward_token, a, Contract, amount)
           /\ StepTo(id, WithPool(t, t.total_pool + amount), E, h, n, {}, p)
<1> DEFINE pool == t.total_pool
<1>1. /\ In(id, {"Open", "InProgress"}) /\ amount > 0
      /\ Pays(t.reward_token, a, Contract, amount)
      /\ pool + amount \in I128
      /\ tournament' = [tournament EXCEPT ![id].total_pool = @ + amount]
      /\ UNCHANGED <<entrants, feeHeld, entrantCount, claimed, paidOut>>
  BY DEF TopUp, TakesTopUps, Stored
<1>2. /\ t \in Tournament /\ Live(t) /\ t.status \in {"Open", "InProgress"} /\ c = {}
      /\ t.reward_token \in RewardToken /\ pool \in 0 .. MaxI128 /\ pool \in Nat
  <2>1. /\ t \in Tournament /\ Live(t) /\ t.status \in {"Open", "InProgress"}
        /\ t.status # "Finalised" => c = {}
        /\ t.reward_token \in RewardToken /\ pool \in 0 .. MaxI128 /\ pool \in Nat
    BY <1>1, StoredTournament, Zenon
  <2> QED BY <2>1
<1>3. /\ MaxI128 \in Nat /\ amount \in Nat /\ amount \in Int
      /\ Contract \in Address /\ a \in Address /\ a # Contract
  BY <1>1, TournamentAssumption DEF Address, I128
<1>4. Moved(t.reward_token, a, Contract, amount)
  BY <1>1, <1>2, <1>3, PaysEffect
<1>5. pool + amount <= MaxI128 /\ pool + amount \in 0 .. MaxI128
  BY <1>1, <1>2, <1>3 DEF I128
<1>6. PICK u \in Tournament : /\ u = WithPool(t, pool + amount) /\ SameTerms(t, u)
                              /\ u.total_pool = pool + amount
  BY <1>2, <1>5, PoolUpdate
<1>7. /\ TypesOf(t, E, h, n, {}, p) /\ SoundOf(t, E, h, n, {}, p) /\ n <= MaxU32
      /\ t = tournament[id] /\ p = paidOut[id]
  BY <1>2 DEF Stored
<1>8. SoundOf(u, E, h, n, {}, p)
  BY <1>2, <1>3, <1>5, <1>6, <1>7, SoundTopUp
<1>9. TypesOf(u, E, h, n, {}, p)
  BY <1>7 DEF TypesOf
<1>10. WritesAt(id, u, E, h, n, {}, p)
  <2>1. tournament' = [tournament EXCEPT ![id] = u]
    BY <1>1, <1>6, <1>7 DEF WithPool, TypeOK
  <2>2. /\ entrants' = [entrants EXCEPT ![id] = E] /\ feeHeld' = [feeHeld EXCEPT ![id] = h]
        /\ entrantCount' = [entrantCount EXCEPT ![id] = n]
    BY <1>1 DEF Stored, TypeOK
  <2>3. claimed' = [claimed EXCEPT ![id] = {}] /\ paidOut' = [paidOut EXCEPT ![id] = p]
    BY <1>1, <1>2 DEF Stored, TypeOK
  <2> QED BY <2>1, <2>2, <2>3 DEF WritesAt
<1>11. TokensFollow(id, u, p)
  BY <1>2, <1>3, <1>4, <1>6, <1>7, PaidIn DEF SameTerms
<1> QED BY <1>2, <1>3, <1>4, <1>6, <1>7, <1>8, <1>9, <1>10, <1>11 DEF StepTo

\* The admin's moves change the tournament only, and not its pool.
LEMMA MoveEffect ==
    ASSUME TypeOK, Sound, NEW id \in TournamentId,
           NEW t, NEW E, NEW h, NEW n, NEW c, NEW p, Stored(id, t, E, h, n, c, p),
           NEW u \in Tournament, t \in Tournament, SameTerms(t, u),
           u.total_pool = t.total_pool, SoundOf(u, E, h, n, c, p),
           tournament' = [tournament EXCEPT ![id] = u],
           UNCHANGED <<entrants, feeHeld, entrantCount, claimed, tokens, paidOut>>
    PROVE  StepTo(id, u, E, h, n, c, p)
<1>1. /\ TypesOf(t, E, h, n, c, p) /\ SoundOf(t, E, h, n, c, p) /\ n <= MaxU32
      /\ t = tournament[id] /\ p = paidOut[id] /\ Live(t) /\ Live(u)
  BY LiveTournament DEF Stored
<1>2. TypesOf(u, E, h, n, c, p)
  BY <1>1 DEF TypesOf
<1>3. WritesAt(id, u, E, h, n, c, p)
  BY DEF WritesAt, Stored, TypeOK
<1>4. \A k \in RewardToken : /\ KeptOf(u, p, k) = KeptOf(t, p, k)
                             /\ KeptOf(t, p, k) \in 0 .. MaxI128
  <2>1. \A k \in RewardToken : KeptOf(t, p, k) \in 0 .. MaxI128
    BY <1>1, KeptIsAmount, Zenon
  <2> QED BY <1>1, <2>1 DEF KeptOf, Left, SameTerms
<1>5. TokensFollow(id, u, p)
  BY <1>1, <1>4, NonePaid
<1> QED BY <1>1, <1>2, <1>3, <1>5 DEF StepTo

LEMMA StartEffect ==
    ASSUME TypeOK, Sound, NEW s \in Account, NEW id \in TournamentId, Start({s}, id),
           NEW t, NEW E, NEW h, NEW n, NEW c, NEW p, Stored(id, t, E, h, n, c, p)
    PROVE  /\ t.status = "Open" /\ c = {} /\ UNCHANGED tokens
           /\ StepTo(id, WithStatus(t, "InProgress"), E, h, n, {}, p)
<1>1. /\ In(id, {"Open"}) /\ tournament' = [tournament EXCEPT ![id] = WithStatus(t, "InProgress")]
      /\ UNCHANGED <<entrants, feeHeld, entrantCount, claimed, tokens, paidOut>>
  BY DEF Start, Move, Stored, WithStatus
<1>2. t \in Tournament /\ Live(t) /\ t.status = "Open" /\ c = {}
  <2>1. In(id, {"Open"})
    BY <1>1
  <2> QED BY <2>1, StoredTournament
<1>3. PICK u \in Tournament : /\ u = WithStatus(t, "InProgress") /\ SameTerms(t, u)
                              /\ u.total_pool = t.total_pool
  BY <1>2, StatusUpdate DEF Status
<1>4. TypesOf(t, E, h, n, {}, p) /\ SoundOf(t, E, h, n, {}, p)
  BY <1>2 DEF Stored
<1>5. SoundOf(u, E, h, n, {}, p)
  BY <1>2, <1>3, <1>4, SoundStart
<1>6. StepTo(id, u, E, h, n, c, p)
  BY <1>1, <1>2, <1>3, <1>5, MoveEffect
<1> QED BY <1>1, <1>2, <1>3, <1>6

LEMMA CancelEffect ==
    ASSUME TypeOK, Sound, NEW s \in Account, NEW id \in TournamentId, Cancel({s}, id),
           NEW t, NEW E, NEW h, NEW n, NEW c, NEW p, Stored(id, t, E, h, n, c, p)
    PROVE  /\ t.status \in {"Open", "InProgress"} /\ c = {} /\ UNCHANGED tokens
           /\ StepTo(id, WithStatus(t, "Cancelled"), E, h, n, {}, p)
<1>1. /\ In(id, {"Open", "InProgress"})
      /\ tournament' = [tournament EXCEPT ![id] = WithStatus(t, "Cancelled")]
      /\ UNCHANGED <<entrants, feeHeld, entrantCount, claimed, tokens, paidOut>>
  BY DEF Cancel, Move, Stored, WithStatus
<1>2. t \in Tournament /\ Live(t) /\ t.status \in {"Open", "InProgress"} /\ c = {}
  <2>1. In(id, {"Open", "InProgress"})
    BY <1>1
  <2> QED BY <2>1, StoredTournament
<1>3. PICK u \in Tournament : /\ u = WithStatus(t, "Cancelled") /\ SameTerms(t, u)
                              /\ u.total_pool = t.total_pool
  BY <1>2, StatusUpdate DEF Status
<1>4. TypesOf(t, E, h, n, {}, p) /\ SoundOf(t, E, h, n, {}, p)
  BY <1>2 DEF Stored
<1>5. SoundOf(u, E, h, n, {}, p)
  BY <1>2, <1>3, <1>4, SoundStart
<1>6. StepTo(id, u, E, h, n, c, p)
  BY <1>1, <1>2, <1>3, <1>5, MoveEffect
<1> QED BY <1>1, <1>2, <1>3, <1>6

LEMMA FinaliseEffect ==
    ASSUME TypeOK, Sound, NEW s \in Account, NEW id \in TournamentId, NEW w \in Rankings,
           Finalise({s}, id, w),
           NEW t, NEW E, NEW h, NEW n, NEW c, NEW p, Stored(id, t, E, h, n, c, p)
    PROVE  /\ t.status = "InProgress" /\ c = {} /\ UNCHANGED tokens
           /\ Total(Owing(WithResult(t, w), h, {})) <= Left(t, p)
           /\ StepTo(id, WithResult(t, w), E, h, n, {}, p)
<1>1. /\ In(id, {"InProgress"}) /\ Len(w) <= Len(t.payout_bps)
      /\ tournament' = [tournament EXCEPT ![id] = WithResult(t, w)]
      /\ UNCHANGED <<entrants, feeHeld, entrantCount, claimed, tokens, paidOut>>
  BY DEF Finalise, Move, Stored, WithResult
<1>2. /\ t \in Tournament /\ Live(t) /\ t.status = "InProgress" /\ c = {}
      /\ w \in Seq(Address)
  <2>1. In(id, {"InProgress"})
    BY <1>1
  <2> QED BY <2>1, StoredTournament, TournamentAssumption
<1>3. PICK u \in Tournament : /\ u = WithResult(t, w) /\ SameTerms(t, u)
                              /\ u.total_pool = t.total_pool
  BY <1>2, ResultUpdate
<1>4. TypesOf(t, E, h, n, {}, p) /\ SoundOf(t, E, h, n, {}, p)
  BY <1>2 DEF Stored
<1>5. SoundOf(u, E, h, n, {}, p) /\ Total(Owing(u, h, {})) <= Left(t, p)
  BY <1>1, <1>2, <1>3, <1>4, SoundFinalise
<1>6. StepTo(id, u, E, h, n, c, p)
  BY <1>1, <1>2, <1>3, <1>5, MoveEffect
<1> QED BY <1>1, <1>2, <1>3, <1>5, <1>6

LEMMA ClaimEffect ==
    ASSUME TypeOK, Sound, NEW s \in Account, NEW a \in Account, NEW id \in TournamentId,
           ClaimReward({s}, a, id),
           NEW t, NEW E, NEW h, NEW n, NEW c, NEW p, Stored(id, t, E, h, n, c, p)
    PROVE  /\ t.status = "Finalised" /\ a \in Winners(t) /\ a \notin c
           /\ Share(t, Rank(t, a)) > 0
           /\ Moved(t.reward_token, Contract, a, Share(t, Rank(t, a)))
           /\ StepTo(id, t, E, h, n, c \cup {a}, p + Share(t, Rank(t, a)))
<1> DEFINE share == Share(t, Rank(t, a))
<1>1. /\ In(id, {"Finalised"}) /\ a \notin c /\ share > 0
      /\ a \in Winners(t)
      /\ Pays(t.reward_token, Contract, a, share)
      /\ paidOut' = [paidOut EXCEPT ![id] = @ + share]
      /\ claimed' = [claimed EXCEPT ![id] = @ \cup {a}]
      /\ UNCHANGED <<tournament, entrants, feeHeld, entrantCount>>
  BY DEF ClaimReward, MarkClaimed, Stored, Winners
<1>2. /\ t \in Tournament /\ Live(t) /\ t.status = "Finalised"
      /\ t.reward_token \in RewardToken
  <2>1. In(id, {"Finalised"})
    BY <1>1
  <2> QED BY <2>1, StoredTournament
<1>3. /\ TypesOf(t, E, h, n, c, p) /\ SoundOf(t, E, h, n, c, p) /\ n <= MaxU32
      /\ t = tournament[id] /\ p = paidOut[id]
  BY DEF Stored
<1>4. /\ SoundOf(t, E, h, n, c \cup {a}, p + share)
      /\ share \in Nat
  BY <1>1, <1>2, <1>3, SoundClaim
<1>5. TypesOf(t, E, h, n, c \cup {a}, p + share)
  BY <1>3, <1>4 DEF TypesOf
<1>6. Moved(t.reward_token, Contract, a, share)
  <2>1. Contract \in Address /\ a \in Address /\ a # Contract
    BY TournamentAssumption DEF Address
  <2> QED BY <1>1, <1>2, <1>4, <2>1, PaysEffect
<1>7. WritesAt(id, t, E, h, n, c \cup {a}, p + share)
  BY <1>1 DEF WritesAt, Stored, TypeOK
<1>8. TokensFollow(id, t, p + share)
  BY <1>2, <1>3, <1>4, <1>6, PaidOut
<1> QED BY <1>1, <1>2, <1>3, <1>4, <1>5, <1>6, <1>7, <1>8 DEF StepTo

LEMMA RefundEffect ==
    ASSUME TypeOK, Sound, NEW s \in Account, NEW a \in Account, NEW id \in TournamentId,
           Refund({s}, a, id),
           NEW t, NEW E, NEW h, NEW n, NEW c, NEW p, Stored(id, t, E, h, n, c, p)
    PROVE  /\ t.status = "Cancelled" /\ h[a] > 0
           /\ Moved(t.reward_token, Contract, a, h[a])
           /\ StepTo(id, t, E, [h EXCEPT ![a] = 0], n, c, p + h[a])
<1>1. /\ In(id, {"Cancelled"}) /\ h[a] > 0
      /\ Pays(t.reward_token, Contract, a, h[a])
      /\ paidOut' = [paidOut EXCEPT ![id] = @ + h[a]]
      /\ feeHeld' = [feeHeld EXCEPT ![id][a] = 0]
      /\ UNCHANGED <<tournament, entrants, entrantCount, claimed>>
  BY DEF Refund, MarkRefunded, Stored
<1>2. /\ t \in Tournament /\ Live(t) /\ t.status = "Cancelled"
      /\ t.reward_token \in RewardToken
  <2>1. In(id, {"Cancelled"})
    BY <1>1
  <2> QED BY <2>1, StoredTournament
<1>3. /\ TypesOf(t, E, h, n, c, p) /\ SoundOf(t, E, h, n, c, p) /\ n <= MaxU32
      /\ t = tournament[id] /\ p = paidOut[id]
  BY DEF Stored
<1>4. SoundOf(t, E, [h EXCEPT ![a] = 0], n, c, p + h[a]) /\ h[a] \in Nat
  BY <1>2, <1>3, SoundRefund
<1>5. TypesOf(t, E, [h EXCEPT ![a] = 0], n, c, p + h[a])
  BY <1>3, <1>4, TournamentAssumption DEF TypesOf
<1>6. Moved(t.reward_token, Contract, a, h[a])
  <2>1. Contract \in Address /\ a \in Address /\ a # Contract
    BY TournamentAssumption DEF Address
  <2> QED BY <1>1, <1>2, <1>4, <2>1, PaysEffect
<1>7. WritesAt(id, t, E, [h EXCEPT ![a] = 0], n, c, p + h[a])
  BY <1>1 DEF WritesAt, Stored, TypeOK
<1>8. TokensFollow(id, t, p + h[a])
  BY <1>2, <1>3, <1>4, <1>6, PaidOut
<1> QED BY <1>1, <1>2, <1>3, <1>5, <1>6, <1>4, <1>7, <1>8 DEF StepTo

-----------------------------------------------------------------------------
(***************************************************************************)
(* The invariant holds at first, and every step keeps it.                  *)
(***************************************************************************)
LEMMA InitInv == Init => IInv
<1> SUFFICES ASSUME Init PROVE IInv
  OBVIOUS
<1>1. TypeOK
  <2>1. 0 \in 0 .. MaxU32 /\ 0 \in 0 .. MaxI128
    BY TournamentAssumption
  <2>2. tokens \in [RewardToken -> [Address -> Nat]]
    BY TournamentAssumption DEF Init, Address
  <2>3. feeHeld \in [TournamentId -> [Account -> 0 .. MaxI128]]
    BY <2>1 DEF Init
  <2> QED BY <2>1, <2>2, <2>3 DEF Init, TypeOK
<1>2. BeforeInitialize /\ Fresh
  BY DEF Init, BeforeInitialize, Fresh, Live
<1>3. Sound
  BY NothingSound DEF Init, Sound, SoundAt, NoFees
<1>4. ASSUME NEW k \in RewardToken PROVE Total(Kept(k)) = tokens[k][Contract]
  <2>1. Kept(k) = [i \in TournamentId |-> 0]
    BY DEF Init, Kept, KeptOf, Live
  <2>2. tokens[k][Contract] = 0
    BY DEF Init, Address
  <2> QED BY <2>1, <2>2, TotalZero
<1> QED BY <1>1, <1>2, <1>3, <1>4 DEF IInv, Balanced

\* An operation on a tournament that exists.
LEMMA StepOnLive ==
    ASSUME IInv, NEW id \in TournamentId, Live(tournament[id]),
           UNCHANGED <<admin, nextId>>,
           NEW t, NEW E, NEW h, NEW n, NEW c, NEW p, StepTo(id, t, E, h, n, c, p)
    PROVE  IInv'
<1>1. TypeOK' /\ Sound' /\ Balanced'
  BY StepToInv DEF IInv, TypeOK
<1>2. BeforeInitialize'
  BY DEF IInv, BeforeInitialize
<1>3. Fresh'
  BY DEF IInv, Fresh, StepTo, WritesAt, TypeOK
<1> QED BY <1>1, <1>2, <1>3 DEF IInv

LEMMA StepInv == IInv /\ [Next]_vars => IInv'
<1> SUFFICES ASSUME IInv, [Next]_vars PROVE IInv'
  OBVIOUS
<1> USE DEF IInv
<1>1. ASSUME UNCHANGED <<tournament, entrants, feeHeld, entrantCount, claimed, tokens, paidOut>>,
             admin' \in Account \cup {NoAdmin}, nextId' \in 0 .. MaxU32,
             BeforeInitialize', nextId' = nextId
      PROVE  IInv'
  <2>1. TypeOK'
    BY <1>1 DEF TypeOK
  <2>2. Fresh' /\ Sound' /\ Balanced'
    BY <1>1 DEF Fresh, Sound, SoundAt, Balanced, Kept
  <2> QED BY <1>1, <2>1, <2>2
<1>2. ASSUME NEW s \in Account, NEW a \in Account, Initialize({s}, a)
      PROVE  IInv'
  <2>1. admin = NoAdmin /\ admin' = a /\ nextId' = 0 /\ nextId = 0
    BY <1>2 DEF Initialize, BeforeInitialize
  <2> QED BY <1>1, <1>2, <2>1, TournamentAssumption DEF Initialize, BeforeInitialize, TypeOK
<1>3. ASSUME NEW s \in Account, NEW k \in RewardToken, NEW fee \in Fees, NEW bps \in Splits,
             CreateTournament({s}, k, fee, bps)
      PROVE  IInv'
  <2>1. /\ nextId \in TournamentId
        /\ StepTo(nextId, New(k, fee, bps), {}, NoFees, 0, {}, 0)
    BY <1>3, CreateEffect
  <2>2. /\ nextId' = nextId + 1 /\ nextId' \in 0 .. MaxU32 /\ nextId \in Nat
        /\ admin' = admin /\ admin # NoAdmin
    BY <1>3, TournamentAssumption DEF CreateTournament, RequireAdmin, TypeOK
  <2>3. TypeOK' /\ Sound' /\ Balanced'
    BY <2>1, <2>2, StepToInv DEF TypeOK
  <2>4. Fresh'
    <3>1. \A i \in TournamentId : i >= nextId + 1 => i # nextId /\ i >= nextId
      BY <2>2 DEF TournamentId
    <3>2. \A i \in TournamentId \ {nextId} : tournament'[i] = tournament[i]
      BY <2>1 DEF StepTo, WritesAt, TypeOK
    <3> QED BY <2>2, <3>1, <3>2 DEF Fresh
  <2> QED BY <2>2, <2>3, <2>4 DEF BeforeInitialize
<1>4. ASSUME NEW s \in Account, NEW id \in TournamentId, NEW a \in Account,
             \/ Enter({s}, a, id)
             \/ \E amount \in Amounts : TopUp({s}, a, id, amount)
             \/ ClaimReward({s}, a, id)
             \/ Refund({s}, a, id)
             \/ Start({s}, id)
             \/ \E winners \in Rankings : Finalise({s}, id, winners)
             \/ Cancel({s}, id)
      PROVE  IInv'
  <2>1. Live(tournament[id]) /\ UNCHANGED <<admin, nextId>>
    BY <1>4 DEF Enter, TopUp, TakesTopUps, ClaimReward, Refund, Start, Finalise, Cancel,
                Move, In, Live
  <2>2. PICK t, E, h, n, c, p : Stored(id, t, E, h, n, c, p)
    BY StoredAt
  <2>3. \E u, F, g, m, d, q : StepTo(id, u, F, g, m, d, q)
    <3>1. ASSUME Enter({s}, a, id) PROVE \E u, F, g, m, d, q : StepTo(id, u, F, g, m, d, q)
      <4>1. StepTo(id, WithPool(t, t.total_pool + t.entry_fee), E \cup {a},
                   [h EXCEPT ![a] = t.entry_fee], n + 1, {}, p)
        BY <2>2, <3>1, EnterEffect
      <4> QED BY <4>1
    <3>2. ASSUME NEW amount \in Amounts, TopUp({s}, a, id, amount)
          PROVE  \E u, F, g, m, d, q : StepTo(id, u, F, g, m, d, q)
      BY <2>2, <3>2, TopUpEffect
    <3>3. ASSUME ClaimReward({s}, a, id)
          PROVE  \E u, F, g, m, d, q : StepTo(id, u, F, g, m, d, q)
      <4>1. StepTo(id, t, E, h, n, c \cup {a}, p + Share(t, Rank(t, a)))
        BY <2>2, <3>3, ClaimEffect
      <4> QED BY <4>1
    <3>4. ASSUME Refund({s}, a, id) PROVE \E u, F, g, m, d, q : StepTo(id, u, F, g, m, d, q)
      <4>1. StepTo(id, t, E, [h EXCEPT ![a] = 0], n, c, p + h[a])
        BY <2>2, <3>4, RefundEffect
      <4> QED BY <4>1
    <3>5. ASSUME Start({s}, id) \/ Cancel({s}, id)
          PROVE  \E u, F, g, m, d, q : StepTo(id, u, F, g, m, d, q)
      BY <2>2, <3>5, StartEffect, CancelEffect
    <3>6. ASSUME NEW w \in Rankings, Finalise({s}, id, w)
          PROVE  \E u, F, g, m, d, q : StepTo(id, u, F, g, m, d, q)
      BY <2>2, <3>6, FinaliseEffect
    <3> QED BY <1>4, <3>1, <3>2, <3>3, <3>4, <3>5, <3>6, Zenon
  <2> QED BY <2>1, <2>3, StepOnLive
<1>5. CASE UNCHANGED vars
  BY <1>1, <1>5 DEF vars, TypeOK, BeforeInitialize
<1> QED BY <1>2, <1>3, <1>4, <1>5 DEF Next

(***************************************************************************)
(* Every operation keeps the types of what the contract stores.            *)
(***************************************************************************)
THEOREM TypeCorrect == Spec => []TypeOK
<1>1. IInv => TypeOK
  BY DEF IInv
<1> QED BY <1>1, InitInv, StepInv, PTL DEF Spec

-----------------------------------------------------------------------------
(***************************************************************************)
(* What the queries and the properties say of a tournament, in terms of    *)
(* what is stored for it.                                                  *)
(***************************************************************************)
LEMMA Queries ==
    ASSUME TypeOK, NEW id \in TournamentId
    PROVE  /\ In(id, Status) <=> Live(tournament[id])
           /\ PoolLeft(id) = Left(tournament[id], paidOut[id])
           /\ [a \in Account |-> Owed(id, a)]
                  = Owing(tournament[id], feeHeld[id], claimed[id])
<1>1. In(id, Status) <=> Live(tournament[id])
  BY DEF In, Live, TypeOK, Tournament
<1>2. PoolLeft(id) = Left(tournament[id], paidOut[id])
  BY <1>1 DEF PoolLeft, Left
<1>3. \A a \in Account : Owed(id, a) = Owing(tournament[id], feeHeld[id], claimed[id])[a]
  BY DEF Owed, Owing, In, Live, Prize, is_claimed, entry_fee_paid
<1> QED BY <1>1, <1>2, <1>3 DEF Owing

(***************************************************************************)
(* A finalised tournament has paid the shares of the winners marked as     *)
(* claimed, a cancelled one the fees it no longer holds, any other nothing.*)
(***************************************************************************)
THEOREM PaymentsExact == Spec => []PaidExactly
<1>1. IInv => PaidExactly
  <2> SUFFICES ASSUME IInv, NEW id \in TournamentId, In(id, Status)
               PROVE  LET t == tournament[id] IN
                      paidOut[id] =
                          CASE t.status = "Finalised" ->
                                  Total([w \in claimed[id] |-> Share(t, Rank(t, w))])
                            [] t.status = "Cancelled" ->
                                  t.entry_fee * entrantCount[id] - Total(feeHeld[id])
                            [] OTHER -> 0
    BY DEF PaidExactly
  <2>1. Live(tournament[id]) /\ SoundAt(id) /\ tournament[id].status \in Status
    BY DEF IInv, Sound, In, Live
  <2> QED BY <2>1 DEF SoundAt, SoundOf, PaidPrizes, Status
<1> QED BY <1>1, InitInv, StepInv, PTL DEF Spec

(***************************************************************************)
(* Every tournament can pay its debts from its own pool, and the balance   *)
(* of the contract is what is left of the pools.                           *)
(***************************************************************************)
THEOREM EveryPoolSolvent == Spec => []Solvent
<1>1. IInv => Solvent
  <2> SUFFICES ASSUME IInv PROVE Solvent
    OBVIOUS
  <2>1. ASSUME NEW id \in TournamentId
        PROVE  Total([a \in Account |-> Owed(id, a)]) <= PoolLeft(id)
    BY Queries DEF IInv, Sound, SoundAt, SoundOf
  <2>2. ASSUME NEW k \in RewardToken
        PROVE  LET mine == {id \in TournamentId :
                               In(id, Status) /\ tournament[id].reward_token = k}
               IN  Total([id \in mine |-> PoolLeft(id)]) = tokens[k][Contract]
    <3> DEFINE mine == {id \in TournamentId :
                           In(id, Status) /\ tournament[id].reward_token = k}
    <3>1. PICK f, g : f = Kept(k) /\ g = [id \in mine |-> PoolLeft(id)]
      OBVIOUS
    <3>2. /\ DOMAIN f = TournamentId /\ DOMAIN g = mine /\ mine \subseteq TournamentId
          /\ \A id \in mine : f[id] = g[id]
          /\ \A id \in TournamentId \ mine : f[id] = 0
      <4>1. \A id \in TournamentId : /\ In(id, Status) <=> Live(tournament[id])
                                     /\ PoolLeft(id) = Left(tournament[id], paidOut[id])
        BY Queries DEF IInv
      <4> QED BY <3>1, <4>1 DEF Kept, KeptOf
    <3> HIDE DEF mine
    <3>3. Total(g) = Total(f)
      BY <3>2, TotalPadded
    <3>4. Total(f) = tokens[k][Contract]
      BY <3>1 DEF IInv, Balanced
    <3> QED BY <3>1, <3>3, <3>4 DEF mine
  <2> QED BY <2>1, <2>2 DEF Solvent
<1> QED BY <1>1, InitInv, StepInv, PTL DEF Spec

-----------------------------------------------------------------------------
(***************************************************************************)
(* The variables of the escrow, as the refinement mapping gives them, in   *)
(* terms of what is stored for each tournament.                            *)
(***************************************************************************)
PhaseOf(t) ==
    CASE Live(t) /\ t.status = "Open" -> "joining"
      [] Live(t) /\ t.status = "InProgress" -> "running"
      [] Live(t) /\ t.status \in {"Finalised", "Cancelled"} -> "settled"
      [] OTHER -> "none"

AnyToken == CHOOSE k \in RewardToken : TRUE
CoinOf(t) == IF Live(t) THEN t.reward_token ELSE AnyToken

PursePhase == [id \in TournamentId |-> PhaseOf(tournament[id])]
PurseCoin == [id \in TournamentId |-> CoinOf(tournament[id])]
PurseMoney == [id \in TournamentId |-> Left(tournament[id], paidOut[id])]
PurseDebts ==
    [id \in TournamentId |-> Owing(tournament[id], feeHeld[id], claimed[id])]
Wallets == [k \in RewardToken |-> [a \in Account |-> tokens[k][a]]]

LEMMA EscrowState ==
    ASSUME TypeOK
    PROVE  /\ [id \in TournamentId |-> Phase(id)] = PursePhase
           /\ [id \in TournamentId |->
                  IF In(id, Status) THEN tournament[id].reward_token
                  ELSE CHOOSE k \in RewardToken : TRUE] = PurseCoin
           /\ [id \in TournamentId |-> PoolLeft(id)] = PurseMoney
           /\ [id \in TournamentId |-> [a \in Account |-> Owed(id, a)]] = PurseDebts
<1>1. \A id \in TournamentId :
          /\ In(id, Status) <=> Live(tournament[id])
          /\ PoolLeft(id) = Left(tournament[id], paidOut[id])
          /\ [a \in Account |-> Owed(id, a)]
                 = Owing(tournament[id], feeHeld[id], claimed[id])
  BY Queries
<1>2. [id \in TournamentId |-> Phase(id)] = PursePhase
  BY DEF PursePhase, Phase, PhaseOf, In, Live
<1>3. [id \in TournamentId |->
          IF In(id, Status) THEN tournament[id].reward_token
          ELSE CHOOSE k \in RewardToken : TRUE] = PurseCoin
  <2>1. [id \in TournamentId |->
            IF In(id, Status) THEN tournament[id].reward_token ELSE AnyToken] = PurseCoin
    BY <1>1 DEF PurseCoin, CoinOf
  <2> QED BY <2>1, Zenon DEF AnyToken
<1>4. [id \in TournamentId |-> PoolLeft(id)] = PurseMoney
  BY <1>1 DEF PurseMoney
<1>5. [id \in TournamentId |-> [a \in Account |-> Owed(id, a)]] = PurseDebts
  BY <1>1, Zenon DEF PurseDebts
<1> QED BY <1>2, <1>3, <1>4, <1>5

LEMMA EscrowStateAfter ==
    ASSUME TypeOK'
    PROVE  /\ [id \in TournamentId |-> Phase(id)]' = PursePhase'
           /\ [id \in TournamentId |->
                  IF In(id, Status) THEN tournament[id].reward_token
                  ELSE CHOOSE k \in RewardToken : TRUE]' = PurseCoin'
           /\ [id \in TournamentId |-> PoolLeft(id)]' = PurseMoney'
           /\ [id \in TournamentId |-> [a \in Account |-> Owed(id, a)]]' = PurseDebts'
<1>1. ASSUME NEW id \in TournamentId
      PROVE  /\ In(id, Status)' <=> Live(tournament'[id])
             /\ PoolLeft(id)' = Left(tournament'[id], paidOut'[id])
             /\ [a \in Account |-> Owed(id, a)']
                    = Owing(tournament'[id], feeHeld'[id], claimed'[id])
  <2>1. In(id, Status)' <=> Live(tournament'[id])
    BY DEF In, Live, TypeOK, Tournament
  <2>2. PoolLeft(id)' = Left(tournament'[id], paidOut'[id])
    BY <2>1 DEF PoolLeft, Left
  <2>3. \A a \in Account :
            Owed(id, a)' = Owing(tournament'[id], feeHeld'[id], claimed'[id])[a]
    BY DEF Owed, Owing, In, Live, Prize, is_claimed, entry_fee_paid
  <2> QED BY <2>1, <2>2, <2>3 DEF Owing
<1>2. [id \in TournamentId |-> Phase(id)]' = PursePhase'
  BY DEF PursePhase, Phase, PhaseOf, In, Live
<1>3. [id \in TournamentId |->
          IF In(id, Status) THEN tournament[id].reward_token
          ELSE CHOOSE k \in RewardToken : TRUE]' = PurseCoin'
  <2>1. [id \in TournamentId |->
            IF In(id, Status) THEN tournament[id].reward_token ELSE AnyToken]' = PurseCoin'
    BY <1>1 DEF PurseCoin, CoinOf
  <2> QED BY <2>1, Zenon DEF AnyToken
<1>4. [id \in TournamentId |-> PoolLeft(id)]' = PurseMoney'
  BY <1>1 DEF PurseMoney
<1>5. [id \in TournamentId |-> [a \in Account |-> Owed(id, a)]]' = PurseDebts'
  BY <1>1, Zenon DEF PurseDebts
<1> QED BY <1>2, <1>3, <1>4, <1>5

\* What an operation on one tournament changes in them.
LEMMA EscrowWritten ==
    ASSUME TypeOK, NEW id \in TournamentId,
           NEW t, NEW E, NEW h, NEW n, NEW c, NEW p, WritesAt(id, t, E, h, n, c, p)
    PROVE  /\ PursePhase' = [PursePhase EXCEPT ![id] = PhaseOf(t)]
           /\ PurseCoin' = [PurseCoin EXCEPT ![id] = CoinOf(t)]
           /\ PurseMoney' = [PurseMoney EXCEPT ![id] = Left(t, p)]
           /\ PurseDebts' = [PurseDebts EXCEPT ![id] = Owing(t, h, c)]
           /\ entrants' = [entrants EXCEPT ![id] = E]
<1>1. \A i \in TournamentId :
          /\ tournament'[i] = IF i = id THEN t ELSE tournament[i]
          /\ feeHeld'[i] = IF i = id THEN h ELSE feeHeld[i]
          /\ claimed'[i] = IF i = id THEN c ELSE claimed[i]
          /\ paidOut'[i] = IF i = id THEN p ELSE paidOut[i]
  BY DEF TypeOK, WritesAt
<1>2. PursePhase' = [PursePhase EXCEPT ![id] = PhaseOf(t)]
  BY <1>1 DEF PursePhase
<1>3. PurseCoin' = [PurseCoin EXCEPT ![id] = CoinOf(t)]
  BY <1>1 DEF PurseCoin
<1>4. PurseMoney' = [PurseMoney EXCEPT ![id] = Left(t, p)]
  BY <1>1 DEF PurseMoney
<1>5. PurseDebts' = [PurseDebts EXCEPT ![id] = Owing(t, h, c)]
  BY <1>1 DEF PurseDebts
<1> QED BY <1>2, <1>3, <1>4, <1>5 DEF WritesAt

\* ... and where what is written shows the same there.
LEMMA EscrowKept ==
    ASSUME NEW id \in TournamentId
    PROVE  /\ [PursePhase EXCEPT ![id] = PhaseOf(tournament[id])] = PursePhase
           /\ [PurseCoin EXCEPT ![id] = CoinOf(tournament[id])] = PurseCoin
           /\ [PurseMoney EXCEPT ![id] = Left(tournament[id], paidOut[id])] = PurseMoney
           /\ [PurseDebts EXCEPT ![id] = Owing(tournament[id], feeHeld[id], claimed[id])]
                  = PurseDebts
BY DEF PursePhase, PurseCoin, PurseMoney, PurseDebts

LEMMA WalletDebited ==
    ASSUME TypeOK, NEW k \in RewardToken, NEW a \in Account, NEW amount,
           Moved(k, a, Contract, amount)
    PROVE  /\ Wallets[k][a] >= amount
           /\ Wallets' = [Wallets EXCEPT ![k][a] = @ - amount]
<1>1. Contract \notin Account /\ a \in Address /\ \A x \in Account : x \in Address
  BY TournamentAssumption DEF Address
<1>2. \A x \in Account : tokens'[k][x] = IF x = a THEN tokens[k][a] - amount ELSE tokens[k][x]
  BY <1>1 DEF Moved
<1>3. \A j \in RewardToken \ {k} : tokens'[j] = tokens[j]
  BY DEF Moved
<1>4. tokens[k][a] >= amount
  BY <1>1 DEF Moved, TypeOK
<1> DEFINE row == [Wallets[k] EXCEPT ![a] = @ - amount]
<1>5. Wallets'[k] = row
  <2>1. Wallets[k] = [x \in Account |-> tokens[k][x]] /\ Wallets'[k] = [x \in Account |-> tokens'[k][x]]
    BY DEF Wallets
  <2>2. row = [x \in Account |-> IF x = a THEN tokens[k][a] - amount ELSE tokens[k][x]]
    BY <2>1
  <2> QED BY <1>2, <2>1, <2>2
<1>6. \A j \in RewardToken \ {k} : Wallets'[j] = Wallets[j]
  BY <1>3 DEF Wallets
<1> HIDE DEF row
<1>7. Wallets' = [Wallets EXCEPT ![k] = row]
  BY <1>5, <1>6 DEF Wallets
<1>8. [Wallets EXCEPT ![k] = row] = [Wallets EXCEPT ![k][a] = @ - amount]
  BY DEF row
<1>9. Wallets[k][a] >= amount
  BY <1>4 DEF Wallets
<1> QED BY <1>7, <1>8, <1>9

LEMMA WalletCredited ==
    ASSUME TypeOK, NEW k \in RewardToken, NEW a \in Account, NEW amount,
           Moved(k, Contract, a, amount)
    PROVE  Wallets' = [Wallets EXCEPT ![k][a] = @ + amount]
<1>1. Contract \notin Account /\ a \in Address /\ \A x \in Account : x \in Address
  BY TournamentAssumption DEF Address
<1>2. \A x \in Account : tokens'[k][x] = IF x = a THEN tokens[k][a] + amount ELSE tokens[k][x]
  BY <1>1 DEF Moved
<1>3. \A j \in RewardToken \ {k} : tokens'[j] = tokens[j]
  BY DEF Moved
<1> DEFINE row == [Wallets[k] EXCEPT ![a] = @ + amount]
<1>5. Wallets'[k] = row
  <2>1. Wallets[k] = [x \in Account |-> tokens[k][x]] /\ Wallets'[k] = [x \in Account |-> tokens'[k][x]]
    BY DEF Wallets
  <2>2. row = [x \in Account |-> IF x = a THEN tokens[k][a] + amount ELSE tokens[k][x]]
    BY <2>1
  <2> QED BY <1>2, <2>1, <2>2
<1>6. \A j \in RewardToken \ {k} : Wallets'[j] = Wallets[j]
  BY <1>3 DEF Wallets
<1> HIDE DEF row
<1>7. Wallets' = [Wallets EXCEPT ![k] = row]
  BY <1>5, <1>6 DEF Wallets
<1>8. [Wallets EXCEPT ![k] = row] = [Wallets EXCEPT ![k][a] = @ + amount]
  BY DEF row
<1> QED BY <1>7, <1>8

(***************************************************************************)
(* The steps of the escrow, said of these.                                 *)
(***************************************************************************)
LEMMA EscrowStutters ==
    ASSUME TypeOK, TypeOK',
           UNCHANGED <<PursePhase, PurseCoin, entrants, PurseMoney, PurseDebts, Wallets>>
    PROVE  UNCHANGED Escrow!vars
BY EscrowState, EscrowStateAfter DEF Escrow!vars, Wallets

LEMMA EscrowOpen ==
    ASSUME TypeOK, TypeOK', NEW id, NEW k \in RewardToken,
           PursePhase[id] = "none",
           PursePhase' = [PursePhase EXCEPT ![id] = "joining"],
           PurseCoin' = [PurseCoin EXCEPT ![id] = k],
           UNCHANGED <<entrants, PurseMoney, PurseDebts, Wallets>>
    PROVE  Escrow!Open(id)
BY EscrowState, EscrowStateAfter DEF Escrow!Open, Wallets

LEMMA EscrowPuts ==
    ASSUME TypeOK, TypeOK', NEW id, NEW a, NEW amount,
           Wallets[PurseCoin[id]][a] >= amount,
           Wallets' = [Wallets EXCEPT ![PurseCoin[id]][a] = @ - amount],
           PurseMoney' = [PurseMoney EXCEPT ![id] = @ + amount]
    PROVE  Escrow!Puts(id, a, amount)
BY EscrowState, EscrowStateAfter DEF Escrow!Puts, Wallets

LEMMA EscrowJoin ==
    ASSUME TypeOK, TypeOK', NEW id, NEW a, NEW fee,
           Escrow!Puts(id, a, fee),
           PursePhase[id] = "joining", a \notin entrants[id],
           entrants' = [entrants EXCEPT ![id] = @ \cup {a}],
           PurseDebts' = [PurseDebts EXCEPT ![id][a] = fee],
           UNCHANGED <<PursePhase, PurseCoin>>
    PROVE  Escrow!Join(id, a, fee)
BY EscrowState, EscrowStateAfter DEF Escrow!Join

LEMMA EscrowSponsor ==
    ASSUME TypeOK, TypeOK', NEW id, NEW a, NEW amount,
           Escrow!Puts(id, a, amount),
           PursePhase[id] \in {"joining", "running"},
           UNCHANGED <<PursePhase, PurseCoin, entrants, PurseDebts>>
    PROVE  Escrow!Sponsor(id, a, amount)
BY EscrowState, EscrowStateAfter DEF Escrow!Sponsor

LEMMA EscrowStart ==
    ASSUME TypeOK, TypeOK', NEW id, PursePhase[id] = "joining",
           PursePhase' = [PursePhase EXCEPT ![id] = "running"],
           UNCHANGED <<PurseCoin, entrants, PurseMoney, PurseDebts, Wallets>>
    PROVE  Escrow!Start(id)
BY EscrowState, EscrowStateAfter DEF Escrow!Start, Wallets

LEMMA EscrowCallOff ==
    ASSUME TypeOK, TypeOK', NEW id,
           PursePhase[id] = "joining" \/ PursePhase[id] = "running",
           PursePhase' = [PursePhase EXCEPT ![id] = "settled"],
           UNCHANGED <<PurseCoin, entrants, PurseMoney, PurseDebts, Wallets>>
    PROVE  Escrow!CallOff(id)
BY EscrowState, EscrowStateAfter DEF Escrow!CallOff, Wallets

LEMMA EscrowAward ==
    ASSUME TypeOK, TypeOK', NEW id, NEW debts, PursePhase[id] = "running",
           PursePhase' = [PursePhase EXCEPT ![id] = "settled"],
           PurseDebts' = [PurseDebts EXCEPT ![id] = debts], PurseDebts'[id] = debts,
           Total(debts) <= PurseMoney[id],
           UNCHANGED <<PurseCoin, entrants, PurseMoney, Wallets>>
    PROVE  Escrow!Award(id)
<1>1. Escrow!Total(debts) = Total(debts)
  BY Zenon DEF Escrow!Total, Escrow!Units, Escrow!Cardinality, Total, Units, Cardinality
<1>2. Escrow!Total(PurseDebts'[id]) <= PurseMoney[id]
  BY <1>1
<1>3. PurseDebts' = [PurseDebts EXCEPT ![id] = PurseDebts'[id]]
  OBVIOUS
<1> QED BY <1>2, <1>3, EscrowState, EscrowStateAfter DEF Escrow!Award, Wallets

LEMMA EscrowDraw ==
    ASSUME TypeOK, TypeOK', NEW id, NEW a, PursePhase[id] = "settled",
           PurseDebts[id][a] > 0,
           PurseMoney' = [PurseMoney EXCEPT ![id] = @ - PurseDebts[id][a]],
           Wallets' = [Wallets EXCEPT ![PurseCoin[id]][a] = @ + PurseDebts[id][a]],
           PurseDebts' = [PurseDebts EXCEPT ![id][a] = 0],
           UNCHANGED <<PursePhase, PurseCoin, entrants>>
    PROVE  Escrow!Draw(id, a)
BY EscrowState, EscrowStateAfter DEF Escrow!Draw, Wallets

LEMMA InitEscrow == Init => Escrow!Init
<1> SUFFICES ASSUME Init PROVE Escrow!Init
  OBVIOUS
<1>1. TypeOK
  BY InitInv DEF IInv
<1>2. AnyToken \in RewardToken
  BY TournamentAssumption, Zenon DEF AnyToken
<1>3. PursePhase = [id \in TournamentId |-> "none"]
  BY DEF Init, PursePhase, PhaseOf, Live
<1>4. PurseCoin \in [TournamentId -> RewardToken]
  BY <1>2 DEF Init, PurseCoin, CoinOf, Live
<1>5. PurseMoney = [id \in TournamentId |-> 0]
  BY DEF Init, PurseMoney, Left, Live
<1>6. PurseDebts = [id \in TournamentId |-> [a \in Account |-> 0]]
  BY DEF Init, PurseDebts, Owing, Live
<1>7. Wallets \in [RewardToken -> [Account -> Nat]]
  BY <1>1 DEF Wallets, TypeOK, Address
<1> QED BY <1>1, <1>3, <1>4, <1>5, <1>6, <1>7, EscrowState DEF Escrow!Init, Init, Wallets

(***************************************************************************)
(* Every step of the contract is one of the escrow, or leaves it alone.    *)
(***************************************************************************)
\* What the escrow shows of a tournament that is stored.
LEMMA Shown ==
    ASSUME NEW id \in TournamentId,
           NEW t, NEW E, NEW h, NEW n, NEW c, NEW p, Stored(id, t, E, h, n, c, p)
    PROVE  /\ PursePhase[id] = PhaseOf(t) /\ PurseCoin[id] = CoinOf(t)
           /\ PurseMoney[id] = Left(t, p) /\ PurseDebts[id] = Owing(t, h, c)
           /\ entrants[id] = E
           /\ [PursePhase EXCEPT ![id] = PhaseOf(t)] = PursePhase
           /\ [PurseCoin EXCEPT ![id] = CoinOf(t)] = PurseCoin
           /\ [PurseMoney EXCEPT ![id] = Left(t, p)] = PurseMoney
           /\ [PurseDebts EXCEPT ![id] = Owing(t, h, c)] = PurseDebts
<1>1. /\ PursePhase[id] = PhaseOf(t) /\ PurseCoin[id] = CoinOf(t)
      /\ PurseMoney[id] = Left(t, p) /\ PurseDebts[id] = Owing(t, h, c)
      /\ entrants[id] = E
  BY DEF Stored, PursePhase, PurseCoin, PurseMoney, PurseDebts
<1>2. /\ [PursePhase EXCEPT ![id] = PhaseOf(t)] = PursePhase
      /\ [PurseCoin EXCEPT ![id] = CoinOf(t)] = PurseCoin
      /\ [PurseMoney EXCEPT ![id] = Left(t, p)] = PurseMoney
      /\ [PurseDebts EXCEPT ![id] = Owing(t, h, c)] = PurseDebts
  BY EscrowKept DEF Stored
<1> QED BY <1>1, <1>2

LEMMA CreateOpens ==
    ASSUME IInv, TypeOK', NEW s \in Account, NEW k \in RewardToken, NEW fee \in Fees,
           NEW bps \in Splits, CreateTournament({s}, k, fee, bps)
    PROVE  \E id \in TournamentId : Escrow!Open(id)
<1>1. /\ nextId \in TournamentId /\ ~Live(tournament[nextId])
      /\ fee >= 0 /\ bps \in ValidSplits /\ UNCHANGED tokens
      /\ StepTo(nextId, New(k, fee, bps), {}, NoFees, 0, {}, 0)
  BY CreateEffect DEF IInv, CreateTournament
<1>2. PICK t : /\ t = New(k, fee, bps) /\ Live(t) /\ t.reward_token = k
               /\ t.total_pool = 0 /\ t.status = "Open"
  BY <1>1, NewTournament
<1>3. PICK u, E, h, n, c, p : Stored(nextId, u, E, h, n, c, p)
  BY <1>1, StoredAt DEF IInv
<1>4. ~Live(u) /\ E = {} /\ h = NoFees /\ c = {} /\ p = 0
  BY <1>1, <1>3 DEF Stored, SoundOf, Untouched
<1>5. /\ PhaseOf(u) = "none" /\ PhaseOf(t) = "joining" /\ CoinOf(t) = k
      /\ Left(t, 0) = Left(u, p) /\ Owing(t, NoFees, {}) = Owing(u, h, c)
  BY <1>2, <1>4 DEF PhaseOf, CoinOf, Left, Owing
<1>6. /\ PursePhase' = [PursePhase EXCEPT ![nextId] = PhaseOf(t)]
      /\ PurseCoin' = [PurseCoin EXCEPT ![nextId] = CoinOf(t)]
      /\ PurseMoney' = [PurseMoney EXCEPT ![nextId] = Left(t, 0)]
      /\ PurseDebts' = [PurseDebts EXCEPT ![nextId] = Owing(t, NoFees, {})]
      /\ entrants' = [entrants EXCEPT ![nextId] = {}]
  BY <1>1, <1>2, EscrowWritten DEF StepTo, IInv
<1>7. PursePhase[nextId] = "none" /\ UNCHANGED <<PurseMoney, PurseDebts, entrants, Wallets>>
  <2>1. /\ PursePhase[nextId] = PhaseOf(u) /\ entrants[nextId] = E
        /\ [PurseMoney EXCEPT ![nextId] = Left(u, p)] = PurseMoney
        /\ [PurseDebts EXCEPT ![nextId] = Owing(u, h, c)] = PurseDebts
    BY <1>1, <1>3, Shown
  <2>2. UNCHANGED entrants
    BY <1>1, <1>4, <1>6, <2>1 DEF IInv, TypeOK
  <2>3. UNCHANGED Wallets
    BY <1>1 DEF Wallets
  <2> QED BY <1>5, <1>6, <2>1, <2>2, <2>3
<1>8. /\ PursePhase' = [PursePhase EXCEPT ![nextId] = "joining"]
      /\ PurseCoin' = [PurseCoin EXCEPT ![nextId] = k]
  BY <1>5, <1>6
<1>9. TypeOK
  BY DEF IInv
<1>10. PICK id \in TournamentId : id = nextId
  BY <1>1
<1>11. Escrow!Open(id)
  BY <1>7, <1>8, <1>9, <1>10, EscrowOpen
<1> QED BY <1>11

LEMMA EnterJoins ==
    ASSUME IInv, TypeOK', NEW s \in Account, NEW a \in Account, NEW id \in TournamentId,
           Enter({s}, a, id)
    PROVE  \E fee \in Fees \cap Nat : Escrow!Join(id, a, fee)
<1>1. PICK t, E, h, n, c, p : Stored(id, t, E, h, n, c, p)
  BY StoredAt DEF IInv
<1> DEFINE fee == t.entry_fee
           pool == t.total_pool
           g == [h EXCEPT ![a] = fee]
<1>2. /\ t.status = "Open" /\ a \notin E /\ c = {}
      /\ Moved(t.reward_token, a, Contract, fee)
      /\ StepTo(id, WithPool(t, pool + fee), E \cup {a}, g, n + 1, {}, p)
  BY <1>1, EnterEffect DEF IInv
<1>3. /\ t \in Tournament /\ Live(t) /\ fee \in Fees /\ fee \in Nat /\ pool \in Nat /\ p \in Nat
      /\ t.reward_token \in RewardToken
      /\ h \in [Account -> 0 .. MaxI128]
  <2>1. In(id, {"Open"})
    BY DEF Enter
  <2>2. t \in Tournament /\ Live(t) /\ h \in [Account -> 0 .. MaxI128] /\ p \in Nat
    BY <1>1, <2>1, StoredTournament
  <2> QED BY <1>1, <2>2, LiveTournament DEF Stored, SoundOf
<1>4. fee \in 0 .. MaxI128 /\ pool + fee \in 0 .. MaxI128
  <2>1. fee \in 0 .. MaxI128 /\ pool + fee \in Nat
    BY <1>3, LiveTournament
  <2>2. tournament'[id] = WithPool(t, pool + fee) /\ tournament'[id] \in Tournament \cup {NoTournament}
    BY <1>2 DEF StepTo, WritesAt, TypeOK, IInv
  <2>3. CASE fee > 0
    BY <1>1, <2>1, <2>3, TournamentAssumption DEF Enter, Stored, I128
  <2>4. CASE ~(fee > 0)
    BY <1>3, <2>1, <2>4, LiveTournament
  <2> QED BY <2>1, <2>3, <2>4
<1>5. PICK u \in Tournament : /\ u = WithPool(t, pool + fee) /\ SameTerms(t, u) /\ Live(u)
                              /\ u.total_pool = pool + fee /\ u.status = "Open"
  <2>1. PICK q \in 0 .. MaxI128 : q = pool + fee
    BY <1>4
  <2>2. /\ WithPool(t, q) \in Tournament /\ SameTerms(t, WithPool(t, q))
        /\ WithPool(t, q).total_pool = q /\ WithPool(t, q).status = t.status
    BY <1>3, <2>1, PoolUpdate
  <2>3. Live(WithPool(t, q))
    BY <2>2, LiveTournament
  <2>4. t.status = "Open"
    BY <1>2
  <2> QED BY <2>1, <2>2, <2>3, <2>4
<1>6. /\ PhaseOf(t) = "joining" /\ PhaseOf(u) = PhaseOf(t)
      /\ CoinOf(t) = t.reward_token /\ CoinOf(u) = CoinOf(t)
      /\ Left(u, p) = Left(t, p) + fee
  BY <1>2, <1>3, <1>5 DEF PhaseOf, CoinOf, Left, SameTerms
<1>7. Owing(u, g, {}) = [Owing(t, h, c) EXCEPT ![a] = fee]
  <2>1. g \in [Account -> 0 .. MaxI128]
    BY <1>3, <1>4
  <2> HIDE DEF g
  <2>2. Owing(u, g, {}) = g /\ Owing(t, h, c) = h
    BY <1>2, <1>3, <1>5, <2>1, FeesOwed
  <2> QED BY <2>2 DEF g
<1> HIDE DEF g, fee
<1>8. /\ PursePhase' = [PursePhase EXCEPT ![id] = PhaseOf(u)]
      /\ PurseCoin' = [PurseCoin EXCEPT ![id] = CoinOf(u)]
      /\ PurseMoney' = [PurseMoney EXCEPT ![id] = Left(u, p)]
      /\ PurseDebts' = [PurseDebts EXCEPT ![id] = Owing(u, g, {})]
      /\ entrants' = [entrants EXCEPT ![id] = E \cup {a}]
  BY <1>2, <1>5, EscrowWritten DEF StepTo, IInv
<1>9. /\ PursePhase[id] = PhaseOf(t) /\ PurseCoin[id] = CoinOf(t)
      /\ PurseMoney[id] = Left(t, p) /\ PurseDebts[id] = Owing(t, h, c) /\ entrants[id] = E
      /\ [PursePhase EXCEPT ![id] = PhaseOf(t)] = PursePhase
      /\ [PurseCoin EXCEPT ![id] = CoinOf(t)] = PurseCoin
  BY <1>1, Shown
<1>10. Wallets[PurseCoin[id]][a] >= fee
       /\ Wallets' = [Wallets EXCEPT ![PurseCoin[id]][a] = @ - fee]
  BY <1>2, <1>3, <1>6, <1>9, WalletDebited DEF IInv
<1>11. Escrow!Puts(id, a, fee)
  <2>1. PurseMoney' = [PurseMoney EXCEPT ![id] = @ + fee]
    BY <1>6, <1>8, <1>9
  <2> QED BY <1>10, <2>1, EscrowPuts DEF IInv
<1>12. PurseDebts' = [PurseDebts EXCEPT ![id][a] = fee]
  BY <1>7, <1>8, <1>9
<1>13. /\ UNCHANGED <<PursePhase, PurseCoin>> /\ PursePhase[id] = "joining"
       /\ a \notin entrants[id] /\ entrants' = [entrants EXCEPT ![id] = @ \cup {a}]
  BY <1>2, <1>6, <1>8, <1>9
<1>14. Escrow!Join(id, a, fee)
  BY <1>11, <1>12, <1>13, EscrowJoin DEF IInv
<1> QED BY <1>3, <1>14

LEMMA TopUpSponsors ==
    ASSUME IInv, TypeOK', NEW s \in Account, NEW a \in Account, NEW id \in TournamentId,
           NEW amount \in Amounts, TopUp({s}, a, id, amount)
    PROVE  amount \in Nat /\ Escrow!Sponsor(id, a, amount)
<1>1. PICK t, E, h, n, c, p : Stored(id, t, E, h, n, c, p)
  BY StoredAt DEF IInv
<1> DEFINE pool == t.total_pool
<1>2. /\ t.status \in {"Open", "InProgress"} /\ amount \in Nat /\ c = {}
      /\ Moved(t.reward_token, a, Contract, amount)
      /\ StepTo(id, WithPool(t, pool + amount), E, h, n, {}, p)
  BY <1>1, TopUpEffect DEF IInv
<1>3. /\ t \in Tournament /\ Live(t) /\ pool \in Nat /\ p \in Nat
      /\ t.reward_token \in RewardToken /\ h \in [Account -> 0 .. MaxI128]
  <2>1. In(id, {"Open", "InProgress"})
    BY DEF TopUp, TakesTopUps
  <2> QED BY <1>1, <2>1, StoredTournament
<1>4. pool + amount \in 0 .. MaxI128
  BY <1>1, <1>2, <1>3, TournamentAssumption DEF TopUp, Stored, I128
<1>5. PICK u \in Tournament : /\ u = WithPool(t, pool + amount) /\ SameTerms(t, u) /\ Live(u)
                              /\ u.total_pool = pool + amount /\ u.status = t.status
  BY <1>2, <1>3, <1>4, PoolUpdate, LiveTournament
<1>6. /\ PhaseOf(t) \in {"joining", "running"} /\ PhaseOf(u) = PhaseOf(t)
      /\ CoinOf(t) = t.reward_token /\ CoinOf(u) = CoinOf(t)
      /\ Left(u, p) = Left(t, p) + amount
  BY <1>2, <1>3, <1>5 DEF PhaseOf, CoinOf, Left, SameTerms
<1>7. Owing(u, h, {}) = Owing(t, h, c)
  BY <1>2, <1>3, <1>5, FeesOwed
<1>8. /\ PursePhase' = [PursePhase EXCEPT ![id] = PhaseOf(u)]
      /\ PurseCoin' = [PurseCoin EXCEPT ![id] = CoinOf(u)]
      /\ PurseMoney' = [PurseMoney EXCEPT ![id] = Left(u, p)]
      /\ PurseDebts' = [PurseDebts EXCEPT ![id] = Owing(u, h, {})]
      /\ entrants' = [entrants EXCEPT ![id] = E]
  BY <1>2, <1>5, EscrowWritten DEF StepTo, IInv
<1>9. /\ PursePhase[id] = PhaseOf(t) /\ PurseCoin[id] = CoinOf(t)
      /\ PurseMoney[id] = Left(t, p) /\ PurseDebts[id] = Owing(t, h, c) /\ entrants[id] = E
      /\ [PursePhase EXCEPT ![id] = PhaseOf(t)] = PursePhase
      /\ [PurseCoin EXCEPT ![id] = CoinOf(t)] = PurseCoin
      /\ [PurseDebts EXCEPT ![id] = Owing(t, h, c)] = PurseDebts
  BY <1>1, Shown
<1>10. /\ Wallets[PurseCoin[id]][a] >= amount
       /\ Wallets' = [Wallets EXCEPT ![PurseCoin[id]][a] = @ - amount]
  BY <1>2, <1>3, <1>6, <1>9, WalletDebited DEF IInv
<1>11. Escrow!Puts(id, a, amount)
  <2>1. PurseMoney' = [PurseMoney EXCEPT ![id] = @ + amount]
    BY <1>6, <1>8, <1>9
  <2> QED BY <1>10, <2>1, EscrowPuts DEF IInv
<1>12. /\ UNCHANGED <<PursePhase, PurseCoin, PurseDebts, entrants>>
       /\ PursePhase[id] \in {"joining", "running"}
  BY <1>6, <1>7, <1>8, <1>9 DEF IInv, TypeOK
<1> QED BY <1>2, <1>11, <1>12, EscrowSponsor DEF IInv

\* A move of the admin shows in the phase, and in the debts if it is a result.
LEMMA MoveShown ==
    ASSUME IInv, NEW id \in TournamentId, UNCHANGED tokens,
           NEW t, NEW E, NEW h, NEW n, NEW c, NEW p, Stored(id, t, E, h, n, c, p),
           Live(t), NEW u, Live(u), SameTerms(t, u), u.total_pool = t.total_pool,
           WritesAt(id, u, E, h, n, {}, p)
    PROVE  /\ PursePhase[id] = PhaseOf(t) /\ PurseMoney[id] = Left(t, p)
           /\ PursePhase' = [PursePhase EXCEPT ![id] = PhaseOf(u)]
           /\ PurseDebts' = [PurseDebts EXCEPT ![id] = Owing(u, h, {})]
           /\ PurseDebts'[id] = Owing(u, h, {})
           /\ Owing(u, h, {}) = Owing(t, h, c) => UNCHANGED PurseDebts
           /\ UNCHANGED <<PurseCoin, entrants, PurseMoney, Wallets>>
<1>1. CoinOf(u) = CoinOf(t) /\ Left(u, p) = Left(t, p)
  BY DEF CoinOf, Left, SameTerms
<1>2. /\ PursePhase' = [PursePhase EXCEPT ![id] = PhaseOf(u)]
      /\ PurseCoin' = [PurseCoin EXCEPT ![id] = CoinOf(u)]
      /\ PurseMoney' = [PurseMoney EXCEPT ![id] = Left(u, p)]
      /\ PurseDebts' = [PurseDebts EXCEPT ![id] = Owing(u, h, {})]
      /\ entrants' = [entrants EXCEPT ![id] = E]
  BY EscrowWritten DEF IInv
<1>3. /\ PursePhase[id] = PhaseOf(t) /\ PurseMoney[id] = Left(t, p) /\ entrants[id] = E
      /\ [PurseCoin EXCEPT ![id] = CoinOf(t)] = PurseCoin
      /\ [PurseMoney EXCEPT ![id] = Left(t, p)] = PurseMoney
      /\ [PurseDebts EXCEPT ![id] = Owing(t, h, c)] = PurseDebts
  BY Shown
<1>4. UNCHANGED <<PurseCoin, PurseMoney>>
  BY <1>1, <1>2, <1>3
<1>5. UNCHANGED <<entrants, Wallets>>
  BY <1>2, <1>3 DEF Wallets, IInv, TypeOK
<1>6. Owing(u, h, {}) = Owing(t, h, c) => UNCHANGED PurseDebts
  BY <1>2, <1>3
<1>7. PurseDebts'[id] = Owing(u, h, {})
  BY <1>2 DEF PurseDebts
<1> QED BY <1>2, <1>3, <1>4, <1>5, <1>6, <1>7

LEMMA StartStarts ==
    ASSUME IInv, TypeOK', NEW s \in Account, NEW id \in TournamentId, Start({s}, id)
    PROVE  Escrow!Start(id)
<1>1. PICK t, E, h, n, c, p : Stored(id, t, E, h, n, c, p)
  BY StoredAt DEF IInv
<1>2. /\ t.status = "Open" /\ c = {} /\ UNCHANGED tokens
      /\ StepTo(id, WithStatus(t, "InProgress"), E, h, n, {}, p)
  BY <1>1, StartEffect DEF IInv
<1>3. t \in Tournament /\ Live(t) /\ h \in [Account -> 0 .. MaxI128]
  <2>1. In(id, {"Open"})
    BY DEF Start
  <2> QED BY <1>1, <2>1, StoredTournament
<1>4. PICK u : /\ u = WithStatus(t, "InProgress") /\ SameTerms(t, u) /\ Live(u)
               /\ u.total_pool = t.total_pool /\ u.status = "InProgress"
  BY <1>3, StatusUpdate, LiveTournament DEF Status
<1>5. Owing(u, h, {}) = Owing(t, h, c)
  BY <1>2, <1>3, <1>4, FeesOwed
<1>6. PhaseOf(t) = "joining" /\ PhaseOf(u) = "running"
  BY <1>2, <1>3, <1>4 DEF PhaseOf
<1>7. WritesAt(id, u, E, h, n, {}, p)
  BY <1>2, <1>4 DEF StepTo
<1>8. /\ PursePhase[id] = PhaseOf(t)
      /\ PursePhase' = [PursePhase EXCEPT ![id] = PhaseOf(u)]
      /\ UNCHANGED <<PurseCoin, entrants, PurseMoney, PurseDebts, Wallets>>
  BY <1>1, <1>2, <1>3, <1>4, <1>5, <1>7, MoveShown
<1> QED BY <1>6, <1>8, EscrowStart DEF IInv

LEMMA CancelCallsOff ==
    ASSUME IInv, TypeOK', NEW s \in Account, NEW id \in TournamentId, Cancel({s}, id)
    PROVE  Escrow!CallOff(id)
<1>1. PICK t, E, h, n, c, p : Stored(id, t, E, h, n, c, p)
  BY StoredAt DEF IInv
<1>2. /\ t.status \in {"Open", "InProgress"} /\ c = {} /\ UNCHANGED tokens
      /\ StepTo(id, WithStatus(t, "Cancelled"), E, h, n, {}, p)
  BY <1>1, CancelEffect DEF IInv
<1>3. t \in Tournament /\ Live(t) /\ h \in [Account -> 0 .. MaxI128]
  <2>1. In(id, {"Open", "InProgress"})
    BY DEF Cancel
  <2> QED BY <1>1, <2>1, StoredTournament
<1>4. PICK u : /\ u = WithStatus(t, "Cancelled") /\ SameTerms(t, u) /\ Live(u)
               /\ u.total_pool = t.total_pool /\ u.status = "Cancelled"
  BY <1>3, StatusUpdate, LiveTournament DEF Status
<1>5. Owing(u, h, {}) = Owing(t, h, c)
  BY <1>2, <1>3, <1>4, FeesOwed
<1>6. PhaseOf(t) \in {"joining", "running"} /\ PhaseOf(u) = "settled"
  BY <1>2, <1>3, <1>4 DEF PhaseOf
<1>7. WritesAt(id, u, E, h, n, {}, p)
  BY <1>2, <1>4 DEF StepTo
<1>8. /\ PursePhase[id] = PhaseOf(t)
      /\ PursePhase' = [PursePhase EXCEPT ![id] = PhaseOf(u)]
      /\ UNCHANGED <<PurseCoin, entrants, PurseMoney, PurseDebts, Wallets>>
  BY <1>1, <1>2, <1>3, <1>4, <1>5, <1>7, MoveShown
<1>9. /\ PursePhase[id] = "joining" \/ PursePhase[id] = "running"
      /\ PursePhase' = [PursePhase EXCEPT ![id] = "settled"]
  BY <1>6, <1>8
<1>10. TypeOK
  BY DEF IInv
<1>11. UNCHANGED <<PurseCoin, entrants, PurseMoney, PurseDebts, Wallets>>
  BY <1>8
<1> QED BY <1>9, <1>10, <1>11, EscrowCallOff

LEMMA FinaliseAwards ==
    ASSUME IInv, TypeOK', NEW s \in Account, NEW id \in TournamentId, NEW w \in Rankings,
           Finalise({s}, id, w)
    PROVE  Escrow!Award(id)
<1>1. PICK t, E, h, n, c, p : Stored(id, t, E, h, n, c, p)
  BY StoredAt DEF IInv
<1>2. /\ t.status = "InProgress" /\ c = {} /\ UNCHANGED tokens
      /\ Total(Owing(WithResult(t, w), h, {})) <= Left(t, p)
      /\ StepTo(id, WithResult(t, w), E, h, n, {}, p)
  BY <1>1, FinaliseEffect DEF IInv
<1>3. t \in Tournament /\ Live(t) /\ w \in Seq(Address)
  <2>1. In(id, {"InProgress"})
    BY DEF Finalise
  <2> QED BY <1>1, <2>1, StoredTournament, TournamentAssumption
<1>4. PICK u : /\ u = WithResult(t, w) /\ SameTerms(t, u) /\ Live(u)
               /\ u.total_pool = t.total_pool /\ u.status = "Finalised"
  BY <1>3, ResultUpdate, LiveTournament
<1>5. PhaseOf(t) = "running" /\ PhaseOf(u) = "settled"
  BY <1>2, <1>3, <1>4 DEF PhaseOf
<1>6. WritesAt(id, u, E, h, n, {}, p) /\ Total(Owing(u, h, {})) <= Left(t, p)
  BY <1>2, <1>4 DEF StepTo
<1>7. /\ PursePhase[id] = PhaseOf(t) /\ PurseMoney[id] = Left(t, p)
      /\ PursePhase' = [PursePhase EXCEPT ![id] = PhaseOf(u)]
      /\ PurseDebts' = [PurseDebts EXCEPT ![id] = Owing(u, h, {})]
      /\ PurseDebts'[id] = Owing(u, h, {})
      /\ UNCHANGED <<PurseCoin, entrants, PurseMoney, Wallets>>
  BY <1>1, <1>2, <1>3, <1>4, <1>6, MoveShown
<1>8. PICK debts : debts = Owing(u, h, {})
  OBVIOUS
<1> QED BY <1>5, <1>6, <1>7, <1>8, EscrowAward DEF IInv

\* A claim or a refund of what the account is owed.
LEMMA PayDraws ==
    ASSUME IInv, TypeOK', NEW id \in TournamentId, NEW a \in Account,
           NEW t, NEW E, NEW h, NEW n, NEW c, NEW p, Stored(id, t, E, h, n, c, p),
           t \in Tournament, t.status \in {"Finalised", "Cancelled"},
           NEW amount \in Nat, amount > 0, Owing(t, h, c)[a] = amount,
           Moved(t.reward_token, Contract, a, amount),
           NEW g, NEW d, Owing(t, g, d) = [Owing(t, h, c) EXCEPT ![a] = 0],
           WritesAt(id, t, E, g, n, d, p + amount)
    PROVE  Escrow!Draw(id, a)
<1>1. /\ Live(t) /\ t.reward_token \in RewardToken /\ t.total_pool \in Nat /\ p \in Nat
  BY LiveTournament DEF Stored, TypesOf
<1>2. /\ PhaseOf(t) = "settled" /\ CoinOf(t) = t.reward_token
      /\ Left(t, p + amount) = Left(t, p) - amount
  BY <1>1 DEF PhaseOf, CoinOf, Left
<1>3. /\ PursePhase' = [PursePhase EXCEPT ![id] = PhaseOf(t)]
      /\ PurseCoin' = [PurseCoin EXCEPT ![id] = CoinOf(t)]
      /\ PurseMoney' = [PurseMoney EXCEPT ![id] = Left(t, p + amount)]
      /\ PurseDebts' = [PurseDebts EXCEPT ![id] = Owing(t, g, d)]
      /\ entrants' = [entrants EXCEPT ![id] = E]
  BY EscrowWritten DEF IInv
<1>4. /\ PursePhase[id] = PhaseOf(t) /\ PurseCoin[id] = CoinOf(t)
      /\ PurseMoney[id] = Left(t, p) /\ PurseDebts[id] = Owing(t, h, c) /\ entrants[id] = E
      /\ [PursePhase EXCEPT ![id] = PhaseOf(t)] = PursePhase
      /\ [PurseCoin EXCEPT ![id] = CoinOf(t)] = PurseCoin
  BY Shown
<1>5. PurseDebts[id][a] = amount
  BY <1>4
<1>6. PurseMoney' = [PurseMoney EXCEPT ![id] = @ - amount]
  BY <1>2, <1>3, <1>4
<1>7. Wallets' = [Wallets EXCEPT ![PurseCoin[id]][a] = @ + amount]
  BY <1>1, <1>2, <1>4, WalletCredited DEF IInv
<1>8. PurseDebts' = [PurseDebts EXCEPT ![id][a] = 0]
  BY <1>3, <1>4
<1>9. UNCHANGED <<PursePhase, PurseCoin, entrants>> /\ PursePhase[id] = "settled"
  BY <1>2, <1>3, <1>4 DEF IInv, TypeOK
<1>10. TypeOK
  BY DEF IInv
<1> QED BY <1>5, <1>6, <1>7, <1>8, <1>9, <1>10, EscrowDraw

LEMMA ClaimDraws ==
    ASSUME IInv, TypeOK', NEW s \in Account, NEW a \in Account, NEW id \in TournamentId,
           ClaimReward({s}, a, id)
    PROVE  Escrow!Draw(id, a)
<1>1. PICK t, E, h, n, c, p : Stored(id, t, E, h, n, c, p)
  BY StoredAt DEF IInv
<1> DEFINE share == Share(t, Rank(t, a))
<1>2. /\ t.status = "Finalised" /\ a \in Winners(t) /\ a \notin c /\ share > 0
      /\ Moved(t.reward_token, Contract, a, share)
      /\ StepTo(id, t, E, h, n, c \cup {a}, p + share)
  BY <1>1, ClaimEffect DEF IInv
<1>3. t \in Tournament
  <2>1. In(id, {"Finalised"})
    BY DEF ClaimReward
  <2> QED BY <1>1, <2>1, StoredTournament
<1>4. /\ Owing(t, h, c)[a] = share /\ share \in Nat
      /\ Owing(t, h, c \cup {a}) = [Owing(t, h, c) EXCEPT ![a] = 0]
  <2>1. TypesOf(t, E, h, n, c, p) /\ SoundOf(t, E, h, n, c, p)
    BY <1>1 DEF Stored
  <2> QED BY <1>2, <1>3, <2>1, SoundClaim
<1>5. WritesAt(id, t, E, h, n, c \cup {a}, p + share)
  BY <1>2 DEF StepTo
<1> HIDE DEF share
<1> QED BY <1>1, <1>2, <1>3, <1>4, <1>5, PayDraws

LEMMA RefundDraws ==
    ASSUME IInv, TypeOK', NEW s \in Account, NEW a \in Account, NEW id \in TournamentId,
           Refund({s}, a, id)
    PROVE  Escrow!Draw(id, a)
<1>1. PICK t, E, h, n, c, p : Stored(id, t, E, h, n, c, p)
  BY StoredAt DEF IInv
<1>2. /\ t.status = "Cancelled" /\ h[a] > 0
      /\ Moved(t.reward_token, Contract, a, h[a])
      /\ StepTo(id, t, E, [h EXCEPT ![a] = 0], n, c, p + h[a])
  BY <1>1, RefundEffect DEF IInv
<1>3. t \in Tournament
  <2>1. In(id, {"Cancelled"})
    BY DEF Refund
  <2> QED BY <1>1, <2>1, StoredTournament
<1>4. /\ Owing(t, h, c)[a] = h[a] /\ h[a] \in Nat
      /\ Owing(t, [h EXCEPT ![a] = 0], c) = [Owing(t, h, c) EXCEPT ![a] = 0]
  <2>1. TypesOf(t, E, h, n, c, p) /\ SoundOf(t, E, h, n, c, p)
    BY <1>1 DEF Stored
  <2> QED BY <1>2, <1>3, <2>1, SoundRefund
<1>5. WritesAt(id, t, E, [h EXCEPT ![a] = 0], n, c, p + h[a])
  BY <1>2 DEF StepTo
<1>6. PICK g, amount : g = [h EXCEPT ![a] = 0] /\ amount = h[a]
  OBVIOUS
<1> QED BY <1>1, <1>2, <1>3, <1>4, <1>5, <1>6, PayDraws

LEMMA StepEscrow == IInv /\ [Next]_vars => [Escrow!Next]_(Escrow!vars)
<1> SUFFICES ASSUME IInv, [Next]_vars PROVE [Escrow!Next]_(Escrow!vars)
  OBVIOUS
<1>1. TypeOK /\ TypeOK'
  BY StepInv DEF IInv
<1>2. ASSUME UNCHANGED <<tournament, entrants, feeHeld, claimed, tokens, paidOut>>
      PROVE  UNCHANGED Escrow!vars
  <2>1. UNCHANGED <<PursePhase, PurseCoin, entrants, PurseMoney, PurseDebts, Wallets>>
    BY <1>2 DEF PursePhase, PurseCoin, PurseMoney, PurseDebts, Wallets
  <2> QED BY <1>1, <2>1, EscrowStutters
<1>3. ASSUME NEW s \in Account, NEW a \in Account, Initialize({s}, a)
      PROVE  UNCHANGED Escrow!vars
  BY <1>2, <1>3 DEF Initialize
<1>4. ASSUME NEW s \in Account, NEW k \in RewardToken, NEW fee \in Fees, NEW bps \in Splits,
             CreateTournament({s}, k, fee, bps)
      PROVE  Escrow!Next
  BY <1>1, <1>4, CreateOpens DEF Escrow!Next
<1>5. ASSUME NEW s \in Account, NEW id \in TournamentId, NEW a \in Account,
             Enter({s}, a, id)
      PROVE  Escrow!Next
  BY <1>1, <1>5, EnterJoins DEF Escrow!Next
<1>6. ASSUME NEW s \in Account, NEW id \in TournamentId, NEW a \in Account,
             NEW amount \in Amounts, TopUp({s}, a, id, amount)
      PROVE  Escrow!Next
  BY <1>1, <1>6, TopUpSponsors DEF Escrow!Next
<1>7. ASSUME NEW s \in Account, NEW id \in TournamentId, NEW a \in Account,
             ClaimReward({s}, a, id) \/ Refund({s}, a, id)
      PROVE  Escrow!Next
  BY <1>1, <1>7, ClaimDraws, RefundDraws DEF Escrow!Next
<1>8. ASSUME NEW s \in Account, NEW id \in TournamentId, Start({s}, id) \/ Cancel({s}, id)
      PROVE  Escrow!Next
  BY <1>1, <1>8, StartStarts, CancelCallsOff DEF Escrow!Next
<1>9. ASSUME NEW s \in Account, NEW id \in TournamentId, NEW w \in Rankings,
             Finalise({s}, id, w)
      PROVE  Escrow!Next
  BY <1>1, <1>9, FinaliseAwards DEF Escrow!Next
<1>10. CASE UNCHANGED vars
  BY <1>2, <1>10 DEF vars
<1> QED BY <1>3, <1>4, <1>5, <1>6, <1>7, <1>8, <1>9, <1>10 DEF Next

(***************************************************************************)
(* The contract implements the escrow, for every number of players, tokens *)
(* and tournaments and every split and ranking: behind the one balance     *)
(* each tournament has a purse of its own, its debts are fixed within the  *)
(* purse when it is settled, and each is drawn once.                       *)
(***************************************************************************)
THEOREM PoolsAreSeparate == Spec => PursesAreSeparate
<1>1. Spec => []IInv
  BY InitInv, StepInv, PTL DEF Spec
<1> QED BY <1>1, InitEscrow, StepEscrow, PTL DEF Spec, PursesAreSeparate, Escrow!Spec

-----------------------------------------------------------------------------
(***************************************************************************)
(* What DuesDrawn rests on, without its fairness: a payable due meets      *)
(* every check of the call that draws it (DueIsClear), that call can then  *)
(* be carried out (DueWritten gives each variable its next value), and     *)
(* until it is, the due stays payable, for the same amount, whatever       *)
(* anyone else does.                                                       *)
(***************************************************************************)
TokenOf(id) == tournament[id].reward_token

DueIsClear(id, a) ==
    /\ Owed(id, a) > 0
    /\ CanTransfer(tokens[TokenOf(id)], Contract, Owed(id, a))
    /\ \/ LET t == tournament[id] IN
          /\ In(id, {"Finalised"})
          /\ a \in Winners(t) /\ a \notin claimed[id]
          /\ Owed(id, a) = Share(t, Rank(t, a))
          /\ t.total_pool * t.payout_bps[Rank(t, a)] \in I128
       \/ /\ In(id, {"Cancelled"})
          /\ a \in entrants[id]
          /\ Owed(id, a) = feeHeld[id][a]

DueWritten(id, a) ==
    /\ tokens' = [tokens EXCEPT ![TokenOf(id)] =
           Transferred(@, Contract, a, Owed(id, a))]
    /\ paidOut' = [paidOut EXCEPT ![id] = @ + Owed(id, a)]
    /\ claimed' = IF In(id, {"Finalised"})
                  THEN [claimed EXCEPT ![id] = @ \cup {a}] ELSE claimed
    /\ feeHeld' = IF In(id, {"Finalised"})
                  THEN feeHeld ELSE [feeHeld EXCEPT ![id][a] = 0]
    /\ UNCHANGED <<admin, nextId, tournament, entrants, entrantCount>>

\* The next state still owes it, or has paid it out.
DueStands(id, a) == Payable(id, a)' /\ Owed(id, a)' = Owed(id, a)

DueIsPaid(id, a) ==
    /\ Owed(id, a)' = 0
    /\ tokens'[TokenOf(id)][a] = tokens[TokenOf(id)][a] + Owed(id, a)

\* What is owed to one account is within the balance in that token.
LEMMA DebtIsCovered ==
    ASSUME IInv, NEW id \in TournamentId, NEW a \in Account, Live(tournament[id])
    PROVE  Owed(id, a) \in 0 .. tokens[TokenOf(id)][Contract]
<1>1. PICK t, E, h, n, c, p : Stored(id, t, E, h, n, c, p)
  BY StoredAt DEF IInv
<1>2. /\ TypesOf(t, E, h, n, c, p) /\ SoundOf(t, E, h, n, c, p) /\ Live(t)
      /\ t = tournament[id] /\ h = feeHeld[id] /\ c = claimed[id] /\ p = paidOut[id]
  BY <1>1 DEF Stored
<1>3. PICK k \in RewardToken : k = t.reward_token
  BY <1>2, LiveTournament DEF TypesOf, Live
<1>4. PICK f \in [Account -> 0 .. MaxI128] : f = Owing(t, h, c) /\ Total(f) \in Nat
  BY <1>2, OwingType DEF SoundOf
<1>5. f[a] <= Total(f) /\ f[a] \in Nat
  BY <1>4, TotalBound, TournamentAssumption
<1>6. Owed(id, a) = f[a]
  <2>1. [b \in Account |-> Owed(id, b)] = f
    BY <1>2, <1>4, Queries DEF IInv
  <2> QED BY <2>1
<1>7. PICK g \in [TournamentId -> 0 .. MaxI128] : g = Kept(k)
  <2>1. ASSUME NEW i \in TournamentId
        PROVE  KeptOf(tournament[i], paidOut[i], k) \in 0 .. MaxI128
    <3>1. TypesAt(i) /\ SoundAt(i)
      BY TypesOfId DEF IInv, Sound
    <3> QED BY <3>1, KeptIsAmount, Zenon DEF TypesAt, SoundAt
  <2> QED BY <2>1 DEF Kept
<1>8. g[id] = Left(t, p) /\ g[id] \in Nat
  BY <1>2, <1>3, <1>7, TournamentAssumption DEF Kept, KeptOf
<1>9. g[id] <= Total(g)
  <2>1. IsFiniteSet(TournamentId)
    BY TournamentAssumption, FS_Interval DEF TournamentId
  <2> QED BY <2>1, <1>7, TotalBound, TournamentAssumption
<1>10. Total(g) = tokens[k][Contract]
  BY <1>7 DEF IInv, Balanced
<1>11. Total(f) <= Left(t, p)
  BY <1>2, <1>4 DEF SoundOf
<1>12. tokens[k][Contract] \in Nat
  BY DEF IInv, TypeOK, Address
<1> QED BY <1>2, <1>3, <1>4, <1>5, <1>6, <1>8, <1>9, <1>10, <1>11, <1>12 DEF TokenOf

\* A due of a finalised tournament is the share of a winner that has not
\* claimed, one of a cancelled tournament the fee held for an entrant.
LEMMA DueOf ==
    ASSUME IInv, NEW id \in TournamentId, NEW a \in Account, Payable(id, a)
    PROVE  /\ Live(tournament[id]) /\ Owed(id, a) > 0
           /\ \/ LET t == tournament[id] IN
                 /\ In(id, {"Finalised"}) /\ t.status = "Finalised"
                 /\ a \in Winners(t) /\ a \notin claimed[id]
                 /\ Owed(id, a) = Share(t, Rank(t, a))
                 /\ t.total_pool * t.payout_bps[Rank(t, a)] \in I128
              \/ /\ In(id, {"Cancelled"}) /\ tournament[id].status = "Cancelled"
                 /\ a \in entrants[id]
                 /\ Owed(id, a) = feeHeld[id][a]
<1>1. Live(tournament[id]) /\ Owed(id, a) > 0
  BY DEF Payable, In, Live
<1>2. CASE tournament[id].status = "Finalised"
  <2>1. In(id, {"Finalised"})
    BY <1>1, <1>2 DEF In, Live
  <2>2. a \in Winners(tournament[id]) /\ ~is_claimed(id, a)
    BY <1>1, <2>1 DEF Owed
  <2> QED BY <1>1, <1>2, <2>1, <2>2 DEF Owed, Payable, is_claimed
<1>3. CASE tournament[id].status = "Cancelled"
  <2>1. In(id, {"Cancelled"}) /\ ~In(id, {"Finalised"})
    BY <1>1, <1>3 DEF In, Live
  <2>2. Owed(id, a) = feeHeld[id][a]
    BY <2>1 DEF Owed, entry_fee_paid
  <2>3. a \in entrants[id]
    <3>1. \A b \in Account \ entrants[id] : feeHeld[id][b] = 0
      BY <1>1 DEF IInv, Sound, SoundAt, SoundOf
    <3> QED BY <1>1, <2>2, <3>1
  <2> QED BY <1>1, <1>3, <2>1, <2>2, <2>3
<1>4. tournament[id].status \in {"Finalised", "Cancelled"}
  BY DEF Payable, In
<1> QED BY <1>2, <1>3, <1>4

LEMMA PayableDueIsClear ==
    ASSUME IInv, NEW id \in TournamentId, NEW a \in Account, Payable(id, a)
    PROVE  DueIsClear(id, a)
<1>1. /\ Live(tournament[id]) /\ Owed(id, a) > 0
      /\ Owed(id, a) \in 0 .. tokens[TokenOf(id)][Contract]
  BY DueOf, DebtIsCovered
<1>2. tokens[TokenOf(id)][Contract] \in Nat
  <2>1. TokenOf(id) \in RewardToken
    BY <1>1, LiveTournament DEF IInv, TypeOK, TokenOf, Live
  <2> QED BY <2>1 DEF IInv, TypeOK, Address
<1>3. CanTransfer(tokens[TokenOf(id)], Contract, Owed(id, a))
  BY <1>1, <1>2 DEF CanTransfer
<1> QED BY <1>1, <1>3, DueOf DEF DueIsClear

(***************************************************************************)
(* Whoever is owed a payable amount meets every check of claim_reward or   *)
(* refund: the status, the ranking or the entrants, the mark that would    *)
(* bar it, the arithmetic, and the one balance all tournaments share.      *)
(***************************************************************************)
THEOREM PayableDuesAreClear ==
    Spec => [](\A id \in TournamentId, a \in Account :
                   Payable(id, a) => DueIsClear(id, a))
<1>1. IInv => \A id \in TournamentId, a \in Account :
                  Payable(id, a) => DueIsClear(id, a)
  BY PayableDueIsClear
<1> QED BY <1>1, InitInv, StepInv, PTL DEF Spec

(***************************************************************************)
(* The checks of DueIsClear are all there are: where they are met, the     *)
(* account's own signature takes the step that DueWritten describes, and   *)
(* that leaves nothing owed.                                               *)
(***************************************************************************)
THEOREM ClearDuesAreDrawn ==
    ASSUME TypeOK, NEW id \in TournamentId, NEW a \in Account,
           DueIsClear(id, a), DueWritten(id, a)
    PROVE  Draw(a) /\ Owed(id, a)' = 0
<1>1. CASE In(id, {"Finalised"})
  <2>1. /\ a \in Winners(tournament[id]) /\ a \notin claimed[id]
        /\ ~In(id, {"Cancelled"})
    BY <1>1 DEF DueIsClear, In
  <2>2. ClaimReward({a}, a, id)
    BY <1>1, <2>1 DEF ClaimReward, MarkClaimed, Pays, DueIsClear, DueWritten, TokenOf, Winners
  <2>3. a \in claimed'[id]
    BY <1>1 DEF DueWritten, TypeOK
  <2>4. Owed(id, a)' = 0
    BY <1>1, <2>3 DEF Owed, In, is_claimed, DueWritten
  <2> QED BY <2>2, <2>4 DEF Draw
<1>2. CASE ~In(id, {"Finalised"})
  <2>1. In(id, {"Cancelled"}) /\ a \in entrants[id] /\ Owed(id, a) = feeHeld[id][a]
    BY <1>2 DEF DueIsClear
  <2>2. Refund({a}, a, id)
    BY <1>2, <2>1 DEF Refund, MarkRefunded, Pays, DueIsClear, DueWritten, TokenOf
  <2>3. feeHeld'[id][a] = 0
    BY <1>2 DEF DueWritten, TypeOK
  <2>4. Owed(id, a)' = 0
    BY <1>2, <2>3 DEF Owed, In, entry_fee_paid, DueWritten
  <2> QED BY <2>2, <2>4 DEF Draw
<1> QED BY <1>1, <1>2

\* A claim or refund by the account itself pays the due, one by another
\* account leaves it as it is.
LEMMA DueAfterDraw ==
    ASSUME IInv, NEW id \in TournamentId, NEW a \in Account, Payable(id, a),
           NEW s \in Account, NEW b \in Account,
           ClaimReward({s}, b, id) \/ Refund({s}, b, id)
    PROVE  DueStands(id, a) \/ DueIsPaid(id, a)
<1>1. PICK t, E, h, n, c, p : Stored(id, t, E, h, n, c, p)
  BY StoredAt DEF IInv
<1>2. t = tournament[id] /\ h = feeHeld[id] /\ c = claimed[id] /\ t.reward_token = TokenOf(id)
  BY <1>1 DEF Stored, TokenOf
<1>3. b # a => DueStands(id, a)
  <2>1. CASE ClaimReward({s}, b, id)
    BY <2>1 DEF ClaimReward, MarkClaimed, DueStands, Payable, Owed, In, is_claimed,
                entry_fee_paid, IInv, TypeOK
  <2>2. CASE Refund({s}, b, id)
    BY <2>2 DEF Refund, MarkRefunded, DueStands, Payable, Owed, In, is_claimed,
                entry_fee_paid, IInv, TypeOK
  <2> QED BY <2>1, <2>2
<1>4. ASSUME b = a, ClaimReward({s}, a, id) PROVE DueIsPaid(id, a)
  <2>1. /\ t.status = "Finalised"
        /\ Moved(t.reward_token, Contract, a, Share(t, Rank(t, a)))
    BY <1>1, <1>4, ClaimEffect DEF IInv
  <2>2. Owed(id, a) = Share(t, Rank(t, a))
    BY <1>2, <2>1, DueOf
  <2>3. Owed(id, a)' = 0
    BY <1>4 DEF ClaimReward, MarkClaimed, Owed, In, is_claimed, IInv, TypeOK
  <2> QED BY <1>2, <2>1, <2>2, <2>3 DEF Moved, DueIsPaid
<1>5. ASSUME b = a, Refund({s}, a, id) PROVE DueIsPaid(id, a)
  <2>1. t.status = "Cancelled" /\ Moved(t.reward_token, Contract, a, h[a])
    BY <1>1, <1>5, RefundEffect DEF IInv
  <2>2. Owed(id, a) = h[a]
    BY <1>2, <2>1, DueOf
  <2>3. Owed(id, a)' = 0
    BY <1>5 DEF Refund, MarkRefunded, Owed, In, entry_fee_paid, IInv, TypeOK
  <2> QED BY <1>2, <2>1, <2>2, <2>3 DEF Moved, DueIsPaid
<1> QED BY <1>3, <1>4, <1>5

LEMMA StepDue ==
    ASSUME IInv, [Next]_vars, NEW id \in TournamentId, NEW a \in Account, Payable(id, a)
    PROVE  DueStands(id, a) \/ DueIsPaid(id, a)
<1>1. /\ Live(tournament[id]) /\ ~In(id, {"Open", "InProgress"})
      /\ ~In(id, {"Open"}) /\ ~In(id, {"InProgress"})
  BY DueOf DEF In
<1>2. ASSUME tournament'[id] = tournament[id], feeHeld'[id] = feeHeld[id],
             claimed'[id] = claimed[id]
      PROVE  DueStands(id, a)
  BY <1>2 DEF DueStands, Payable, Owed, In, is_claimed, entry_fee_paid
<1>3. ASSUME NEW s \in Account, NEW b \in Account, Initialize({s}, b)
      PROVE  DueStands(id, a)
  BY <1>2, <1>3 DEF Initialize
<1>4. ASSUME NEW s \in Account, NEW k \in RewardToken, NEW fee \in Fees, NEW bps \in Splits,
             CreateTournament({s}, k, fee, bps)
      PROVE  DueStands(id, a)
  <2>1. nextId # id
    BY <1>1, <1>4, CreateEffect DEF IInv
  <2> QED BY <1>2, <1>4, <2>1 DEF CreateTournament, IInv, TypeOK
<1>5. ASSUME NEW i \in TournamentId, NEW s \in Account, NEW b \in Account,
             Enter({s}, b, i)
      PROVE  DueStands(id, a)
  <2>1. i # id
    BY <1>1, <1>5 DEF Enter
  <2> QED BY <1>2, <1>5, <2>1 DEF Enter, IInv, TypeOK
<1>6. ASSUME NEW i \in TournamentId, NEW s \in Account, NEW b \in Account,
             NEW amount \in Amounts, TopUp({s}, b, i, amount)
      PROVE  DueStands(id, a)
  <2>1. i # id
    BY <1>1, <1>6 DEF TopUp, TakesTopUps
  <2> QED BY <1>2, <1>6, <2>1 DEF TopUp, IInv, TypeOK
<1>7. ASSUME NEW i \in TournamentId, NEW s \in Account, Start({s}, i) \/ Cancel({s}, i)
      PROVE  DueStands(id, a)
  <2>1. i # id
    BY <1>1, <1>7 DEF Start, Cancel
  <2> QED BY <1>2, <1>7, <2>1 DEF Start, Cancel, Move, IInv, TypeOK
<1>8. ASSUME NEW i \in TournamentId, NEW s \in Account, NEW winners \in Rankings,
             Finalise({s}, i, winners)
      PROVE  DueStands(id, a)
  <2>1. i # id
    BY <1>1, <1>8 DEF Finalise
  <2> QED BY <1>2, <1>8, <2>1 DEF Finalise, Move, IInv, TypeOK
<1>9. ASSUME NEW i \in TournamentId, NEW s \in Account, NEW b \in Account,
             ClaimReward({s}, b, i) \/ Refund({s}, b, i)
      PROVE  DueStands(id, a) \/ DueIsPaid(id, a)
  <2>1. CASE i = id
    BY <1>9, <2>1, DueAfterDraw
  <2>2. CASE i # id
    BY <1>2, <1>9, <2>2 DEF ClaimReward, MarkClaimed, Refund, MarkRefunded, IInv, TypeOK
  <2> QED BY <2>1, <2>2
<1>10. CASE UNCHANGED vars
  BY <1>2, <1>10 DEF vars
<1> QED BY <1>3, <1>4, <1>5, <1>6, <1>7, <1>8, <1>9, <1>10 DEF Next

(***************************************************************************)
(* A payable due stands: no step lowers it, takes it away or makes it      *)
(* unpayable, and the step that ends it has paid it in full to whom it was *)
(* owed.                                                                   *)
(***************************************************************************)
THEOREM DuesStandUntilPaid ==
    Spec => [][\A id \in TournamentId, a \in Account :
                   Payable(id, a) => DueStands(id, a) \/ DueIsPaid(id, a)]_vars
<1>1. IInv /\ [Next]_vars =>
          \A id \in TournamentId, a \in Account :
              Payable(id, a) => DueStands(id, a) \/ DueIsPaid(id, a)
  BY StepDue
<1> QED BY <1>1, InitInv, StepInv, PTL DEF Spec

(***************************************************************************)
(* A settled tournament, and what is owed from it.                         *)
(***************************************************************************)
Closed(id) == In(id, {"Finalised", "Cancelled"})

Debts(id) == [a \in Account |-> Owed(id, a)]

\* Nobody is paid, or a is, what it is owed and no more.
NobodyDraws(id) == Debts(id)' = Debts(id) /\ paidOut'[id] = paidOut[id]

DrawsAll(id, a) ==
    /\ Owed(id, a) > 0
    /\ Debts(id)' = [Debts(id) EXCEPT ![a] = 0]
    /\ paidOut'[id] = paidOut[id] + Owed(id, a)
    /\ tokens'[TokenOf(id)][a] = tokens[TokenOf(id)][a] + Owed(id, a)

ResultStands(id) ==
    Closed(id) =>
        /\ tournament'[id] = tournament[id] /\ entrants'[id] = entrants[id]
        /\ NobodyDraws(id) \/ \E a \in Account : DrawsAll(id, a)
        /\ paidOut'[id] + Total(Debts(id))' = paidOut[id] + Total(Debts(id))

LEMMA DebtsType ==
    ASSUME IInv, NEW id \in TournamentId, Closed(id)
    PROVE  Debts(id) \in [Account -> 0 .. MaxI128]
<1>1. PICK t, E, h, n, c, p : Stored(id, t, E, h, n, c, p)
  BY StoredAt DEF IInv
<1>2. /\ TypesOf(t, E, h, n, c, p) /\ SoundOf(t, E, h, n, c, p) /\ Live(t)
      /\ t = tournament[id] /\ h = feeHeld[id] /\ c = claimed[id]
  BY <1>1 DEF Stored, Closed, In, Live
<1>3. Owing(t, h, c) \in [Account -> 0 .. MaxI128]
  BY <1>2, OwingType DEF SoundOf
<1>4. Debts(id) = Owing(t, h, c)
  BY <1>2, Queries DEF IInv, Debts
<1> QED BY <1>3, <1>4

\* A draw lowers the sum of the debts by what it pays.
LEMMA DrawTotal ==
    ASSUME IInv, NEW id \in TournamentId, Closed(id), NEW a \in Account, DrawsAll(id, a)
    PROVE  paidOut'[id] + Total(Debts(id))' = paidOut[id] + Total(Debts(id))
<1>1. PICK f \in [Account -> 0 .. MaxI128] : f = Debts(id)
  BY DebtsType
<1>2. PICK g \in [Account -> 0 .. MaxI128] : g = [f EXCEPT ![a] = 0]
  <2>1. 0 \in 0 .. MaxI128
    BY TournamentAssumption
  <2>2. [f EXCEPT ![a] = 0] \in [Account -> 0 .. MaxI128]
    BY <2>1
  <2> QED BY <2>2
<1>3. Debts(id)' = g /\ f[a] = Owed(id, a) /\ paidOut'[id] = paidOut[id] + f[a]
  BY <1>1, <1>2 DEF DrawsAll, Debts
<1>4. g[a] = 0 /\ \A b \in Account \ {a} : g[b] = f[b]
  BY <1>2
<1>5. IsFiniteSet(Account) /\ MaxI128 \in Nat
  BY TournamentAssumption
<1>6. Total(g) = Total(f) - f[a] + g[a]
  BY <1>4, <1>5, TotalChange
<1>7. Total(f) \in Nat /\ f[a] \in Nat /\ paidOut[id] \in Nat
  BY <1>5, UnitsFinite DEF IInv, TypeOK
<1>8. Total(Debts(id))' = Total(g)
  BY <1>3
<1> QED BY <1>1, <1>3, <1>4, <1>6, <1>7, <1>8

LEMMA ClaimPaysDebt ==
    ASSUME IInv, NEW id \in TournamentId, NEW s \in Account, NEW a \in Account,
           ClaimReward({s}, a, id)
    PROVE  DrawsAll(id, a)
<1>1. PICK t, E, h, n, c, p : Stored(id, t, E, h, n, c, p)
  BY StoredAt DEF IInv
<1>2. /\ t = tournament[id] /\ t.reward_token = TokenOf(id) /\ t.status = "Finalised"
      /\ Moved(t.reward_token, Contract, a, Share(t, Rank(t, a)))
      /\ Share(t, Rank(t, a)) > 0
  BY <1>1, ClaimEffect DEF IInv, Stored, TokenOf, ClaimReward
<1>3. Owed(id, a) = Share(t, Rank(t, a))
  BY <1>2 DEF ClaimReward, Owed, Winners, is_claimed
<1>4. Owed(id, a)' = 0
  BY DEF ClaimReward, MarkClaimed, Owed, In, is_claimed, IInv, TypeOK
<1>5. \A b \in Account \ {a} : Owed(id, b)' = Owed(id, b)
  BY DEF ClaimReward, MarkClaimed, Owed, In, is_claimed, entry_fee_paid, IInv, TypeOK
<1>6. Debts(id)' = [Debts(id) EXCEPT ![a] = 0]
  BY <1>4, <1>5 DEF Debts
<1>7. paidOut'[id] = paidOut[id] + Owed(id, a)
  BY <1>2, <1>3 DEF ClaimReward, IInv, TypeOK
<1> QED BY <1>2, <1>3, <1>6, <1>7 DEF DrawsAll, Moved

LEMMA RefundPaysDebt ==
    ASSUME IInv, NEW id \in TournamentId, NEW s \in Account, NEW a \in Account,
           Refund({s}, a, id)
    PROVE  DrawsAll(id, a)
<1>1. PICK t, E, h, n, c, p : Stored(id, t, E, h, n, c, p)
  BY StoredAt DEF IInv
<1>2. /\ t = tournament[id] /\ h = feeHeld[id] /\ t.reward_token = TokenOf(id)
      /\ t.status = "Cancelled"
      /\ Moved(t.reward_token, Contract, a, h[a])
  BY <1>1, RefundEffect DEF IInv, Stored, TokenOf
<1>3. Owed(id, a) = h[a] /\ h[a] > 0
  BY <1>2 DEF Refund, Owed, In, entry_fee_paid
<1>4. Owed(id, a)' = 0
  BY <1>2 DEF Refund, MarkRefunded, Owed, In, entry_fee_paid, IInv, TypeOK
<1>5. \A b \in Account \ {a} : Owed(id, b)' = Owed(id, b)
  BY DEF Refund, MarkRefunded, Owed, In, is_claimed, entry_fee_paid, IInv, TypeOK
<1>6. Debts(id)' = [Debts(id) EXCEPT ![a] = 0]
  BY <1>4, <1>5 DEF Debts
<1>7. paidOut'[id] = paidOut[id] + Owed(id, a)
  BY <1>2, <1>3 DEF Refund, IInv, TypeOK
<1> QED BY <1>2, <1>3, <1>6, <1>7 DEF DrawsAll, Moved

LEMMA StepResult ==
    ASSUME IInv, [Next]_vars, NEW id \in TournamentId, Closed(id)
    PROVE  /\ tournament'[id] = tournament[id] /\ entrants'[id] = entrants[id]
           /\ NobodyDraws(id) \/ \E a \in Account : DrawsAll(id, a)
<1> DEFINE Same == /\ tournament'[id] = tournament[id] /\ entrants'[id] = entrants[id]
                   /\ feeHeld'[id] = feeHeld[id] /\ claimed'[id] = claimed[id]
                   /\ paidOut'[id] = paidOut[id]
           Drawn == /\ tournament'[id] = tournament[id] /\ entrants'[id] = entrants[id]
                    /\ \E a \in Account : DrawsAll(id, a)
<1>1. /\ Live(tournament[id]) /\ ~In(id, {"Open", "InProgress"})
      /\ ~In(id, {"Open"}) /\ ~In(id, {"InProgress"})
  BY DEF Closed, In, Live
<1>2. Same => NobodyDraws(id)
  BY DEF NobodyDraws, Debts, Owed, In, is_claimed, entry_fee_paid
<1>3. ASSUME NEW s \in Account, NEW b \in Account, Initialize({s}, b)
      PROVE  Same
  BY <1>3 DEF Initialize
<1>4. ASSUME NEW s \in Account, NEW k \in RewardToken, NEW fee \in Fees, NEW bps \in Splits,
             CreateTournament({s}, k, fee, bps)
      PROVE  Same
  <2>1. nextId # id
    BY <1>1, <1>4, CreateEffect DEF IInv
  <2> QED BY <1>4, <2>1 DEF CreateTournament, IInv, TypeOK
<1>5. ASSUME NEW i \in TournamentId, NEW s \in Account, NEW b \in Account,
             Enter({s}, b, i)
      PROVE  Same
  <2>1. i # id
    BY <1>1, <1>5 DEF Enter
  <2> QED BY <1>5, <2>1 DEF Enter, IInv, TypeOK
<1>6. ASSUME NEW i \in TournamentId, NEW s \in Account, NEW b \in Account,
             NEW amount \in Amounts, TopUp({s}, b, i, amount)
      PROVE  Same
  <2>1. i # id
    BY <1>1, <1>6 DEF TopUp, TakesTopUps
  <2> QED BY <1>6, <2>1 DEF TopUp, IInv, TypeOK
<1>7. ASSUME NEW i \in TournamentId, NEW s \in Account, Start({s}, i) \/ Cancel({s}, i)
      PROVE  Same
  <2>1. i # id
    BY <1>1, <1>7 DEF Start, Cancel
  <2> QED BY <1>7, <2>1 DEF Start, Cancel, Move, IInv, TypeOK
<1>8. ASSUME NEW i \in TournamentId, NEW s \in Account, NEW winners \in Rankings,
             Finalise({s}, i, winners)
      PROVE  Same
  <2>1. i # id
    BY <1>1, <1>8 DEF Finalise
  <2> QED BY <1>8, <2>1 DEF Finalise, Move, IInv, TypeOK
<1>9. ASSUME NEW i \in TournamentId, NEW s \in Account, NEW b \in Account,
             ClaimReward({s}, b, i) \/ Refund({s}, b, i)
      PROVE  Same \/ Drawn
  <2>1. CASE i = id
    <3>1. DrawsAll(id, b)
      BY <1>9, <2>1, ClaimPaysDebt, RefundPaysDebt
    <3>2. tournament' = tournament /\ entrants' = entrants
      BY <1>9 DEF ClaimReward, Refund
    <3> QED BY <3>1, <3>2
  <2>2. CASE i # id
    BY <1>9, <2>2 DEF ClaimReward, MarkClaimed, Refund, MarkRefunded, IInv, TypeOK
  <2> QED BY <2>1, <2>2
<1>10. UNCHANGED vars => Same
  BY DEF vars
<1> HIDE DEF Same, Drawn
<1>11. Same \/ Drawn
  BY <1>3, <1>4, <1>5, <1>6, <1>7, <1>8, <1>9, <1>10 DEF Next
<1> QED BY <1>2, <1>11 DEF Same, Drawn

(***************************************************************************)
(* A result is final: a settled tournament, its entrants and what it owes  *)
(* to each of them never change again, but by a payee being paid all it is *)
(* owed, and nobody draws twice.  Paid and still owed is the same sum for  *)
(* good, so what was owed when it was settled is all it will ever pay.     *)
(***************************************************************************)
THEOREM ResultsStand == Spec => [][\A id \in TournamentId : ResultStands(id)]_vars
<1>1. ASSUME IInv, [Next]_vars, NEW id \in TournamentId
      PROVE  ResultStands(id)
  <2> SUFFICES ASSUME Closed(id)
               PROVE  /\ tournament'[id] = tournament[id] /\ entrants'[id] = entrants[id]
                      /\ NobodyDraws(id) \/ \E a \in Account : DrawsAll(id, a)
                      /\ paidOut'[id] + Total(Debts(id))' = paidOut[id] + Total(Debts(id))
    BY DEF ResultStands
  <2>1. /\ tournament'[id] = tournament[id] /\ entrants'[id] = entrants[id]
        /\ NobodyDraws(id) \/ \E a \in Account : DrawsAll(id, a)
    BY <1>1, StepResult
  <2>2. paidOut'[id] + Total(Debts(id))' = paidOut[id] + Total(Debts(id))
    BY <1>1, <2>1, DrawTotal DEF NobodyDraws
  <2> QED BY <2>1, <2>2
<1>2. IInv /\ [Next]_vars => \A id \in TournamentId : ResultStands(id)
  BY <1>1
<1> QED BY <1>2, InitInv, StepInv, PTL DEF Spec

-----------------------------------------------------------------------------
(***************************************************************************)
(* The same arithmetic in the common crate, for every amount: shares never *)
(* exceed what they are shares of, and rounding never favours those who    *)
(* draw them.                                                              *)
(***************************************************************************)
Common == INSTANCE Shared

(***************************************************************************)
(* A product with a factor that is not negative respects the order: the    *)
(* one fact here that is not linear arithmetic.                            *)
(***************************************************************************)
LEMMA TimesMonotone ==
    ASSUME NEW m \in Int, NEW n \in Int, m <= n, NEW f \in Nat
    PROVE  /\ m * f \in Int /\ n * f \in Int
           /\ m * f <= n * f
           /\ f * m <= f * n
<1>1. (n - m) * f >= 0 BY SMT
<1>2. (n - m) * f = n * f - m * f BY SMT
<1> QED BY <1>1, <1>2, SMT

(***************************************************************************)
(* The bounds that define the result of bps_of for amounts that are not    *)
(* negative: rounded down, by less than one unit.                          *)
(***************************************************************************)
LEMMA BpsBounds ==
    ASSUME NEW whole \in Nat, NEW part \in Nat
    PROVE  /\ whole * part \in Nat
           /\ Common!BpsOf(whole, part) \in Nat
           /\ 10000 * Common!BpsOf(whole, part) <= whole * part
           /\ whole * part < 10000 * Common!BpsOf(whole, part) + 10000
<1>1. whole * part \in Nat BY SMT
<1>2. ASSUME NEW x \in Nat
      PROVE  /\ Common!Quotient(x, 10000) \in Nat
             /\ 10000 * Common!Quotient(x, 10000) <= x
             /\ x < 10000 * Common!Quotient(x, 10000) + 10000
  BY SMT DEF Common!Quotient
<1> DEFINE product == whole * part
<1>3. Common!BpsOf(whole, part) = Common!Quotient(product, 10000) BY DEF Common!BpsOf, Common!MAX_BPS
<1>4. product \in Nat BY <1>1
<1> HIDE DEF product
<1>5. /\ Common!Quotient(product, 10000) \in Nat
      /\ 10000 * Common!Quotient(product, 10000) <= product
      /\ product < 10000 * Common!Quotient(product, 10000) + 10000
  BY <1>2, <1>4
<1> USE DEF product
<1> QED BY <1>1, <1>3, <1>5

(***************************************************************************)
(* bps_of never returns more than the amount, nor less than nothing: with  *)
(* bps within Common!MAX_BPS no payout computed from a pool exceeds it.           *)
(***************************************************************************)
THEOREM ShareWithinAmount ==
    ASSUME NEW amount \in Nat, NEW bps \in Nat, bps <= Common!MAX_BPS
    PROVE  Common!BpsOf(amount, bps) \in 0 .. amount
<1>1. amount * bps <= amount * 10000
  <2>1. bps \in Int /\ 10000 \in Int /\ bps <= 10000 BY SMT DEF Common!MAX_BPS
  <2> QED BY <2>1, TimesMonotone
<1>2. /\ amount * bps \in Nat
      /\ Common!BpsOf(amount, bps) \in Nat
      /\ 10000 * Common!BpsOf(amount, bps) <= amount * bps
      /\ amount * bps < 10000 * Common!BpsOf(amount, bps) + 10000
  BY BpsBounds DEF Common!MAX_BPS
<1> QED BY <1>1, <1>2, SMT

(***************************************************************************)
(* Two shares of one amount never come to more than the share of their     *)
(* sum, and fall short of it by at most one unit: splitting a payout over  *)
(* ranks cannot overdraw a pool, and rounding keeps one unit per split.    *)
(***************************************************************************)
THEOREM SplitNeverOverdraws ==
    ASSUME NEW amount \in Nat, NEW b \in Nat, NEW c \in Nat
    PROVE  /\ Common!BpsOf(amount, b) + Common!BpsOf(amount, c) <= Common!BpsOf(amount, b + c)
           /\ Common!BpsOf(amount, b + c) <= Common!BpsOf(amount, b) + Common!BpsOf(amount, c) + 1
<1>1. /\ b + c \in Nat
      /\ amount * (b + c) = amount * b + amount * c
  BY SMT
<1>2. /\ Common!BpsOf(amount, b) \in Nat
      /\ 10000 * Common!BpsOf(amount, b) <= amount * b
      /\ amount * b < 10000 * Common!BpsOf(amount, b) + 10000
      /\ amount * b \in Nat
  BY BpsBounds
<1>3. /\ Common!BpsOf(amount, c) \in Nat
      /\ 10000 * Common!BpsOf(amount, c) <= amount * c
      /\ amount * c < 10000 * Common!BpsOf(amount, c) + 10000
      /\ amount * c \in Nat
  BY BpsBounds
<1>4. /\ Common!BpsOf(amount, b + c) \in Nat
      /\ 10000 * Common!BpsOf(amount, b + c) <= amount * (b + c)
      /\ amount * (b + c) < 10000 * Common!BpsOf(amount, b + c) + 10000
  BY <1>1, BpsBounds
<1> QED BY <1>1, <1>2, <1>3, <1>4, SMT

(***************************************************************************)
(* A larger pool never means a smaller payout: a top-up harms no winner.   *)
(***************************************************************************)
THEOREM ShareGrowsWithPool ==
    ASSUME NEW m \in Nat, NEW n \in Nat, m <= n, NEW bps \in Nat
    PROVE  Common!BpsOf(m, bps) <= Common!BpsOf(n, bps)
<1>1. m * bps \in Nat /\ n * bps \in Nat BY BpsBounds
<1>2. m * bps <= n * bps BY TimesMonotone
<1>3. /\ m * bps \in Nat
      /\ Common!BpsOf(m, bps) \in Nat
      /\ 10000 * Common!BpsOf(m, bps) <= m * bps
      /\ m * bps < 10000 * Common!BpsOf(m, bps) + 10000
  BY BpsBounds
<1>4. /\ n * bps \in Nat
      /\ Common!BpsOf(n, bps) \in Nat
      /\ 10000 * Common!BpsOf(n, bps) <= n * bps
      /\ n * bps < 10000 * Common!BpsOf(n, bps) + 10000
  BY BpsBounds
<1> QED BY <1>1, <1>2, <1>3, <1>4, SMT

(***************************************************************************)
(* The share tournament_rewards computes for a rank, with a division of    *)
(* its own, is what bps_of of the common crate returns.                    *)
(***************************************************************************)
THEOREM SharesAreCommon ==
    ASSUME NEW t \in Tournament, NEW r \in DOMAIN t.payout_bps
    PROVE  Share(t, r) = Common!BpsOf(t.total_pool, t.payout_bps[r])
<1>1. PICK pool \in Nat, bps \in Nat : pool = t.total_pool /\ bps = t.payout_bps[r]
  BY DEF Tournament
<1>2. pool * bps \in Nat
  BY Product
<1>3. ASSUME NEW x \in Nat PROVE Common!Quotient(x, 10000) = x \div 10000
  BY SMT DEF Common!Quotient
<1>4. Common!Quotient(pool * bps, 10000) = (pool * bps) \div 10000
  <2> DEFINE product == pool * bps
  <2> HIDE DEF product
  <2>1. Common!Quotient(product, 10000) = product \div 10000
    BY <1>2, <1>3 DEF product
  <2> QED BY <2>1 DEF product
<1>5. Common!BpsOf(pool, bps) = Common!Quotient(pool * bps, 10000)
  BY DEF Common!BpsOf, Common!MAX_BPS
<1>6. Share(t, r) = (pool * bps) \div 10000
  BY <1>1 DEF Share
<1> QED BY <1>1, <1>4, <1>5, <1>6

-----------------------------------------------------------------------------
(***************************************************************************)
(* The treasury, the other contract that holds several tokens: on the same *)
(* accounts and token contracts, with a storage of its own.                *)
(***************************************************************************)
VARIABLES treasuryAdmin, spenders, supportedTokens, totalDeposited,
          totalDisbursed, treasuryTokens

Vault == INSTANCE Treasury WITH
    TokenContract <- RewardToken, admin <- treasuryAdmin, tokens <- treasuryTokens

LEMMA VaultAssumption ==
    /\ Contract \notin Account /\ NoAdmin \notin Account \cup {Contract}
    /\ MaxI128 \in Nat /\ Minted \in [Account -> 0 .. MaxI128]
BY TournamentAssumption DEF Address

\* The balances of the treasury's tokens after a transfer of one of them.
VaultMoved(k, from, to, amount) ==
    /\ amount \in 0 .. treasuryTokens[k][from]
    /\ treasuryTokens' \in [RewardToken -> [Vault!Address -> Nat]]
    /\ from = to => treasuryTokens' = treasuryTokens
    /\ from # to => /\ treasuryTokens'[k][from] = treasuryTokens[k][from] - amount
                    /\ treasuryTokens'[k][to] = treasuryTokens[k][to] + amount
    /\ \A x \in Vault!Address \ {from, to} :
           treasuryTokens'[k][x] = treasuryTokens[k][x]
    /\ \A j \in RewardToken \ {k} : treasuryTokens'[j] = treasuryTokens[j]

LEMMA VaultPays ==
    ASSUME Vault!TypeOK, NEW k \in RewardToken, NEW from \in Vault!Address,
           NEW to \in Vault!Address, NEW amount \in Int,
           Vault!Pays(k, from, to, amount)
    PROVE  VaultMoved(k, from, to, amount)
<1>1. PICK bal \in [Vault!Address -> Nat] : bal = treasuryTokens[k]
  BY DEF Vault!TypeOK
<1>2. PICK new : new = Transferred(bal, from, to, amount)
  OBVIOUS
<1>3. CanTransfer(bal, from, amount)
  BY <1>1 DEF Vault!Pays, Vault!CanTransfer, CanTransfer
<1>4. treasuryTokens' = [treasuryTokens EXCEPT ![k] = new]
  BY <1>1, <1>2 DEF Vault!Pays, Vault!Transferred, Transferred
<1>5. /\ new \in [Vault!Address -> Nat]
      /\ from = to => new = bal
      /\ from # to => /\ new[from] = bal[from] - amount
                      /\ new[to] = bal[to] + amount
      /\ \A x \in Vault!Address \ {from, to} : new[x] = bal[x]
  BY <1>2, <1>3, TransferEffect
<1>6. amount \in 0 .. bal[from]
  BY <1>3 DEF CanTransfer
<1>7. /\ treasuryTokens' \in [RewardToken -> [Vault!Address -> Nat]]
      /\ treasuryTokens'[k] = new
      /\ \A j \in RewardToken \ {k} : treasuryTokens'[j] = treasuryTokens[j]
  BY <1>4, <1>5 DEF Vault!TypeOK
<1>8. new = bal => treasuryTokens' = treasuryTokens
  BY <1>1, <1>4 DEF Vault!TypeOK
<1> QED BY <1>1, <1>5, <1>6, <1>7, <1>8 DEF VaultMoved

\* What each operation does to the books: nothing, or one movement of a token.
BooksKept == UNCHANGED <<totalDeposited, totalDisbursed>>

TakenIn(k, from, amount) ==
    /\ amount > 0 /\ totalDeposited[k] + amount \in Vault!I128
    /\ totalDeposited' = [totalDeposited EXCEPT ![k] = @ + amount]
    /\ UNCHANGED totalDisbursed
    /\ VaultMoved(k, from, Contract, amount)

GivenOut(k, to, amount) ==
    /\ amount > 0 /\ totalDisbursed[k] + amount \in Vault!I128
    /\ totalDisbursed' = [totalDisbursed EXCEPT ![k] = @ + amount]
    /\ UNCHANGED totalDeposited
    /\ VaultMoved(k, Contract, to, amount)

VaultStep ==
    \/ BooksKept /\ UNCHANGED treasuryTokens
    \/ \E k \in RewardToken, from \in Account, to \in Vault!Address, amount \in Int :
           BooksKept /\ VaultMoved(k, from, to, amount)
    \/ \E k \in RewardToken, from \in Account, amount \in Int : TakenIn(k, from, amount)
    \/ \E k \in RewardToken, to \in Vault!Address, amount \in Int : GivenOut(k, to, amount)

LEMMA VaultSteps ==
    ASSUME Vault!TypeOK, [Vault!Next]_(Vault!vars)
    PROVE  VaultStep
<1>0. Account \subseteq Vault!Address /\ Contract \in Vault!Address
      /\ \A n \in Vault!I128 : n \in Int
  BY VaultAssumption DEF Vault!Address, Vault!I128
<1>1. ASSUME NEW s \in Account, NEW k \in RewardToken, NEW to \in Vault!Address,
             NEW amount \in Vault!I128, Vault!TokenTransfer(k, s, to, amount)
      PROVE  VaultStep
  <2>1. VaultMoved(k, s, to, amount) /\ BooksKept
    BY <1>0, <1>1, VaultPays DEF Vault!TokenTransfer, BooksKept
  <2> QED BY <1>0, <2>1 DEF VaultStep
<1>2. ASSUME NEW s \in Account, NEW k \in RewardToken, NEW from \in Account,
             NEW amount \in Vault!I128, Vault!Deposit({s}, from, k, amount)
      PROVE  VaultStep
  <2>1. VaultMoved(k, from, Contract, amount)
    BY <1>0, <1>2, VaultPays DEF Vault!Deposit
  <2>2. TakenIn(k, from, amount)
    BY <1>2, <2>1 DEF Vault!Deposit, TakenIn
  <2> QED BY <1>0, <2>2 DEF VaultStep
<1>3. ASSUME NEW s \in Account, NEW k \in RewardToken, NEW to \in Vault!Address,
             NEW amount \in Vault!I128, Vault!Disburse({s}, k, to, amount)
      PROVE  VaultStep
  <2>1. VaultMoved(k, Contract, to, amount)
    BY <1>0, <1>3, VaultPays DEF Vault!Disburse
  <2>2. GivenOut(k, to, amount)
    BY <1>3, <2>1 DEF Vault!Disburse, GivenOut
  <2> QED BY <1>0, <2>2 DEF VaultStep
<1>4. CASE BooksKept /\ UNCHANGED treasuryTokens
  BY <1>4 DEF VaultStep
<1> QED BY <1>1, <1>2, <1>3, <1>4
        DEF Vault!Next, Vault!vars, Vault!Initialize, Vault!AddSpender,
            Vault!RemoveSpender, Vault!AddSupportedToken, BooksKept

LEMMA VaultInitType == Vault!Init => Vault!TypeOK
BY VaultAssumption DEF Vault!Init, Vault!TypeOK, Vault!Address

LEMMA VaultStepType == Vault!TypeOK /\ [Vault!Next]_(Vault!vars) => Vault!TypeOK'
<1> SUFFICES ASSUME Vault!TypeOK, [Vault!Next]_(Vault!vars) PROVE Vault!TypeOK'
  OBVIOUS
<1>1. /\ treasuryAdmin' \in Account \cup {NoAdmin}
      /\ spenders' \in SUBSET Vault!Address
  BY DEF Vault!Next, Vault!vars, Vault!TypeOK, Vault!Initialize, Vault!AddSpender,
         Vault!RemoveSpender, Vault!AddSupportedToken, Vault!Deposit,
         Vault!Disburse, Vault!TokenTransfer
<1>2. supportedTokens' \in Seq(RewardToken)
  <2>1. supportedTokens \in Seq(RewardToken) /\ <<>> \in Seq(RewardToken)
    BY DEF Vault!TypeOK
  <2>2. ASSUME NEW k \in RewardToken
        PROVE  Append(supportedTokens, k) \in Seq(RewardToken)
    BY <2>1
  <2>3. \/ supportedTokens' \in {supportedTokens, <<>>}
        \/ \E k \in RewardToken : supportedTokens' = Append(supportedTokens, k)
    BY DEF Vault!Next, Vault!vars, Vault!Initialize, Vault!AddSpender,
           Vault!RemoveSpender, Vault!AddSupportedToken, Vault!Deposit,
           Vault!Disburse, Vault!TokenTransfer
  <2> QED BY <2>1, <2>2, <2>3
<1>3. /\ totalDeposited' \in [RewardToken -> 0 .. MaxI128]
      /\ totalDisbursed' \in [RewardToken -> 0 .. MaxI128]
      /\ treasuryTokens' \in [RewardToken -> [Vault!Address -> Nat]]
  <2> USE VaultAssumption
  <2>1. VaultStep
    BY VaultSteps
  <2>2. CASE BooksKept /\ UNCHANGED treasuryTokens
    BY <2>2 DEF BooksKept, Vault!TypeOK
  <2>3. CASE \E k \in RewardToken, from \in Account, to \in Vault!Address,
                amount \in Int : BooksKept /\ VaultMoved(k, from, to, amount)
    BY <2>3 DEF BooksKept, VaultMoved, Vault!TypeOK
  <2>4. ASSUME NEW k \in RewardToken, NEW n \in Int, n > 0,
               NEW f \in [RewardToken -> 0 .. MaxI128], f[k] + n \in Vault!I128
        PROVE  [f EXCEPT ![k] = @ + n] \in [RewardToken -> 0 .. MaxI128]
    <3>1. f[k] \in 0 .. MaxI128 /\ f[k] + n \in 0 .. MaxI128
      BY <2>4 DEF Vault!I128
    <3> QED BY <3>1
  <2>5. /\ totalDeposited \in [RewardToken -> 0 .. MaxI128]
        /\ totalDisbursed \in [RewardToken -> 0 .. MaxI128]
    BY DEF Vault!TypeOK
  <2>6. ASSUME NEW k \in RewardToken, NEW from \in Account, NEW n \in Int,
               TakenIn(k, from, n)
        PROVE  /\ totalDeposited' \in [RewardToken -> 0 .. MaxI128]
               /\ totalDisbursed' \in [RewardToken -> 0 .. MaxI128]
               /\ treasuryTokens' \in [RewardToken -> [Vault!Address -> Nat]]
    <3>1. totalDeposited' \in [RewardToken -> 0 .. MaxI128]
      BY <2>4, <2>5, <2>6 DEF TakenIn
    <3> QED BY <2>5, <2>6, <3>1 DEF TakenIn, VaultMoved
  <2>7. ASSUME NEW k \in RewardToken, NEW to \in Vault!Address, NEW n \in Int,
               GivenOut(k, to, n)
        PROVE  /\ totalDeposited' \in [RewardToken -> 0 .. MaxI128]
               /\ totalDisbursed' \in [RewardToken -> 0 .. MaxI128]
               /\ treasuryTokens' \in [RewardToken -> [Vault!Address -> Nat]]
    <3>1. totalDisbursed' \in [RewardToken -> 0 .. MaxI128]
      BY <2>4, <2>5, <2>7 DEF GivenOut
    <3> QED BY <2>5, <2>7, <3>1 DEF GivenOut, VaultMoved
  <2> QED BY <2>1, <2>2, <2>3, <2>6, <2>7 DEF VaultStep
<1> QED BY <1>1, <1>2, <1>3 DEF Vault!TypeOK

(***************************************************************************)
(* The statistics stay within i128 and no balance becomes negative.        *)
(***************************************************************************)
THEOREM TreasuryTypes == Vault!Spec => []Vault!TypeOK
<1> QED BY VaultInitType, VaultStepType, PTL DEF Vault!Spec


LEMMA VaultStepCovered ==
    Vault!TypeOK /\ Vault!StatsCovered /\ [Vault!Next]_(Vault!vars)
        => Vault!StatsCovered' /\ Vault!OutflowStep
<1> SUFFICES ASSUME Vault!TypeOK, Vault!StatsCovered, [Vault!Next]_(Vault!vars),
                    NEW k \in RewardToken
             PROVE  /\ totalDeposited'[k] - totalDisbursed'[k] <= treasuryTokens'[k][Contract]
                    /\ treasuryTokens'[k][Contract] < treasuryTokens[k][Contract] =>
                           treasuryTokens[k][Contract] - treasuryTokens'[k][Contract]
                               = totalDisbursed'[k] - totalDisbursed[k]
  BY DEF Vault!StatsCovered, Vault!OutflowStep
<1>1. /\ totalDeposited[k] \in Int /\ totalDisbursed[k] \in Int
      /\ treasuryTokens[k][Contract] \in Nat
      /\ totalDeposited[k] - totalDisbursed[k] <= treasuryTokens[k][Contract]
      /\ Contract \in Vault!Address /\ Contract \notin Account
      /\ Account \subseteq Vault!Address
      /\ totalDeposited \in [RewardToken -> 0 .. MaxI128]
      /\ totalDisbursed \in [RewardToken -> 0 .. MaxI128]
  BY VaultAssumption DEF Vault!TypeOK, Vault!Address, Vault!StatsCovered
<1>2. VaultStep
  BY VaultSteps
<1>3. CASE BooksKept /\ UNCHANGED treasuryTokens
  BY <1>1, <1>3 DEF BooksKept
<1>4. ASSUME NEW j \in RewardToken, NEW from \in Account, NEW to \in Vault!Address,
             NEW amount \in Int, BooksKept, VaultMoved(j, from, to, amount)
      PROVE  /\ totalDeposited'[k] - totalDisbursed'[k] <= treasuryTokens'[k][Contract]
             /\ treasuryTokens'[k][Contract] >= treasuryTokens[k][Contract]
  <2>1. treasuryTokens'[k][Contract] >= treasuryTokens[k][Contract]
    <3>1. CASE j = k
      BY <1>1, <1>4, <3>1 DEF VaultMoved
    <3>2. CASE j # k
      BY <1>1, <1>4, <3>2 DEF VaultMoved
    <3> QED BY <3>1, <3>2
  <2>2. treasuryTokens'[k][Contract] \in Nat
    BY <1>1, <1>4 DEF VaultMoved
  <2> QED BY <1>1, <1>4, <2>1, <2>2 DEF BooksKept
<1>5. ASSUME NEW j \in RewardToken, NEW from \in Account, NEW amount \in Int,
             TakenIn(j, from, amount)
      PROVE  /\ totalDeposited'[k] - totalDisbursed'[k] <= treasuryTokens'[k][Contract]
             /\ treasuryTokens'[k][Contract] >= treasuryTokens[k][Contract]
  <2>1. CASE j = k
    BY <1>1, <1>5, <2>1 DEF TakenIn, VaultMoved
  <2>2. CASE j # k
    BY <1>1, <1>5, <2>2 DEF TakenIn, VaultMoved
  <2> QED BY <2>1, <2>2
<1>6. ASSUME NEW j \in RewardToken, NEW to \in Vault!Address, NEW amount \in Int,
             GivenOut(j, to, amount)
      PROVE  /\ totalDeposited'[k] - totalDisbursed'[k] <= treasuryTokens'[k][Contract]
             /\ treasuryTokens'[k][Contract] < treasuryTokens[k][Contract] =>
                    treasuryTokens[k][Contract] - treasuryTokens'[k][Contract]
                        = totalDisbursed'[k] - totalDisbursed[k]
  <2>1. CASE j = k
    BY <1>1, <1>6, <2>1 DEF GivenOut, VaultMoved
  <2>2. CASE j # k
    BY <1>1, <1>6, <2>2 DEF GivenOut, VaultMoved
  <2> QED BY <2>1, <2>2
<1>7. treasuryTokens'[k][Contract] \in Nat
  BY <1>1, VaultStepType DEF Vault!TypeOK
<1> QED BY <1>1, <1>2, <1>3, <1>4, <1>5, <1>6, <1>7 DEF VaultStep

(***************************************************************************)
(* What was deposited and not disbursed of a token is in the treasury,     *)
(* though it may pay itself and be sent tokens past deposit.               *)
(***************************************************************************)
THEOREM StatisticsCovered == Vault!Spec => []Vault!StatsCovered
<1>1. Vault!Init => Vault!StatsCovered
  BY DEF Vault!Init, Vault!StatsCovered, Vault!Address
<1> QED BY <1>1, VaultInitType, VaultStepType, VaultStepCovered, PTL DEF Vault!Spec

(***************************************************************************)
(* The treasury's balance of a token falls only by what is booked as       *)
(* disbursed, by exactly as much.                                          *)
(***************************************************************************)
THEOREM OutflowsAreBooked == Vault!Spec => Vault!OutflowIsBooked
<1>1. Vault!Init => Vault!StatsCovered
  BY DEF Vault!Init, Vault!StatsCovered, Vault!Address
<1> QED BY <1>1, VaultInitType, VaultStepType, VaultStepCovered, PTL
        DEF Vault!Spec, Vault!OutflowIsBooked
=============================================================================
