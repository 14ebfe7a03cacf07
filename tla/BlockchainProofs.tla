-------------------------- MODULE BlockchainProofs --------------------------
(***************************************************************************)
(* For every set of accounts, transactions and payloads: the replay of the *)
(* chain credits no more than system transactions mint, and on a chain of  *)
(* plain transfers all of it; the business state follows the chain as long *)
(* as no block fails half-way; the pool loses exactly what is confirmed;   *)
(* records of an address keep their place between pages, and its summary   *)
(* explains its balance.                                                   *)
(***************************************************************************)
EXTENDS ChainQueries, Sums, SequenceTheorems

Bal == [Address -> Nat]
Money(b) == Sum(b, Address)

\* A block as anybody may make one.
Block == Seq(AnyTx)

-----------------------------------------------------------------------------
(* One transaction *)

LEMMA AnyTxFacts ==
    ASSUME NEW tx \in AnyTx
    PROVE  /\ tx.from \in Address \/ IsSystem(tx)
           /\ tx.to \in Address /\ tx.amount \in Nat /\ Mint(tx) \in Nat
  <1>1. CASE tx \in Tx
    BY <1>1, ChainAssumption DEF Mint
  <1>2. CASE \E m \in Miners : tx = RewardTx(m)
    BY <1>2, ChainAssumption DEF RewardTx, IsSystem, Mint
  <1>3. QED
    BY <1>1, <1>2 DEF AnyTx

LEMMA MoneyIsNat ==
    ASSUME NEW b \in Bal
    PROVE  Money(b) \in Nat
  BY SumType, ChainAssumption DEF Money, Bal

\* A credit that saturates is smaller than its amount.
LEMMA CreditMoney ==
    ASSUME NEW b \in Bal, NEW who \in Address, NEW amount \in Nat
    PROVE  /\ Credit(b, who, amount) \in Bal
           /\ Money(Credit(b, who, amount)) <= Money(b) + amount
           /\ Money(b) + amount <= MaxU64 => Money(Credit(b, who, amount)) = Money(b) + amount
  <1>1. PICK c : c = Credit(b, who, amount)
    OBVIOUS
  <1>2. MaxU64 \in Nat /\ IsFiniteSet(Address)
    BY ChainAssumption
  <1>3. /\ c[who] = IF b[who] + amount > MaxU64 THEN MaxU64 ELSE b[who] + amount
        /\ \A x \in Address \ {who} : c[x] = b[x]
        /\ b[who] \in Nat /\ DOMAIN c = Address /\ c = [x \in Address |-> c[x]]
    BY <1>1 DEF Credit, Bal
  <1>4. c[who] \in Nat /\ c[who] <= b[who] + amount
        /\ (b[who] + amount <= MaxU64 => c[who] = b[who] + amount)
    BY <1>2, <1>3
  <1>5. c \in Bal /\ \A x \in Address : b[x] \in Nat /\ c[x] \in Nat
    <2>1. \A x \in Address : c[x] \in Nat
      BY <1>3, <1>4 DEF Bal
    <2>2. QED
      BY <1>3, <2>1 DEF Bal
  <1>6. Money(c) + b[who] = Money(b) + c[who] /\ b[who] <= Money(b)
    <2>1. \A x \in Address \ {who} : b[x] = c[x]
      BY <1>3
    <2>2. QED
      BY <1>2, <1>5, <2>1, SumOneChanged DEF Money
  <1>7. Money(c) \in Nat /\ Money(b) \in Nat
    BY <1>5, MoneyIsNat
  <1>8. /\ Money(c) <= Money(b) + amount
        /\ Money(b) + amount <= MaxU64 => Money(c) = Money(b) + amount
    BY <1>2, <1>3, <1>4, <1>6, <1>7
  <1>9. QED
    BY <1>1, <1>5, <1>8

\* A transaction moves money, or mints it, or loses what saturates.
LEMMA ApplyTx ==
    ASSUME NEW tx \in AnyTx, NEW a, NEW b \in Bal, NEW r, r = ApplyToBalances(tx, a, b)
    PROVE  /\ r.ok \in BOOLEAN /\ r.bal \in Bal
           /\ Money(r.bal) <= Money(b) + Mint(tx)
           /\ r.ok /\ Money(b) + Mint(tx) <= MaxU64 => Money(r.bal) = Money(b) + Mint(tx)
  <1>1. /\ Money(b) \in Nat /\ IsFiniteSet(Address) /\ MaxU64 \in Nat
        /\ tx.to \in Address /\ tx.amount \in Nat /\ Mint(tx) \in Nat
    BY MoneyIsNat, AnyTxFacts, ChainAssumption
  <1>2. CASE ~Accepts(tx, a) \/ (tx.kind # "Defi" /\ ~IsSystem(tx) /\ b[tx.from] < tx.amount)
    <2>1. r = [ok |-> FALSE, bal |-> b]
      BY <1>2 DEF ApplyToBalances
    <2>2. QED
      BY <1>1, <2>1
  <1>3. CASE Accepts(tx, a) /\ tx.kind = "Defi"
    <2>1. r = [ok |-> TRUE, bal |-> b] /\ Mint(tx) = 0
      BY <1>3 DEF ApplyToBalances, Mint
    <2>2. QED
      BY <1>1, <2>1
  <1>4. CASE Accepts(tx, a) /\ tx.kind # "Defi" /\ IsSystem(tx)
    <2>1. r = [ok |-> TRUE, bal |-> Credit(b, tx.to, tx.amount)] /\ Mint(tx) = tx.amount
      BY <1>4 DEF ApplyToBalances, Mint
    <2>2. QED
      BY <1>1, <2>1, CreditMoney
  <1>5. CASE Accepts(tx, a) /\ tx.kind # "Defi" /\ ~IsSystem(tx) /\ ~(b[tx.from] < tx.amount)
    <2>1. PICK paid : paid = [b EXCEPT ![tx.from] = @ - tx.amount]
      OBVIOUS
    <2>2. tx.from \in Address /\ b[tx.from] \in Nat /\ Mint(tx) = 0
      BY <1>5, AnyTxFacts DEF Bal, Mint
    <2>3. r = [ok |-> TRUE, bal |-> Credit(paid, tx.to, tx.amount)]
      BY <1>5, <2>1 DEF ApplyToBalances
    <2>4. /\ paid[tx.from] = b[tx.from] - tx.amount /\ paid[tx.from] \in Nat
          /\ \A x \in Address \ {tx.from} : paid[x] = b[x]
          /\ paid = [x \in Address |-> paid[x]]
      <3>1. b[tx.from] - tx.amount \in Nat
        BY <1>1, <1>5, <2>2
      <3>2. DOMAIN b = Address
        BY DEF Bal
      <3>3. QED
        BY <2>1, <2>2, <3>1, <3>2
    <2>5. paid \in Bal /\ \A x \in Address : b[x] \in Nat /\ paid[x] \in Nat
      <3>1. \A x \in Address : paid[x] \in Nat
        BY <2>4 DEF Bal
      <3>2. QED
        BY <2>4, <3>1 DEF Bal
    <2>6. Money(paid) + b[tx.from] = Money(b) + paid[tx.from]
      <3>1. \A x \in Address \ {tx.from} : b[x] = paid[x]
        BY <2>4
      <3>2. QED
        BY <1>1, <2>2, <2>5, <3>1, SumOneChanged DEF Money
    <2>7. Money(paid) + tx.amount = Money(b)
      <3>1. Money(paid) \in Nat
        BY <2>5, MoneyIsNat
      <3>2. QED
        BY <1>1, <2>2, <2>4, <2>6, <3>1
    <2>8. PICK bal : bal = Credit(paid, tx.to, tx.amount)
      OBVIOUS
    <2>9. /\ bal \in Bal /\ Money(bal) <= Money(b)
          /\ Money(b) <= MaxU64 => Money(bal) = Money(b)
      BY <1>1, <2>5, <2>7, <2>8, CreditMoney
    <2>10. r.ok = TRUE /\ r.bal = bal /\ Money(b) + Mint(tx) = Money(b)
      BY <1>1, <2>2, <2>3, <2>8
    <2>11. QED
      BY <2>9, <2>10, Zenon
  <1>6. QED
    BY <1>2, <1>3, <1>4, <1>5

\* Without a payload the business state does not matter.
LEMMA NoPayloadNoState ==
    ASSUME NEW tx, ~HasPayload(tx), NEW a, NEW c, NEW b
    PROVE  ApplyToBalances(tx, a, b) = ApplyToBalances(tx, c, b)
  <1>1. Accepts(tx, a) = Accepts(tx, c)
    BY DEF Accepts, Execute
  <1>2. QED
    BY <1>1 DEF ApplyToBalances

-----------------------------------------------------------------------------
(* The transactions of a block.  Steps says what apply_transactions_to_     *)
(* balances has after each of them.                                         *)

Steps(run, txs, a, b) ==
    /\ run[0] = [ok |-> TRUE, bal |-> b]
    /\ \A i \in 1..Len(txs) :
          run[i] = IF run[i - 1].ok THEN ApplyToBalances(txs[i], a, run[i - 1].bal)
                   ELSE run[i - 1]

LEMMA StepsExist ==
    ASSUME NEW txs, Len(txs) \in Nat, NEW a, NEW b
    PROVE  \E run : Steps(run, txs, a, b) /\ ApplyAllToBalances(txs, a, b) = run[Len(txs)]
  <1> DEFINE IsRun(f, n) ==
        f = [i \in 0..n |->
                IF i = 0 THEN [ok |-> TRUE, bal |-> b]
                ELSE LET r == f[i - 1]
                     IN  IF r.ok THEN ApplyToBalances(txs[i], a, r.bal) ELSE r]
  <1> DEFINE T == {n \in Nat : \E f : IsRun(f, n)}
  <1>1. 0 \in T
    <2>1. PICK f : f = [i \in 0..0 |-> [ok |-> TRUE, bal |-> b]]
      OBVIOUS
    <2>2. IsRun(f, 0)
      BY <2>1
    <2>3. QED
      BY <2>2
  <1>2. ASSUME NEW n \in Nat, n \in T
        PROVE  n + 1 \in T
    <2>1. PICK f : IsRun(f, n)
      BY <1>2
    <2>2. PICK g : g = [i \in 0..(n + 1) |->
                           IF i <= n THEN f[i]
                           ELSE IF f[n].ok THEN ApplyToBalances(txs[n + 1], a, f[n].bal)
                                ELSE f[n]]
      OBVIOUS
    <2>3. IsRun(g, n + 1)
      BY <2>1, <2>2
    <2> HIDE DEF IsRun
    <2>4. QED
      BY <2>3
  <1>3. PICK n : n = Len(txs)
    OBVIOUS
  <1>4. n \in T
    <2> HIDE DEF T
    <2>1. QED
      BY <1>1, <1>2, <1>3, SetInduction
  <1>5. PICK run : run = CHOOSE f : IsRun(f, n)
    OBVIOUS
  <1>6. IsRun(run, n)
    BY <1>4, <1>5
  <1>7. ApplyAllToBalances(txs, a, b) = run[Len(txs)]
    BY <1>3, <1>5 DEF ApplyAllToBalances
  <1>8. Steps(run, txs, a, b)
    BY <1>3, <1>6 DEF Steps
  <1>9. QED
    BY <1>7, <1>8

\* Runs agree as far as their transactions do and the state does not matter.
LEMMA StepsAgree ==
    ASSUME NEW f, NEW s, NEW a, NEW b, Steps(f, s, a, b), Len(s) \in Nat,
           NEW g, NEW t, NEW c, Steps(g, t, c, b), Len(t) \in Nat,
           NEW n \in Nat, n <= Len(s), n <= Len(t),
           \A i \in 1..n : /\ s[i] = t[i]
                           /\ \A d : ApplyToBalances(s[i], a, d) = ApplyToBalances(s[i], c, d)
    PROVE  f[n] = g[n]
  <1> DEFINE T == {i \in Nat : i <= n => f[i] = g[i]}
  <1>1. 0 \in T
    BY DEF Steps
  <1>2. ASSUME NEW i \in Nat, i \in T
        PROVE  i + 1 \in T
    <2> SUFFICES ASSUME i + 1 <= n
                 PROVE  f[i + 1] = g[i + 1]
      OBVIOUS
    <2>1. f[i] = g[i] /\ i + 1 \in 1..n /\ i + 1 \in 1..Len(s) /\ i + 1 \in 1..Len(t)
          /\ (i + 1) - 1 = i
      BY <1>2
    <2>2. /\ f[i + 1] = IF f[i].ok THEN ApplyToBalances(s[i + 1], a, f[i].bal) ELSE f[i]
          /\ g[i + 1] = IF g[i].ok THEN ApplyToBalances(t[i + 1], c, g[i].bal) ELSE g[i]
      BY <2>1 DEF Steps
    <2>3. s[i + 1] = t[i + 1]
          /\ \A d : ApplyToBalances(s[i + 1], a, d) = ApplyToBalances(s[i + 1], c, d)
      BY <2>1
    <2>4. QED
      BY <2>1, <2>2, <2>3
  <1>3. n \in T
    <2> HIDE DEF T
    <2>1. QED
      BY <1>1, <1>2, SetInduction
  <1>4. QED
    BY <1>3

\* One more transaction is applied if those before it were.
LEMMA AppliedAppend ==
    ASSUME NEW S, NEW txs \in Seq(S), NEW tx \in S, NEW a, NEW b,
           NEW r, r = ApplyAllToBalances(txs, a, b)
    PROVE  ApplyAllToBalances(Append(txs, tx), a, b)
              = IF r.ok THEN ApplyToBalances(tx, a, r.bal) ELSE r
  <1>1. PICK more : more = Append(txs, tx)
    OBVIOUS
  <1>2. PICK n : n = Len(txs)
    OBVIOUS
  <1>3. /\ Len(more) = n + 1 /\ Len(more) \in Nat /\ n \in Nat
        /\ more[n + 1] = tx /\ \A i \in 1..n : txs[i] = more[i]
    BY <1>1, <1>2
  <1>4. PICK f : Steps(f, txs, a, b) /\ r = f[n]
    BY <1>2, <1>3, StepsExist
  <1>5. PICK g : Steps(g, more, a, b) /\ ApplyAllToBalances(more, a, b) = g[n + 1]
    BY <1>3, StepsExist
  <1>6. f[n] = g[n]
    <2>1. n <= Len(txs) /\ n <= Len(more) /\ Len(txs) \in Nat
      BY <1>2, <1>3
    <2>2. QED
      BY <1>3, <1>4, <1>5, <2>1, StepsAgree
  <1>7. g[n + 1] = IF g[n].ok THEN ApplyToBalances(more[n + 1], a, g[n].bal) ELSE g[n]
    <2>1. n + 1 \in 1..Len(more) /\ (n + 1) - 1 = n
      BY <1>3
    <2>2. QED
      BY <1>5, <2>1 DEF Steps
  <1>8. QED
    BY <1>1, <1>3, <1>4, <1>5, <1>6, <1>7

LEMMA AppliedNone ==
    ASSUME NEW a, NEW b
    PROVE  ApplyAllToBalances(<< >>, a, b) = [ok |-> TRUE, bal |-> b]
  <1>1. PICK txs : txs = << >>
    OBVIOUS
  <1>2. Len(txs) = 0 /\ Len(txs) \in Nat
    BY <1>1
  <1>3. PICK f : Steps(f, txs, a, b) /\ ApplyAllToBalances(txs, a, b) = f[Len(txs)]
    BY <1>2, StepsExist
  <1>4. QED
    BY <1>1, <1>2, <1>3 DEF Steps

\* What a list that applies as a whole contains was accepted.
LEMMA AppliedAccepted ==
    ASSUME NEW txs, Len(txs) \in Nat, NEW a, NEW b, ApplyAllToBalances(txs, a, b).ok
    PROVE  \A i \in 1..Len(txs) : Accepts(txs[i], a)
  <1>1. PICK run : Steps(run, txs, a, b) /\ run[Len(txs)].ok
    BY StepsExist
  <1> DEFINE T == {n \in Nat : n <= Len(txs) /\ run[n].ok => \A i \in 1..n : Accepts(txs[i], a)}
  <1>2. 0 \in T
    OBVIOUS
  <1>3. ASSUME NEW n \in Nat, n \in T
        PROVE  n + 1 \in T
    <2> SUFFICES ASSUME n + 1 <= Len(txs), run[n + 1].ok
                 PROVE  \A i \in 1..(n + 1) : Accepts(txs[i], a)
      OBVIOUS
    <2>1. n + 1 \in 1..Len(txs) /\ (n + 1) - 1 = n
      OBVIOUS
    <2>2. run[n + 1] = IF run[n].ok THEN ApplyToBalances(txs[n + 1], a, run[n].bal) ELSE run[n]
      BY <1>1, <2>1 DEF Steps
    <2>3. run[n].ok /\ Accepts(txs[n + 1], a)
      BY <2>2 DEF ApplyToBalances
    <2>4. QED
      BY <1>3, <2>3
  <1>4. Len(txs) \in T
    <2> HIDE DEF T
    <2>1. QED
      BY <1>2, <1>3, SetInduction
  <1>5. QED
    BY <1>1, <1>4

\* A list of payload-free transactions applies alike on every business state.
LEMMA NoPayloadSameRun ==
    ASSUME NEW txs, Len(txs) \in Nat, \A i \in 1..Len(txs) : ~HasPayload(txs[i]),
           NEW a, NEW c, NEW b
    PROVE  ApplyAllToBalances(txs, a, b) = ApplyAllToBalances(txs, c, b)
  <1>1. PICK f : Steps(f, txs, a, b) /\ ApplyAllToBalances(txs, a, b) = f[Len(txs)]
    BY StepsExist
  <1>2. PICK g : Steps(g, txs, c, b) /\ ApplyAllToBalances(txs, c, b) = g[Len(txs)]
    BY StepsExist
  <1>3. \A i \in 1..Len(txs) : \A d : ApplyToBalances(txs[i], a, d) = ApplyToBalances(txs[i], c, d)
    BY NoPayloadNoState
  <1>4. f[Len(txs)] = g[Len(txs)]
    BY <1>1, <1>2, <1>3, StepsAgree
  <1>5. QED
    BY <1>1, <1>2, <1>4

-----------------------------------------------------------------------------
(* What is minted *)

LEMMA SumAppend ==
    ASSUME NEW f, NEW g, NEW n \in Nat, DOMAIN f = 1..n, DOMAIN g = 1..(n + 1),
           \A i \in 1..n : f[i] \in Nat /\ g[i] = f[i], g[n + 1] \in Nat
    PROVE  SumFunction(f) \in Nat /\ SumFunction(g) = SumFunction(f) + g[n + 1]
  <1>1. PICK S : S = 1..n
    OBVIOUS
  <1>2. /\ IsFiniteSet(S) /\ n + 1 \notin S /\ S \cup {n + 1} = 1..(n + 1)
        /\ \A i \in S : f[i] \in Nat /\ g[i] = f[i]
    <2>1. IsFiniteSet(S)
      BY <1>1, FS_Interval
    <2>2. n + 1 \notin S /\ S \cup {n + 1} = 1..(n + 1)
      BY <1>1
    <2>3. QED
      BY <1>1, <2>1, <2>2
  <1>3. \A i \in S \cup {n + 1} : g[i] \in Nat
    BY <1>2
  <1>4. Sum(g, S \cup {n + 1}) = g[n + 1] + Sum(g, S)
    BY <1>2, <1>3, SumInsert
  <1>5. Sum(g, S) = Sum(f, S) /\ Sum(f, S) \in Nat
    <2>1. Sum(f, S) = Sum(g, S)
      BY <1>2, SumCongruence
    <2>2. QED
      BY <1>2, <2>1, SumType
  <1>6. SumFunction(f) = Sum(f, S) /\ SumFunction(g) = Sum(g, S \cup {n + 1})
    BY <1>1, <1>2 DEF SumFunction, Sum
  <1>7. QED
    BY <1>4, <1>5, <1>6

LEMMA SumNone ==
    ASSUME NEW f, DOMAIN f = {}
    PROVE  SumFunction(f) = 0
  BY SumEmpty DEF SumFunction, Sum

LEMMA MintedInNone == MintedIn(<< >>) = 0
  <1>1. PICK f : f = [i \in DOMAIN << >> |-> Mint(<< >>[i])]
    OBVIOUS
  <1>2. DOMAIN f = {}
    BY <1>1
  <1>3. QED
    BY <1>1, <1>2, SumNone DEF MintedIn

LEMMA MintedInAppend ==
    ASSUME NEW txs \in Seq(AnyTx), NEW tx \in AnyTx
    PROVE  MintedIn(txs) \in Nat /\ MintedIn(Append(txs, tx)) = MintedIn(txs) + Mint(tx)
  <1>1. PICK more : more = Append(txs, tx)
    OBVIOUS
  <1>2. PICK n : n = Len(txs)
    OBVIOUS
  <1>3. /\ n \in Nat /\ DOMAIN txs = 1..n /\ DOMAIN more = 1..(n + 1) /\ more[n + 1] = tx
        /\ \A i \in 1..n : txs[i] \in AnyTx /\ more[i] = txs[i]
    BY <1>1, <1>2
  <1>4. PICK f, g : /\ f = [i \in DOMAIN txs |-> Mint(txs[i])]
                    /\ g = [i \in DOMAIN more |-> Mint(more[i])]
    OBVIOUS
  <1>5. /\ DOMAIN f = 1..n /\ DOMAIN g = 1..(n + 1)
        /\ \A i \in 1..n : f[i] = Mint(txs[i]) /\ g[i] = f[i]
        /\ g[n + 1] = Mint(tx)
    BY <1>3, <1>4
  <1>6. g[n + 1] \in Nat /\ \A i \in 1..n : f[i] \in Nat
    BY <1>3, <1>5, AnyTxFacts
  <1>7. SumFunction(f) \in Nat /\ SumFunction(g) = SumFunction(f) + g[n + 1]
    BY <1>3, <1>5, <1>6, SumAppend
  <1>8. QED
    BY <1>1, <1>4, <1>5, <1>7 DEF MintedIn

LEMMA MintedInType == ASSUME NEW txs \in Seq(AnyTx) PROVE MintedIn(txs) \in Nat
  <1> DEFINE T == {u \in Seq(AnyTx) : MintedIn(u) \in Nat}
  <1>1. << >> \in T
    BY MintedInNone
  <1>2. ASSUME NEW u \in Seq(AnyTx), NEW tx \in AnyTx, u \in T
        PROVE  Append(u, tx) \in T
    BY MintedInAppend, AnyTxFacts
  <1>3. txs \in T
    <2> HIDE DEF T
    <2>1. QED
      BY <1>1, <1>2, SequenceInduction
  <1>4. QED
    BY <1>3

LEMMA MintedNone == Minted(<< >>) = 0
  <1>1. PICK f : f = [h \in DOMAIN << >> |-> MintedIn(<< >>[h])]
    OBVIOUS
  <1>2. DOMAIN f = {}
    BY <1>1
  <1>3. QED
    BY <1>1, <1>2, SumNone DEF Minted

LEMMA MintedAppend ==
    ASSUME NEW blocks \in Seq(Block), NEW block \in Block
    PROVE  /\ Minted(blocks) \in Nat
           /\ Minted(Append(blocks, block)) = Minted(blocks) + MintedIn(block)
  <1>1. PICK more : more = Append(blocks, block)
    OBVIOUS
  <1>2. PICK n : n = Len(blocks)
    OBVIOUS
  <1>3. /\ n \in Nat /\ DOMAIN blocks = 1..n /\ DOMAIN more = 1..(n + 1) /\ more[n + 1] = block
        /\ \A h \in 1..n : blocks[h] \in Block /\ more[h] = blocks[h]
    BY <1>1, <1>2
  <1>4. PICK f, g : /\ f = [h \in DOMAIN blocks |-> MintedIn(blocks[h])]
                    /\ g = [h \in DOMAIN more |-> MintedIn(more[h])]
    OBVIOUS
  <1>5. /\ DOMAIN f = 1..n /\ DOMAIN g = 1..(n + 1)
        /\ \A h \in 1..n : f[h] = MintedIn(blocks[h]) /\ g[h] = f[h]
        /\ g[n + 1] = MintedIn(block)
    BY <1>3, <1>4
  <1>6. g[n + 1] \in Nat /\ \A h \in 1..n : f[h] \in Nat
    BY <1>3, <1>5, MintedInType DEF Block
  <1>7. SumFunction(f) \in Nat /\ SumFunction(g) = SumFunction(f) + g[n + 1]
    BY <1>3, <1>5, <1>6, SumAppend
  <1>8. QED
    BY <1>1, <1>4, <1>5, <1>7 DEF Minted

\* A block creates at most what it mints, and exactly that if it applies as a
\* whole and nothing saturates.
LEMMA BlockMoney ==
    ASSUME NEW block \in Block, NEW a, NEW b \in Bal,
           NEW r, r = ApplyAllToBalances(block, a, b)
    PROVE  /\ r.bal \in Bal /\ Money(r.bal) <= Money(b) + MintedIn(block)
           /\ r.ok /\ Money(b) + MintedIn(block) <= MaxU64 =>
                 Money(r.bal) = Money(b) + MintedIn(block)
  <1> DEFINE Good(u, q) ==
        /\ q.ok \in BOOLEAN /\ q.bal \in Bal
        /\ Money(q.bal) <= Money(b) + MintedIn(u)
        /\ q.ok /\ Money(b) + MintedIn(u) <= MaxU64 => Money(q.bal) = Money(b) + MintedIn(u)
  <1> DEFINE T == {u \in Seq(AnyTx) : Good(u, ApplyAllToBalances(u, a, b))}
  <1>0. Money(b) \in Nat /\ MaxU64 \in Nat
    BY MoneyIsNat, ChainAssumption
  <1>1. << >> \in T
    <2>1. PICK none, q : none = << >> /\ q = ApplyAllToBalances(none, a, b)
      OBVIOUS
    <2>2. q.ok = TRUE /\ q.bal = b /\ MintedIn(none) = 0
      BY <2>1, AppliedNone, MintedInNone
    <2>3. Good(none, q)
      <3>1. PICK m : m = Money(b)
        OBVIOUS
      <3>2. Money(q.bal) = m /\ m + MintedIn(none) = m /\ m <= m
        BY <1>0, <2>2, <3>1
      <3>3. QED
        BY <2>2, <3>1, <3>2, Zenon
    <2>4. none \in Seq(AnyTx)
      BY <2>1
    <2> HIDE DEF Good
    <2>5. QED
      BY <2>1, <2>3, <2>4
  <1>2. ASSUME NEW u \in Seq(AnyTx), NEW tx \in AnyTx, u \in T
        PROVE  Append(u, tx) \in T
    <2>1. PICK w, q, n : /\ w = Append(u, tx) /\ q = ApplyAllToBalances(u, a, b)
                         /\ n = ApplyAllToBalances(w, a, b)
      OBVIOUS
    <2>2. Good(u, q) /\ w \in Seq(AnyTx)
      BY <1>2, <2>1
    <2>3. n = IF q.ok THEN ApplyToBalances(tx, a, q.bal) ELSE q
      BY <2>1, AppliedAppend
    <2>4. PICK x, y, k : x = MintedIn(u) /\ y = MintedIn(w) /\ k = Mint(tx)
      OBVIOUS
    <2>5. x \in Nat /\ k \in Nat /\ y = x + k
      BY <2>1, <2>4, MintedInAppend, AnyTxFacts
    <2>6. CASE ~q.ok
      <3>1. n = q /\ Money(q.bal) \in Nat
        BY <2>2, <2>3, <2>6, MoneyIsNat
      <3>2. Money(n.bal) <= Money(b) + y
        BY <1>0, <2>2, <2>4, <2>5, <3>1
      <3>3. QED
        BY <2>1, <2>2, <2>4, <2>6, <3>1, <3>2
    <2>7. CASE q.ok
      <3>1. /\ n.ok \in BOOLEAN /\ n.bal \in Bal
            /\ Money(n.bal) <= Money(q.bal) + k
            /\ n.ok /\ Money(q.bal) + k <= MaxU64 => Money(n.bal) = Money(q.bal) + k
        BY <2>2, <2>3, <2>4, <2>7, ApplyTx
      <3>2. Money(q.bal) \in Nat /\ Money(n.bal) \in Nat
        BY <2>2, <3>1, MoneyIsNat
      <3>3. /\ Money(q.bal) <= Money(b) + x
            /\ Money(b) + x <= MaxU64 => Money(q.bal) = Money(b) + x
        BY <2>2, <2>4, <2>7
      <3>4. PICK mb, mq, mn : mb = Money(b) /\ mq = Money(q.bal) /\ mn = Money(n.bal)
        OBVIOUS
      <3>5. /\ mn <= mb + y
            /\ n.ok /\ mb + y <= MaxU64 => mn = mb + y
        <4>1. mb \in Nat /\ mq \in Nat /\ mn \in Nat /\ MaxU64 \in Nat
          BY <1>0, <3>2, <3>4
        <4>2. mq <= mb + x /\ (mb + x <= MaxU64 => mq = mb + x)
          BY <3>3, <3>4
        <4>3. mn <= mq + k /\ (n.ok /\ mq + k <= MaxU64 => mn = mq + k)
          BY <3>1, <3>4
        <4>4. QED
          BY <2>5, <4>1, <4>2, <4>3
      <3>6. Good(w, n)
        BY <2>4, <3>1, <3>4, <3>5
      <3>7. QED
        BY <2>1, <2>2, <3>6
    <2>8. QED
      BY <2>6, <2>7
  <1>3. block \in T
    <2> HIDE DEF T
    <2>1. QED
      BY <1>1, <1>2, SequenceInduction DEF Block
  <1>4. QED
    BY <1>3

-----------------------------------------------------------------------------
(* The chain.  BlockSteps says what balances() has after each block.        *)

BlockSteps(after, blocks, a) ==
    /\ after[0] = NoMoney
    /\ \A h \in 1..Len(blocks) :
          after[h] = ApplyAllToBalances(blocks[h], a, after[h - 1]).bal

LEMMA BlockStepsExist ==
    ASSUME NEW blocks, Len(blocks) \in Nat, NEW a
    PROVE  \E after : BlockSteps(after, blocks, a) /\ BalancesOf(blocks, a) = after[Len(blocks)]
  <1> DEFINE IsAfter(f, n) ==
        f = [h \in 0..n |-> IF h = 0 THEN NoMoney
                            ELSE ApplyAllToBalances(blocks[h], a, f[h - 1]).bal]
  <1> DEFINE T == {n \in Nat : \E f : IsAfter(f, n)}
  <1>1. 0 \in T
    <2>1. PICK f : f = [h \in 0..0 |-> NoMoney]
      OBVIOUS
    <2>2. IsAfter(f, 0)
      BY <2>1
    <2>3. QED
      BY <2>2
  <1>2. ASSUME NEW n \in Nat, n \in T
        PROVE  n + 1 \in T
    <2>1. PICK f : IsAfter(f, n)
      BY <1>2
    <2>2. PICK g : g = [h \in 0..(n + 1) |->
                           IF h <= n THEN f[h]
                           ELSE ApplyAllToBalances(blocks[n + 1], a, f[n]).bal]
      OBVIOUS
    <2>3. IsAfter(g, n + 1)
      BY <2>1, <2>2
    <2> HIDE DEF IsAfter
    <2>4. QED
      BY <2>3
  <1>3. PICK n : n = Len(blocks)
    OBVIOUS
  <1>4. n \in T
    <2> HIDE DEF T
    <2>1. QED
      BY <1>1, <1>2, <1>3, SetInduction
  <1>5. PICK after : after = CHOOSE f : IsAfter(f, n)
    OBVIOUS
  <1>6. IsAfter(after, n)
    BY <1>4, <1>5
  <1>7. BalancesOf(blocks, a) = after[Len(blocks)]
    BY <1>3, <1>5 DEF BalancesOf
  <1>8. BlockSteps(after, blocks, a)
    BY <1>3, <1>6 DEF BlockSteps
  <1>9. QED
    BY <1>7, <1>8

\* Replays agree as far as their blocks do and the state does not matter.
LEMMA BlockStepsAgree ==
    ASSUME NEW f, NEW s, NEW a, BlockSteps(f, s, a), Len(s) \in Nat,
           NEW g, NEW t, NEW c, BlockSteps(g, t, c), Len(t) \in Nat,
           NEW n \in Nat, n <= Len(s), n <= Len(t),
           \A h \in 1..n : s[h] = t[h],
           \A h \in 1..n : \A d : ApplyAllToBalances(s[h], a, d) = ApplyAllToBalances(s[h], c, d)
    PROVE  f[n] = g[n]
  <1> DEFINE T == {h \in Nat : h <= n => f[h] = g[h]}
  <1>1. 0 \in T
    BY DEF BlockSteps
  <1>2. ASSUME NEW h \in Nat, h \in T
        PROVE  h + 1 \in T
    <2> SUFFICES ASSUME h + 1 <= n
                 PROVE  f[h + 1] = g[h + 1]
      OBVIOUS
    <2>1. f[h] = g[h] /\ h + 1 \in 1..n /\ h + 1 \in 1..Len(s) /\ h + 1 \in 1..Len(t)
          /\ (h + 1) - 1 = h
      BY <1>2
    <2>2. /\ f[h + 1] = ApplyAllToBalances(s[h + 1], a, f[h]).bal
          /\ g[h + 1] = ApplyAllToBalances(t[h + 1], c, g[h]).bal
      BY <2>1 DEF BlockSteps
    <2>3. s[h + 1] = t[h + 1]
          /\ \A d : ApplyAllToBalances(s[h + 1], a, d) = ApplyAllToBalances(s[h + 1], c, d)
      BY <2>1
    <2>4. QED
      BY <2>1, <2>2, <2>3
  <1>3. n \in T
    <2> HIDE DEF T
    <2>1. QED
      BY <1>1, <1>2, SetInduction
  <1>4. QED
    BY <1>3

\* One more block is applied to the balances so far.
LEMMA BalancesAppend ==
    ASSUME NEW S, NEW blocks \in Seq(S), NEW block \in S, NEW a
    PROVE  BalancesOf(Append(blocks, block), a)
              = ApplyAllToBalances(block, a, BalancesOf(blocks, a)).bal
  <1>1. PICK longer : longer = Append(blocks, block)
    OBVIOUS
  <1>2. PICK n : n = Len(blocks)
    OBVIOUS
  <1>3. /\ n \in Nat /\ Len(longer) = n + 1 /\ longer[n + 1] = block
        /\ \A h \in 1..n : blocks[h] = longer[h]
    BY <1>1, <1>2
  <1>4. PICK f : BlockSteps(f, blocks, a) /\ BalancesOf(blocks, a) = f[n]
    BY <1>2, <1>3, BlockStepsExist
  <1>5. PICK g : BlockSteps(g, longer, a) /\ BalancesOf(longer, a) = g[n + 1]
    BY <1>3, BlockStepsExist
  <1>6. f[n] = g[n]
    <2>1. n <= Len(blocks) /\ n <= Len(longer) /\ Len(blocks) \in Nat /\ Len(longer) \in Nat
      BY <1>2, <1>3
    <2>2. QED
      BY <1>3, <1>4, <1>5, <2>1, BlockStepsAgree
  <1>7. g[n + 1] = ApplyAllToBalances(longer[n + 1], a, g[n]).bal
    BY <1>3, <1>5 DEF BlockSteps
  <1>8. QED
    BY <1>1, <1>3, <1>4, <1>5, <1>6, <1>7

\* A chain of payload-free blocks has the same balances on every business state.
LEMMA NoPayloadSameBalances ==
    ASSUME NEW blocks, Len(blocks) \in Nat,
           \A h \in 1..Len(blocks) :
              /\ Len(blocks[h]) \in Nat
              /\ \A i \in 1..Len(blocks[h]) : ~HasPayload(blocks[h][i]),
           NEW a, NEW c
    PROVE  BalancesOf(blocks, a) = BalancesOf(blocks, c)
  <1>0. PICK k \in Nat : k = Len(blocks) /\ k <= Len(blocks)
    OBVIOUS
  <1>1. PICK f : BlockSteps(f, blocks, a) /\ BalancesOf(blocks, a) = f[k]
    BY <1>0, BlockStepsExist
  <1>2. PICK g : BlockSteps(g, blocks, c) /\ BalancesOf(blocks, c) = g[k]
    BY <1>0, BlockStepsExist
  <1>3. \A h \in 1..k : \A d :
            ApplyAllToBalances(blocks[h], a, d) = ApplyAllToBalances(blocks[h], c, d)
    BY <1>0, NoPayloadSameRun
  <1> DEFINE T == {h \in Nat : h <= k => f[h] = g[h]}
  <1>4. 0 \in T
    BY <1>1, <1>2 DEF BlockSteps
  <1>5. ASSUME NEW h \in Nat, h \in T
        PROVE  h + 1 \in T
    <2> SUFFICES ASSUME h + 1 <= k
                 PROVE  f[h + 1] = g[h + 1]
      OBVIOUS
    <2>1. f[h] = g[h] /\ h + 1 \in 1..k /\ h + 1 \in 1..Len(blocks) /\ (h + 1) - 1 = h
      BY <1>0, <1>5
    <2>2. /\ f[h + 1] = ApplyAllToBalances(blocks[h + 1], a, f[h]).bal
          /\ g[h + 1] = ApplyAllToBalances(blocks[h + 1], c, g[h]).bal
      BY <1>1, <1>2, <2>1 DEF BlockSteps
    <2>3. QED
      BY <1>3, <2>1, <2>2
  <1>6. k \in T
    <2> HIDE DEF T
    <2>1. QED
      BY <1>4, <1>5, SetInduction
  <1>7. QED
    BY <1>0, <1>1, <1>2, <1>6

LEMMA NoMoneyIsNone == NoMoney \in Bal /\ Money(NoMoney) = 0
  <1>1. NoMoney \in Bal /\ \A x \in Address : NoMoney[x] = 0
    BY DEF NoMoney, Bal
  <1>2. QED
    BY <1>1, SumZero, ChainAssumption DEF Money

LEMMA BalancesNone == ASSUME NEW a PROVE BalancesOf(<< >>, a) = NoMoney
  <1>1. PICK none : none = << >>
    OBVIOUS
  <1>2. Len(none) = 0 /\ Len(none) \in Nat
    BY <1>1
  <1>3. PICK f : BlockSteps(f, none, a) /\ BalancesOf(none, a) = f[Len(none)]
    BY <1>2, BlockStepsExist
  <1>4. QED
    BY <1>1, <1>2, <1>3 DEF BlockSteps

\* The money of a chain of blocks is at most what they mint.
LEMMA ChainMoney ==
    ASSUME NEW blocks \in Seq(Block), NEW a
    PROVE  /\ BalancesOf(blocks, a) \in Bal
           /\ Minted(blocks) \in Nat
           /\ Money(BalancesOf(blocks, a)) <= Minted(blocks)
  <1> DEFINE Good(u) == /\ BalancesOf(u, a) \in Bal /\ Minted(u) \in Nat
                        /\ Money(BalancesOf(u, a)) <= Minted(u)
  <1> DEFINE T == {u \in Seq(Block) : Good(u)}
  <1>1. << >> \in T
    <2>1. PICK none : none = << >>
      OBVIOUS
    <2>2. Minted(none) = 0 /\ BalancesOf(none, a) = NoMoney
      BY <2>1, MintedNone, BalancesNone
    <2>3. Good(none)
      BY <2>2, NoMoneyIsNone
    <2>4. QED
      BY <2>1, <2>3
  <1>2. ASSUME NEW u \in Seq(Block), NEW block \in Block, u \in T
        PROVE  Append(u, block) \in T
    <2>1. PICK w, b, n : /\ w = Append(u, block) /\ b = BalancesOf(u, a)
                         /\ n = ApplyAllToBalances(block, a, b)
      OBVIOUS
    <2>2. w \in Seq(Block) /\ BalancesOf(w, a) = n.bal
      BY <2>1, BalancesAppend
    <2>3. b \in Bal /\ Minted(u) \in Nat /\ Money(b) <= Minted(u)
      BY <1>2, <2>1
    <2>4. n.bal \in Bal /\ Money(n.bal) <= Money(b) + MintedIn(block)
      BY <2>1, <2>3, BlockMoney
    <2>5. Minted(w) = Minted(u) + MintedIn(block) /\ MintedIn(block) \in Nat
      BY <2>1, MintedAppend, MintedInType DEF Block
    <2>6. Money(b) \in Nat /\ Money(n.bal) \in Nat
      BY <2>3, <2>4, MoneyIsNat
    <2>7. Minted(w) \in Nat /\ Money(n.bal) <= Minted(w)
      BY <2>3, <2>4, <2>5, <2>6
    <2>8. Good(w)
      BY <2>2, <2>4, <2>7
    <2>9. QED
      BY <2>1, <2>2, <2>8
  <1>3. blocks \in T
    <2> HIDE DEF T
    <2>1. QED
      BY <1>1, <1>2, SequenceInduction
  <1>4. QED
    BY <1>3

-----------------------------------------------------------------------------
(* The pool after a block *)

LEMMA ToSetNone == ToSet(<< >>) = {}
  BY DEF ToSet

LEMMA ToSetAppend ==
    ASSUME NEW S, NEW s \in Seq(S), NEW x \in S
    PROVE  ToSet(Append(s, x)) = ToSet(s) \cup {x}
  <1>1. PICK t, n : t = Append(s, x) /\ n = Len(s)
    OBVIOUS
  <1>2. /\ n \in Nat /\ DOMAIN s = 1..n /\ DOMAIN t = 1..(n + 1)
        /\ t[n + 1] = x /\ \A i \in 1..n : t[i] = s[i]
    BY <1>1
  <1>3. ToSet(t) = ToSet(s) \cup {x}
    BY <1>2 DEF ToSet
  <1>4. QED
    BY <1>1, <1>3

\* What retain has kept of the first transactions of the pool.
KeptSteps(kept, pool, block) ==
    /\ kept[0] = << >>
    /\ \A i \in 1..Len(pool) :
          kept[i] = IF pool[i] \in ToSet(block) THEN kept[i - 1] ELSE Append(kept[i - 1], pool[i])

LEMMA KeptExists ==
    ASSUME NEW pool, Len(pool) \in Nat, NEW block
    PROVE  \E kept : KeptSteps(kept, pool, block) /\ Unconfirmed(pool, block) = kept[Len(pool)]
  <1> DEFINE Keep(q, i) == IF pool[i] \in ToSet(block) THEN q ELSE Append(q, pool[i])
  <1> DEFINE IsKept(f, n) == f = [i \in 0..n |-> IF i = 0 THEN << >> ELSE Keep(f[i - 1], i)]
  <1> DEFINE T == {n \in Nat : \E f : IsKept(f, n)}
  <1> HIDE DEF Keep
  <1>1. 0 \in T
    <2>1. PICK f : f = [i \in 0..0 |-> << >>]
      OBVIOUS
    <2>2. IsKept(f, 0)
      BY <2>1
    <2>3. QED
      BY <2>2
  <1>2. ASSUME NEW n \in Nat, n \in T
        PROVE  n + 1 \in T
    <2>1. PICK f : IsKept(f, n)
      BY <1>2
    <2>2. PICK g : g = [i \in 0..(n + 1) |-> IF i <= n THEN f[i] ELSE Keep(f[n], n + 1)]
      OBVIOUS
    <2>3. IsKept(g, n + 1)
      BY <2>1, <2>2
    <2> HIDE DEF IsKept
    <2>4. QED
      BY <2>3
  <1>3. PICK n : n = Len(pool)
    OBVIOUS
  <1>4. n \in T
    <2> HIDE DEF T
    <2>1. QED
      BY <1>1, <1>2, <1>3, SetInduction
  <1>5. PICK kept : kept = CHOOSE f : IsKept(f, n)
    OBVIOUS
  <1>6. IsKept(kept, n)
    BY <1>4, <1>5
  <1>7. Unconfirmed(pool, block) = kept[Len(pool)]
    BY <1>3, <1>5 DEF Unconfirmed, Keep
  <1>8. kept[0] = << >> /\ \A i \in 1..Len(pool) : kept[i] = Keep(kept[i - 1], i)
    BY <1>3, <1>6
  <1>9. KeptSteps(kept, pool, block)
    BY <1>8, Zenon DEF KeptSteps, Keep
  <1>10. QED
    BY <1>7, <1>9

LEMMA UnconfirmedNone == ASSUME NEW block PROVE Unconfirmed(<< >>, block) = << >>
  <1>1. PICK none : none = << >>
    OBVIOUS
  <1>2. Len(none) = 0 /\ Len(none) \in Nat
    BY <1>1
  <1>3. PICK kept : KeptSteps(kept, none, block) /\ Unconfirmed(none, block) = kept[Len(none)]
    BY <1>2, KeptExists
  <1>4. QED
    BY <1>1, <1>2, <1>3 DEF KeptSteps

\* The last transaction of the pool stays unless the block has it.
LEMMA UnconfirmedAppend ==
    ASSUME NEW S, NEW pool \in Seq(S), NEW tx \in S, NEW block
    PROVE  Unconfirmed(Append(pool, tx), block)
              = IF tx \in ToSet(block) THEN Unconfirmed(pool, block)
                ELSE Append(Unconfirmed(pool, block), tx)
  <1>1. PICK longer : longer = Append(pool, tx)
    OBVIOUS
  <1>2. PICK n : n = Len(pool)
    OBVIOUS
  <1>3. /\ n \in Nat /\ Len(longer) = n + 1 /\ longer[n + 1] = tx
        /\ \A i \in 1..n : pool[i] = longer[i]
    BY <1>1, <1>2
  <1>4. PICK f : KeptSteps(f, pool, block) /\ Unconfirmed(pool, block) = f[n]
    BY <1>2, <1>3, KeptExists
  <1>5. PICK g : KeptSteps(g, longer, block) /\ Unconfirmed(longer, block) = g[n + 1]
    BY <1>3, KeptExists
  <1> DEFINE T == {i \in Nat : i <= n => f[i] = g[i]}
  <1>6. 0 \in T
    BY <1>4, <1>5 DEF KeptSteps
  <1>7. ASSUME NEW i \in Nat, i \in T
        PROVE  i + 1 \in T
    <2> SUFFICES ASSUME i + 1 <= n
                 PROVE  f[i + 1] = g[i + 1]
      OBVIOUS
    <2>1. /\ f[i] = g[i] /\ i + 1 \in 1..n /\ i + 1 \in 1..(n + 1) /\ (i + 1) - 1 = i
      BY <1>3, <1>7
    <2>2. /\ f[i + 1] = IF pool[i + 1] \in ToSet(block) THEN f[i] ELSE Append(f[i], pool[i + 1])
          /\ g[i + 1] = IF longer[i + 1] \in ToSet(block) THEN g[i]
                        ELSE Append(g[i], longer[i + 1])
      BY <1>2, <1>3, <1>4, <1>5, <2>1 DEF KeptSteps
    <2>3. pool[i + 1] = longer[i + 1]
      BY <1>3, <2>1
    <2>4. QED
      BY <2>1, <2>2, <2>3, Zenon
  <1>8. n \in T
    <2> HIDE DEF T
    <2>1. QED
      BY <1>3, <1>6, <1>7, SetInduction
  <1>9. f[n] = g[n]
    BY <1>3, <1>8
  <1>10. g[n + 1] = IF longer[n + 1] \in ToSet(block) THEN g[n] ELSE Append(g[n], longer[n + 1])
    <2>1. n + 1 \in 1..(n + 1) /\ (n + 1) - 1 = n
      BY <1>3
    <2>2. QED
      BY <1>3, <1>5, <2>1 DEF KeptSteps
  <1>11. QED
    BY <1>1, <1>3, <1>4, <1>5, <1>9, <1>10, Zenon

\* What is left of the pool is what the block does not have.
LEMMA UnconfirmedIsRest ==
    ASSUME NEW S, NEW pool \in Seq(S), NEW block
    PROVE  /\ Unconfirmed(pool, block) \in Seq(S)
           /\ ToSet(Unconfirmed(pool, block)) = ToSet(pool) \ ToSet(block)
  <1> DEFINE Good(u) == /\ Unconfirmed(u, block) \in Seq(S)
                        /\ ToSet(Unconfirmed(u, block)) = ToSet(u) \ ToSet(block)
  <1> DEFINE T == {u \in Seq(S) : Good(u)}
  <1>1. << >> \in T
    <2>1. PICK none : none = << >>
      OBVIOUS
    <2>2. none \in Seq(S)
      BY <2>1
    <2>3. Unconfirmed(none, block) = none /\ ToSet(none) = {}
      BY <2>1, UnconfirmedNone, ToSetNone, Zenon
    <2>4. Good(none)
      BY <2>2, <2>3
    <2>5. QED
      BY <2>1, <2>2, <2>4
  <1>2. ASSUME NEW u \in Seq(S), NEW tx \in S, u \in T
        PROVE  Append(u, tx) \in T
    <2>1. PICK w, r, q : /\ w = Append(u, tx) /\ r = Unconfirmed(u, block)
                         /\ q = Unconfirmed(w, block)
      OBVIOUS
    <2>2. /\ w \in Seq(S) /\ r \in Seq(S) /\ ToSet(w) = ToSet(u) \cup {tx}
          /\ ToSet(r) = ToSet(u) \ ToSet(block)
      BY <1>2, <2>1, ToSetAppend
    <2>3. q = IF tx \in ToSet(block) THEN r ELSE Append(r, tx)
      BY <2>1, UnconfirmedAppend
    <2>4. CASE tx \in ToSet(block)
      <3>1. q \in Seq(S) /\ ToSet(q) = ToSet(w) \ ToSet(block)
        BY <2>2, <2>3, <2>4
      <3>2. QED
        BY <2>1, <2>2, <3>1
    <2>5. CASE tx \notin ToSet(block)
      <3>1. q = Append(r, tx) /\ q \in Seq(S)
        BY <2>2, <2>3, <2>5
      <3>2. ToSet(q) = ToSet(r) \cup {tx}
        BY <2>2, <3>1, ToSetAppend
      <3>3. ToSet(q) = ToSet(w) \ ToSet(block)
        BY <2>2, <2>5, <3>2
      <3>4. QED
        BY <2>1, <2>2, <3>1, <3>3
    <2>6. QED
      BY <2>4, <2>5
  <1>3. pool \in T
    <2> HIDE DEF T
    <2>1. QED
      BY <1>1, <1>2, SequenceInduction
  <1>4. QED
    BY <1>3

\* A block of the whole pool leaves nothing.
LEMMA UnconfirmedAll ==
    ASSUME NEW S, NEW pool \in Seq(S), NEW x
    PROVE  Unconfirmed(pool, Append(pool, x)) = << >>
  <1>1. PICK r, block : block = Append(pool, x) /\ r = Unconfirmed(pool, block)
    OBVIOUS
  <1>2. ToSet(block) = ToSet(pool) \cup {x}
    <2>1. pool \in Seq(S \cup {x}) /\ x \in S \cup {x}
      OBVIOUS
    <2>2. QED
      BY <1>1, <2>1, ToSetAppend
  <1>3. r \in Seq(S) /\ ToSet(r) = {}
    BY <1>1, <1>2, UnconfirmedIsRest
  <1>4. Len(r) = 0
    <2>1. DOMAIN r = {}
      BY <1>3 DEF ToSet
    <2>2. DOMAIN r = 1..Len(r) /\ Len(r) \in Nat
      BY <1>3
    <2>3. Len(r) \notin 1..Len(r)
      BY <2>1, <2>2
    <2>4. QED
      BY <2>2, <2>3
  <1>5. r = << >>
    BY <1>3, <1>4
  <1>6. QED
    BY <1>1, <1>5

\* A list of transactions that applies holds none that is forged or acts for
\* somebody else.
LEMMA AppliedType ==
    ASSUME NEW txs \in Block, NEW a, NEW b, ApplyAllToBalances(txs, a, b).ok
    PROVE  txs \in Seq(Txs)
  <1>1. Len(txs) \in Nat /\ \A i \in 1..Len(txs) : txs[i] \in AnyTx
    BY DEF Block
  <1>2. \A i \in 1..Len(txs) : txs[i] \in Txs
    BY <1>1, AppliedAccepted DEF Accepts, Txs
  <1>3. QED
    BY <1>1, <1>2 DEF Block

-----------------------------------------------------------------------------
(* The business state.  StateSteps says what apply_state_transitions has    *)
(* after each transaction, ReplaySteps what the chain has after each block. *)

StateSteps(run, txs, a) ==
    /\ run[0] = [ok |-> TRUE, app |-> a]
    /\ \A i \in 1..Len(txs) :
          run[i] = IF run[i - 1].ok THEN Execute(txs[i], run[i - 1].app) ELSE run[i - 1]

LEMMA StateStepsExist ==
    ASSUME NEW txs, Len(txs) \in Nat, NEW a
    PROVE  \E run : StateSteps(run, txs, a) /\ ApplyTransitions(txs, a) = run[Len(txs)]
  <1> DEFINE IsRun(f, n) ==
        f = [i \in 0..n |->
                IF i = 0 THEN [ok |-> TRUE, app |-> a]
                ELSE LET r == f[i - 1] IN IF r.ok THEN Execute(txs[i], r.app) ELSE r]
  <1> DEFINE T == {n \in Nat : \E f : IsRun(f, n)}
  <1>1. 0 \in T
    <2>1. PICK f : f = [i \in 0..0 |-> [ok |-> TRUE, app |-> a]]
      OBVIOUS
    <2>2. IsRun(f, 0)
      BY <2>1
    <2>3. QED
      BY <2>2
  <1>2. ASSUME NEW n \in Nat, n \in T
        PROVE  n + 1 \in T
    <2>1. PICK f : IsRun(f, n)
      BY <1>2
    <2>2. PICK g : g = [i \in 0..(n + 1) |->
                           IF i <= n THEN f[i]
                           ELSE IF f[n].ok THEN Execute(txs[n + 1], f[n].app) ELSE f[n]]
      OBVIOUS
    <2>3. IsRun(g, n + 1)
      BY <2>1, <2>2
    <2> HIDE DEF IsRun
    <2>4. QED
      BY <2>3
  <1>3. PICK n : n = Len(txs)
    OBVIOUS
  <1>4. n \in T
    <2> HIDE DEF T
    <2>1. QED
      BY <1>1, <1>2, <1>3, SetInduction
  <1>5. PICK run : run = CHOOSE f : IsRun(f, n)
    OBVIOUS
  <1>6. IsRun(run, n)
    BY <1>4, <1>5
  <1>7. ApplyTransitions(txs, a) = run[Len(txs)]
    BY <1>3, <1>5 DEF ApplyTransitions
  <1>8. StateSteps(run, txs, a)
    BY <1>3, <1>6 DEF StateSteps
  <1>9. QED
    BY <1>7, <1>8

\* Payloads lead from contract and lending states to such states, also where
\* they fail.
OutcomeKeepsApp == \A tx \in AnyTx, a \in App : HasPayload(tx) => Outcome(tx, a).app \in App

LEMMA TransitionsType ==
    ASSUME OutcomeKeepsApp, NEW block \in Block, NEW a \in App
    PROVE  ApplyTransitions(block, a).app \in App
  <1>1. PICK k : k = Len(block)
    OBVIOUS
  <1>2. k \in Nat /\ \A i \in 1..k : block[i] \in AnyTx
    BY <1>1 DEF Block
  <1>3. PICK run : StateSteps(run, block, a) /\ ApplyTransitions(block, a) = run[k]
    BY <1>1, <1>2, StateStepsExist
  <1> DEFINE T == {n \in Nat : n <= k => run[n].app \in App}
  <1>4. 0 \in T
    BY <1>3 DEF StateSteps
  <1>5. ASSUME NEW n \in Nat, n \in T
        PROVE  n + 1 \in T
    <2> SUFFICES ASSUME n + 1 <= k
                 PROVE  run[n + 1].app \in App
      OBVIOUS
    <2>1. n + 1 \in 1..k /\ (n + 1) - 1 = n /\ run[n].app \in App
      BY <1>2, <1>5
    <2>2. \/ run[n + 1] = run[n]
          \/ run[n + 1] = Execute(block[n + 1], run[n].app)
      BY <1>1, <1>3, <2>1 DEF StateSteps
    <2>3. Execute(block[n + 1], run[n].app).app \in App
      BY <1>2, <2>1 DEF Execute, OutcomeKeepsApp
    <2>4. QED
      BY <2>1, <2>2, <2>3
  <1>6. k \in T
    <2> HIDE DEF T
    <2>1. QED
      BY <1>2, <1>4, <1>5, SetInduction
  <1>7. QED
    BY <1>2, <1>3, <1>6

ReplaySteps(after, blocks) ==
    /\ after[0] = InitApp
    /\ \A h \in 1..Len(blocks) : after[h] = ApplyTransitions(blocks[h], after[h - 1]).app

LEMMA ReplayStepsExist ==
    ASSUME NEW blocks, Len(blocks) \in Nat
    PROVE  \E after : ReplaySteps(after, blocks) /\ StateAfter(blocks) = after[Len(blocks)]
  <1> DEFINE IsAfter(f, n) ==
        f = [h \in 0..n |-> IF h = 0 THEN InitApp
                            ELSE ApplyTransitions(blocks[h], f[h - 1]).app]
  <1> DEFINE T == {n \in Nat : \E f : IsAfter(f, n)}
  <1>1. 0 \in T
    <2>1. PICK f : f = [h \in 0..0 |-> InitApp]
      OBVIOUS
    <2>2. IsAfter(f, 0)
      BY <2>1
    <2>3. QED
      BY <2>2
  <1>2. ASSUME NEW n \in Nat, n \in T
        PROVE  n + 1 \in T
    <2>1. PICK f : IsAfter(f, n)
      BY <1>2
    <2>2. PICK g : g = [h \in 0..(n + 1) |->
                           IF h <= n THEN f[h]
                           ELSE ApplyTransitions(blocks[n + 1], f[n]).app]
      OBVIOUS
    <2>3. IsAfter(g, n + 1)
      BY <2>1, <2>2
    <2> HIDE DEF IsAfter
    <2>4. QED
      BY <2>3
  <1>3. PICK n : n = Len(blocks)
    OBVIOUS
  <1>4. n \in T
    <2> HIDE DEF T
    <2>1. QED
      BY <1>1, <1>2, <1>3, SetInduction
  <1>5. PICK after : after = CHOOSE f : IsAfter(f, n)
    OBVIOUS
  <1>6. IsAfter(after, n)
    BY <1>4, <1>5
  <1>7. StateAfter(blocks) = after[Len(blocks)]
    BY <1>3, <1>5 DEF StateAfter
  <1>8. ReplaySteps(after, blocks)
    BY <1>3, <1>6 DEF ReplaySteps
  <1>9. QED
    BY <1>7, <1>8

\* One more block moves the state once.
LEMMA StateAppend ==
    ASSUME NEW S, NEW blocks \in Seq(S), NEW block \in S
    PROVE  StateAfter(Append(blocks, block)) = ApplyTransitions(block, StateAfter(blocks)).app
  <1>1. PICK longer : longer = Append(blocks, block)
    OBVIOUS
  <1>2. PICK n : n = Len(blocks)
    OBVIOUS
  <1>3. /\ n \in Nat /\ Len(longer) = n + 1 /\ longer[n + 1] = block
        /\ \A h \in 1..n : blocks[h] = longer[h]
    BY <1>1, <1>2
  <1>4. PICK f : ReplaySteps(f, blocks) /\ StateAfter(blocks) = f[n]
    BY <1>2, <1>3, ReplayStepsExist
  <1>5. PICK g : ReplaySteps(g, longer) /\ StateAfter(longer) = g[n + 1]
    BY <1>3, ReplayStepsExist
  <1> DEFINE T == {h \in Nat : h <= n => f[h] = g[h]}
  <1>6. 0 \in T
    BY <1>4, <1>5 DEF ReplaySteps
  <1>7. ASSUME NEW h \in Nat, h \in T
        PROVE  h + 1 \in T
    <2> SUFFICES ASSUME h + 1 <= n
                 PROVE  f[h + 1] = g[h + 1]
      OBVIOUS
    <2>1. /\ f[h] = g[h] /\ h + 1 \in 1..n /\ h + 1 \in 1..(n + 1) /\ (h + 1) - 1 = h
      BY <1>3, <1>7
    <2>2. /\ f[h + 1] = ApplyTransitions(blocks[h + 1], f[h]).app
          /\ g[h + 1] = ApplyTransitions(longer[h + 1], g[h]).app
      BY <1>2, <1>3, <1>4, <1>5, <2>1 DEF ReplaySteps
    <2>3. QED
      BY <1>3, <2>1, <2>2
  <1>8. n \in T
    <2> HIDE DEF T
    <2>1. QED
      BY <1>3, <1>6, <1>7, SetInduction
  <1>9. g[n + 1] = ApplyTransitions(longer[n + 1], g[n]).app
    BY <1>3, <1>5 DEF ReplaySteps
  <1>10. QED
    BY <1>1, <1>3, <1>4, <1>5, <1>8, <1>9

-----------------------------------------------------------------------------
(* The ledger of plain transfers *)

\* A payload-free block, and the balances before it, are the same whatever the
\* business state has become meanwhile.
BlockApplies(blocks, h, a) ==
    ApplyAllToBalances(blocks[h], a, BalancesOf(SubSeq(blocks, 1, h - 1), a)).ok

Plain(blocks) == \A h \in DOMAIN blocks : \A i \in DOMAIN blocks[h] : ~HasPayload(blocks[h][i])

LEMMA BlockLength ==
    ASSUME NEW block \in Block
    PROVE  Len(block) \in Nat /\ DOMAIN block = 1..Len(block)
  BY DEF Block

LEMMA PlainSameBalances ==
    ASSUME NEW blocks \in Seq(Block), Plain(blocks), NEW n \in 0..Len(blocks), NEW a, NEW c
    PROVE  BalancesOf(SubSeq(blocks, 1, n), a) = BalancesOf(SubSeq(blocks, 1, n), c)
  <1>1. PICK s : s = SubSeq(blocks, 1, n)
    OBVIOUS
  <1>2. Len(s) = n /\ n \in Nat /\ \A h \in 1..n : s[h] = blocks[h] /\ h \in DOMAIN blocks
    BY <1>1
  <1>3. \A h \in 1..Len(s) : /\ Len(s[h]) \in Nat
                             /\ \A i \in 1..Len(s[h]) : ~HasPayload(s[h][i])
    <2> SUFFICES ASSUME NEW h \in 1..Len(s)
                 PROVE  /\ Len(s[h]) \in Nat
                        /\ \A i \in 1..Len(s[h]) : ~HasPayload(s[h][i])
      OBVIOUS
    <2>1. s[h] = blocks[h] /\ h \in DOMAIN blocks /\ blocks[h] \in Block
      BY <1>2
    <2>2. QED
      BY <2>1, BlockLength DEF Plain
  <1>4. BalancesOf(s, a) = BalancesOf(s, c)
    BY <1>2, <1>3, NoPayloadSameBalances
  <1>5. QED
    BY <1>1, <1>4

LEMMA PlainBlockApplies ==
    ASSUME NEW blocks \in Seq(Block), Plain(blocks), NEW h \in 1..Len(blocks), NEW a, NEW c,
           BlockApplies(blocks, h, a)
    PROVE  BlockApplies(blocks, h, c)
  <1>1. h - 1 \in 0..Len(blocks)
    OBVIOUS
  <1>2. PICK b : b = BalancesOf(SubSeq(blocks, 1, h - 1), a)
    OBVIOUS
  <1>3. b = BalancesOf(SubSeq(blocks, 1, h - 1), c)
    BY <1>1, <1>2, PlainSameBalances
  <1>4. blocks[h] \in Block /\ h \in DOMAIN blocks
    OBVIOUS
  <1>5. Len(blocks[h]) \in Nat /\ \A i \in 1..Len(blocks[h]) : ~HasPayload(blocks[h][i])
    BY <1>4, BlockLength DEF Plain
  <1>6. ApplyAllToBalances(blocks[h], a, b) = ApplyAllToBalances(blocks[h], c, b)
    BY <1>5, NoPayloadSameRun
  <1>7. QED
    BY <1>2, <1>3, <1>6 DEF BlockApplies

LEMMA WholeSubSeq ==
    ASSUME NEW S, NEW s \in Seq(S)
    PROVE  SubSeq(s, 1, Len(s)) = s
  OBVIOUS

LEMMA AppendSubSeq ==
    ASSUME NEW S, NEW s \in Seq(S), NEW x \in S, NEW n \in 0..Len(s)
    PROVE  SubSeq(Append(s, x), 1, n) = SubSeq(s, 1, n)
  <1>1. PICK t : t = Append(s, x)
    OBVIOUS
  <1>2. t \in Seq(S) /\ Len(t) = Len(s) + 1 /\ \A i \in 1..Len(s) : t[i] = s[i]
    BY <1>1
  <1>3. SubSeq(t, 1, n) = SubSeq(s, 1, n)
    BY <1>2
  <1>4. QED
    BY <1>1, <1>3

LEMMA PlainPrefix ==
    ASSUME NEW blocks \in Seq(Block), NEW block \in Block, Plain(Append(blocks, block))
    PROVE  Plain(blocks)
  <1>1. PICK t : t = Append(blocks, block)
    OBVIOUS
  <1>2. \A h \in DOMAIN blocks : h \in DOMAIN t /\ t[h] = blocks[h]
    BY <1>1
  <1>3. Plain(t)
    BY <1>1
  <1>4. QED
    BY <1>2, <1>3 DEF Plain

\* The ledger of blocks on state a: every block applies, and all that is minted
\* counts if it fits.
Ledger(blocks, a) ==
    /\ \A h \in DOMAIN blocks : BlockApplies(blocks, h, a)
    /\ Minted(blocks) <= MaxU64 => Money(BalancesOf(blocks, a)) = Minted(blocks)

LEMMA LedgerOfAnyState ==
    ASSUME NEW blocks \in Seq(Block), Plain(blocks), NEW a, NEW c, Ledger(blocks, a)
    PROVE  Ledger(blocks, c)
  <1>1. \A h \in DOMAIN blocks : BlockApplies(blocks, h, c)
    BY PlainBlockApplies DEF Ledger
  <1>2. BalancesOf(blocks, a) = BalancesOf(blocks, c)
    <2>1. SubSeq(blocks, 1, Len(blocks)) = blocks
      BY WholeSubSeq
    <2>2. Len(blocks) \in 0..Len(blocks)
      OBVIOUS
    <2>3. QED
      BY <2>1, <2>2, PlainSameBalances
  <1>3. QED
    BY <1>1, <1>2 DEF Ledger

\* A block that applies extends the ledger by what it mints.
LEMMA LedgerAppend ==
    ASSUME NEW blocks \in Seq(Block), NEW block \in Block, NEW a, Ledger(blocks, a),
           ApplyAllToBalances(block, a, BalancesOf(blocks, a)).ok
    PROVE  Ledger(Append(blocks, block), a)
  <1>1. PICK t : t = Append(blocks, block)
    OBVIOUS
  <1>2. PICK n : n = Len(blocks)
    OBVIOUS
  <1>3. /\ n \in Nat /\ Len(t) = n + 1 /\ t[n + 1] = block /\ DOMAIN t = 1..(n + 1)
        /\ \A h \in 1..n : t[h] = blocks[h]
    BY <1>1, <1>2
  <1>4. PICK b, w : b = BalancesOf(blocks, a) /\ w = ApplyAllToBalances(block, a, b)
    OBVIOUS
  <1>5. \A h \in 1..n : BlockApplies(t, h, a)
    <2> SUFFICES ASSUME NEW h \in 1..n
                 PROVE  BlockApplies(t, h, a)
      OBVIOUS
    <2>1. h - 1 \in 0..Len(blocks) /\ h \in DOMAIN blocks
      BY <1>2, <1>3
    <2>2. SubSeq(t, 1, h - 1) = SubSeq(blocks, 1, h - 1)
      BY <1>1, <2>1, AppendSubSeq
    <2>3. BlockApplies(blocks, h, a) /\ t[h] = blocks[h]
      BY <1>3, <2>1 DEF Ledger
    <2>4. QED
      BY <2>2, <2>3 DEF BlockApplies
  <1>6. BlockApplies(t, n + 1, a)
    <2>1. SubSeq(t, 1, n) = blocks
      <3>1. n \in 0..Len(blocks)
        BY <1>2, <1>3
      <3>2. QED
        BY <1>1, <1>2, <3>1, AppendSubSeq, WholeSubSeq
    <2>2. (n + 1) - 1 = n
      BY <1>3
    <2>3. QED
      BY <1>3, <2>1, <2>2 DEF BlockApplies
  <1>7. ASSUME Minted(t) <= MaxU64
        PROVE  Money(BalancesOf(t, a)) = Minted(t)
    <2>1. PICK mt, mb, k : mt = Minted(t) /\ mb = Minted(blocks) /\ k = MintedIn(block)
      OBVIOUS
    <2>2. mt = mb + k /\ mb \in Nat /\ k \in Nat /\ MaxU64 \in Nat /\ mt <= MaxU64
      BY <1>1, <1>7, <2>1, MintedAppend, MintedInType, ChainAssumption DEF Block
    <2>3. mb <= MaxU64
      BY <2>2
    <2>4. b \in Bal /\ Money(b) = mb
      BY <1>4, <2>1, <2>3, ChainMoney DEF Ledger
    <2>5. w.ok /\ Money(b) + MintedIn(block) = mt
      BY <1>4, <2>1, <2>2, <2>4
    <2>6. Money(w.bal) = Money(b) + MintedIn(block)
      BY <1>4, <2>2, <2>4, <2>5, BlockMoney
    <2>7. BalancesOf(t, a) = w.bal
      BY <1>1, <1>4, BalancesAppend
    <2>8. QED
      BY <2>1, <2>5, <2>6, <2>7
  <1>8. \A h \in DOMAIN t : BlockApplies(t, h, a)
    BY <1>3, <1>5, <1>6
  <1>9. QED
    BY <1>1, <1>7, <1>8 DEF Ledger

-----------------------------------------------------------------------------
(* The reachable states *)

Accepted == Seq(Txs)

ChainInv == /\ chain \in Seq(Accepted)
            /\ Len(chain) <= MaxHeight
            /\ pending \in Seq(Poolable)
            /\ stranded \in BOOLEAN

\* A step pools a transaction or commits a block, which applied to the
\* balances and business state of before.
Commits(block) ==
    /\ block \in Accepted
    /\ Len(chain) < MaxHeight
    /\ ApplyAllToBalances(block, app, Balances).ok
    /\ Commit(block, Unconfirmed(pending, block))

LEMMA AcceptedFacts ==
    /\ Txs \subseteq AnyTx /\ Poolable \subseteq Txs
    /\ Accepted \subseteq Block /\ Accepted = Seq(Txs)
  <1>1. Txs \subseteq AnyTx /\ Poolable \subseteq Txs
    BY DEF Txs, Poolable
  <1>2. Seq(Txs) \subseteq Seq(AnyTx)
    BY <1>1
  <1>3. QED
    BY <1>1, <1>2 DEF Accepted, Block

LEMMA BoundedSeqIsSeq == ASSUME NEW S, NEW n PROVE BoundedSeq(S, n) \subseteq Seq(S)
  BY DEF BoundedSeq, SeqOf

LEMMA CommitAccepted ==
    ASSUME NEW block \in Block, Len(chain) < MaxHeight,
           Commit(block, Unconfirmed(pending, block))
    PROVE  Commits(block)
  <1>1. ApplyAllToBalances(block, app, Balances).ok
    BY DEF Commit, ValidBlock
  <1>2. block \in Seq(Txs)
    BY <1>1, AppliedType
  <1>3. QED
    BY <1>1, <1>2 DEF Commits, Accepted

LEMMA StepKinds ==
    ASSUME ChainInv, Next
    PROVE  \/ \E tx \in AnyTx : AddTransaction(tx)
           \/ \E block : Commits(block)
  <1>1. CASE \E tx \in AnyTx : AddTransaction(tx)
    BY <1>1
  <1>2. ASSUME NEW m \in Miners, MinePendingTransactions(m)
        PROVE  \E block : Commits(block)
    <2>1. PICK block : block = Append(pending, RewardTx(m))
      OBVIOUS
    <2>2. pending \in Seq(AnyTx) /\ RewardTx(m) \in AnyTx
      <3>1. Poolable \subseteq AnyTx
        BY AcceptedFacts
      <3>2. QED
        BY <3>1 DEF ChainInv, AnyTx
    <2>3. block \in Block
      BY <2>1, <2>2 DEF Block
    <2>4. Unconfirmed(pending, block) = << >>
      BY <2>1, <2>2, UnconfirmedAll
    <2>5. Len(chain) < MaxHeight /\ Commit(block, Unconfirmed(pending, block))
      BY <1>2, <2>1, <2>4 DEF MinePendingTransactions
    <2>6. QED
      BY <2>3, <2>5, CommitAccepted
  <1>3. ASSUME NEW block \in BoundedSeq(AnyTx, MaxBlock), AppendExternalBlock(block)
        PROVE  \E b : Commits(b)
    <2>1. block \in Block
      BY BoundedSeqIsSeq DEF Block
    <2>2. QED
      BY <1>3, <2>1, CommitAccepted DEF AppendExternalBlock
  <1>4. QED
    BY <1>1, <1>2, <1>3 DEF Next, SoloNext

\* What a commit does: it appends its block and takes it from the pool, or only
\* moves the business state.
LEMMA CommitEffect ==
    ASSUME NEW block, Commits(block)
    PROVE  /\ app' = ApplyTransitions(block, app).app
           /\ \/ /\ ApplyTransitions(block, app).ok
                 /\ chain' = Append(chain, block) /\ pending' = Unconfirmed(pending, block)
              \/ /\ ~ApplyTransitions(block, app).ok /\ stranded'
                 /\ chain' = chain /\ pending' = pending
  BY DEF Commits, Commit

LEMMA AddedIsPoolable ==
    ASSUME ChainInv, NEW tx \in AnyTx, AddTransaction(tx)
    PROVE  tx \in Poolable
  <1>1. PICK n : n = Len(pending)
    OBVIOUS
  <1>2. PICK longer : longer = Append(pending, tx)
    OBVIOUS
  <1>3. pending \in Seq(AnyTx)
    <2>1. Poolable \subseteq AnyTx
      BY AcceptedFacts
    <2>2. QED
      BY <2>1 DEF ChainInv
  <1>4. n \in Nat /\ Len(longer) = n + 1 /\ longer[n + 1] = tx /\ longer \in Block
    BY <1>1, <1>2, <1>3 DEF Block
  <1>5. ApplyAllToBalances(longer, app, Balances).ok /\ ~IsSystem(tx)
    BY <1>2 DEF AddTransaction
  <1>6. longer \in Seq(Txs)
    BY <1>4, <1>5, AppliedType
  <1>7. longer[n + 1] \in Txs
    BY <1>4, <1>6
  <1>8. QED
    BY <1>4, <1>5, <1>7 DEF Poolable

LEMMA ChainInvHolds == Spec => []ChainInv
  <1>1. ASSUME Init
        PROVE  ChainInv
    <2>1. Len(chain) = 0 /\ 0 <= MaxHeight
      BY <1>1, ChainAssumption DEF Init
    <2>2. << >> \in Seq(Accepted) /\ << >> \in Seq(Poolable)
      OBVIOUS
    <2>3. stranded \in BOOLEAN
      BY <1>1 DEF Init
    <2>4. chain \in Seq(Accepted) /\ pending \in Seq(Poolable)
      BY <1>1, <2>2, Zenon DEF Init
    <2>5. QED
      BY <2>1, <2>3, <2>4 DEF ChainInv
  <1>2. ASSUME ChainInv, [Next]_vars
        PROVE  ChainInv'
    <2>1. CASE UNCHANGED vars
      BY <1>2, <2>1 DEF ChainInv, vars
    <2>2. ASSUME NEW tx \in AnyTx, AddTransaction(tx)
          PROVE  ChainInv'
      <3>1. tx \in Poolable
        BY <1>2, <2>2, AddedIsPoolable
      <3>2. pending' \in Seq(Poolable)
        BY <1>2, <2>2, <3>1 DEF AddTransaction, ChainInv
      <3>3. QED
        BY <1>2, <2>2, <3>2 DEF AddTransaction, ChainInv
    <2>3. ASSUME NEW block, Commits(block)
          PROVE  ChainInv'
      <3>1. stranded' \in BOOLEAN
        BY <2>3 DEF Commits, Commit
      <3>2. block \in Accepted /\ Len(chain) < MaxHeight
        BY <2>3 DEF Commits
      <3>3. CASE chain' = Append(chain, block) /\ pending' = Unconfirmed(pending, block)
        <4>1. Append(chain, block) \in Seq(Accepted) /\ Len(Append(chain, block)) = Len(chain) + 1
              /\ Len(chain) \in Nat
          BY <1>2, <3>2 DEF ChainInv
        <4>2. Unconfirmed(pending, block) \in Seq(Poolable)
          BY <1>2, UnconfirmedIsRest DEF ChainInv
        <4>3. QED
          BY <1>2, <3>1, <3>2, <3>3, <4>1, <4>2, ChainAssumption DEF ChainInv
      <3>4. CASE chain' = chain /\ pending' = pending
        BY <1>2, <3>1, <3>4 DEF ChainInv
      <3>5. QED
        BY <2>3, <3>3, <3>4, CommitEffect
    <2>4. QED
      BY <1>2, <2>1, <2>2, <2>3, StepKinds
  <1>3. QED
    BY <1>1, <1>2, PTL DEF Spec

-----------------------------------------------------------------------------
(* Theorems *)

\* Whatever users submit and peers put in their blocks, with as many system
\* transactions as they like: no chain or pool holds a transaction that is forged,
\* is empty or acts on somebody else's position, and no system transaction waits
\* in the pool.
THEOREM ChainTypes ==
    ASSUME OutcomeKeepsApp
    PROVE  Spec => []TypeOK
  <1>1. Init => app \in App
    BY ChainAssumption DEF Init
  <1>2. ASSUME app \in App, ChainInv, [Next]_vars
        PROVE  (app \in App)'
    <2>1. CASE UNCHANGED vars
      BY <1>2, <2>1 DEF vars
    <2>2. CASE \E tx \in AnyTx : AddTransaction(tx)
      BY <1>2, <2>2 DEF AddTransaction
    <2>3. ASSUME NEW block, Commits(block)
          PROVE  app' \in App
      <3>1. block \in Block /\ app' = ApplyTransitions(block, app).app
        BY <2>3, CommitEffect, AcceptedFacts DEF Commits
      <3>2. QED
        BY <1>2, <3>1, TransitionsType
    <2>4. QED
      BY <1>2, <2>1, <2>2, <2>3, StepKinds
  <1>3. ChainInv /\ app \in App => TypeOK
    BY DEF ChainInv, TypeOK, Accepted
  <1>4. QED
    BY <1>1, <1>2, <1>3, ChainInvHolds, PTL DEF Spec

\* Whatever balances() drops of a chain whose payloads no longer succeed, and
\* whatever the blocks of peers hold, the balances together never exceed what the
\* system transactions of the confirmed blocks mint.
THEOREM SupplyBound == Spec => []NoMoneyFromNothing
  <1>1. ASSUME ChainInv
        PROVE  NoMoneyFromNothing
    <2>1. chain \in Seq(Block)
      BY <1>1, AcceptedFacts DEF ChainInv
    <2>2. Balances \in Bal /\ Money(Balances) <= Minted(chain)
      BY <2>1, ChainMoney DEF Balances
    <2>3. SumFunction(Balances) = Money(Balances)
      BY <2>2 DEF SumFunction, Sum, Money, Bal
    <2>4. QED
      BY <2>2, <2>3 DEF NoMoneyFromNothing
  <1>2. QED
    BY <1>1, ChainInvHolds, PTL

\* Unless a block failed half-way and left its effects behind, executing the
\* confirmed blocks from genesis leads to the present contract storage and
\* lending pool.
THEOREM AppIsReplay == Spec => []AppFollowsChain
  <1>1. Init => AppFollowsChain
    <2>1. ASSUME NEW blocks, blocks = << >>
          PROVE  StateAfter(blocks) = InitApp
      <3>1. Len(blocks) = 0
        BY <2>1
      <3>2. PICK after : ReplaySteps(after, blocks) /\ StateAfter(blocks) = after[0]
        BY <3>1, ReplayStepsExist
      <3>3. QED
        BY <3>2 DEF ReplaySteps
    <2>2. QED
      BY <2>1 DEF Init, AppFollowsChain
  <1>2. ASSUME ChainInv, AppFollowsChain, [Next]_vars
        PROVE  AppFollowsChain'
    <2>1. CASE UNCHANGED vars
      BY <1>2, <2>1 DEF AppFollowsChain, vars
    <2>2. CASE \E tx \in AnyTx : AddTransaction(tx)
      BY <1>2, <2>2 DEF AppFollowsChain, AddTransaction
    <2>3. ASSUME NEW block, Commits(block)
          PROVE  AppFollowsChain'
      <3>1. SUFFICES ASSUME ~stranded'
                     PROVE  app' = StateAfter(chain')
        BY DEF AppFollowsChain
      <3>2. /\ app' = ApplyTransitions(block, app).app
            /\ chain' = Append(chain, block)
        BY <2>3, <3>1, CommitEffect
      <3>3. ~stranded
        BY <2>3, <3>1 DEF Commits, Commit
      <3>4. StateAfter(Append(chain, block)) = ApplyTransitions(block, StateAfter(chain)).app
        BY <1>2, <2>3, StateAppend DEF ChainInv, Commits
      <3>5. QED
        BY <1>2, <3>2, <3>3, <3>4 DEF AppFollowsChain
    <2>4. QED
      BY <1>2, <2>1, <2>2, <2>3, StepKinds
  <1>3. QED
    BY <1>1, <1>2, ChainInvHolds, PTL DEF Spec

\* No transaction is lost from the pool or stays there once it is confirmed: mining
\* and the blocks of peers take from it exactly what they confirm, and those that
\* fail half-way take nothing.
THEOREM PoolLosesWhatIsConfirmed == Spec => LeavesPoolWhenConfirmed
  <1> DEFINE Leaves == \A tx \in ToSet(pending) :
          tx \notin ToSet(pending') <=> /\ Len(chain') > Len(chain)
                                       /\ tx \in ToSet(Last(chain'))
  <1>1. ASSUME ChainInv, [Next]_vars
        PROVE  [Leaves]_vars
    <2>1. CASE UNCHANGED vars
      BY <2>1
    <2>2. Len(chain) \in Nat
      BY <1>1 DEF ChainInv
    <2>3. ASSUME NEW tx \in AnyTx, AddTransaction(tx)
          PROVE  Leaves
      <3>1. pending' = Append(pending, tx) /\ chain' = chain
        BY <2>3 DEF AddTransaction
      <3>2. tx \in Poolable /\ pending \in Seq(Poolable)
        BY <1>1, <2>3, AddedIsPoolable DEF ChainInv
      <3>3. ToSet(Append(pending, tx)) = ToSet(pending) \cup {tx}
        BY <3>2, ToSetAppend
      <3>4. \A x \in ToSet(pending) : x \in ToSet(pending')
        BY <3>1, <3>3
      <3>5. ~(Len(chain') > Len(chain))
        BY <2>2, <3>1
      <3>6. QED
        BY <3>4, <3>5
    <2>4. ASSUME NEW block, Commits(block)
          PROVE  Leaves
      <3>1. CASE chain' = Append(chain, block) /\ pending' = Unconfirmed(pending, block)
        <4>1. block \in Accepted /\ chain \in Seq(Accepted) /\ pending \in Seq(Poolable)
          BY <1>1, <2>4 DEF Commits, ChainInv
        <4>2. ToSet(pending') = ToSet(pending) \ ToSet(block)
          BY <3>1, <4>1, UnconfirmedIsRest
        <4>3. PICK t : t = Append(chain, block)
          OBVIOUS
        <4>4. Len(t) = Len(chain) + 1 /\ t[Len(t)] = block
          BY <4>1, <4>3
        <4>5. Len(chain') > Len(chain) /\ Last(chain') = block
          BY <2>2, <3>1, <4>3, <4>4 DEF Last
        <4>6. QED
          BY <4>2, <4>5
      <3>2. CASE chain' = chain /\ pending' = pending
        <4>1. ~(Len(chain') > Len(chain))
          BY <2>2, <3>2
        <4>2. QED
          BY <3>2, <4>1
      <3>3. QED
        BY <2>4, <3>1, <3>2, CommitEffect
    <2>5. QED
      BY <1>1, <2>1, <2>3, <2>4, StepKinds
  <1>2. [][Leaves]_vars <=> LeavesPoolWhenConfirmed
    BY DEF LeavesPoolWhenConfirmed
  <1>3. QED
    BY <1>1, <1>2, ChainInvHolds, PTL DEF Spec

\* On a chain of plain transfers, mined here or by others and resubmitted after
\* they are confirmed or not, replaying from genesis accepts every block and
\* accounts for everything minted, as long as that fits a u64.
THEOREM LedgerSound == Spec => []TransferLedgerSound
  <1> DEFINE Sound == Plain(chain) => Ledger(chain, app)
  <1>1. ASSUME ChainInv
        PROVE  chain \in Seq(Block) /\ (Sound => TransferLedgerSound)
    <2>1. chain \in Seq(Block)
      BY <1>1, AcceptedFacts DEF ChainInv
    <2>2. SumFunction(Balances) = Money(Balances)
      BY <2>1, ChainMoney DEF SumFunction, Sum, Money, Bal, Balances
    <2>3. QED
      BY <2>1, <2>2
         DEF TransferLedgerSound, PayloadFree, Plain, Ledger, BlockApplies, Balances
  <1>2. ASSUME Init
        PROVE  Sound
    <2>1. PICK none : none = << >>
      OBVIOUS
    <2>2. DOMAIN none = {} /\ Minted(none) = 0 /\ BalancesOf(none, app) = NoMoney
      BY <2>1, MintedNone, BalancesNone
    <2>3. Ledger(none, app)
      BY <2>2, NoMoneyIsNone DEF Ledger
    <2>4. QED
      BY <1>2, <2>1, <2>3 DEF Init
  <1>3. ASSUME ChainInv, Sound, [Next]_vars
        PROVE  Sound'
    <2>1. CASE UNCHANGED vars
      BY <1>3, <2>1 DEF vars
    <2>2. CASE \E tx \in AnyTx : AddTransaction(tx)
      BY <1>3, <2>2 DEF AddTransaction
    <2>3. ASSUME NEW block, Commits(block)
          PROVE  Sound'
      <3> SUFFICES ASSUME Plain(chain')
                   PROVE  Ledger(chain', app')
        OBVIOUS
      <3>1. chain \in Seq(Block) /\ block \in Block
        BY <1>1, <1>3, <2>3, AcceptedFacts DEF Commits
      <3>2. CASE chain' = Append(chain, block)
        <4>1. Plain(chain)
          BY <3>1, <3>2, PlainPrefix
        <4>2. Ledger(chain, app)
          BY <1>3, <4>1
        <4>3. Ledger(Append(chain, block), app)
          BY <2>3, <3>1, <4>2, LedgerAppend DEF Commits, Balances
        <4>4. Append(chain, block) \in Seq(Block)
          BY <3>1
        <4>5. QED
          BY <3>2, <4>3, <4>4, LedgerOfAnyState
      <3>3. CASE chain' = chain
        BY <1>3, <3>1, <3>3, LedgerOfAnyState
      <3>4. QED
        BY <2>3, <3>2, <3>3, CommitEffect
    <2>4. QED
      BY <1>3, <2>1, <2>2, <2>3, StepKinds
  <1>4. QED
    BY <1>1, <1>2, <1>3, ChainInvHolds, PTL DEF Spec

-----------------------------------------------------------------------------
(* Records of an address *)

\* f keeps the records of address, transaction by transaction.
KeptBy(f, S, txs, address, direction) ==
    /\ f \in [0..Len(txs) -> Seq(S)]
    /\ Records(txs, address, direction) = f[Len(txs)]
    /\ f[0] = << >>
    /\ \A i \in 1..Len(txs) : f[i] = IF Listed(txs[i], address, direction)
                                THEN Append(f[i - 1], txs[i]) ELSE f[i - 1]

LEMMA RecordsRun ==
    ASSUME NEW S, NEW txs, txs \in Seq(S), NEW address, NEW direction
    PROVE  \E f : KeptBy(f, S, txs, address, direction)
  <1>0. PICK n : n = Len(txs)
    OBVIOUS
  <1> DEFINE Zero == << >>
  <1> DEFINE Keep(s, tx) == IF Listed(tx, address, direction) THEN Append(s, tx) ELSE s
  <1> DEFINE IsKept(f) == f = [i \in 0..n |-> IF i = 0 THEN Zero ELSE Keep(f[i - 1], txs[i])]
  <1>1. PICK f : f = CHOOSE g : IsKept(g)
    OBVIOUS
  <1>2. Records(txs, address, direction) = f[n]
    BY <1>0, <1>1, Zenon DEF Records
  <1>3. n \in Nat /\ \A i \in 1..n : txs[i] \in S
    BY <1>0
  <1>4. Zero \in Seq(S)
    OBVIOUS
  <1>5. ASSUME NEW s \in Seq(S), NEW tx \in S
        PROVE  Keep(s, tx) \in Seq(S)
    OBVIOUS
  <1> HIDE DEF Zero, Keep
  <1>6. \E g \in [0..n -> Seq(S)] : IsKept(g)
    <2>1. PICK step : step = [i \in 1..n |-> [s \in Seq(S) |-> Keep(s, txs[i])]]
      OBVIOUS
    <2>2. PICK D : D = Seq(S)
      OBVIOUS
    <2>3. PICK g \in [0..n -> Seq(S)] : RunsFrom(g, Zero, step, n)
      <3>1. Zero \in D /\ n \in Nat
        BY <1>3, <1>4, <2>2
      <3>2. \A i \in 1..n : \A d \in D : step[i][d] \in D
        BY <1>3, <1>5, <2>1, <2>2
      <3>3. \E g : g \in [0..n -> D] /\ RunsFrom(g, Zero, step, n)
        BY <3>1, <3>2, RunExists
      <3>4. QED
        BY <2>2, <3>3, Zenon
    <2>4. \A i \in 1..n : g[i] = Keep(g[i - 1], txs[i])
      <3> SUFFICES ASSUME NEW i \in 1..n
                   PROVE  g[i] = Keep(g[i - 1], txs[i])
        OBVIOUS
      <3>1. i - 1 \in 0..n
        BY <1>3
      <3>2. g[i - 1] \in Seq(S)
        BY <3>1
      <3>3. QED
        BY <2>1, <2>3, <3>2 DEF RunsFrom
    <2>5. IsKept(g)
      BY <1>3, <2>3, <2>4 DEF RunsFrom
    <2>6. QED
      BY <2>5
  <1>7. IsKept(f)
    BY <1>1, <1>6
  <1>8. f[0] = Zero /\ \A i \in 1..n : f[i] = Keep(f[i - 1], txs[i])
    BY <1>3, <1>7
  <1>9. f \in [0..n -> Seq(S)]
    <2>1. ASSUME NEW i \in 1..n, f[i - 1] \in Seq(S)
          PROVE  f[i] \in Seq(S)
      BY <1>3, <1>5, <1>8, <2>1
    <2>2. f[0] \in Seq(S)
      BY <1>4, <1>8
    <2>3. PICK D : D = Seq(S)
      OBVIOUS
    <2>4. \A i \in 0..n : f[i] \in D
      BY <1>3, <2>1, <2>2, <2>3, RunStays
    <2>5. QED
      BY <1>7, <2>3, <2>4
  <1>10. KeptBy(f, S, txs, address, direction)
    BY <1>0, <1>2, <1>8, <1>9, Zenon DEF KeptBy, Zero, Keep
  <1>11. QED
    BY <1>10

LEMMA RecordsType ==
    ASSUME NEW S, NEW txs \in Seq(S), NEW address, NEW direction
    PROVE  Records(txs, address, direction) \in Seq(S)
  <1>1. PICK n : n = Len(txs)
    OBVIOUS
  <1>2. n \in 0..n
    BY <1>1
  <1>3. PICK f : KeptBy(f, S, txs, address, direction)
    BY RecordsRun
  <1>4. f \in [0..n -> Seq(S)] /\ Records(txs, address, direction) = f[n]
    BY <1>1, <1>3, Zenon DEF KeptBy
  <1>5. QED
    BY <1>2, <1>4

\* One more transaction adds at most itself to the records, at their end.
LEMMA RecordsAppend ==
    ASSUME NEW S, NEW txs \in Seq(S), NEW tx \in S, NEW address, NEW direction
    PROVE  Records(Append(txs, tx), address, direction)
              = IF Listed(tx, address, direction)
                  THEN Append(Records(txs, address, direction), tx)
                  ELSE Records(txs, address, direction)
  <1>1. PICK more : more = Append(txs, tx)
    OBVIOUS
  <1>2. PICK n : n = Len(txs)
    OBVIOUS
  <1>3. /\ more \in Seq(S) /\ Len(more) = n + 1 /\ n \in Nat
        /\ more[n + 1] = tx /\ \A i \in 1..n : more[i] = txs[i]
    BY <1>1, <1>2
  <1>4. PICK f : KeptBy(f, S, txs, address, direction)
    BY RecordsRun
  <1>5. PICK m : m = n + 1
    OBVIOUS
  <1>6. more \in Seq(S) /\ m = Len(more)
    BY <1>3, <1>5
  <1>7. PICK g : KeptBy(g, S, more, address, direction)
    BY <1>3, RecordsRun
  <1>8. f[0] = g[0]
    BY <1>4, <1>7, Zenon DEF KeptBy
  <1>9. ASSUME NEW i \in 1..n, f[i - 1] = g[i - 1]
        PROVE  f[i] = g[i]
    <2>1. i \in 1..m /\ more[i] = txs[i]
      BY <1>3, <1>5
    <2>2. QED
      BY <1>2, <1>4, <1>6, <1>7, <1>9, <2>1, Zenon DEF KeptBy
  <1>10. f[n] = g[n]
    BY <1>3, <1>8, <1>9, RunsAgree
  <1>11. m \in 1..m /\ m - 1 = n /\ more[m] = tx
    BY <1>3, <1>5
  <1>12. g[m] = IF Listed(more[m], address, direction)
                  THEN Append(g[m - 1], more[m]) ELSE g[m - 1]
    BY <1>6, <1>7, <1>11, Zenon DEF KeptBy
  <1>13. Records(txs, address, direction) = f[n] /\ Records(more, address, direction) = g[m]
    BY <1>2, <1>4, <1>6, <1>7, Zenon DEF KeptBy
  <1>14. QED
    BY <1>1, <1>10, <1>11, <1>12, <1>13, Zenon

\* f lists the records of address, block by block.
ListedBy(f, S, blocks, address, direction) ==
    /\ f \in [0..Len(blocks) -> Seq(S)]
    /\ AddressTxs(blocks, address, direction) = f[Len(blocks)]
    /\ f[0] = << >>
    /\ \A h \in 1..Len(blocks) : f[h] = Records(blocks[h], address, direction) \o f[h - 1]

LEMMA AddressTxsRun ==
    ASSUME NEW S, NEW blocks, blocks \in Seq(Seq(S)), NEW address, NEW direction
    PROVE  \E f : ListedBy(f, S, blocks, address, direction)
  <1>0. PICK n : n = Len(blocks)
    OBVIOUS
  <1> DEFINE Zero == << >>
  <1> DEFINE Prepend(s, block) == Records(block, address, direction) \o s
  <1> DEFINE IsListed(f) == f = [h \in 0..n |-> IF h = 0 THEN Zero ELSE Prepend(f[h - 1], blocks[h])]
  <1>1. PICK f : f = CHOOSE g : IsListed(g)
    OBVIOUS
  <1>2. AddressTxs(blocks, address, direction) = f[n]
    BY <1>0, <1>1, Zenon DEF AddressTxs
  <1>3. n \in Nat /\ \A h \in 1..n : blocks[h] \in Seq(S)
    BY <1>0
  <1>4. Zero \in Seq(S)
    OBVIOUS
  <1>5. ASSUME NEW s \in Seq(S), NEW block \in Seq(S)
        PROVE  Prepend(s, block) \in Seq(S)
    <2>1. Records(block, address, direction) \in Seq(S)
      BY RecordsType
    <2>2. QED
      BY <2>1
  <1> HIDE DEF Zero, Prepend
  <1>6. \E g \in [0..n -> Seq(S)] : IsListed(g)
    <2>1. PICK step : step = [h \in 1..n |-> [s \in Seq(S) |-> Prepend(s, blocks[h])]]
      OBVIOUS
    <2>2. PICK D : D = Seq(S)
      OBVIOUS
    <2>3. PICK g \in [0..n -> Seq(S)] : RunsFrom(g, Zero, step, n)
      <3>1. Zero \in D /\ n \in Nat
        BY <1>3, <1>4, <2>2
      <3>2. \A h \in 1..n : \A d \in D : step[h][d] \in D
        BY <1>3, <1>5, <2>1, <2>2
      <3>3. \E g : g \in [0..n -> D] /\ RunsFrom(g, Zero, step, n)
        BY <3>1, <3>2, RunExists
      <3>4. QED
        BY <2>2, <3>3, Zenon
    <2>4. \A h \in 1..n : g[h] = Prepend(g[h - 1], blocks[h])
      <3> SUFFICES ASSUME NEW h \in 1..n
                   PROVE  g[h] = Prepend(g[h - 1], blocks[h])
        OBVIOUS
      <3>1. h - 1 \in 0..n
        BY <1>3
      <3>2. g[h - 1] \in Seq(S)
        BY <3>1
      <3>3. QED
        BY <2>1, <2>3, <3>2 DEF RunsFrom
    <2>5. IsListed(g)
      BY <1>3, <2>3, <2>4 DEF RunsFrom
    <2>6. QED
      BY <2>5
  <1>7. IsListed(f)
    BY <1>1, <1>6
  <1>8. f[0] = Zero /\ \A h \in 1..n : f[h] = Prepend(f[h - 1], blocks[h])
    BY <1>3, <1>7
  <1>9. f \in [0..n -> Seq(S)]
    <2>1. ASSUME NEW h \in 1..n, f[h - 1] \in Seq(S)
          PROVE  f[h] \in Seq(S)
      BY <1>3, <1>5, <1>8, <2>1
    <2>2. f[0] \in Seq(S)
      BY <1>4, <1>8
    <2>3. PICK D : D = Seq(S)
      OBVIOUS
    <2>4. \A h \in 0..n : f[h] \in D
      BY <1>3, <2>1, <2>2, <2>3, RunStays
    <2>5. QED
      BY <1>7, <2>3, <2>4
  <1>10. ListedBy(f, S, blocks, address, direction)
    BY <1>0, <1>2, <1>8, <1>9, Zenon DEF ListedBy, Zero, Prepend
  <1>11. QED
    BY <1>10

LEMMA AddressTxsType ==
    ASSUME NEW S, NEW blocks \in Seq(Seq(S)), NEW address, NEW direction
    PROVE  AddressTxs(blocks, address, direction) \in Seq(S)
  <1>1. PICK n : n = Len(blocks)
    OBVIOUS
  <1>2. n \in 0..n
    BY <1>1
  <1>3. PICK f : ListedBy(f, S, blocks, address, direction)
    BY AddressTxsRun
  <1>4. f \in [0..n -> Seq(S)] /\ AddressTxs(blocks, address, direction) = f[n]
    BY <1>1, <1>3, Zenon DEF ListedBy
  <1>5. QED
    BY <1>2, <1>4

\* The records of one more block come before all others.
LEMMA AddressTxsAppend ==
    ASSUME NEW S, NEW blocks \in Seq(Seq(S)), NEW block \in Seq(S), NEW address, NEW direction
    PROVE  AddressTxs(Append(blocks, block), address, direction)
              = Records(block, address, direction) \o AddressTxs(blocks, address, direction)
  <1>1. PICK more : more = Append(blocks, block)
    OBVIOUS
  <1>2. PICK n : n = Len(blocks)
    OBVIOUS
  <1>3. /\ more \in Seq(Seq(S)) /\ Len(more) = n + 1 /\ n \in Nat
        /\ more[n + 1] = block /\ \A h \in 1..n : more[h] = blocks[h]
    BY <1>1, <1>2
  <1>4. PICK f : ListedBy(f, S, blocks, address, direction)
    BY AddressTxsRun
  <1>5. PICK m : m = n + 1
    OBVIOUS
  <1>6. more \in Seq(Seq(S)) /\ m = Len(more)
    BY <1>3, <1>5
  <1>7. PICK g : ListedBy(g, S, more, address, direction)
    BY <1>3, AddressTxsRun
  <1>8. f[0] = g[0]
    BY <1>4, <1>7, Zenon DEF ListedBy
  <1>9. ASSUME NEW h \in 1..n, f[h - 1] = g[h - 1]
        PROVE  f[h] = g[h]
    <2>1. h \in 1..m /\ more[h] = blocks[h]
      BY <1>3, <1>5
    <2>2. QED
      BY <1>2, <1>4, <1>6, <1>7, <1>9, <2>1, Zenon DEF ListedBy
  <1>10. f[n] = g[n]
    BY <1>3, <1>8, <1>9, RunsAgree
  <1>11. m \in 1..m /\ m - 1 = n /\ more[m] = block
    BY <1>3, <1>5
  <1>12. g[m] = Records(more[m], address, direction) \o g[m - 1]
    BY <1>6, <1>7, <1>11, Zenon DEF ListedBy
  <1>13. AddressTxs(blocks, address, direction) = f[n] /\ AddressTxs(more, address, direction) = g[m]
    BY <1>2, <1>4, <1>6, <1>7, Zenon DEF ListedBy
  <1>14. QED
    BY <1>1, <1>10, <1>11, <1>12, <1>13, Zenon

-----------------------------------------------------------------------------
(* Pages *)

LEMMA TailKept ==
    ASSUME NEW S, NEW newer \in Seq(S), NEW before \in Seq(S)
    PROVE  KeepsTail(before, newer \o before)
  <1>1. PICK s : s = newer \o before
    OBVIOUS
  <1>2. PICK k, n : k = Len(newer) /\ n = Len(before)
    OBVIOUS
  <1>3. /\ s \in Seq(S) /\ Len(s) = k + n /\ k \in Nat /\ n \in Nat
        /\ \A i \in 1..n : s[k + i] = before[i]
    BY <1>1, <1>2
  <1>4. PICK p : p = SubSeq(s, k + 1, k + n)
    OBVIOUS
  <1>5. p = before
    <2>1. PICK lo, hi : lo = k + 1 /\ hi = k + n
      OBVIOUS
    <2>2. lo \in Int /\ hi \in Int /\ \A i \in lo..hi : s[i] \in S
      BY <1>3, <2>1
    <2>3. /\ p \in Seq(S) /\ Len(p) = IF lo <= hi THEN hi - lo + 1 ELSE 0
          /\ \A i \in 1..(hi - lo + 1) : p[i] = s[lo + i - 1]
      BY <1>4, <2>1, <2>2, SubSeqProperties
    <2>4. p = [i \in 1..n |-> s[k + i]]
      BY <1>3, <2>1, <2>3
    <2>5. before = [i \in 1..n |-> before[i]]
      BY <1>2
    <2>6. QED
      BY <1>3, <2>4, <2>5
  <1>6. Page(s, Len(s) - Len(before), Len(before)) = SubSeq(s, k + 1, k + n)
    BY <1>2, <1>3 DEF Page
  <1>7. QED
    BY <1>1, <1>4, <1>5, <1>6 DEF KeepsTail

LEMMA HeadKept ==
    ASSUME NEW S, NEW shown \in Seq(S), NEW x \in S
    PROVE  Page(Append(shown, x), 0, Len(shown)) = shown
  <1>1. PICK s : s = Append(shown, x)
    OBVIOUS
  <1>2. PICK n : n = Len(shown)
    OBVIOUS
  <1>3. s \in Seq(S) /\ Len(s) = n + 1 /\ n \in Nat /\ \A i \in 1..n : s[i] = shown[i]
    BY <1>1, <1>2
  <1>4. PICK p : p = SubSeq(s, 1, n)
    OBVIOUS
  <1>5. p = shown
    <2>1. p \in Seq(S) /\ Len(p) = n /\ \A i \in 1..n : p[i] = s[i]
      BY <1>3, <1>4
    <2>2. QED
      BY <1>2, <1>3, <2>1
  <1>6. Page(s, 0, n) = SubSeq(s, 1, n)
    BY <1>3 DEF Page
  <1>7. QED
    BY <1>1, <1>2, <1>4, <1>5, <1>6

LEMMA PageOfAll ==
    ASSUME NEW S, NEW shown \in Seq(S)
    PROVE  Page(shown, 0, Len(shown)) = shown
  BY DEF Page

LEMMA ReverseAppend ==
    ASSUME NEW S, NEW s \in Seq(S), NEW x \in S
    PROVE  Reverse(Append(s, x)) = <<x>> \o Reverse(s) /\ Reverse(s) \in Seq(S)
  BY DEF Reverse

LEMMA ReverseType == ASSUME NEW S, NEW s \in Seq(S) PROVE Reverse(s) \in Seq(S)
  BY DEF Reverse

LEMMA AllKept ==
    ASSUME NEW S, NEW s \in Seq(S)
    PROVE  KeepsTail(s, s)
  BY DEF KeepsTail, Page

\* One more pending transaction is listed before what was listed, and shown
\* after what was shown.
LEMMA PoolPages ==
    ASSUME NEW S, NEW pool \in Seq(S), NEW tx \in S, NEW address, NEW direction
    PROVE  /\ KeepsTail(AddressPendingTxs(pool, address, direction),
                        AddressPendingTxs(Append(pool, tx), address, direction))
           /\ Page(Mempool(Append(pool, tx), address), 0, Len(Mempool(pool, address)))
                 = Mempool(pool, address)
  <1>1. ASSUME NEW d
        PROVE  Records(pool, address, d) \in Seq(S)
    BY RecordsType
  <1>2. KeepsTail(AddressPendingTxs(pool, address, direction),
                  AddressPendingTxs(Append(pool, tx), address, direction))
    <2>1. PICK r : r = Records(pool, address, direction)
      OBVIOUS
    <2>2. r \in Seq(S)
      BY <1>1, <2>1
    <2>3. CASE Listed(tx, address, direction)
      <3>1. Records(Append(pool, tx), address, direction) = Append(r, tx)
        BY <2>1, <2>3, RecordsAppend
      <3>2. Reverse(Append(r, tx)) = <<tx>> \o Reverse(r) /\ Reverse(r) \in Seq(S)
        BY <2>2, ReverseAppend
      <3>3. KeepsTail(Reverse(r), <<tx>> \o Reverse(r))
        <4>1. <<tx>> \in Seq(S)
          OBVIOUS
        <4>2. QED
          BY <3>2, <4>1, TailKept
      <3>4. QED
        BY <2>1, <3>1, <3>2, <3>3, Zenon DEF AddressPendingTxs
    <2>4. CASE ~Listed(tx, address, direction)
      <3>1. Records(Append(pool, tx), address, direction) = r
        BY <2>1, <2>4, RecordsAppend
      <3>2. Reverse(r) \in Seq(S)
        BY <2>2, ReverseType
      <3>3. KeepsTail(Reverse(r), Reverse(r))
        BY <3>2, AllKept
      <3>4. QED
        BY <2>1, <3>1, <3>3, Zenon DEF AddressPendingTxs
    <2>5. QED
      BY <2>3, <2>4
  <1>3. Page(Mempool(Append(pool, tx), address), 0, Len(Mempool(pool, address)))
           = Mempool(pool, address)
    <2>1. PICK r : r = Records(pool, address, "all")
      OBVIOUS
    <2>2. r \in Seq(S)
      BY <1>1, <2>1
    <2>3. CASE Listed(tx, address, "all")
      <3>1. Records(Append(pool, tx), address, "all") = Append(r, tx)
        BY <2>1, <2>3, RecordsAppend
      <3>2. Page(Append(r, tx), 0, Len(r)) = r
        BY <2>2, HeadKept
      <3>3. QED
        BY <2>1, <3>1, <3>2, Zenon DEF Mempool
    <2>4. CASE ~Listed(tx, address, "all")
      <3>1. Records(Append(pool, tx), address, "all") = r
        BY <2>1, <2>4, RecordsAppend
      <3>2. Page(r, 0, Len(r)) = r
        BY <2>2, PageOfAll
      <3>3. QED
        BY <2>1, <3>1, <3>2, Zenon DEF Mempool
    <2>5. QED
      BY <2>3, <2>4
  <1>4. QED
    BY <1>2, <1>3

LEMMA RecordsEmpty ==
    ASSUME NEW address, NEW direction
    PROVE  Records(<< >>, address, direction) = << >>
  <1>1. PICK txs : txs = << >>
    OBVIOUS
  <1>2. txs \in Seq(Txs) /\ Len(txs) = 0
    BY <1>1
  <1>3. PICK f : KeptBy(f, Txs, txs, address, direction)
    BY <1>2, RecordsRun
  <1>4. QED
    BY <1>1, <1>2, <1>3, Zenon DEF KeptBy

\* A block that confirms no record of an address leaves its pending records.
LEMMA RecordsLeft ==
    ASSUME NEW S, NEW pool \in Seq(S), NEW block, NEW address, NEW direction,
           \A tx \in ToSet(pool) : Listed(tx, address, direction) => tx \notin ToSet(block)
    PROVE  Records(Unconfirmed(pool, block), address, direction)
              = Records(pool, address, direction)
  <1> DEFINE Kept(u) ==
        (\A tx \in ToSet(u) : Listed(tx, address, direction) => tx \notin ToSet(block))
           => Records(Unconfirmed(u, block), address, direction) = Records(u, address, direction)
  <1> DEFINE T == {u \in Seq(S) : Kept(u)}
  <1>1. << >> \in T
    <2>1. PICK none : none = << >>
      OBVIOUS
    <2>2. none \in Seq(S)
      BY <2>1
    <2>3. Unconfirmed(none, block) = none
      BY <2>1, UnconfirmedNone, Zenon
    <2>4. QED
      BY <2>1, <2>2, <2>3
  <1>2. ASSUME NEW u \in Seq(S), NEW tx \in S, u \in T
        PROVE  Append(u, tx) \in T
    <2>1. PICK w, r : w = Append(u, tx) /\ r = Unconfirmed(u, block)
      OBVIOUS
    <2>2. w \in Seq(S) /\ r \in Seq(S) /\ ToSet(w) = ToSet(u) \cup {tx}
      BY <2>1, ToSetAppend, UnconfirmedIsRest
    <2>3. SUFFICES ASSUME \A x \in ToSet(w) : Listed(x, address, direction) => x \notin ToSet(block)
                   PROVE  Records(Unconfirmed(w, block), address, direction)
                             = Records(w, address, direction)
      BY <2>1, <2>2
    <2>4. Records(r, address, direction) = Records(u, address, direction)
      BY <1>2, <2>1, <2>2, <2>3
    <2>5. Unconfirmed(w, block) = IF tx \in ToSet(block) THEN r ELSE Append(r, tx)
      BY <2>1, UnconfirmedAppend
    <2>6. PICK k : k = Records(u, address, direction)
      OBVIOUS
    <2>7. Records(w, address, direction) = IF Listed(tx, address, direction) THEN Append(k, tx) ELSE k
      BY <2>1, <2>6, RecordsAppend
    <2>8. Records(Append(r, tx), address, direction)
             = IF Listed(tx, address, direction) THEN Append(k, tx) ELSE k
      <3>1. Records(r, address, direction) = k
        BY <2>4, <2>6
      <3>2. QED
        BY <2>2, <3>1, RecordsAppend
    <2>9. CASE tx \in ToSet(block)
      <3>1. ~Listed(tx, address, direction) /\ Unconfirmed(w, block) = r
        BY <2>2, <2>3, <2>5, <2>9
      <3>2. QED
        BY <2>4, <2>6, <2>7, <3>1, Zenon
    <2>10. CASE tx \notin ToSet(block)
      <3>1. Unconfirmed(w, block) = Append(r, tx)
        BY <2>5, <2>10
      <3>2. QED
        BY <2>7, <2>8, <3>1, Zenon
    <2>11. QED
      BY <2>9, <2>10
  <1>3. pool \in T
    <2> HIDE DEF T
    <2>1. QED
      BY <1>1, <1>2, SequenceInduction
  <1>4. QED
    BY <1>3

\* Whatever is mined, taken over from a peer or pooled between two pages, the
\* confirmed records of an address that were listed stay where the next page looks
\* for them; so do its pending records, unless the block confirmed one of them.
THEOREM PagesStayInPlace == Spec => PagesKeepPlace
  <1> DEFINE Kept(address, direction) ==
          /\ KeepsTail(AddressTxs(chain, address, direction),
                       AddressTxs(chain', address, direction))
          /\ (\A tx \in ToSet(pending) :
                  Listed(tx, address, direction) => tx \in ToSet(pending')) =>
                /\ KeepsTail(AddressPendingTxs(pending, address, direction),
                             AddressPendingTxs(pending', address, direction))
                /\ direction = "all" =>
                      LET shown == Mempool(pending, address)
                      IN  Page(Mempool(pending', address), 0, Len(shown)) = shown
  <1> DEFINE AllStay == \A address \in Address, direction \in Directions : Kept(address, direction)
  <1>1. ASSUME ChainInv, [Next]_vars
        PROVE  [AllStay]_<<chain, pending>>
    <2> SUFFICES ASSUME ~UNCHANGED <<chain, pending>>, NEW address \in Address,
                        NEW direction \in Directions
                 PROVE  Kept(address, direction)
      OBVIOUS
    <2>1. Next
      BY <1>1 DEF vars
    <2>2. chain \in Seq(Seq(Txs)) /\ pending \in Seq(Txs)
      BY <1>1, AcceptedFacts DEF ChainInv
    <2>3. AddressTxs(chain, address, direction) \in Seq(Txs)
      BY <2>2, AddressTxsType
    <2>4. ASSUME NEW tx \in AnyTx, AddTransaction(tx)
          PROVE  Kept(address, direction)
      <3>1. tx \in Txs
        BY <1>1, <2>4, AddedIsPoolable, AcceptedFacts
      <3>2. chain' = chain /\ pending' = Append(pending, tx)
        BY <2>4 DEF AddTransaction
      <3>3. KeepsTail(AddressTxs(chain, address, direction), AddressTxs(chain, address, direction))
        BY <2>3, AllKept
      <3>4. /\ KeepsTail(AddressPendingTxs(pending, address, direction),
                         AddressPendingTxs(Append(pending, tx), address, direction))
            /\ Page(Mempool(Append(pending, tx), address), 0, Len(Mempool(pending, address)))
                  = Mempool(pending, address)
        BY <2>2, <3>1, PoolPages
      <3>5. QED
        BY <3>2, <3>3, <3>4
    <2>5. ASSUME NEW block, Commits(block)
          PROVE  Kept(address, direction)
      <3>1. chain' = Append(chain, block) /\ pending' = Unconfirmed(pending, block)
        BY <2>5, CommitEffect
      <3>2. block \in Seq(Txs)
        BY <2>5 DEF Commits, Accepted
      <3>3. PICK r, s : /\ r = Records(block, address, direction)
                        /\ s = AddressTxs(chain, address, direction)
        OBVIOUS
      <3>4. r \in Seq(Txs) /\ s \in Seq(Txs)
        BY <2>3, <3>2, <3>3, RecordsType
      <3>5. AddressTxs(Append(chain, block), address, direction) = r \o s
        BY <2>2, <3>2, <3>3, AddressTxsAppend
      <3>6. KeepsTail(s, r \o s)
        BY <3>4, TailKept
      <3>7. KeepsTail(AddressTxs(chain, address, direction), AddressTxs(chain', address, direction))
        BY <3>1, <3>3, <3>5, <3>6, Zenon
      <3>8. ASSUME \A tx \in ToSet(pending) :
                      Listed(tx, address, direction) => tx \in ToSet(pending')
            PROVE  /\ KeepsTail(AddressPendingTxs(pending, address, direction),
                                AddressPendingTxs(pending', address, direction))
                   /\ direction = "all" =>
                         Page(Mempool(pending', address), 0, Len(Mempool(pending, address)))
                            = Mempool(pending, address)
        <4>1. ToSet(pending') = ToSet(pending) \ ToSet(block)
          BY <2>2, <3>1, UnconfirmedIsRest
        <4>2. PICK k : k = Records(pending, address, direction)
          OBVIOUS
        <4>3. Records(pending', address, direction) = k /\ k \in Seq(Txs)
          <5>1. \A tx \in ToSet(pending) : Listed(tx, address, direction) => tx \notin ToSet(block)
            BY <3>8, <4>1
          <5>2. Records(Unconfirmed(pending, block), address, direction) = k
            BY <2>2, <4>2, <5>1, RecordsLeft
          <5>3. QED
            BY <2>2, <3>1, <4>2, <5>2, RecordsType
        <4>4. Reverse(k) \in Seq(Txs)
          BY <4>3, ReverseType
        <4>5. KeepsTail(Reverse(k), Reverse(k))
          BY <4>4, AllKept
        <4>6. Page(k, 0, Len(k)) = k
          BY <4>3, PageOfAll
        <4>7. KeepsTail(AddressPendingTxs(pending, address, direction),
                        AddressPendingTxs(pending', address, direction))
          BY <4>2, <4>3, <4>5, Zenon DEF AddressPendingTxs
        <4>8. ASSUME direction = "all"
              PROVE  Page(Mempool(pending', address), 0, Len(Mempool(pending, address)))
                        = Mempool(pending, address)
          BY <4>2, <4>3, <4>6, <4>8, Zenon DEF Mempool
        <4>9. QED
          BY <4>7, <4>8
      <3>9. QED
        BY <3>7, <3>8
    <2>6. QED
      BY <1>1, <2>1, <2>4, <2>5, StepKinds
  <1>2. [][AllStay]_<<chain, pending>> <=> PagesKeepPlace
    BY DEF PagesKeepPlace
  <1>3. QED
    BY <1>1, <1>2, ChainInvHolds, PTL DEF Spec

-----------------------------------------------------------------------------
(* Totals of an address *)

Capped(n) == IF n > MaxU64 THEN MaxU64 ELSE n

LEMMA TxFacts ==
    ASSUME NEW tx \in Txs
    PROVE  /\ tx.amount \in Nat /\ tx.to \in Address
           /\ tx.from \in Address \/ IsSystem(tx)
  BY AnyTxFacts DEF Txs

\* f adds up the amounts, transaction by transaction.
AddedBy(f, txs) ==
    /\ f \in [0..Len(txs) -> 0..MaxU64]
    /\ Total(txs) = f[Len(txs)]
    /\ f[0] = 0
    /\ \A i \in 1..Len(txs) : f[i] = Capped(f[i - 1] + txs[i].amount)

LEMMA TotalRun ==
    ASSUME NEW txs, txs \in Seq(Txs)
    PROVE  \E f : AddedBy(f, txs)
  <1>0. PICK n : n = Len(txs)
    OBVIOUS
  <1> DEFINE Plus(s, tx) == IF s + tx.amount > MaxU64 THEN MaxU64 ELSE s + tx.amount
  <1> DEFINE IsSum(f) == f = [i \in 0..n |-> IF i = 0 THEN 0 ELSE Plus(f[i - 1], txs[i])]
  <1>1. PICK f : f = CHOOSE g : IsSum(g)
    OBVIOUS
  <1>2. Total(txs) = f[n]
    BY <1>0, <1>1, Zenon DEF Total
  <1>3. n \in Nat /\ \A i \in 1..n : txs[i] \in Txs
    BY <1>0
  <1>4. PICK D : D = 0..MaxU64
    OBVIOUS
  <1>5. 0 \in D
    BY <1>4, ChainAssumption
  <1>6. ASSUME NEW s \in D, NEW tx \in Txs
        PROVE  Plus(s, tx) \in D
    <2>1. tx.amount \in Nat /\ MaxU64 \in Nat
      BY TxFacts, ChainAssumption
    <2>2. QED
      BY <1>4, <2>1
  <1>7. \A s, tx : Plus(s, tx) = Capped(s + tx.amount)
    BY DEF Capped
  <1> HIDE DEF Plus
  <1>8. \E g : IsSum(g)
    <2>1. PICK step : step = [i \in 1..n |-> [s \in D |-> Plus(s, txs[i])]]
      OBVIOUS
    <2>2. \A i \in 1..n : \A s \in D : step[i][s] \in D
      BY <1>3, <1>6, <2>1
    <2>3. PICK g : g \in [0..n -> D] /\ RunsFrom(g, 0, step, n)
      BY <1>3, <1>5, <2>2, RunExists
    <2>4. \A i \in 1..n : g[i] = Plus(g[i - 1], txs[i])
      <3> SUFFICES ASSUME NEW i \in 1..n
                   PROVE  g[i] = Plus(g[i - 1], txs[i])
        OBVIOUS
      <3>1. i - 1 \in 0..n
        BY <1>3
      <3>2. g[i - 1] \in D
        BY <2>3, <3>1
      <3>3. QED
        BY <2>1, <2>3, <3>2 DEF RunsFrom
    <2>5. IsSum(g)
      BY <1>3, <2>3, <2>4 DEF RunsFrom
    <2>6. QED
      BY <2>5
  <1>9. IsSum(f)
    BY <1>1, <1>8
  <1>10. f[0] = 0 /\ \A i \in 1..n : f[i] = Plus(f[i - 1], txs[i])
    BY <1>3, <1>9
  <1>11. f \in [0..n -> D]
    <2>1. ASSUME NEW i \in 1..n, f[i - 1] \in D
          PROVE  f[i] \in D
      BY <1>3, <1>6, <1>10, <2>1
    <2>2. f[0] \in D
      BY <1>5, <1>10
    <2>3. \A i \in 0..n : f[i] \in D
      BY <1>3, <2>1, <2>2, RunStays
    <2>4. QED
      BY <1>9, <2>3
  <1>12. AddedBy(f, txs)
    BY <1>0, <1>2, <1>4, <1>7, <1>10, <1>11, Zenon DEF AddedBy
  <1>13. QED
    BY <1>12

LEMMA TotalType ==
    ASSUME NEW txs \in Seq(Txs)
    PROVE  Total(txs) \in Nat /\ Total(txs) <= MaxU64
  <1>1. PICK f : AddedBy(f, txs)
    BY TotalRun
  <1>2. PICK n : n = Len(txs)
    OBVIOUS
  <1>3. n \in 0..n
    BY <1>2
  <1>4. f \in [0..n -> 0..MaxU64] /\ Total(txs) = f[n]
    BY <1>1, <1>2, Zenon DEF AddedBy
  <1>5. QED
    BY <1>3, <1>4, ChainAssumption

LEMMA TotalEmpty == Total(<< >>) = 0
  <1>1. PICK txs : txs = << >>
    OBVIOUS
  <1>2. txs \in Seq(Txs) /\ Len(txs) = 0
    BY <1>1
  <1>3. PICK f : AddedBy(f, txs)
    BY <1>2, TotalRun
  <1>4. QED
    BY <1>1, <1>2, <1>3, Zenon DEF AddedBy

LEMMA TotalAppend ==
    ASSUME NEW txs \in Seq(Txs), NEW tx \in Txs
    PROVE  Total(Append(txs, tx)) = Capped(Total(txs) + tx.amount)
  <1>1. PICK more : more = Append(txs, tx)
    OBVIOUS
  <1>2. PICK n : n = Len(txs)
    OBVIOUS
  <1>3. /\ more \in Seq(Txs) /\ Len(more) = n + 1 /\ n \in Nat
        /\ more[n + 1] = tx /\ \A i \in 1..n : more[i] = txs[i]
    BY <1>1, <1>2
  <1>4. PICK f : AddedBy(f, txs)
    BY TotalRun
  <1>5. PICK m : m = n + 1
    OBVIOUS
  <1>6. m = Len(more)
    BY <1>3, <1>5
  <1>7. PICK g : AddedBy(g, more)
    BY <1>3, TotalRun
  <1>8. f[0] = g[0]
    BY <1>4, <1>7, Zenon DEF AddedBy
  <1>9. ASSUME NEW i \in 1..n, f[i - 1] = g[i - 1]
        PROVE  f[i] = g[i]
    <2>1. i \in 1..m /\ more[i] = txs[i]
      BY <1>3, <1>5
    <2>2. QED
      BY <1>2, <1>4, <1>6, <1>7, <1>9, <2>1, Zenon DEF AddedBy
  <1>10. f[n] = g[n]
    BY <1>3, <1>8, <1>9, RunsAgree
  <1>11. m \in 1..m /\ m - 1 = n /\ more[m] = tx
    BY <1>3, <1>5
  <1>12. g[m] = Capped(g[m - 1] + more[m].amount)
    BY <1>6, <1>7, <1>11, Zenon DEF AddedBy
  <1>13. Total(txs) = f[n] /\ Total(more) = g[m]
    BY <1>2, <1>4, <1>6, <1>7, Zenon DEF AddedBy
  <1>14. QED
    BY <1>1, <1>10, <1>11, <1>12, <1>13, Zenon

\* What the transactions move to ("in") or from ("out") an address.
Flow(txs, x, d) == Total(Records(txs, x, d))

LEMMA FlowEmpty ==
    ASSUME NEW x, NEW d
    PROVE  Flow(<< >>, x, d) = 0
  BY RecordsEmpty, TotalEmpty, Zenon DEF Flow

LEMMA FlowType ==
    ASSUME NEW txs \in Seq(Txs), NEW x, NEW d
    PROVE  Flow(txs, x, d) \in Nat /\ Flow(txs, x, d) <= MaxU64
  BY RecordsType, TotalType DEF Flow

LEMMA FlowAppend ==
    ASSUME NEW txs \in Seq(Txs), NEW tx \in Txs, NEW x, NEW d
    PROVE  Flow(Append(txs, tx), x, d)
              = IF Listed(tx, x, d) THEN Capped(Flow(txs, x, d) + tx.amount) ELSE Flow(txs, x, d)
  <1>1. PICK r : r = Records(txs, x, d)
    OBVIOUS
  <1>2. r \in Seq(Txs)
    BY <1>1, RecordsType
  <1>3. Total(Append(r, tx)) = Capped(Total(r) + tx.amount)
    BY <1>2, TotalAppend
  <1>4. Records(Append(txs, tx), x, d) = IF Listed(tx, x, d) THEN Append(r, tx) ELSE r
    BY <1>1, RecordsAppend
  <1>5. QED
    BY <1>1, <1>3, <1>4, Zenon DEF Flow

\* The flows of two lists, one after the other, add up.
LEMMA FlowConcat ==
    ASSUME NEW s \in Seq(Txs), NEW t \in Seq(Txs), NEW x, NEW d
    PROVE  Flow(s \o t, x, d) = Capped(Flow(s, x, d) + Flow(t, x, d))
  <1> DEFINE T == {u \in Seq(Txs) : Flow(s \o u, x, d) = Capped(Flow(s, x, d) + Flow(u, x, d))}
  <1>1. << >> \in T
    <2>1. s \o << >> = s /\ << >> \in Seq(Txs)
      OBVIOUS
    <2>2. Capped(Flow(s, x, d) + 0) = Flow(s, x, d)
      BY FlowType, ChainAssumption DEF Capped
    <2>3. QED
      BY <2>1, <2>2, FlowEmpty, Zenon
  <1>2. ASSUME NEW u \in Seq(Txs), NEW tx \in Txs, u \in T
        PROVE  Append(u, tx) \in T
    <2>1. PICK w : w = s \o u
      OBVIOUS
    <2>2. w \in Seq(Txs) /\ s \o Append(u, tx) = Append(w, tx) /\ Append(u, tx) \in Seq(Txs)
      BY <2>1
    <2>3. PICK fs, fu, fw : fs = Flow(s, x, d) /\ fu = Flow(u, x, d) /\ fw = Flow(w, x, d)
      OBVIOUS
    <2>4. /\ fs \in Nat /\ fs <= MaxU64 /\ fu \in Nat /\ fu <= MaxU64
          /\ MaxU64 \in Nat /\ tx.amount \in Nat
      BY <2>3, FlowType, TxFacts, ChainAssumption
    <2>5. fw = Capped(fs + fu)
      BY <1>2, <2>1, <2>3
    <2>6. Flow(Append(u, tx), x, d) = IF Listed(tx, x, d) THEN Capped(fu + tx.amount) ELSE fu
      BY <2>3, FlowAppend
    <2>7. Flow(Append(w, tx), x, d) = IF Listed(tx, x, d) THEN Capped(fw + tx.amount) ELSE fw
      BY <2>2, <2>3, FlowAppend
    <2>8. Flow(Append(w, tx), x, d) = Capped(fs + Flow(Append(u, tx), x, d))
      <3>1. PICK k, m, gu, gw : /\ k = tx.amount /\ m = MaxU64
                                /\ gu = Flow(Append(u, tx), x, d) /\ gw = Flow(Append(w, tx), x, d)
        OBVIOUS
      <3>2. \A n : Capped(n) = IF n > m THEN m ELSE n
        BY <3>1 DEF Capped
      <3>3. CASE Listed(tx, x, d)
        <4>1. gu = Capped(fu + k) /\ gw = Capped(fw + k)
          BY <2>6, <2>7, <3>1, <3>3, Zenon
        <4>2. gw = Capped(fs + gu)
          BY <2>4, <2>5, <3>1, <3>2, <4>1
        <4>3. QED
          BY <3>1, <4>2
      <3>4. CASE ~Listed(tx, x, d)
        BY <2>5, <2>6, <2>7, <3>4, Zenon
      <3>5. QED
        BY <3>3, <3>4
    <2>9. QED
      BY <2>2, <2>3, <2>8
  <1>3. t \in T
    <2> HIDE DEF T
    <2>1. QED
      BY <1>1, <1>2, SequenceInduction
  <1>4. QED
    BY <1>3

-----------------------------------------------------------------------------
(* Totals and balances *)

NoPayload(txs) == \A i \in DOMAIN txs : ~HasPayload(txs[i])

\* A system transaction of txs names x as its sender.
SystemFrom(txs, x) == \E tx \in ToSet(txs) : IsSystem(tx) /\ tx.from = x

\* What a plain transaction that applies does to the balance of x.
LEMMA AppliedPlain ==
    ASSUME NEW tx \in Txs, ~HasPayload(tx), NEW a, NEW b \in Bal,
           NEW r, r = ApplyToBalances(tx, a, b), r.ok,
           NEW x \in Address, tx.from = x => ~IsSystem(tx)
    PROVE  /\ tx.from = x => b[x] >= tx.amount
           /\ r.bal[x] = IF tx.to = x
                           THEN Capped((IF tx.from = x THEN b[x] - tx.amount ELSE b[x]) + tx.amount)
                           ELSE IF tx.from = x THEN b[x] - tx.amount ELSE b[x]
  <1>1. /\ tx.amount \in Nat /\ tx.to \in Address /\ MaxU64 \in Nat
        /\ tx.from \in Address \/ IsSystem(tx)
    BY TxFacts, ChainAssumption
  <1>2. tx.kind # "Defi"
    BY DEF HasPayload
  <1>3. PICK paid : paid = IF IsSystem(tx) THEN b ELSE [b EXCEPT ![tx.from] = @ - tx.amount]
    OBVIOUS
  <1>4. r.bal = Credit(paid, tx.to, tx.amount)
    BY <1>2, <1>3 DEF ApplyToBalances
  <1>5. ~IsSystem(tx) => tx.from \in Address /\ b[tx.from] >= tx.amount
    <2>1. ~IsSystem(tx) => ~(b[tx.from] < tx.amount)
      BY <1>2 DEF ApplyToBalances
    <2>2. QED
      BY <1>1, <2>1 DEF Bal
  <1>6. /\ paid \in Bal
        /\ paid[x] = IF tx.from = x THEN b[x] - tx.amount ELSE b[x]
        /\ tx.from = x => b[x] >= tx.amount
    <2>1. CASE IsSystem(tx)
      BY <1>1, <1>3, <2>1
    <2>2. CASE ~IsSystem(tx)
      BY <1>1, <1>3, <1>5, <2>2 DEF Bal
    <2>3. QED
      BY <2>1, <2>2
  <1>7. Credit(paid, tx.to, tx.amount)[x]
           = IF tx.to = x THEN Capped(paid[x] + tx.amount) ELSE paid[x]
    BY <1>1, <1>6 DEF Credit, Bal, Capped
  <1>8. QED
    BY <1>4, <1>6, <1>7

\* What applying u to b says of the balance of x, as long as nothing saturates
\* and u has no system transaction in the name of x.
Balanced(u, a, b, x) ==
    LET r == ApplyAllToBalances(u, a, b)
    IN  NoPayload(u) /\ r.ok /\ ~SystemFrom(u, x) /\ b[x] + Flow(u, x, "in") < MaxU64
          => r.bal[x] + Flow(u, x, "out") = b[x] + Flow(u, x, "in")

LEMMA BalancedAppend ==
    ASSUME NEW u \in Seq(Txs), NEW tx \in Txs, NEW a, NEW b \in Bal, NEW x \in Address,
           Balanced(u, a, b, x)
    PROVE  Balanced(Append(u, tx), a, b, x)
  <1>1. PICK w : w = Append(u, tx)
    OBVIOUS
  <1>2. PICK r, q : r = ApplyAllToBalances(u, a, b) /\ q = ApplyAllToBalances(w, a, b)
    OBVIOUS
  <1>3. q = IF r.ok THEN ApplyToBalances(tx, a, r.bal) ELSE r
    BY <1>1, <1>2, AppliedAppend
  <1> SUFFICES ASSUME NoPayload(w), q.ok, ~SystemFrom(w, x), b[x] + Flow(w, x, "in") < MaxU64
               PROVE  q.bal[x] + Flow(w, x, "out") = b[x] + Flow(w, x, "in")
    BY <1>1, <1>2 DEF Balanced
  <1>4. r.ok /\ q = ApplyToBalances(tx, a, r.bal)
    BY <1>3
  <1>5. NoPayload(u) /\ ~HasPayload(tx)
    <2>1. \A i \in DOMAIN u : i \in DOMAIN w /\ w[i] = u[i]
      BY <1>1
    <2>2. Len(u) + 1 \in DOMAIN w /\ w[Len(u) + 1] = tx
      BY <1>1
    <2>3. QED
      BY <2>1, <2>2 DEF NoPayload
  <1>6. ~SystemFrom(u, x) /\ (tx.from = x => ~IsSystem(tx))
    <2>1. ToSet(w) = ToSet(u) \cup {tx}
      BY <1>1, ToSetAppend
    <2>2. QED
      BY <2>1 DEF SystemFrom
  <1>7. r.bal \in Bal
    <2>1. u \in Block
      BY AcceptedFacts DEF Accepted
    <2>2. QED
      BY <1>2, <2>1, BlockMoney
  <1>8. Flow(w, x, "in") = IF tx.to = x THEN Capped(Flow(u, x, "in") + tx.amount)
                           ELSE Flow(u, x, "in")
    <2>1. Listed(tx, x, "in") <=> tx.to = x
      BY DEF Listed
    <2>2. QED
      BY <1>1, <2>1, FlowAppend
  <1>9. Flow(w, x, "out") = IF tx.from = x THEN Capped(Flow(u, x, "out") + tx.amount)
                            ELSE Flow(u, x, "out")
    <2>1. Listed(tx, x, "out") <=> tx.from = x
      BY DEF Listed
    <2>2. QED
      BY <1>1, <2>1, FlowAppend
  <1>10. PICK c, i, o, bx, k, m : /\ c = r.bal[x] /\ i = Flow(u, x, "in") /\ o = Flow(u, x, "out")
                                  /\ bx = b[x] /\ k = tx.amount /\ m = MaxU64
    OBVIOUS
  <1>11. /\ c \in Nat /\ i \in Nat /\ o \in Nat /\ bx \in Nat /\ k \in Nat /\ m \in Nat
         /\ i <= m /\ o <= m
    BY <1>7, <1>10, FlowType, TxFacts, ChainAssumption DEF Bal
  <1>12. PICK j, p : j = Flow(w, x, "in") /\ p = Flow(w, x, "out")
    OBVIOUS
  <1>13. \A z : Capped(z) = IF z > m THEN m ELSE z
    BY <1>10 DEF Capped
  <1>14. /\ j = IF tx.to = x THEN Capped(i + k) ELSE i
         /\ p = IF tx.from = x THEN Capped(o + k) ELSE o
         /\ bx + j < m
    BY <1>8, <1>9, <1>10, <1>12
  <1>15. bx + i < m
    BY <1>11, <1>13, <1>14
  <1>16. c + o = bx + i
    BY <1>2, <1>4, <1>5, <1>6, <1>10, <1>15 DEF Balanced
  <1>17. /\ tx.from = x => c >= k
         /\ q.bal[x] = IF tx.to = x
                         THEN Capped((IF tx.from = x THEN c - k ELSE c) + k)
                         ELSE IF tx.from = x THEN c - k ELSE c
    BY <1>4, <1>5, <1>6, <1>7, <1>10, AppliedPlain
  <1>18. q.bal[x] + p = bx + j
    <2>1. CASE tx.to = x /\ tx.from = x
      BY <1>11, <1>13, <1>14, <1>16, <1>17, <2>1
    <2>2. CASE tx.to = x /\ tx.from # x
      BY <1>11, <1>13, <1>14, <1>16, <1>17, <2>2
    <2>3. CASE tx.to # x /\ tx.from = x
      BY <1>11, <1>13, <1>14, <1>16, <1>17, <2>3
    <2>4. CASE tx.to # x /\ tx.from # x
      BY <1>11, <1>13, <1>14, <1>16, <1>17, <2>4
    <2>5. QED
      BY <2>1, <2>2, <2>3, <2>4
  <1>19. QED
    BY <1>10, <1>12, <1>18

\* Applying a list of plain transactions leaves what was there and came in,
\* without what went out.
LEMMA FlowsExplainBalances ==
    ASSUME NEW txs \in Seq(Txs), NEW a, NEW b \in Bal, NEW x \in Address
    PROVE  Balanced(txs, a, b, x)
  <1> DEFINE T == {u \in Seq(Txs) : Balanced(u, a, b, x)}
  <1>1. << >> \in T
    <2>1. PICK none : none = << >>
      OBVIOUS
    <2>2. none \in Seq(Txs)
      BY <2>1
    <2>3. ApplyAllToBalances(none, a, b).bal = b
      BY <2>1, AppliedNone
    <2>4. \A d : Flow(none, x, d) = 0
      BY <2>1, FlowEmpty
    <2>5. Balanced(none, a, b, x)
      BY <2>3, <2>4 DEF Balanced
    <2>6. QED
      BY <2>1, <2>2, <2>5
  <1>2. ASSUME NEW u \in Seq(Txs), NEW tx \in Txs, u \in T
        PROVE  Append(u, tx) \in T
    <2>1. Append(u, tx) \in Seq(Txs)
      OBVIOUS
    <2>2. QED
      BY <1>2, <2>1, BalancedAppend
  <1>3. txs \in T
    <2> HIDE DEF T
    <2>1. QED
      BY <1>1, <1>2, SequenceInduction
  <1>4. QED
    BY <1>3

\* f joins the blocks one by one.
JoinedBy(f, S, blocks) ==
    /\ f \in [0..Len(blocks) -> Seq(S)]
    /\ Joined(blocks) = f[Len(blocks)]
    /\ f[0] = << >>
    /\ \A h \in 1..Len(blocks) : f[h] = f[h - 1] \o blocks[h]

LEMMA JoinedRun ==
    ASSUME NEW S, NEW blocks, blocks \in Seq(Seq(S))
    PROVE  \E f : JoinedBy(f, S, blocks)
  <1>0. PICK n : n = Len(blocks)
    OBVIOUS
  <1> DEFINE Zero == << >>
  <1> DEFINE Join(s, block) == s \o block
  <1> DEFINE IsJoined(f) == f = [h \in 0..n |-> IF h = 0 THEN Zero ELSE Join(f[h - 1], blocks[h])]
  <1>1. PICK f : f = CHOOSE g : IsJoined(g)
    OBVIOUS
  <1>2. Joined(blocks) = f[n]
    BY <1>0, <1>1, Zenon DEF Joined
  <1>3. n \in Nat /\ \A h \in 1..n : blocks[h] \in Seq(S)
    BY <1>0
  <1>4. Zero \in Seq(S)
    OBVIOUS
  <1>5. ASSUME NEW s \in Seq(S), NEW block \in Seq(S)
        PROVE  Join(s, block) \in Seq(S)
    OBVIOUS
  <1> HIDE DEF Zero, Join
  <1>6. \E g \in [0..n -> Seq(S)] : IsJoined(g)
    <2>1. PICK step : step = [h \in 1..n |-> [s \in Seq(S) |-> Join(s, blocks[h])]]
      OBVIOUS
    <2>2. PICK D : D = Seq(S)
      OBVIOUS
    <2>3. PICK g \in [0..n -> Seq(S)] : RunsFrom(g, Zero, step, n)
      <3>1. Zero \in D /\ n \in Nat
        BY <1>3, <1>4, <2>2
      <3>2. \A h \in 1..n : \A d \in D : step[h][d] \in D
        BY <1>3, <1>5, <2>1, <2>2
      <3>3. \E g : g \in [0..n -> D] /\ RunsFrom(g, Zero, step, n)
        BY <3>1, <3>2, RunExists
      <3>4. QED
        BY <2>2, <3>3, Zenon
    <2>4. \A h \in 1..n : g[h] = Join(g[h - 1], blocks[h])
      <3> SUFFICES ASSUME NEW h \in 1..n
                   PROVE  g[h] = Join(g[h - 1], blocks[h])
        OBVIOUS
      <3>1. h - 1 \in 0..n
        BY <1>3
      <3>2. g[h - 1] \in Seq(S)
        BY <3>1
      <3>3. QED
        BY <2>1, <2>3, <3>2 DEF RunsFrom
    <2>5. IsJoined(g)
      BY <1>3, <2>3, <2>4 DEF RunsFrom
    <2>6. QED
      BY <2>5
  <1>7. IsJoined(f)
    BY <1>1, <1>6
  <1>8. f[0] = Zero /\ \A h \in 1..n : f[h] = Join(f[h - 1], blocks[h])
    BY <1>3, <1>7
  <1>9. f \in [0..n -> Seq(S)]
    <2>1. ASSUME NEW h \in 1..n, f[h - 1] \in Seq(S)
          PROVE  f[h] \in Seq(S)
      BY <1>3, <1>5, <1>8, <2>1
    <2>2. f[0] \in Seq(S)
      BY <1>4, <1>8
    <2>3. PICK D : D = Seq(S)
      OBVIOUS
    <2>4. \A h \in 0..n : f[h] \in D
      BY <1>3, <2>1, <2>2, <2>3, RunStays
    <2>5. QED
      BY <1>7, <2>3, <2>4
  <1>10. JoinedBy(f, S, blocks)
    BY <1>0, <1>2, <1>8, <1>9, Zenon DEF JoinedBy, Zero, Join
  <1>11. QED
    BY <1>10

LEMMA JoinedType ==
    ASSUME NEW S, NEW blocks \in Seq(Seq(S))
    PROVE  Joined(blocks) \in Seq(S)
  <1>1. PICK n : n = Len(blocks)
    OBVIOUS
  <1>2. n \in 0..n
    BY <1>1
  <1>3. PICK f : JoinedBy(f, S, blocks)
    BY JoinedRun
  <1>4. f \in [0..n -> Seq(S)] /\ Joined(blocks) = f[n]
    BY <1>1, <1>3, Zenon DEF JoinedBy
  <1>5. QED
    BY <1>2, <1>4

LEMMA JoinedNone == Joined(<< >>) = << >>
  <1>1. PICK blocks : blocks = << >>
    OBVIOUS
  <1>2. blocks \in Seq(Seq(Txs)) /\ Len(blocks) = 0
    BY <1>1
  <1>3. PICK f : JoinedBy(f, Txs, blocks)
    BY <1>2, JoinedRun
  <1>4. QED
    BY <1>1, <1>2, <1>3, Zenon DEF JoinedBy

LEMMA JoinedAppend ==
    ASSUME NEW S, NEW blocks \in Seq(Seq(S)), NEW block \in Seq(S)
    PROVE  Joined(Append(blocks, block)) = Joined(blocks) \o block
  <1>1. PICK more : more = Append(blocks, block)
    OBVIOUS
  <1>2. PICK n : n = Len(blocks)
    OBVIOUS
  <1>3. /\ more \in Seq(Seq(S)) /\ Len(more) = n + 1 /\ n \in Nat
        /\ more[n + 1] = block /\ \A h \in 1..n : more[h] = blocks[h]
    BY <1>1, <1>2
  <1>4. PICK f : JoinedBy(f, S, blocks)
    BY JoinedRun
  <1>5. PICK m : m = n + 1
    OBVIOUS
  <1>6. m = Len(more)
    BY <1>3, <1>5
  <1>7. PICK g : JoinedBy(g, S, more)
    BY <1>3, JoinedRun
  <1>8. f[0] = g[0]
    BY <1>4, <1>7, Zenon DEF JoinedBy
  <1>9. ASSUME NEW h \in 1..n, f[h - 1] = g[h - 1]
        PROVE  f[h] = g[h]
    <2>1. h \in 1..m /\ more[h] = blocks[h]
      BY <1>3, <1>5
    <2>2. QED
      BY <1>2, <1>4, <1>6, <1>7, <1>9, <2>1, Zenon DEF JoinedBy
  <1>10. f[n] = g[n]
    BY <1>3, <1>8, <1>9, RunsAgree
  <1>11. m \in 1..m /\ m - 1 = n /\ more[m] = block
    BY <1>3, <1>5
  <1>12. g[m] = g[m - 1] \o more[m]
    BY <1>6, <1>7, <1>11, Zenon DEF JoinedBy
  <1>13. Joined(blocks) = f[n] /\ Joined(more) = g[m]
    BY <1>2, <1>4, <1>6, <1>7, Zenon DEF JoinedBy
  <1>14. QED
    BY <1>1, <1>10, <1>11, <1>12, <1>13, Zenon

\* What came in for x on blocks is what went out and what is left.
Explained(blocks, a, x) ==
    LET all == Joined(blocks)
    IN  ~SystemFrom(all, x) /\ Flow(all, x, "in") < MaxU64 =>
            BalancesOf(blocks, a)[x] + Flow(all, x, "out") = Flow(all, x, "in")

LEMMA ToSetConcat ==
    ASSUME NEW S, NEW s \in Seq(S), NEW t \in Seq(S)
    PROVE  ToSet(s) \subseteq ToSet(s \o t) /\ ToSet(t) \subseteq ToSet(s \o t)
  <1>1. PICK u, n, k : u = s \o t /\ n = Len(s) /\ k = Len(t)
    OBVIOUS
  <1>2. /\ n \in Nat /\ k \in Nat /\ DOMAIN s = 1..n /\ DOMAIN t = 1..k /\ DOMAIN u = 1..(n + k)
        /\ \A i \in 1..n : u[i] = s[i]
        /\ \A i \in 1..k : u[n + i] = t[i]
    BY <1>1
  <1>3. \A i \in 1..n : i \in DOMAIN u
    BY <1>2
  <1>4. \A i \in 1..k : n + i \in DOMAIN u
    BY <1>2
  <1>5. ToSet(s) \subseteq ToSet(u)
    BY <1>2, <1>3 DEF ToSet
  <1>6. ToSet(t) \subseteq ToSet(u)
    <2> SUFFICES ASSUME NEW i \in 1..k
                 PROVE  t[i] \in ToSet(u)
      BY <1>2 DEF ToSet
    <2>1. n + i \in DOMAIN u /\ u[n + i] = t[i]
      BY <1>2, <1>4
    <2>2. QED
      BY <2>1 DEF ToSet
  <1>7. QED
    BY <1>1, <1>5, <1>6

LEMMA ExplainedAppend ==
    ASSUME NEW blocks \in Seq(Accepted), NEW block \in Accepted, NoPayload(block),
           NEW a, NEW x \in Address, Explained(blocks, a, x),
           ApplyAllToBalances(block, a, BalancesOf(blocks, a)).ok
    PROVE  Explained(Append(blocks, block), a, x)
  <1>1. PICK j, b, w : /\ j = Joined(blocks) /\ b = BalancesOf(blocks, a)
                       /\ w = ApplyAllToBalances(block, a, b)
    OBVIOUS
  <1>2. blocks \in Seq(Seq(Txs)) /\ blocks \in Seq(Block) /\ block \in Seq(Txs) /\ block \in Block
    BY AcceptedFacts
  <1>3. j \in Seq(Txs) /\ b \in Bal /\ w.bal \in Bal
    BY <1>1, <1>2, JoinedType, ChainMoney, BlockMoney
  <1>4. PICK all : all = j \o block
    OBVIOUS
  <1>5. /\ Joined(Append(blocks, block)) = all
        /\ BalancesOf(Append(blocks, block), a) = w.bal
    BY <1>1, <1>2, <1>4, JoinedAppend, BalancesAppend
  <1> SUFFICES ASSUME ~SystemFrom(all, x), Flow(all, x, "in") < MaxU64
               PROVE  w.bal[x] + Flow(all, x, "out") = Flow(all, x, "in")
    BY <1>5 DEF Explained
  <1>6. ~SystemFrom(j, x) /\ ~SystemFrom(block, x)
    BY <1>2, <1>3, <1>4, ToSetConcat DEF SystemFrom
  <1>7. PICK ji, jo, bi, bo, bx, wx, fi, fo :
            /\ ji = Flow(j, x, "in") /\ jo = Flow(j, x, "out")
            /\ bi = Flow(block, x, "in") /\ bo = Flow(block, x, "out")
            /\ bx = b[x] /\ wx = w.bal[x]
            /\ fi = Flow(all, x, "in") /\ fo = Flow(all, x, "out")
    OBVIOUS
  <1>8. /\ ji \in Nat /\ jo \in Nat /\ bi \in Nat /\ bo \in Nat /\ bx \in Nat /\ wx \in Nat
        /\ MaxU64 \in Nat
    BY <1>2, <1>3, <1>7, FlowType, ChainAssumption DEF Bal
  <1>9. fi = Capped(ji + bi) /\ fo = Capped(jo + bo)
    BY <1>2, <1>3, <1>4, <1>7, FlowConcat
  <1>10. ji + bi < MaxU64 /\ fi = ji + bi
    BY <1>7, <1>8, <1>9 DEF Capped
  <1>11. bx + jo = ji
    <2>1. ji < MaxU64
      BY <1>8, <1>10
    <2>2. QED
      BY <1>1, <1>6, <1>7, <2>1 DEF Explained
  <1>12. wx + bo = bx + bi
    <2>1. bx + bi < MaxU64
      BY <1>8, <1>10, <1>11
    <2>2. Balanced(block, a, b, x)
      BY <1>2, <1>3, FlowsExplainBalances
    <2>3. QED
      BY <1>1, <1>6, <1>7, <2>1, <2>2 DEF Balanced
  <1>13. fo = jo + bo
    BY <1>8, <1>9, <1>10, <1>11, <1>12 DEF Capped
  <1>14. wx + fo = fi
    BY <1>8, <1>10, <1>11, <1>12, <1>13
  <1>15. QED
    BY <1>7, <1>14

LEMMA PlainSameExplained ==
    ASSUME NEW blocks \in Seq(Block), Plain(blocks), NEW a, NEW c,
           NEW x, Explained(blocks, a, x)
    PROVE  Explained(blocks, c, x)
  <1>1. SubSeq(blocks, 1, Len(blocks)) = blocks /\ Len(blocks) \in 0..Len(blocks)
    BY WholeSubSeq
  <1>2. BalancesOf(blocks, a) = BalancesOf(blocks, c)
    BY <1>1, PlainSameBalances
  <1>3. QED
    BY <1>2 DEF Explained

\* On a chain of plain transfers and whatever its blocks mint, the amounts a
\* summary reports of an address explain its balance, and its pending amounts the
\* balance the pool leads to: until what came in reaches the largest u64, and for
\* addresses that no system transaction names as its sender.
THEOREM SummaryExplainsBalance == Spec => []SummaryReconciles
  <1> DEFINE Inv == Plain(chain) => \A x \in Address : Explained(chain, app, x)
  <1>1. Init => Inv
    <2>1. PICK none : none = << >>
      OBVIOUS
    <2>2. Joined(none) = none /\ \A x, d : Flow(none, x, d) = 0
      BY <2>1, JoinedNone, FlowEmpty, Zenon
    <2>3. BalancesOf(none, app) = NoMoney
      BY <2>1, BalancesNone
    <2>4. \A x \in Address : Explained(none, app, x)
      BY <2>2, <2>3 DEF Explained, NoMoney
    <2>5. QED
      BY <2>1, <2>4 DEF Init
  <1>2. ASSUME ChainInv, Inv, [Next]_vars
        PROVE  Inv'
    <2>0. chain \in Seq(Block) /\ chain \in Seq(Accepted)
      BY <1>2, AcceptedFacts DEF ChainInv
    <2>1. CASE UNCHANGED vars
      BY <1>2, <2>1 DEF vars
    <2>2. CASE \E tx \in AnyTx : AddTransaction(tx)
      BY <1>2, <2>2 DEF AddTransaction
    <2>3. ASSUME NEW block, Commits(block)
          PROVE  Plain(chain') => \A x \in Address : Explained(chain', app', x)
      <3> SUFFICES ASSUME Plain(chain'), NEW x \in Address
                   PROVE  Explained(chain', app', x)
        OBVIOUS
      <3>1. CASE chain' = chain
        BY <1>2, <2>0, <3>1, PlainSameExplained
      <3>2. CASE chain' = Append(chain, block)
        <4>1. PICK t : t = Append(chain, block)
          OBVIOUS
        <4>2. block \in Block /\ block \in Accepted /\ t \in Seq(Block) /\ Plain(t)
          <5>1. block \in Block /\ block \in Accepted
            BY <2>3, AcceptedFacts DEF Commits
          <5>2. QED
            BY <2>0, <3>2, <4>1, <5>1
        <4>3. Plain(chain)
          BY <2>0, <4>1, <4>2, PlainPrefix
        <4>4. NoPayload(block)
          <5>1. Len(chain) + 1 \in DOMAIN t /\ t[Len(chain) + 1] = block
            BY <2>0, <4>1, <4>2
          <5>2. QED
            BY <4>2, <5>1 DEF Plain, NoPayload
        <4>5. ApplyAllToBalances(block, app, BalancesOf(chain, app)).ok
          BY <2>3 DEF Commits, Balances
        <4>6. Explained(t, app, x)
          BY <1>2, <2>0, <4>1, <4>2, <4>3, <4>4, <4>5, ExplainedAppend
        <4>7. Explained(t, app', x)
          BY <4>2, <4>6, PlainSameExplained
        <4>8. QED
          BY <3>2, <4>1, <4>7
      <3>3. QED
        BY <2>3, <3>1, <3>2, CommitEffect
    <2>4. QED
      BY <1>2, <2>1, <2>2, <2>3, StepKinds
  <1>3. ASSUME ChainInv, Inv
        PROVE  SummaryReconciles
    <2>1. /\ chain \in Seq(Seq(Txs)) /\ chain \in Seq(Block)
          /\ pending \in Seq(Txs) /\ \A i \in DOMAIN pending : ~IsSystem(pending[i])
      <3>1. chain \in Seq(Seq(Txs)) /\ chain \in Seq(Block) /\ pending \in Seq(Txs)
        BY <1>3, AcceptedFacts DEF ChainInv
      <3>2. \A i \in DOMAIN pending : ~IsSystem(pending[i])
        BY <1>3 DEF ChainInv, Poolable
      <3>3. QED
        BY <3>1, <3>2
    <2>2. PICK j, b, q : /\ j = Joined(chain) /\ b = Balances
                         /\ q = ApplyAllToBalances(pending, app, b)
      OBVIOUS
    <2>3. j \in Seq(Txs) /\ b \in Bal /\ b = BalancesOf(chain, app)
      BY <2>1, <2>2, JoinedType, ChainMoney DEF Balances
    <2>4. \A x : /\ Summary(chain, pending, x).in = Flow(j, x, "in")
                 /\ Summary(chain, pending, x).out = Flow(j, x, "out")
                 /\ Summary(chain, pending, x).pendingIn = Flow(pending, x, "in")
                 /\ Summary(chain, pending, x).pendingOut = Flow(pending, x, "out")
      BY <2>2 DEF Summary, Flow
    <2> SUFFICES ASSUME PayloadFree, NEW x \in Address, ~SystemFrom(j, x),
                        Flow(j, x, "in") + Flow(pending, x, "in") < MaxU64
                 PROVE  /\ b[x] + Flow(j, x, "out") = Flow(j, x, "in")
                        /\ q.ok /\ NoPayload(pending)
                              => q.bal[x] = b[x] + Flow(pending, x, "in") - Flow(pending, x, "out")
      BY <2>2, <2>4 DEF SummaryReconciles, NoPayload, SystemSends, SystemFrom
    <2>5. PICK ji, jo, pi, po, bx : /\ ji = Flow(j, x, "in") /\ jo = Flow(j, x, "out")
                                    /\ pi = Flow(pending, x, "in") /\ po = Flow(pending, x, "out")
                                    /\ bx = b[x]
      OBVIOUS
    <2>6. /\ ji \in Nat /\ jo \in Nat /\ pi \in Nat /\ po \in Nat /\ bx \in Nat
          /\ MaxU64 \in Nat /\ ji + pi < MaxU64
      BY <2>1, <2>3, <2>5, FlowType, ChainAssumption DEF Bal
    <2>7. bx + jo = ji
      <3>1. Explained(chain, app, x)
        BY <1>3 DEF PayloadFree, Plain
      <3>2. ji < MaxU64
        BY <2>6
      <3>3. QED
        BY <2>2, <2>3, <2>5, <3>1, <3>2 DEF Explained
    <2>8. ASSUME q.ok, NoPayload(pending)
          PROVE  q.bal[x] = bx + pi - po
      <3>1. Balanced(pending, app, b, x)
        BY <2>1, <2>3, FlowsExplainBalances
      <3>2. ~SystemFrom(pending, x)
        BY <2>1 DEF SystemFrom, ToSet
      <3>3. bx + pi < MaxU64
        BY <2>6, <2>7
      <3>4. q.bal[x] + po = bx + pi
        BY <2>2, <2>5, <2>8, <3>1, <3>2, <3>3 DEF Balanced
      <3>5. q.bal[x] \in Nat
        <4>1. pending \in Block
          BY <2>1, AcceptedFacts DEF Accepted
        <4>2. q.bal \in Bal
          BY <2>2, <2>3, <4>1, BlockMoney
        <4>3. QED
          BY <4>2 DEF Bal
      <3>6. PICK y : y = q.bal[x]
        OBVIOUS
      <3>7. y \in Nat /\ y + po = bx + pi
        BY <3>4, <3>5, <3>6
      <3>8. y = bx + pi - po
        BY <2>6, <3>7
      <3>9. QED
        BY <3>6, <3>8
    <2>9. QED
      BY <2>5, <2>7, <2>8
  <1>4. QED
    BY <1>1, <1>2, <1>3, ChainInvHolds, PTL DEF Spec
=============================================================================
