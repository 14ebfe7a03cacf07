--------------------------- MODULE LendingProofs ----------------------------
(***************************************************************************)
(* The properties of LendingPool for any owners, parameters, amounts and   *)
(* timestamps.  Every operation charges interest (Accrues says what that   *)
(* does) and then moves one position (Effect); the invariants follow from  *)
(* these two.  The totals are sums over the positions, so they also need   *)
(* what Sums proves about sums.                                            *)
(***************************************************************************)
EXTENDS LendingPool, Sums

U64 == 0..MaxU64

Old(p, o) == IF o \in DOMAIN p.pos THEN p.pos[o] ELSE [col |-> 0, debt |-> 0, ratio |-> MaxU64]

Fresh(p) == \A x \in DOMAIN p.pos : p.pos[x].ratio = Ratio(p.pos[x].col, p.pos[x].debt)

Cols(p) == [o \in DOMAIN p.pos |-> p.pos[o].col]
Debts(p) == [o \in DOMAIN p.pos |-> p.pos[o].debt]

Finite(p) == IsFiniteSet(DOMAIN p.pos)

Balanced(p) == p.totalCol = SumFunction(Cols(p)) /\ p.totalDebt = SumFunction(Debts(p))

-----------------------------------------------------------------------------
(* Arithmetic *)

LEMMA DivType == ASSUME NEW a \in Nat, NEW b \in Nat \ {0} PROVE a \div b \in Nat
  OBVIOUS

LEMMA DivMonotone ==
    ASSUME NEW a \in Nat, NEW b \in Nat, NEW c \in Nat \ {0}, NEW d \in Nat \ {0},
           a <= b, d <= c
    PROVE  a \div c <= b \div d
  OBVIOUS

LEMMA MulMonotone ==
    ASSUME NEW a \in Nat, NEW b \in Nat, NEW c \in Nat, a <= b
    PROVE  a * c <= b * c /\ a * c \in Nat
  OBVIOUS

LEMMA WrapType ==
    ASSUME NEW n \in Nat
    PROVE  Wrap(n) \in U64 /\ Wrap(n) <= n /\ (n <= MaxU64 => Wrap(n) = n)
  BY LendingAssumption DEF Wrap, U64

LEMMA RatioType ==
    ASSUME NEW col \in U64, NEW debt \in U64
    PROVE  Ratio(col, debt) \in U64
  <1>1. CASE debt = 0
    BY <1>1, LendingAssumption DEF Ratio, U64
  <1>2. CASE debt # 0
    <2>1. (col * BPS) \div debt \in Nat
      BY <1>2, LendingAssumption, DivType, MulMonotone DEF U64
    <2> QED
      BY <1>2, <2>1, WrapType DEF Ratio
  <1> QED
    BY <1>1, <1>2

-----------------------------------------------------------------------------
(* Pools *)

LEMMA PoolFields ==
    ASSUME NEW p, IsPool(p)
    PROVE  /\ p = [pos |-> p.pos, totalCol |-> p.totalCol,
                   totalDebt |-> p.totalDebt, last |-> p.last]
           /\ p.totalCol \in U64 /\ p.totalDebt \in U64 /\ p.last \in Nat
           /\ p.pos = [x \in DOMAIN p.pos |-> p.pos[x]]
           /\ \A x \in DOMAIN p.pos :
                 /\ x \in Owners
                 /\ p.pos[x] = [col |-> p.pos[x].col, debt |-> p.pos[x].debt,
                                ratio |-> p.pos[x].ratio]
                 /\ p.pos[x].col \in U64 /\ p.pos[x].debt \in U64 /\ p.pos[x].ratio \in U64
  BY DEF IsPool, Position, U64

LEMMA MakePool ==
    ASSUME NEW pos, DOMAIN pos \subseteq Owners, pos \in [DOMAIN pos -> Position],
           NEW tc \in U64, NEW td \in U64, NEW last \in Nat
    PROVE  IsPool([pos |-> pos, totalCol |-> tc, totalDebt |-> td, last |-> last])
  BY DEF IsPool, U64

LEMMA OldType ==
    ASSUME NEW p, IsPool(p), NEW o
    PROVE  /\ Old(p, o).col \in U64 /\ Old(p, o).debt \in U64 /\ Old(p, o).ratio \in U64
           /\ Old(p, o) \in Position
  <1>1. CASE o \in DOMAIN p.pos
    <2>1. p.pos[o] \in Position
      BY <1>1 DEF IsPool
    <2> QED
      BY <1>1, <2>1 DEF Old, U64, Position
  <1>2. CASE o \notin DOMAIN p.pos
    BY <1>2, LendingAssumption DEF Old, U64, Position
  <1> QED
    BY <1>1, <1>2

LEMMA HoldingType ==
    ASSUME NEW p, IsPool(p), NEW o \in Owners, NEW c \in U64, NEW d \in U64
    PROVE  /\ Holding(p, o, c, d) \in [DOMAIN p.pos \cup {o} -> Position]
           /\ DOMAIN Holding(p, o, c, d) = DOMAIN p.pos \cup {o}
           /\ DOMAIN p.pos \cup {o} \subseteq Owners
           /\ Holding(p, o, c, d)[o] = [col |-> c, debt |-> d, ratio |-> Ratio(c, d)]
           /\ \A x \in DOMAIN p.pos \ {o} : Holding(p, o, c, d)[x] = p.pos[x]
  <1>1. Ratio(c, d) \in U64
    BY RatioType
  <1> QED
    BY <1>1, PoolFields DEF Holding, Position, U64, IsPool

-----------------------------------------------------------------------------
(* What one operation does to the pool *)

\* The position of o is made anew and the totals follow it.
Moved(p, q, o, c, d) ==
    /\ q = [pos |-> Holding(p, o, c, d), totalCol |-> q.totalCol,
            totalDebt |-> q.totalDebt, last |-> p.last]
    /\ q.totalCol + Old(p, o).col = p.totalCol + c
    /\ q.totalDebt + Old(p, o).debt = p.totalDebt + d

\* A healthy position is not made unhealthy.
Prudent(p, o, c, d) ==
    \/ d = 0 \/ Ratio(c, d) >= MinRatio
    \/ c >= Old(p, o).col /\ d <= Old(p, o).debt
    \/ Old(p, o).debt > 0 /\ Old(p, o).ratio < MinRatio

Effect(a, r, o) ==
    /\ IsPool(r.pool) /\ r.pool.last = a.pool.last
    /\ DOMAIN r.pool.pos \subseteq DOMAIN a.pool.pos \cup {o}
    /\ r.err \in Errors \cup {"ok"}
    /\ r.err = "ok" => /\ a.err = "ok"
                       /\ \E c, d \in U64 : Moved(a.pool, r.pool, o, c, d) /\ Prudent(a.pool, o, c, d)
    /\ r.err \notin {"ok", "Overflow"} => r.pool = a.pool /\ (a.err = "ok" \/ r = a)

\* What an accrual starts an operation with.
Started(a) == /\ IsPool(a.pool) /\ a = Result(a.err, a.pool)
              /\ a.err \in {"ok", "TimeRewind", "Overflow"}

LEMMA RatioOfMore ==
    ASSUME NEW c1 \in U64, NEW c2 \in U64, NEW d1 \in U64, NEW d2 \in U64,
           c1 <= c2, d2 <= d1, d2 > 0, Ratio(c1, d1) >= MinRatio,
           (c2 * BPS) \div d2 <= MaxU64
    PROVE  Ratio(c2, d2) >= MinRatio
  <1>1. /\ c1 * BPS \in Nat /\ c2 * BPS \in Nat /\ c1 * BPS <= c2 * BPS
        /\ d1 \in Nat \ {0} /\ d2 \in Nat \ {0}
    BY MulMonotone, LendingAssumption DEF U64
  <1>2. (c1 * BPS) \div d1 \in Nat /\ (c2 * BPS) \div d2 \in Nat
    BY <1>1, DivType
  <1>3. (c1 * BPS) \div d1 <= (c2 * BPS) \div d2
    BY <1>1, DivMonotone
  <1>4. /\ Ratio(c1, d1) = Wrap((c1 * BPS) \div d1)
        /\ Ratio(c2, d2) = Wrap((c2 * BPS) \div d2)
    BY <1>1 DEF Ratio
  <1>5. /\ Wrap((c1 * BPS) \div d1) <= (c1 * BPS) \div d1
        /\ Wrap((c2 * BPS) \div d2) = (c2 * BPS) \div d2
        /\ Wrap((c1 * BPS) \div d1) \in U64
    BY <1>2, WrapType
  <1> HIDE DEF Ratio
  <1> QED
    BY <1>2, <1>3, <1>4, <1>5, LendingAssumption DEF U64

LEMMA UpdatePos ==
    ASSUME NEW p, IsPool(p), NEW h
    PROVE  [p EXCEPT !.pos = h] =
                [pos |-> h, totalCol |-> p.totalCol, totalDebt |-> p.totalDebt, last |-> p.last]
  BY DEF IsPool

LEMMA UpdateLast ==
    ASSUME NEW p, IsPool(p), NEW now
    PROVE  [p EXCEPT !.last = now] =
                [pos |-> p.pos, totalCol |-> p.totalCol, totalDebt |-> p.totalDebt, last |-> now]
  BY DEF IsPool

LEMMA UpdateCol ==
    ASSUME NEW p, IsPool(p), NEW h, NEW c
    PROVE  [p EXCEPT !.pos = h, !.totalCol = c] =
                [pos |-> h, totalCol |-> c, totalDebt |-> p.totalDebt, last |-> p.last]
  <1> DEFINE of == [pos |-> h, totalCol |-> p.totalCol, totalDebt |-> p.totalDebt, last |-> p.last]
             then == [pos |-> h, totalCol |-> c, totalDebt |-> p.totalDebt, last |-> p.last]
  <1>1. [p EXCEPT !.pos = h] = of
    BY UpdatePos
  <1>2. [of EXCEPT !.totalCol = c] = then
    OBVIOUS
  <1>3. [p EXCEPT !.pos = h, !.totalCol = c] = then
    <2> HIDE DEF of, then
    <2> QED
      BY <1>1, <1>2
  <1> QED
    BY <1>3

LEMMA UpdateDebt ==
    ASSUME NEW p, IsPool(p), NEW h, NEW d
    PROVE  [p EXCEPT !.pos = h, !.totalDebt = d] =
                [pos |-> h, totalCol |-> p.totalCol, totalDebt |-> d, last |-> p.last]
  <1> DEFINE of == [pos |-> h, totalCol |-> p.totalCol, totalDebt |-> p.totalDebt, last |-> p.last]
             then == [pos |-> h, totalCol |-> p.totalCol, totalDebt |-> d, last |-> p.last]
  <1>1. [p EXCEPT !.pos = h] = of
    BY UpdatePos
  <1>2. [of EXCEPT !.totalDebt = d] = then
    OBVIOUS
  <1>3. [p EXCEPT !.pos = h, !.totalDebt = d] = then
    <2> HIDE DEF of, then
    <2> QED
      BY <1>1, <1>2
  <1> QED
    BY <1>3

LEMMA UpdateAccrued ==
    ASSUME NEW p, IsPool(p), NEW h, NEW d, NEW now
    PROVE  [p EXCEPT !.pos = h, !.totalDebt = d, !.last = now] =
                [pos |-> h, totalCol |-> p.totalCol, totalDebt |-> d, last |-> now]
  <1> DEFINE of == [pos |-> h, totalCol |-> p.totalCol, totalDebt |-> d, last |-> p.last]
             then == [pos |-> h, totalCol |-> p.totalCol, totalDebt |-> d, last |-> now]
  <1>1. [p EXCEPT !.pos = h, !.totalDebt = d] = of
    BY UpdateDebt
  <1>2. [of EXCEPT !.last = now] = then
    OBVIOUS
  <1>3. [p EXCEPT !.pos = h, !.totalDebt = d, !.last = now] = then
    <2> HIDE DEF of, then
    <2> QED
      BY <1>1, <1>2
  <1> QED
    BY <1>3

\* A position made anew and totals that fit make a pool.
LEMMA HeldPool ==
    ASSUME NEW p, IsPool(p), NEW o \in Owners, NEW c \in U64, NEW d \in U64,
           NEW tc \in U64, NEW td \in U64
    PROVE  IsPool([pos |-> Holding(p, o, c, d), totalCol |-> tc, totalDebt |-> td,
                   last |-> p.last])
  <1> DEFINE h == Holding(p, o, c, d)
  <1>1. h \in [DOMAIN h -> Position] /\ DOMAIN h \subseteq Owners
    <2>1. h \in [DOMAIN p.pos \cup {o} -> Position] /\ DOMAIN h = DOMAIN p.pos \cup {o}
      <3>1. Ratio(c, d) \in U64
        BY RatioType
      <3> QED
        BY <3>1 DEF Holding, Position, U64, IsPool
    <2>2. DOMAIN p.pos \cup {o} \subseteq Owners
      BY DEF IsPool
    <2> HIDE DEF h
    <2> QED
      BY <2>1, <2>2
  <1> HIDE DEF h
  <1> QED
    BY <1>1, MakePool, PoolFields DEF h

\* The three ways an operation ends.
LEMMA Succeeds ==
    ASSUME NEW p, IsPool(p), NEW o \in Owners, NEW c \in U64, NEW d \in U64,
           NEW tc \in U64, NEW td \in U64, Prudent(p, o, c, d),
           tc + Old(p, o).col = p.totalCol + c, td + Old(p, o).debt = p.totalDebt + d
    PROVE  Effect(Result("ok", p),
                  Result("ok", [pos |-> Holding(p, o, c, d), totalCol |-> tc,
                                totalDebt |-> td, last |-> p.last]), o)
  <1> DEFINE q == [pos |-> Holding(p, o, c, d), totalCol |-> tc, totalDebt |-> td, last |-> p.last]
  <1>1. IsPool(q) /\ q.last = p.last /\ DOMAIN q.pos \subseteq DOMAIN p.pos \cup {o}
    BY HeldPool DEF Holding
  <1>2. Moved(p, q, o, c, d)
    BY DEF Moved
  <1> HIDE DEF q
  <1>3. Effect(Result("ok", p), Result("ok", q), o)
    BY <1>1, <1>2 DEF Effect, Result, Errors
  <1> QED
    BY <1>3 DEF q

LEMMA Overflows ==
    ASSUME NEW a, NEW q, IsPool(q), q.last = a.pool.last, NEW o,
           DOMAIN q.pos \subseteq DOMAIN a.pool.pos \cup {o}
    PROVE  Effect(a, Result("Overflow", q), o)
  BY DEF Effect, Result, Errors

LEMMA OverflowsLate ==
    ASSUME NEW p, IsPool(p), NEW o \in Owners, NEW c \in U64, NEW d \in U64,
           NEW tc \in U64, NEW td \in U64
    PROVE  Effect(Result("ok", p),
                  Result("Overflow", [pos |-> Holding(p, o, c, d), totalCol |-> tc,
                                      totalDebt |-> td, last |-> p.last]), o)
  <1> DEFINE q == [pos |-> Holding(p, o, c, d), totalCol |-> tc, totalDebt |-> td, last |-> p.last]
  <1>1. IsPool(q) /\ q.last = p.last /\ DOMAIN q.pos \subseteq DOMAIN p.pos \cup {o}
    BY HeldPool DEF Holding
  <1> HIDE DEF q
  <1>2. Effect(Result("ok", p), Result("Overflow", q), o)
    BY <1>1, Overflows DEF Result
  <1> QED
    BY <1>2 DEF q

LEMMA Refuses ==
    ASSUME NEW a, Started(a), NEW o, NEW err \in Errors
    PROVE  /\ a.err = "ok" => Effect(a, Result(err, a.pool), o)
           /\ a.err # "ok" => Effect(a, a, o)
  BY DEF Effect, Result, Started, Errors

\* deposit_collateral may leave a position behind, and the sum of the first
\* checked addition, when it fails.
LEMMA DepositEffect ==
    ASSUME NEW p, IsPool(p), NEW o \in Owners, NEW amount \in U64
    PROVE  Effect(Result("ok", p), DepositCollateral(p, o, amount), o)
  <1> DEFINE old == Old(p, o)
             put(c) == [p EXCEPT !.pos = [x \in DOMAIN p.pos \cup {o} |->
                                             IF x = o THEN c ELSE p.pos[x]]]
             r == DepositCollateral(p, o, amount)
  <1>1. /\ old \in Position /\ old.col \in Nat /\ old.col <= MaxU64
        /\ old.debt \in U64 /\ p.totalCol \in Nat /\ p.totalCol <= MaxU64
        /\ p.totalDebt \in U64 /\ amount \in Nat /\ MaxU64 \in Nat
    <2> HIDE DEF old
    <2>1. old \in Position /\ old.col \in U64 /\ old.debt \in U64
      BY OldType DEF old
    <2>2. p.totalCol \in U64 /\ p.totalDebt \in U64
      BY PoolFields
    <2> QED
      BY <2>1, <2>2, LendingAssumption DEF U64
  <1>2. /\ old.col + amount > MaxU64 => r = Result("Overflow", put(old))
        /\ (old.col + amount <= MaxU64 /\ p.totalCol + amount > MaxU64)
             => r = Result("Overflow", put([old EXCEPT !.col = @ + amount]))
        /\ (old.col + amount <= MaxU64 /\ p.totalCol + amount <= MaxU64)
             => r = Result("ok", [p EXCEPT !.pos = Holding(p, o, old.col + amount, old.debt),
                                           !.totalCol = @ + amount])
    BY <1>1 DEF DepositCollateral, Old
  <1>3. ASSUME NEW c \in Position
        PROVE  IsPool(put(c)) /\ put(c).last = p.last
               /\ DOMAIN put(c).pos \subseteq DOMAIN p.pos \cup {o}
    <2> DEFINE h == [x \in DOMAIN p.pos \cup {o} |-> IF x = o THEN c ELSE p.pos[x]]
    <2>1. /\ h \in [DOMAIN h -> Position] /\ DOMAIN h \subseteq Owners
          /\ DOMAIN h = DOMAIN p.pos \cup {o}
      BY DEF IsPool
    <2>2. put(c) = [pos |-> h, totalCol |-> p.totalCol, totalDebt |-> p.totalDebt, last |-> p.last]
      BY UpdatePos
    <2> HIDE DEF h
    <2>3. IsPool([pos |-> h, totalCol |-> p.totalCol, totalDebt |-> p.totalDebt, last |-> p.last])
      BY <2>1, MakePool, PoolFields
    <2> QED
      BY <2>1, <2>2, <2>3
  <1>4. CASE old.col + amount > MaxU64
    <2> HIDE DEF put, old
    <2> QED
      BY <1>1, <1>2, <1>3, <1>4, Overflows DEF Result
  <1>5. CASE old.col + amount <= MaxU64 /\ p.totalCol + amount > MaxU64
    <2>1. [old EXCEPT !.col = @ + amount] \in Position
      BY <1>1, <1>5 DEF Position
    <2> HIDE DEF put, old
    <2> QED
      BY <1>2, <1>3, <1>5, <2>1, Overflows DEF Result
  <1>6. CASE old.col + amount <= MaxU64 /\ p.totalCol + amount <= MaxU64
    <2> DEFINE c == old.col + amount
               tc == p.totalCol + amount
    <2>1. c \in U64 /\ tc \in U64 /\ c >= old.col
      BY <1>1, <1>6 DEF U64
    <2>2. r = Result("ok", [pos |-> Holding(p, o, c, old.debt), totalCol |-> tc,
                            totalDebt |-> p.totalDebt, last |-> p.last])
      <3>1. [p EXCEPT !.pos = Holding(p, o, c, old.debt), !.totalCol = tc] =
                [pos |-> Holding(p, o, c, old.debt), totalCol |-> tc,
                 totalDebt |-> p.totalDebt, last |-> p.last]
        <4> HIDE DEF c, tc, old
        <4> QED
          BY UpdateCol
      <3> HIDE DEF r, old
      <3> QED
        BY <1>2, <1>6, <3>1
    <2>3. Prudent(p, o, c, old.debt)
      BY <1>1, <2>1 DEF Prudent, U64
    <2>4. tc + old.col = p.totalCol + c
      BY <1>1
    <2> HIDE DEF c, tc
    <2> QED
      BY <1>1, <2>1, <2>2, <2>3, <2>4, Succeeds
  <1> QED
    BY <1>1, <1>4, <1>5, <1>6

LEMMA Absent ==
    ASSUME NEW a, Started(a), NEW o, NEW amount, a.err # "ok" \/ o \notin DOMAIN a.pool.pos
    PROVE  /\ Effect(a, Borrow(a, o, amount), o) /\ Effect(a, Repay(a, o, amount), o)
           /\ Effect(a, WithdrawCollateral(a, o, amount), o)
           /\ Effect(a, Liquidate(a, o, amount), o)
  <1>1. CASE a.err # "ok"
    BY <1>1, Refuses DEF Borrow, Repay, WithdrawCollateral, Liquidate, Errors
  <1>2. CASE a.err = "ok" /\ o \notin DOMAIN a.pool.pos
    <2> DEFINE r == Result("PositionNotFound", a.pool)
    <2>1. /\ Borrow(a, o, amount) = r /\ Repay(a, o, amount) = r
          /\ WithdrawCollateral(a, o, amount) = r /\ Liquidate(a, o, amount) = r
      BY <1>2 DEF Borrow, Repay, WithdrawCollateral, Liquidate
    <2>2. Effect(a, r, o)
      BY <1>2, Refuses DEF Errors
    <2> QED
      BY <2>1, <2>2
  <1> QED
    BY <1>1, <1>2

\* The position an operation finds, after an accrual that succeeded.
LEMMA Present ==
    ASSUME NEW a, Started(a), NEW o \in Owners, a.err = "ok", o \in DOMAIN a.pool.pos
    PROVE  /\ IsPool(a.pool) /\ a = Result("ok", a.pool)
           /\ Old(a.pool, o) = a.pool.pos[o]
           /\ a.pool.pos[o].col \in U64 /\ a.pool.pos[o].debt \in U64 /\ a.pool.pos[o].ratio \in U64
           /\ a.pool.totalCol \in U64 /\ a.pool.totalDebt \in U64
  BY PoolFields DEF Started, Old

\* borrow looks at the ratio before it writes.
LEMMA BorrowEffect ==
    ASSUME NEW a, Started(a), NEW o \in Owners, NEW amount \in U64
    PROVE  Effect(a, Borrow(a, o, amount), o)
  <1>1. SUFFICES ASSUME a.err = "ok", o \in DOMAIN a.pool.pos
                 PROVE  Effect(a, Borrow(a, o, amount), o)
    BY Absent
  <1> DEFINE p == a.pool
             old == p.pos[o]
             debt == old.debt + amount
             td == p.totalDebt + amount
             held == Holding(p, o, old.col, debt)
  <1>2. /\ debt > MaxU64 => Borrow(a, o, amount) = Result("Overflow", p)
        /\ debt <= MaxU64 /\ Ratio(old.col, debt) < MinRatio
             => Borrow(a, o, amount) = Result("RatioTooLow", p)
        /\ debt <= MaxU64 /\ ~(Ratio(old.col, debt) < MinRatio) /\ td > MaxU64
             => Borrow(a, o, amount) = Result("Overflow", [p EXCEPT !.pos = held])
        /\ debt <= MaxU64 /\ ~(Ratio(old.col, debt) < MinRatio) /\ td <= MaxU64
             => Borrow(a, o, amount) = Result("ok", [p EXCEPT !.pos = held, !.totalDebt = td])
    <2>1. debt \in Nat /\ td \in Nat /\ MaxU64 \in Nat
      BY <1>1, Present, LendingAssumption DEF U64
    <2> QED
      BY <1>1, <2>1 DEF Borrow
  <1>3. /\ IsPool(p) /\ a = Result("ok", p) /\ a.pool = p /\ Old(p, o) = old
        /\ old.col \in U64 /\ old.debt \in U64 /\ p.totalCol \in U64 /\ p.totalDebt \in U64
    BY <1>1, Present
  <1>4. /\ debt \in Nat /\ td \in Nat /\ MaxU64 \in Nat /\ MinRatio \in Nat
        /\ td + old.debt = p.totalDebt + debt
    <2> HIDE DEF p, old
    <2> QED
      BY <1>3, LendingAssumption DEF U64
  <1> HIDE DEF p, old, debt, td
  <1>5. CASE debt > MaxU64
    BY <1>2, <1>3, <1>5, Overflows
  <1>6. CASE debt <= MaxU64 /\ Ratio(old.col, debt) < MinRatio
    BY <1>1, <1>2, <1>3, <1>6, Refuses DEF Errors
  <1>7. CASE debt <= MaxU64 /\ ~(Ratio(old.col, debt) < MinRatio)
    <2>1. debt \in U64
      BY <1>4, <1>7 DEF U64
    <2>2. Ratio(old.col, debt) \in Nat
      <3>1. Ratio(old.col, debt) \in U64
        BY <1>3, <2>1, RatioType
      <3> QED
        BY <3>1 DEF U64
    <2> HIDE DEF held
    <2>3. CASE td > MaxU64
      <3>1. [p EXCEPT !.pos = held] = [pos |-> held, totalCol |-> p.totalCol,
                                       totalDebt |-> p.totalDebt, last |-> p.last]
        BY <1>3, UpdatePos
      <3>2. Borrow(a, o, amount) =
                Result("Overflow", [pos |-> held, totalCol |-> p.totalCol,
                                    totalDebt |-> p.totalDebt, last |-> p.last])
        BY <1>2, <1>7, <2>3, <3>1
      <3> QED
        BY <1>3, <2>1, <3>2, OverflowsLate DEF held
    <2>4. CASE td <= MaxU64
      <3>1. td \in U64
        BY <1>4, <2>4 DEF U64
      <3>2. Prudent(p, o, old.col, debt)
        BY <1>4, <1>7, <2>2 DEF Prudent
      <3>3. [p EXCEPT !.pos = held, !.totalDebt = td] =
                [pos |-> held, totalCol |-> p.totalCol, totalDebt |-> td, last |-> p.last]
        BY <1>3, UpdateDebt
      <3>4. Borrow(a, o, amount) =
                Result("ok", [pos |-> held, totalCol |-> p.totalCol, totalDebt |-> td,
                              last |-> p.last])
        BY <1>2, <1>7, <2>4, <3>3
      <3> QED
        BY <1>3, <1>4, <2>1, <3>1, <3>2, <3>4, Succeeds DEF held
    <2> QED
      BY <1>4, <2>3, <2>4
  <1> QED
    BY <1>3, <1>4, <1>5, <1>6, <1>7

\* The part of the debt of o a payment of amount covers.
LEMMA Payment ==
    ASSUME NEW amount \in U64, NEW debt \in U64
    PROVE  /\ AtMost(amount, debt) \in Nat /\ AtMost(amount, debt) <= debt
           /\ debt - AtMost(amount, debt) \in U64 /\ debt - AtMost(amount, debt) <= debt
  BY LendingAssumption DEF AtMost, U64

\* repay has written the smaller debt, with the old ratio, when the total is too small.
LEMMA RepayEffect ==
    ASSUME NEW a, Started(a), NEW o \in Owners, NEW amount \in U64
    PROVE  Effect(a, Repay(a, o, amount), o)
  <1>1. SUFFICES ASSUME a.err = "ok", o \in DOMAIN a.pool.pos
                 PROVE  Effect(a, Repay(a, o, amount), o)
    BY Absent
  <1> DEFINE p == a.pool
             old == p.pos[o]
             paid == AtMost(amount, old.debt)
             debt == old.debt - paid
             td == p.totalDebt - paid
             held == Holding(p, o, old.col, debt)
             stale == [p EXCEPT !.pos[o].debt = debt]
  <1>2. /\ paid > p.totalDebt => Repay(a, o, amount) = Result("Overflow", stale)
        /\ ~(paid > p.totalDebt)
             => Repay(a, o, amount) = Result("ok", [p EXCEPT !.pos = held, !.totalDebt = td])
    BY <1>1 DEF Repay
  <1>3. /\ IsPool(p) /\ a = Result("ok", p) /\ a.pool = p /\ Old(p, o) = old
        /\ old.col \in U64 /\ old.debt \in U64 /\ old.ratio \in U64
        /\ p.totalCol \in U64 /\ p.totalDebt \in U64 /\ o \in DOMAIN p.pos
    BY <1>1, Present
  <1> HIDE DEF p, old
  <1>4. /\ paid \in Nat /\ debt \in U64 /\ debt <= old.debt
        /\ td + old.debt = p.totalDebt + debt
        /\ ~(paid > p.totalDebt) => td \in U64
    <2>1. paid \in Nat /\ debt \in U64 /\ debt <= old.debt
      BY <1>3, Payment
    <2> HIDE DEF paid
    <2> QED
      BY <1>3, <2>1, LendingAssumption DEF U64
  <1> HIDE DEF paid, debt, td
  <1>5. CASE paid > p.totalDebt
    <2> DEFINE pos == [p.pos EXCEPT ![o].debt = debt]
    <2>1. pos \in [DOMAIN p.pos -> Position] /\ DOMAIN pos = DOMAIN p.pos
      <3>1. p.pos[o] \in Position
        BY <1>3 DEF IsPool
      <3>2. [p.pos[o] EXCEPT !.debt = debt] \in Position
        BY <1>4, <3>1 DEF Position, U64
      <3> QED
        BY <1>3, <3>2 DEF IsPool
    <2>2. stale = [pos |-> pos, totalCol |-> p.totalCol, totalDebt |-> p.totalDebt, last |-> p.last]
      BY <1>3 DEF IsPool
    <2> HIDE DEF pos
    <2>3. IsPool(stale) /\ stale.last = p.last /\ DOMAIN stale.pos = DOMAIN p.pos
      <3>1. pos \in [DOMAIN pos -> Position] /\ DOMAIN pos \subseteq Owners
        BY <1>3, <2>1 DEF IsPool
      <3>2. p.totalCol \in U64 /\ p.totalDebt \in U64 /\ p.last \in Nat
        BY <1>3, PoolFields
      <3> HIDE DEF stale
      <3> QED
        BY <2>1, <2>2, <3>1, <3>2, MakePool
    <2> HIDE DEF stale
    <2> QED
      BY <1>2, <1>3, <1>5, <2>3, Overflows
  <1>6. CASE ~(paid > p.totalDebt)
    <2> HIDE DEF held
    <2>1. Prudent(p, o, old.col, debt)
      BY <1>3, <1>4 DEF Prudent, U64
    <2>2. [p EXCEPT !.pos = held, !.totalDebt = td] =
              [pos |-> held, totalCol |-> p.totalCol, totalDebt |-> td, last |-> p.last]
      BY <1>3, UpdateDebt
    <2>3. Repay(a, o, amount) =
              Result("ok", [pos |-> held, totalCol |-> p.totalCol, totalDebt |-> td,
                            last |-> p.last])
      BY <1>2, <1>6, <2>2
    <2> QED
      BY <1>3, <1>4, <1>6, <2>1, <2>3, Succeeds DEF held
  <1> QED
    BY <1>5, <1>6

LEMMA WithdrawEffect ==
    ASSUME NEW a, Started(a), NEW o \in Owners, NEW amount \in U64
    PROVE  Effect(a, WithdrawCollateral(a, o, amount), o)
  <1>1. SUFFICES ASSUME a.err = "ok", o \in DOMAIN a.pool.pos
                 PROVE  Effect(a, WithdrawCollateral(a, o, amount), o)
    BY Absent
  <1> DEFINE p == a.pool
             old == p.pos[o]
             col == old.col - amount
             tc == p.totalCol - amount
             held == Holding(p, o, col, old.debt)
             risky == old.debt > 0 /\ Ratio(col, old.debt) < MinRatio
             r == WithdrawCollateral(a, o, amount)
  <1>2. /\ old.col < amount => r = Result("InsufficientCollateral", p)
        /\ ~(old.col < amount) /\ risky => r = Result("RatioTooLow", p)
        /\ ~(old.col < amount) /\ ~risky /\ amount > p.totalCol
             => r = Result("Overflow", [p EXCEPT !.pos = held])
        /\ ~(old.col < amount) /\ ~risky /\ ~(amount > p.totalCol)
             => r = Result("ok", [p EXCEPT !.pos = held, !.totalCol = tc])
    BY <1>1 DEF WithdrawCollateral
  <1>3. /\ IsPool(p) /\ a = Result("ok", p) /\ a.pool = p /\ Old(p, o) = old
        /\ old.col \in U64 /\ old.debt \in U64 /\ p.totalCol \in U64 /\ p.totalDebt \in U64
    BY <1>1, Present
  <1> HIDE DEF p, old
  <1>4. /\ tc + old.col = p.totalCol + col
        /\ ~(old.col < amount) => col \in U64
        /\ ~(amount > p.totalCol) => tc \in U64
    BY <1>3, LendingAssumption DEF U64
  <1> HIDE DEF col, tc
  <1>5. CASE old.col < amount
    BY <1>1, <1>2, <1>3, <1>5, Refuses DEF Errors
  <1>6. CASE ~(old.col < amount) /\ risky
    BY <1>1, <1>2, <1>3, <1>6, Refuses DEF Errors
  <1>7. CASE ~(old.col < amount) /\ ~risky
    <2>1. Ratio(col, old.debt) \in Nat /\ col \in U64
      <3>1. Ratio(col, old.debt) \in U64
        BY <1>3, <1>4, <1>7, RatioType
      <3> QED
        BY <1>4, <1>7, <3>1 DEF U64
    <2> HIDE DEF held
    <2>2. CASE amount > p.totalCol
      <3>1. [p EXCEPT !.pos = held] = [pos |-> held, totalCol |-> p.totalCol,
                                       totalDebt |-> p.totalDebt, last |-> p.last]
        BY <1>3, UpdatePos
      <3>2. r = Result("Overflow", [pos |-> held, totalCol |-> p.totalCol,
                                    totalDebt |-> p.totalDebt, last |-> p.last])
        BY <1>2, <1>7, <2>2, <3>1
      <3> QED
        BY <1>3, <2>1, <3>2, OverflowsLate DEF held
    <2>3. CASE ~(amount > p.totalCol)
      <3>1. Prudent(p, o, col, old.debt)
        BY <1>3, <1>7, <2>1, LendingAssumption DEF Prudent, U64
      <3>2. [p EXCEPT !.pos = held, !.totalCol = tc] =
                [pos |-> held, totalCol |-> tc, totalDebt |-> p.totalDebt, last |-> p.last]
        BY <1>3, UpdateCol
      <3>3. r = Result("ok", [pos |-> held, totalCol |-> tc, totalDebt |-> p.totalDebt,
                              last |-> p.last])
        BY <1>2, <1>7, <2>3, <3>2
      <3>4. tc \in U64 /\ tc + old.col = p.totalCol + col
        BY <1>4, <2>3
      <3> QED
        BY <1>3, <2>1, <3>1, <3>3, <3>4, Succeeds DEF held
    <2> QED
      BY <2>2, <2>3
  <1> QED
    BY <1>5, <1>6, <1>7

\* liquidate writes the position first, then the two totals one after the other.
LEMMA LiquidateEffect ==
    ASSUME NEW a, Started(a), NEW o \in Owners, NEW amount \in U64
    PROVE  Effect(a, Liquidate(a, o, amount), o)
  <1>1. SUFFICES ASSUME a.err = "ok", o \in DOMAIN a.pool.pos
                 PROVE  Effect(a, Liquidate(a, o, amount), o)
    BY Absent
  <1> DEFINE p == a.pool
             old == p.pos[o]
             paid == AtMost(amount, old.debt)
             bonus == (paid * Bonus) \div BPS
             seized == AtMost(old.col, paid + bonus)
             col == old.col - seized
             debt == old.debt - paid
             tc == p.totalCol - seized
             td == p.totalDebt - paid
             held == Holding(p, o, col, debt)
             sound == old.debt = 0 \/ old.ratio >= LiquidationRatio
             r == Liquidate(a, o, amount)
  <1>2. /\ sound => r = Result("NotLiquidatable", p)
        /\ ~sound /\ paid + bonus > MaxU64 => r = Result("Overflow", p)
        /\ ~sound /\ ~(paid + bonus > MaxU64) /\ paid > p.totalDebt
             => r = Result("Overflow", [p EXCEPT !.pos = held])
        /\ ~sound /\ ~(paid + bonus > MaxU64) /\ ~(paid > p.totalDebt) /\ seized > p.totalCol
             => r = Result("Overflow", [p EXCEPT !.pos = held, !.totalDebt = td])
        /\ ~sound /\ ~(paid + bonus > MaxU64) /\ ~(paid > p.totalDebt) /\ ~(seized > p.totalCol)
             => r = Result("ok", [p EXCEPT !.pos = held, !.totalDebt = td, !.totalCol = tc])
    BY <1>1 DEF Liquidate
  <1>3. /\ IsPool(p) /\ a = Result("ok", p) /\ a.pool = p /\ Old(p, o) = old
        /\ old.col \in U64 /\ old.debt \in U64 /\ old.ratio \in U64
        /\ p.totalCol \in U64 /\ p.totalDebt \in U64
    BY <1>1, Present
  <1> HIDE DEF p, old
  <1>4. paid \in Nat /\ debt \in U64 /\ td + old.debt = p.totalDebt + debt
    <2>1. paid \in Nat /\ debt \in U64
      BY <1>3, Payment
    <2> HIDE DEF paid
    <2> QED
      BY <1>3, <2>1, LendingAssumption DEF U64
  <1>5. ~(paid > p.totalDebt) => td \in U64
    <2> HIDE DEF paid
    <2> QED
      BY <1>3, <1>4, LendingAssumption DEF U64
  <1>6. bonus \in Nat
    <2> HIDE DEF paid
    <2>1. paid * Bonus \in Nat
      BY <1>4, MulMonotone, LendingAssumption
    <2> QED
      BY <2>1, DivType, LendingAssumption
  <1>7. ~(paid + bonus > MaxU64) =>
            seized \in Nat /\ col \in U64 /\ tc + old.col = p.totalCol + col
    <2> HIDE DEF paid, bonus
    <2>1. seized \in Nat /\ seized <= old.col
      BY <1>3, <1>4, <1>6 DEF AtMost, U64
    <2> HIDE DEF seized
    <2> QED
      BY <1>3, <2>1, LendingAssumption DEF U64
  <1>8. ~(paid + bonus > MaxU64) /\ ~(seized > p.totalCol) => tc \in U64
    <2> HIDE DEF seized, bonus, paid, col
    <2> QED
      BY <1>3, <1>7, LendingAssumption DEF U64
  <1> HIDE DEF paid, bonus, seized, col, debt, tc, td, held
  <1>9. CASE sound
    BY <1>1, <1>2, <1>3, <1>9, Refuses DEF Errors
  <1>10. CASE ~sound /\ paid + bonus > MaxU64
    BY <1>2, <1>3, <1>10, Overflows
  <1>11. CASE ~sound /\ ~(paid + bonus > MaxU64)
    <2>1. col \in U64 /\ debt \in U64 /\ tc + old.col = p.totalCol + col
      BY <1>4, <1>7, <1>11
    <2>2. CASE paid > p.totalDebt
      <3>1. [p EXCEPT !.pos = held] = [pos |-> held, totalCol |-> p.totalCol,
                                       totalDebt |-> p.totalDebt, last |-> p.last]
        BY <1>3, UpdatePos
      <3>2. r = Result("Overflow", [pos |-> held, totalCol |-> p.totalCol,
                                    totalDebt |-> p.totalDebt, last |-> p.last])
        BY <1>2, <1>11, <2>2, <3>1
      <3> QED
        BY <1>3, <2>1, <3>2, OverflowsLate DEF held
    <2>3. CASE ~(paid > p.totalDebt) /\ seized > p.totalCol
      <3>1. [p EXCEPT !.pos = held, !.totalDebt = td] =
                [pos |-> held, totalCol |-> p.totalCol, totalDebt |-> td, last |-> p.last]
        BY <1>3, UpdateDebt
      <3>2. r = Result("Overflow", [pos |-> held, totalCol |-> p.totalCol,
                                    totalDebt |-> td, last |-> p.last])
        BY <1>2, <1>11, <2>3, <3>1
      <3> QED
        BY <1>3, <1>5, <2>1, <2>3, <3>2, OverflowsLate DEF held
    <2>4. CASE ~(paid > p.totalDebt) /\ ~(seized > p.totalCol)
      <3>1. tc \in U64 /\ td \in U64
        BY <1>5, <1>8, <1>11, <2>4
      <3>2. Prudent(p, o, col, debt)
        BY <1>3, <1>11, LendingAssumption DEF Prudent, U64
      <3>3. [p EXCEPT !.pos = held, !.totalDebt = td, !.totalCol = tc] =
                [pos |-> held, totalCol |-> tc, totalDebt |-> td, last |-> p.last]
        <4> DEFINE of == [pos |-> held, totalCol |-> p.totalCol, totalDebt |-> td, last |-> p.last]
                   then == [pos |-> held, totalCol |-> tc, totalDebt |-> td, last |-> p.last]
        <4>1. [p EXCEPT !.pos = held, !.totalDebt = td] = of
          BY <1>3, UpdateDebt
        <4>2. [of EXCEPT !.totalCol = tc] = then
          OBVIOUS
        <4>3. [p EXCEPT !.pos = held, !.totalDebt = td, !.totalCol = tc] = then
          <5> HIDE DEF of, then
          <5> QED
            BY <4>1, <4>2
        <4> QED
          BY <4>3
      <3>4. r = Result("ok", [pos |-> held, totalCol |-> tc, totalDebt |-> td, last |-> p.last])
        BY <1>2, <1>11, <2>4, <3>3
      <3> QED
        BY <1>3, <1>4, <2>1, <3>1, <3>2, <3>4, Succeeds DEF held
    <2> QED
      BY <2>2, <2>3, <2>4
  <1> QED
    BY <1>9, <1>10, <1>11

-----------------------------------------------------------------------------
(* What accruing interest does to the pool *)

LEMMA RateType ==
    ASSUME NEW p, IsPool(p)
    PROVE  /\ current_borrow_rate_bps(p) \in Nat
           /\ p.totalDebt = 0 => current_borrow_rate_bps(p) = BaseRate
  <1> DEFINE u == IF p.totalCol = 0 THEN 0 ELSE Wrap((p.totalDebt * BPS) \div p.totalCol)
             surcharge == (u * Slope) \div BPS
  <1>1. p.totalCol \in Nat /\ p.totalDebt \in Nat /\ BPS \in Nat \ {0} /\ Slope \in Nat
        /\ BaseRate \in Nat /\ MaxU64 \in Nat /\ BaseRate <= MaxU64
    <2>1. p.totalCol \in U64 /\ p.totalDebt \in U64
      BY PoolFields
    <2> QED
      BY <2>1, LendingAssumption DEF U64
  <1>2. u \in Nat /\ (p.totalDebt = 0 => u = 0)
    <2>1. CASE p.totalCol = 0
      BY <2>1
    <2>2. CASE p.totalCol # 0
      <3>1. /\ p.totalDebt * BPS \in Nat
            /\ (p.totalDebt * BPS) \div p.totalCol \in Nat
            /\ p.totalDebt = 0 => (p.totalDebt * BPS) \div p.totalCol = 0
        BY <1>1, <2>2
      <3> DEFINE n == (p.totalDebt * BPS) \div p.totalCol
      <3>2. Wrap(n) \in Nat /\ Wrap(n) <= n
        <4> HIDE DEF n
        <4>1. n \in Nat
          BY <3>1 DEF n
        <4> QED
          BY <4>1, WrapType, LendingAssumption DEF U64
      <3> HIDE DEF n
      <3>3. u = Wrap(n)
        BY <2>2 DEF n
      <3> QED
        BY <3>1, <3>2, <3>3 DEF n
    <2> QED
      BY <2>1, <2>2
  <1> HIDE DEF u
  <1>3. surcharge \in Nat /\ (p.totalDebt = 0 => surcharge = 0)
    BY <1>1, <1>2, DivType, MulMonotone
  <1> HIDE DEF surcharge
  <1>4. Wrap(surcharge) \in Nat /\ (p.totalDebt = 0 => Wrap(surcharge) = 0)
    BY <1>3, WrapType, LendingAssumption DEF U64
  <1>5. current_borrow_rate_bps(p) = AtMost(BaseRate + Wrap(surcharge), MaxU64)
    BY DEF current_borrow_rate_bps, u, surcharge
  <1> QED
    BY <1>1, <1>4, <1>5 DEF AtMost

LEMMA InterestType ==
    ASSUME NEW p, IsPool(p), NEW o \in DOMAIN p.pos, NEW now \in Nat, p.last <= now
    PROVE  Interest(p, o, now) \in Nat /\ (now = p.last => Interest(p, o, now) = 0)
  <1>1. p.pos[o].debt \in Nat /\ p.last \in Nat /\ BPS \in Nat \ {0} /\ SecondsPerYear \in Nat \ {0}
    <2>1. p.pos[o].debt \in U64 /\ p.last \in Nat
      BY PoolFields
    <2> QED
      BY <2>1, LendingAssumption DEF U64
  <1>2. Annual(p, o) \in Nat
    BY <1>1, RateType, MulMonotone, DivType DEF Annual
  <1>3. /\ now - p.last \in Nat /\ Annual(p, o) * (now - p.last) \in Nat
        /\ now = p.last => Annual(p, o) * (now - p.last) = 0
    BY <1>1, <1>2
  <1> QED
    BY <1>1, <1>3 DEF Interest

LEMMA ChargedValues ==
    ASSUME NEW p, IsPool(p), NEW now \in Nat, p.last <= now, NEW S \in SUBSET DOMAIN p.pos,
           \A o \in S : ~InterestOverflows(p, o, now),
           NEW o \in DOMAIN p.pos
    PROVE  LET c == Charged(p, S, now)[o]
               debt == p.pos[o].debt + Interest(p, o, now)
           IN  /\ c \in Position /\ c.col = p.pos[o].col
               /\ c.debt = IF o \in S THEN debt ELSE p.pos[o].debt
               /\ p.pos[o].ratio = Ratio(p.pos[o].col, p.pos[o].debt)
                    => c.ratio = Ratio(c.col, c.debt)
  <1> DEFINE old == p.pos[o]
             debt == old.debt + Interest(p, o, now)
             c == Charged(p, S, now)[o]
  <1>1. old \in Position /\ old.col \in U64 /\ old.debt \in U64
    BY PoolFields DEF IsPool
  <1>2. c = IF o \in S /\ debt # old.debt
              THEN [old EXCEPT !.debt = debt, !.ratio = Ratio(old.col, debt)] ELSE old
    BY DEF Charged
  <1>3. Interest(p, o, now) \in Nat
    BY InterestType
  <1>4. o \in S => debt \in U64
    BY <1>1, <1>3, LendingAssumption DEF InterestOverflows, U64
  <1> HIDE DEF old, c, debt
  <1>5. CASE o \in S /\ debt # old.debt
    <2> DEFINE then == [col |-> old.col, debt |-> debt, ratio |-> Ratio(old.col, debt)]
               half == [col |-> old.col, debt |-> debt, ratio |-> old.ratio]
    <2>1. Ratio(old.col, debt) \in U64
      BY <1>1, <1>4, <1>5, RatioType
    <2>2. [old EXCEPT !.debt = debt] = half
      BY <1>1 DEF Position
    <2>3. [half EXCEPT !.ratio = Ratio(old.col, debt)] = then
      OBVIOUS
    <2>4. c = then
      <3> HIDE DEF half, then
      <3> QED
        BY <1>2, <1>5, <2>2, <2>3
    <2>5. then \in Position
      BY <1>1, <1>4, <1>5, <2>1 DEF Position, U64
    <2> QED
      BY <1>5, <2>4, <2>5 DEF c, debt, old
  <1>6. CASE ~(o \in S /\ debt # old.debt)
    <2>1. c = old
      BY <1>2, <1>6
    <2> QED
      BY <1>1, <1>6, <2>1 DEF c, debt, old
  <1> QED
    BY <1>5, <1>6

\* The outcomes of accrue_interest: refused, nothing to charge, charged, or
\* stopped half-way with no total changed.
Accrues(p, a, now) ==
    /\ Started(a) /\ a.pool.last \in {p.last, now}
    /\ DOMAIN a.pool.pos = DOMAIN p.pos
    /\ a.err = "TimeRewind" => a.pool = p
    /\ a.err = "ok" => /\ a.pool.last = now /\ p.last <= now
                       /\ now = p.last => a.pool.pos = p.pos
                       /\ Fresh(p) => Fresh(a.pool)
                       /\ Balanced(p) => Balanced(a.pool)

LEMMA ChargedPool ==
    ASSUME NEW p, IsPool(p), NEW now \in Nat, p.last <= now, NEW S \in SUBSET DOMAIN p.pos,
           \A o \in S : ~InterestOverflows(p, o, now), NEW td \in U64, NEW last \in Nat
    PROVE  /\ IsPool([pos |-> Charged(p, S, now), totalCol |-> p.totalCol,
                      totalDebt |-> td, last |-> last])
           /\ DOMAIN Charged(p, S, now) = DOMAIN p.pos
  <1> DEFINE h == Charged(p, S, now)
  <1>1. DOMAIN h = DOMAIN p.pos /\ h = [o \in DOMAIN p.pos |-> h[o]]
    BY DEF Charged
  <1>2. \A o \in DOMAIN p.pos : h[o] \in Position
    BY ChargedValues
  <1> HIDE DEF h
  <1>3. h \in [DOMAIN h -> Position] /\ DOMAIN h \subseteq Owners
    BY <1>1, <1>2 DEF IsPool
  <1>4. p.totalCol \in U64
    BY PoolFields
  <1>5. IsPool([pos |-> h, totalCol |-> p.totalCol, totalDebt |-> td, last |-> last])
    BY <1>3, <1>4, MakePool
  <1> QED
    BY <1>1, <1>5 DEF h

LEMMA AccruesStopped ==
    ASSUME NEW p, IsPool(p), NEW now \in Nat, p.last <= now, NEW S \in SUBSET DOMAIN p.pos,
           \A o \in S : ~InterestOverflows(p, o, now)
    PROVE  Accrues(p, Result("Overflow", [p EXCEPT !.pos = Charged(p, S, now)]), now)
  <1> DEFINE q == [p EXCEPT !.pos = Charged(p, S, now)]
  <1>1. q = [pos |-> Charged(p, S, now), totalCol |-> p.totalCol,
             totalDebt |-> p.totalDebt, last |-> p.last]
    BY UpdatePos
  <1>2. IsPool(q) /\ DOMAIN q.pos = DOMAIN p.pos /\ q.last = p.last
    <2> HIDE DEF q
    <2>1. p.totalDebt \in U64 /\ p.last \in Nat
      BY PoolFields
    <2> QED
      BY <1>1, <2>1, ChargedPool
  <1> HIDE DEF q
  <1>3. Accrues(p, Result("Overflow", q), now)
    BY <1>2 DEF Accrues, Started, Result
  <1> QED
    BY <1>3 DEF q

LEMMA AccruesNothing ==
    ASSUME NEW p, IsPool(p), NEW now \in Nat, p.last <= now
    PROVE  Accrues(p, Result("ok", [p EXCEPT !.last = now]), now)
  <1> DEFINE q == [p EXCEPT !.last = now]
  <1>1. q = [pos |-> p.pos, totalCol |-> p.totalCol, totalDebt |-> p.totalDebt, last |-> now]
    BY UpdateLast
  <1> HIDE DEF q
  <1>2. q.pos = p.pos /\ q.totalCol = p.totalCol /\ q.totalDebt = p.totalDebt /\ q.last = now
    BY <1>1
  <1>3. IsPool(q)
    <2>1. p.pos \in [DOMAIN p.pos -> Position] /\ DOMAIN p.pos \subseteq Owners
      BY DEF IsPool
    <2> QED
      BY <1>1, <2>1, MakePool, PoolFields
  <1>4. (Fresh(p) => Fresh(q)) /\ (Balanced(p) => Balanced(q))
    BY <1>2 DEF Fresh, Balanced, Cols, Debts
  <1>5. Accrues(p, Result("ok", q), now)
    BY <1>2, <1>3, <1>4 DEF Accrues, Started, Result
  <1> QED
    BY <1>5 DEF q

Charges(p, S, now) == [o \in S |-> Interest(p, o, now)]

\* The interest charged to the positions is what total_debt grows by.
LEMMA AccruesCharged ==
    ASSUME NEW p, IsPool(p), Finite(p), NEW now \in Nat, p.last <= now,
           NEW S \in SUBSET DOMAIN p.pos, \A o \in S : ~InterestOverflows(p, o, now),
           p.last # now,
           p.totalDebt + SumFunction(Charges(p, S, now)) <= MaxU64
    PROVE  Accrues(p, Result("ok", [p EXCEPT !.pos = Charged(p, S, now),
                                             !.totalDebt = @ + SumFunction(Charges(p, S, now)),
                                             !.last = now]), now)
  <1> DEFINE D == DOMAIN p.pos
             h == Charged(p, S, now)
             total == SumFunction(Charges(p, S, now))
             td == p.totalDebt + total
             q == [p EXCEPT !.pos = h, !.totalDebt = td, !.last = now]
             new == [o \in D |-> h[o].debt]
  <1>1. total = Sum(Charges(p, S, now), S)
    BY DEF SumFunction, Sum, Charges
  <1>2. \A o \in S : Charges(p, S, now)[o] \in Nat /\ Charges(p, S, now)[o] = Interest(p, o, now)
    BY InterestType DEF Charges
  <1>3. IsFiniteSet(S) /\ IsFiniteSet(D)
    BY FS_Subset DEF Finite
  <1>4. total \in Nat
    BY <1>1, <1>2, <1>3, SumType
  <1>5. td \in U64
    <2>1. p.totalDebt \in U64
      BY PoolFields
    <2> HIDE DEF total
    <2> QED
      BY <1>4, <2>1, LendingAssumption DEF U64, total
  <1>6. \A o \in D : /\ h[o].col = p.pos[o].col
                     /\ h[o].debt = IF o \in S THEN p.pos[o].debt + Interest(p, o, now)
                                               ELSE p.pos[o].debt
                     /\ p.pos[o].ratio = Ratio(p.pos[o].col, p.pos[o].debt)
                          => h[o].ratio = Ratio(h[o].col, h[o].debt)
    BY ChargedValues
  <1>7. DOMAIN h = D
    BY DEF Charged
  <1>8. \A o \in D : p.pos[o].debt \in Nat
    <2>1. \A o \in D : p.pos[o].debt \in U64
      BY PoolFields
    <2> QED
      BY <2>1 DEF U64
  <1>9. Sum(new, D) = Sum(Debts(p), D) + total
    <2>1. \A o \in D : Debts(p)[o] = p.pos[o].debt /\ new[o] = h[o].debt
      BY DEF Debts
    <2> HIDE DEF new, h, total, D
    <2>2. \A o \in D : Debts(p)[o] \in Nat
      BY <1>8, <2>1 DEF D
    <2>3. \A o \in S : new[o] = Debts(p)[o] + Charges(p, S, now)[o]
      BY <1>2, <1>6, <2>1 DEF D
    <2>4. \A o \in D \ S : new[o] = Debts(p)[o]
      BY <1>6, <2>1 DEF D
    <2>5. S \in SUBSET D
      BY DEF D
    <2> QED
      BY <1>1, <1>2, <1>3, <2>2, <2>3, <2>4, <2>5, SumAdd
  <1>10. q = [pos |-> h, totalCol |-> p.totalCol, totalDebt |-> td, last |-> now]
    <2> HIDE DEF h, td
    <2> DEFINE half == [pos |-> h, totalCol |-> p.totalCol, totalDebt |-> td, last |-> p.last]
               then == [pos |-> h, totalCol |-> p.totalCol, totalDebt |-> td, last |-> now]
    <2>1. [p EXCEPT !.pos = h, !.totalDebt = td] = half
      BY UpdateDebt
    <2>2. [half EXCEPT !.last = now] = then
      OBVIOUS
    <2>3. q = then
      <3> HIDE DEF half, then
      <3> QED
        BY <2>1, <2>2
    <2> QED
      BY <2>3
  <1>11. IsPool(q)
    <2> HIDE DEF td, q
    <2> QED
      BY <1>5, <1>10, ChargedPool
  <1> HIDE DEF q
  <1>12. q.pos = h /\ q.totalCol = p.totalCol /\ q.totalDebt = td /\ q.last = now
    BY <1>10
  <1> HIDE DEF h
  <1>13. Fresh(p) => Fresh(q)
    BY <1>6, <1>7, <1>12 DEF Fresh
  <1>14. Balanced(p) => Balanced(q)
    <2>1. Cols(q) = Cols(p) /\ Debts(q) = new
      BY <1>6, <1>7, <1>12 DEF Cols, Debts
    <2>2. /\ SumFunction(Debts(p)) = Sum(Debts(p), D) /\ SumFunction(new) = Sum(new, D)
      BY DEF SumFunction, Sum, Debts
    <2> HIDE DEF new, D, total
    <2> QED
      BY <1>9, <1>12, <2>1, <2>2 DEF Balanced
  <1>15. Accrues(p, Result("ok", q), now)
    BY <1>7, <1>11, <1>12, <1>13, <1>14 DEF Accrues, Started, Result
  <1> QED
    BY <1>15 DEF q, h

LEMMA AccrueAccrues ==
    ASSUME NEW p, IsPool(p), Finite(p), NEW now \in Nat, NEW a \in AccrueInterest(p, now)
    PROVE  Accrues(p, a, now)
  <1> DEFINE debtors == {o \in DOMAIN p.pos : p.pos[o].debt > 0}
             fine == {o \in debtors : ~InterestOverflows(p, o, now)}
             total(S) == SumFunction(Charges(p, S, now))
             stopped(S) == fine # debtors \/ S = debtors \/ total(S) > MaxU64
  <1>1. p.last \in Nat
    BY PoolFields
  <1>2. CASE now < p.last
    <2>1. a = Result("TimeRewind", p)
      BY <1>1, <1>2 DEF AccrueInterest
    <2> QED
      BY <2>1 DEF Accrues, Started, Result
  <1>3. CASE ~(now < p.last) /\ (now = p.last \/ (now > p.last /\ p.totalDebt = 0))
    <2>1. a = Result("ok", [p EXCEPT !.last = now])
      BY <1>1, <1>3 DEF AccrueInterest
    <2> QED
      BY <1>1, <1>3, <2>1, AccruesNothing
  <1>4. CASE ~(now < p.last) /\ ~(now = p.last \/ (now > p.last /\ p.totalDebt = 0))
    <2>1. a \in IF fine = debtors /\ p.totalDebt + total(debtors) <= MaxU64
                  THEN {Result("ok", [p EXCEPT !.pos = Charged(p, debtors, now),
                                               !.totalDebt = @ + total(debtors),
                                               !.last = now])}
                  ELSE {Result("Overflow", [p EXCEPT !.pos = Charged(p, S, now)]) :
                            S \in {T \in SUBSET fine : stopped(T)}}
      BY <1>1, <1>4 DEF AccrueInterest, Charges
    <2>2. CASE fine = debtors /\ p.totalDebt + total(debtors) <= MaxU64
      <3>1. /\ debtors \in SUBSET DOMAIN p.pos /\ p.last <= now /\ p.last # now
            /\ \A o \in debtors : ~InterestOverflows(p, o, now)
        BY <1>1, <1>4, <2>2
      <3>2. a = Result("ok", [p EXCEPT !.pos = Charged(p, debtors, now),
                                       !.totalDebt = @ + total(debtors),
                                       !.last = now])
        BY <2>1, <2>2
      <3> HIDE DEF debtors
      <3> QED
        BY <2>2, <3>1, <3>2, AccruesCharged
    <2>3. CASE ~(fine = debtors /\ p.totalDebt + total(debtors) <= MaxU64)
      <3>1. PICK S \in SUBSET fine :
                   a = Result("Overflow", [p EXCEPT !.pos = Charged(p, S, now)])
        BY <2>1, <2>3
      <3>2. /\ S \in SUBSET DOMAIN p.pos /\ p.last <= now
            /\ \A o \in S : ~InterestOverflows(p, o, now)
        BY <1>1, <1>4
      <3> QED
        BY <3>1, <3>2, AccruesStopped
    <2> QED
      BY <2>2, <2>3
  <1> QED
    BY <1>2, <1>3, <1>4

-----------------------------------------------------------------------------
(* What holds of a pool before an operation holds after it *)

LEMMA EffectFinite ==
    ASSUME NEW a, NEW r, NEW o, Effect(a, r, o), Finite(a.pool)
    PROVE  Finite(r.pool)
  <1>1. IsFiniteSet(DOMAIN a.pool.pos \cup {o})
    BY FS_AddElement DEF Finite
  <1> QED
    BY <1>1, FS_Subset DEF Effect, Finite

LEMMA EffectFresh ==
    ASSUME NEW a, NEW r, NEW o \in Owners, Started(a), Effect(a, r, o), r.err # "Overflow",
           Fresh(a.pool)
    PROVE  Fresh(r.pool)
  <1> DEFINE p == a.pool
  <1>1. CASE r.err # "ok"
    BY <1>1 DEF Effect
  <1>2. CASE r.err = "ok"
    <2>1. PICK c \in U64, d \in U64 : Moved(p, r.pool, o, c, d)
      BY <1>2 DEF Effect
    <2>2. r.pool.pos = Holding(p, o, c, d)
      BY <2>1 DEF Moved
    <2>3. \A x \in DOMAIN p.pos \cup {o} :
              r.pool.pos[x] = IF x = o THEN [col |-> c, debt |-> d, ratio |-> Ratio(c, d)]
                                       ELSE p.pos[x]
      BY <2>2 DEF Holding
    <2>4. DOMAIN r.pool.pos = DOMAIN p.pos \cup {o}
      BY <2>2 DEF Holding
    <2> QED
      BY <2>3, <2>4 DEF Fresh
  <1> QED
    BY <1>1, <1>2

\* One position made anew changes the sum of a field by the change of that position.
LEMMA HoldingSum ==
    ASSUME NEW p, IsPool(p), Finite(p), NEW o \in Owners, NEW c \in U64, NEW d \in U64,
           NEW q, q.pos = Holding(p, o, c, d)
    PROVE  /\ SumFunction(Cols(q)) + Old(p, o).col = SumFunction(Cols(p)) + c
           /\ SumFunction(Debts(q)) + Old(p, o).debt = SumFunction(Debts(p)) + d
  <1> DEFINE D == DOMAIN p.pos
  <1>1. DOMAIN q.pos = D \cup {o}
    BY DEF Holding
  <1>2. /\ SumFunction(Cols(q)) = Sum(Cols(q), D \cup {o})
        /\ SumFunction(Debts(q)) = Sum(Debts(q), D \cup {o})
        /\ SumFunction(Cols(p)) = Sum(Cols(p), D)
        /\ SumFunction(Debts(p)) = Sum(Debts(p), D)
    BY <1>1 DEF SumFunction, Sum, Cols, Debts
  <1>3. /\ Cols(q)[o] = c /\ Debts(q)[o] = d /\ c \in Nat /\ d \in Nat
        /\ \A x \in D \ {o} : Cols(q)[x] = Cols(p)[x] /\ Debts(q)[x] = Debts(p)[x]
    BY DEF Cols, Debts, Holding, U64
  <1>4. \A x \in D : Cols(p)[x] \in Nat /\ Debts(p)[x] \in Nat
    <2>1. \A x \in D : p.pos[x].col \in U64 /\ p.pos[x].debt \in U64
      BY PoolFields
    <2> QED
      BY <2>1 DEF Cols, Debts, U64
  <1>5. IsFiniteSet(D)
    BY DEF Finite
  <1>6. CASE o \in D
    <2>1. Old(p, o).col = Cols(p)[o] /\ Old(p, o).debt = Debts(p)[o] /\ D \cup {o} = D
      BY <1>6 DEF Old, Cols, Debts
    <2> HIDE DEF D
    <2>2. \A x \in D : Cols(q)[x] \in Nat /\ Debts(q)[x] \in Nat
      BY <1>3, <1>4
    <2>3. /\ Sum(Cols(q), D) + Cols(p)[o] = Sum(Cols(p), D) + Cols(q)[o]
          /\ Sum(Debts(q), D) + Debts(p)[o] = Sum(Debts(p), D) + Debts(q)[o]
      BY <1>3, <1>4, <1>5, <1>6, <2>2, SumOneChanged
    <2> QED
      BY <1>2, <1>3, <2>1, <2>3
  <1>7. CASE o \notin D
    <2>1. Old(p, o).col = 0 /\ Old(p, o).debt = 0
      BY <1>7 DEF Old
    <2> HIDE DEF D
    <2>2. \A x \in D \cup {o} : Cols(q)[x] \in Nat /\ Debts(q)[x] \in Nat
      BY <1>3, <1>4
    <2>3. /\ Sum(Cols(q), D \cup {o}) = Cols(q)[o] + Sum(Cols(q), D)
          /\ Sum(Debts(q), D \cup {o}) = Debts(q)[o] + Sum(Debts(q), D)
      BY <1>5, <1>7, <2>2, SumInsert
    <2>4. Sum(Cols(q), D) = Sum(Cols(p), D) /\ Sum(Debts(q), D) = Sum(Debts(p), D)
      BY <1>3, <1>5, <1>7, SumCongruence
    <2>5. Sum(Cols(p), D) \in Nat /\ Sum(Debts(p), D) \in Nat
      BY <1>4, <1>5, SumType
    <2> QED
      BY <1>2, <1>3, <2>1, <2>3, <2>4, <2>5
  <1> QED
    BY <1>6, <1>7

LEMMA EffectBalanced ==
    ASSUME NEW a, NEW r, NEW o \in Owners, Started(a), Finite(a.pool), Effect(a, r, o),
           r.err # "Overflow", Balanced(a.pool)
    PROVE  Balanced(r.pool)
  <1> DEFINE p == a.pool
             q == r.pool
  <1>1. CASE r.err # "ok"
    BY <1>1 DEF Effect
  <1>2. CASE r.err = "ok"
    <2>1. PICK c \in U64, d \in U64 : Moved(p, q, o, c, d)
      BY <1>2 DEF Effect
    <2>2. IsPool(p) /\ IsPool(q)
      BY DEF Started, Effect
    <2>3. q.pos = Holding(p, o, c, d)
      BY <2>1 DEF Moved
    <2>4. /\ SumFunction(Cols(q)) + Old(p, o).col = SumFunction(Cols(p)) + c
          /\ SumFunction(Debts(q)) + Old(p, o).debt = SumFunction(Debts(p)) + d
      BY <2>2, <2>3, HoldingSum
    <2>5. /\ q.totalCol \in Nat /\ q.totalDebt \in Nat /\ p.totalCol \in Nat /\ p.totalDebt \in Nat
          /\ Old(p, o).col \in Nat /\ Old(p, o).debt \in Nat /\ c \in Nat /\ d \in Nat
      <3>1. /\ q.totalCol \in U64 /\ q.totalDebt \in U64 /\ p.totalCol \in U64 /\ p.totalDebt \in U64
            /\ Old(p, o).col \in U64 /\ Old(p, o).debt \in U64
        BY <2>2, PoolFields, OldType
      <3> QED
        BY <3>1 DEF U64
    <2>6. /\ SumFunction(Cols(q)) \in Nat /\ SumFunction(Debts(q)) \in Nat
      <3>1. \A x \in DOMAIN q.pos : q.pos[x].col \in U64 /\ q.pos[x].debt \in U64
        BY <2>2, PoolFields
      <3>2. IsFiniteSet(DOMAIN q.pos)
        BY EffectFinite DEF Finite
      <3>3. \A x \in DOMAIN q.pos : Cols(q)[x] \in Nat /\ Debts(q)[x] \in Nat
        BY <3>1 DEF Cols, Debts, U64
      <3>4. Sum(Cols(q), DOMAIN q.pos) \in Nat /\ Sum(Debts(q), DOMAIN q.pos) \in Nat
        BY <3>2, <3>3, SumType
      <3> QED
        BY <3>4 DEF SumFunction, Sum, Cols, Debts
    <2>7. /\ q.totalCol + Old(p, o).col = p.totalCol + c
          /\ q.totalDebt + Old(p, o).debt = p.totalDebt + d
      BY <2>1 DEF Moved
    <2>8. p.totalCol = SumFunction(Cols(p)) /\ p.totalDebt = SumFunction(Debts(p))
      BY DEF Balanced
    <2> HIDE DEF p, q
    <2>9. q.totalCol = SumFunction(Cols(q)) /\ q.totalDebt = SumFunction(Debts(q))
      BY <2>4, <2>5, <2>6, <2>7, <2>8
    <2> QED
      BY <2>9 DEF Balanced, q
  <1> QED
    BY <1>1, <1>2

-----------------------------------------------------------------------------
(* The theorems *)

Step(a, r, o, now) ==
    /\ a \in AccrueInterest(pool, now) \/ a = Result("ok", pool)
    /\ Accrues(pool, a, now) /\ Effect(a, r, o) /\ Finish(r)

\* Every step charges interest and then moves one position.
LEMMA NextSteps ==
    ASSUME TypeOK, Finite(pool), Next
    PROVE  \E a, r : \E o \in Owners, now \in 0..MaxTime : Step(a, r, o, now)
  <1>1. IsPool(pool) /\ pool.last \in 0..MaxTime
    <2>1. IsPool(pool) /\ pool.last <= MaxTime
      BY DEF TypeOK
    <2>2. pool.last \in Nat
      BY <2>1, PoolFields
    <2> QED
      BY <2>1, <2>2, CallerAssumption
  <1>2. PICK o \in Owners, amount \in Amounts :
            \/ DoDeposit(o, amount)
            \/ \E now \in 0..MaxTime :
                \/ DoBorrow(o, amount, now)
                \/ DoRepay(o, amount, now)
                \/ DoWithdraw(o, amount, now)
                \/ DoLiquidate(o, amount, now)
    BY DEF Next
  <1>3. amount \in U64
    BY CallerAssumption DEF U64
  <1>4. CASE DoDeposit(o, amount)
    <2> DEFINE r == DepositCollateral(pool, o, amount)
               a == Result("ok", pool)
    <2>1. Effect(a, r, o)
      BY <1>1, <1>3, DepositEffect
    <2>2. Accrues(pool, a, pool.last)
      BY <1>1 DEF Accrues, Started, Result
    <2>3. Finish(r)
      BY <1>4 DEF DoDeposit
    <2>4. Step(a, r, o, pool.last)
      BY <2>1, <2>2, <2>3 DEF Step
    <2> QED
      BY <1>1, <2>4
  <1>5. ASSUME NEW now \in 0..MaxTime,
               \/ DoBorrow(o, amount, now)
               \/ DoRepay(o, amount, now)
               \/ DoWithdraw(o, amount, now)
               \/ DoLiquidate(o, amount, now)
        PROVE  \E a, r : Step(a, r, o, now)
    <2>1. ASSUME NEW a \in AccrueInterest(pool, now)
          PROVE  Accrues(pool, a, now) /\ Started(a)
      BY <1>1, AccrueAccrues DEF Accrues
    <2>2. CASE DoBorrow(o, amount, now)
      <3>1. PICK a \in AccrueInterest(pool, now) : Finish(Borrow(a, o, amount))
        BY <2>2 DEF DoBorrow
      <3>2. Effect(a, Borrow(a, o, amount), o)
        BY <1>3, <2>1, BorrowEffect
      <3> QED
        BY <2>1, <3>1, <3>2 DEF Step
    <2>3. CASE DoRepay(o, amount, now)
      <3>1. PICK a \in AccrueInterest(pool, now) : Finish(Repay(a, o, amount))
        BY <2>3 DEF DoRepay
      <3>2. Effect(a, Repay(a, o, amount), o)
        BY <1>3, <2>1, RepayEffect
      <3> QED
        BY <2>1, <3>1, <3>2 DEF Step
    <2>4. CASE DoWithdraw(o, amount, now)
      <3>1. PICK a \in AccrueInterest(pool, now) : Finish(WithdrawCollateral(a, o, amount))
        BY <2>4 DEF DoWithdraw
      <3>2. Effect(a, WithdrawCollateral(a, o, amount), o)
        BY <1>3, <2>1, WithdrawEffect
      <3> QED
        BY <2>1, <3>1, <3>2 DEF Step
    <2>5. CASE DoLiquidate(o, amount, now)
      <3>1. PICK a \in AccrueInterest(pool, now) : Finish(Liquidate(a, o, amount))
        BY <2>5 DEF DoLiquidate
      <3>2. Effect(a, Liquidate(a, o, amount), o)
        BY <1>3, <2>1, LiquidateEffect
      <3> QED
        BY <2>1, <3>1, <3>2 DEF Step
    <2> QED
      BY <1>5, <2>2, <2>3, <2>4, <2>5
  <1> QED
    BY <1>2, <1>4, <1>5

\* The inductive invariant: the positions are finitely many, and until an
\* addition overflows the stored ratios and the totals are those of the positions.
IInv == /\ TypeOK /\ Finite(pool)
        /\ ~overflowed => Fresh(pool) /\ Balanced(pool)

LEMMA InitIInv == Init => IInv
  <1> SUFFICES ASSUME Init PROVE IInv
    OBVIOUS
  <1>1. pool = [pos |-> << >>, totalCol |-> 0, totalDebt |-> 0, last |-> 0] /\ DOMAIN pool.pos = {}
    BY DEF Init, EmptyPool
  <1>2. IsPool(pool)
    <2>1. pool.pos \in [DOMAIN pool.pos -> Position] /\ pool.pos = << >>
      BY <1>1
    <2> QED
      BY <1>1, <2>1, LendingAssumption DEF IsPool
  <1>3. TypeOK
    <2>1. pool.last <= MaxTime
      BY <1>1, CallerAssumption
    <2> QED
      BY <1>2, <2>1 DEF TypeOK, Init
  <1>4. Finite(pool) /\ Fresh(pool)
    BY <1>1, FS_EmptySet DEF Finite, Fresh
  <1>5. Balanced(pool)
    <2>1. SumFunction(Cols(pool)) = Sum(Cols(pool), {}) /\ SumFunction(Debts(pool)) = Sum(Debts(pool), {})
      BY <1>1 DEF SumFunction, Sum, Cols, Debts
    <2> QED
      BY <1>1, <2>1, SumEmpty DEF Balanced
  <1> QED
    BY <1>3, <1>4, <1>5 DEF IInv

LEMMA NextIInv == IInv /\ [Next]_vars => IInv'
  <1> SUFFICES ASSUME IInv, [Next]_vars PROVE IInv'
    OBVIOUS
  <1>1. CASE UNCHANGED vars
    BY <1>1 DEF IInv, TypeOK, IsPool, Finite, Fresh, Balanced, Cols, Debts, vars
  <1>2. CASE Next
    <2>1. PICK a, r : \E o \in Owners, now \in 0..MaxTime : Step(a, r, o, now)
      BY <1>2, NextSteps DEF IInv
    <2> PICK o \in Owners, now \in 0..MaxTime : Step(a, r, o, now)
      BY <2>1
    <2>2. /\ Accrues(pool, a, now) /\ Effect(a, r, o) /\ Started(a)
          /\ pool' = r.pool /\ outcome' = r.err
          /\ overflowed' = (overflowed \/ r.err = "Overflow")
      BY DEF Step, Finish, Accrues
    <2>3. TypeOK'
      <3>1. r.pool.last <= MaxTime
        BY <2>2 DEF Accrues, Effect, IInv, TypeOK
      <3>2. IsPool(pool)'
        <4>1. IsPool(r.pool)
          BY <2>2 DEF Effect
        <4> QED
          BY <2>2, <4>1
      <3> QED
        BY <2>2, <3>1, <3>2 DEF TypeOK, IInv, Effect
    <2>4. Finite(a.pool)
      BY <2>2 DEF Accrues, Finite, IInv
    <2>5. Finite(pool)'
      <3>1. Finite(r.pool)
        BY <2>2, <2>4, EffectFinite
      <3> QED
        BY <2>2, <3>1
    <2>6. ASSUME ~overflowed'
          PROVE  (Fresh(pool) /\ Balanced(pool))'
      <3>1. r.err # "Overflow" /\ Fresh(pool) /\ Balanced(pool)
        BY <2>2, <2>6 DEF IInv
      <3>2. CASE a.err = "ok"
        <4>1. Fresh(a.pool) /\ Balanced(a.pool)
          BY <2>2, <3>1, <3>2 DEF Accrues
        <4>2. Fresh(r.pool) /\ Balanced(r.pool)
          BY <2>2, <2>4, <3>1, <4>1, EffectFresh, EffectBalanced
        <4> QED
          BY <2>2, <4>2
      <3>3. CASE a.err # "ok"
        <4>1. r = a /\ a.pool = pool
          BY <2>2, <3>1, <3>3 DEF Effect, Accrues, Started
        <4> QED
          BY <2>2, <3>1, <4>1
      <3> QED
        BY <3>2, <3>3
    <2> QED
      BY <2>3, <2>5, <2>6 DEF IInv
  <1> QED
    BY <1>1, <1>2

LEMMA Inductive == Spec => []IInv
  BY InitIInv, NextIInv, PTL DEF Spec

\* Every pool is one of u64 amounts for some of the owners, whatever sequence of
\* calls made it and however many of them failed (defi.rs).
THEOREM LendingTypes == Spec => []TypeOK
  <1>1. IInv => TypeOK
    BY DEF IInv
  <1> QED
    BY Inductive, <1>1, PTL

\* The collateral_ratio_bps that liquidate trusts is that of the amounts held.
THEOREM StoredRatiosAreFresh == Spec => []RatioFresh
  <1>1. IInv => RatioFresh
    BY DEF IInv, RatioFresh, Fresh
  <1> QED
    BY Inductive, <1>1, PTL

\* The totals of defi_stats_handler are the sums of the positions, through
\* interest, partial repayments and liquidations that seize all there is.
THEOREM TotalsAreSums == Spec => []TotalsMatch
  <1>1. IInv => TotalsMatch
    <2>1. SUFFICES ASSUME IInv, ~overflowed
                   PROVE  /\ Stats.totalCol = SumFunction([o \in DOMAIN pool.pos |-> Shown(o).col])
                          /\ Stats.totalDebt = SumFunction([o \in DOMAIN pool.pos |-> Shown(o).debt])
                          /\ (\A o \in DOMAIN pool.pos : Shown(o).debt = 0) => Stats.rate = BaseRate
      BY DEF TotalsMatch
    <2>2. /\ Cols(pool) = [o \in DOMAIN pool.pos |-> Shown(o).col]
          /\ Debts(pool) = [o \in DOMAIN pool.pos |-> Shown(o).debt]
      BY DEF Cols, Debts, Shown
    <2>3. /\ Stats.totalCol = pool.totalCol /\ Stats.totalDebt = pool.totalDebt
          /\ Stats.rate = current_borrow_rate_bps(pool)
      BY DEF Stats
    <2>4. pool.totalCol = SumFunction(Cols(pool)) /\ pool.totalDebt = SumFunction(Debts(pool))
      BY <2>1 DEF IInv, Balanced
    <2>5. ASSUME \A o \in DOMAIN pool.pos : Shown(o).debt = 0
          PROVE  Stats.rate = BaseRate
      <3>1. \A o \in DOMAIN pool.pos : Debts(pool)[o] = 0
        BY <2>5 DEF Debts, Shown
      <3>2. Sum(Debts(pool), DOMAIN pool.pos) = 0
        BY <2>1, <3>1, SumZero DEF IInv, Finite
      <3>3. pool.totalDebt = 0
        BY <2>4, <3>2 DEF SumFunction, Sum, Debts
      <3> QED
        BY <2>1, <2>3, <3>3, RateType DEF IInv, TypeOK
    <2> QED
      BY <2>2, <2>3, <2>4, <2>5
  <1> QED
    BY Inductive, <1>1, PTL

\* A call that is refused leaves the pool alone, but for interest already due.
THEOREM RefusalsOnlyAccrue == Spec => RefusalOnlyAccrues
  <1> DEFINE A == outcome' \notin {"ok", "Overflow"} =>
                    \/ pool' = pool
                    \/ \E now \in 0..MaxTime : Result("ok", pool') \in AccrueInterest(pool, now)
  <1>1. IInv /\ [Next]_vars => [A]_vars
    <2> SUFFICES ASSUME IInv, Next, outcome' \notin {"ok", "Overflow"}
                 PROVE  \/ pool' = pool
                        \/ \E now \in 0..MaxTime : Result("ok", pool') \in AccrueInterest(pool, now)
      OBVIOUS
    <2>1. PICK a, r : \E o \in Owners, now \in 0..MaxTime : Step(a, r, o, now)
      BY NextSteps DEF IInv
    <2> PICK o \in Owners, now \in 0..MaxTime : Step(a, r, o, now)
      BY <2>1
    <2>2. /\ a \in AccrueInterest(pool, now) \/ a = Result("ok", pool)
          /\ Accrues(pool, a, now) /\ Effect(a, r, o) /\ a = Result(a.err, a.pool)
          /\ pool' = r.pool /\ outcome' = r.err
      BY DEF Step, Finish, Accrues, Started
    <2>3. pool' = a.pool /\ (a.err = "ok" \/ r = a)
      BY <2>2 DEF Effect
    <2>4. CASE a.err = "ok"
      <3>1. Result("ok", pool') = a
        BY <2>2, <2>3, <2>4
      <3>2. CASE a = Result("ok", pool)
        BY <2>3, <3>2 DEF Result
      <3> QED
        BY <2>2, <3>1, <3>2
    <2>5. CASE a.err # "ok"
      BY <2>2, <2>3, <2>5 DEF Accrues, Started
    <2> QED
      BY <2>4, <2>5
  <1>2. [][A]_vars <=> RefusalOnlyAccrues
    BY DEF RefusalOnlyAccrues
  <1> QED
    BY Inductive, <1>1, <1>2, PTL DEF Spec

\* No operation of anybody takes a position below the minimum ratio: only
\* interest does, in a step that moves last_accrual_ts.
THEOREM OnlyInterestErodesHealth == Spec => OnlyInterestErodes
  <1> DEFINE A == \A o \in DOMAIN pool.pos :
                    (Healthy(o) /\ ~Healthy(o)' /\ Fits(o)' /\ ~overflowed')
                      => pool'.last > pool.last
  <1>1. IInv /\ [Next]_vars => [A]_vars
    <2> SUFFICES ASSUME IInv, Next, NEW x \in DOMAIN pool.pos,
                        Healthy(x), ~Healthy(x)', Fits(x)', ~overflowed',
                        ~(pool'.last > pool.last)
                 PROVE  FALSE
      OBVIOUS
    <2>1. PICK a, r : \E o \in Owners, now \in 0..MaxTime : Step(a, r, o, now)
      BY NextSteps DEF IInv
    <2> PICK o \in Owners, now \in 0..MaxTime : Step(a, r, o, now)
      BY <2>1
    <2>2. /\ Accrues(pool, a, now) /\ Effect(a, r, o) /\ Started(a)
          /\ pool' = r.pool /\ r.err # "Overflow" /\ Fresh(pool)
      BY DEF Step, Finish, Accrues, IInv
    <2>3. /\ Healthy(x) <=> pool.pos[x].debt = 0 \/ pool.pos[x].ratio >= MinRatio
          /\ Healthy(x)' <=> r.pool.pos[x].debt = 0 \/ r.pool.pos[x].ratio >= MinRatio
          /\ Fits(x)' <=> (r.pool.pos[x].debt > 0 =>
                             (r.pool.pos[x].col * BPS) \div r.pool.pos[x].debt <= MaxU64)
      BY <2>2 DEF Healthy, Fits
    <2>4. a.err = "ok"
      <3>1. r.pool # pool
        BY <2>3
      <3> QED
        BY <2>2, <3>1 DEF Accrues, Started, Effect
    <2>5. a.pool.pos = pool.pos
      <3>1. pool.last \in Nat
        BY PoolFields DEF IInv, TypeOK
      <3>2. a.pool.last = now /\ r.pool.last = now /\ pool.last <= now
        BY <2>2, <2>4 DEF Accrues, Effect
      <3>3. now = pool.last
        BY <2>2, <3>1, <3>2
      <3> QED
        BY <2>2, <2>4, <3>3 DEF Accrues
    <2>6. r.err = "ok"
      BY <2>2, <2>3, <2>5 DEF Effect
    <2>7. PICK c \in U64, d \in U64 : Moved(a.pool, r.pool, o, c, d) /\ Prudent(a.pool, o, c, d)
      BY <2>2, <2>6 DEF Effect
    <2>8. r.pool.pos = Holding(a.pool, o, c, d)
      BY <2>7 DEF Moved
    <2>9. CASE x # o
      BY <2>3, <2>5, <2>8, <2>9 DEF Holding
    <2>10. CASE x = o
      <3> DEFINE old == pool.pos[x]
      <3>1. r.pool.pos[x].col = c /\ r.pool.pos[x].debt = d /\ r.pool.pos[x].ratio = Ratio(c, d)
        BY <2>5, <2>8, <2>10 DEF Holding
      <3>2. Old(a.pool, o) = old
        BY <2>5, <2>10 DEF Old
      <3>3. old.col \in U64 /\ old.debt \in U64 /\ old.ratio \in U64 /\ old.ratio = Ratio(old.col, old.debt)
        BY <2>2, PoolFields DEF IInv, TypeOK, Fresh
      <3> HIDE DEF old
      <3>4. (old.debt = 0 \/ old.ratio >= MinRatio) /\ d # 0 /\ ~(Ratio(c, d) >= MinRatio)
        BY <2>3, <3>1 DEF old
      <3>5. d > 0 /\ (c * BPS) \div d <= MaxU64
        BY <2>3, <3>1, <3>4 DEF U64
      <3>6. ~(old.debt > 0 /\ old.ratio < MinRatio)
        BY <3>3, <3>4, LendingAssumption DEF U64
      <3>7. c >= old.col /\ d <= old.debt
        BY <2>7, <3>2, <3>4, <3>6 DEF Prudent
      <3>8. old.debt # 0 /\ Ratio(old.col, old.debt) >= MinRatio /\ old.col <= c
        BY <3>3, <3>4, <3>5, <3>7 DEF U64
      <3> QED
        BY <3>3, <3>4, <3>5, <3>7, <3>8, RatioOfMore
    <2> QED
      BY <2>9, <2>10
  <1>2. [][A]_vars <=> OnlyInterestErodes
    BY DEF OnlyInterestErodes
  <1> QED
    BY Inductive, <1>1, <1>2, PTL DEF Spec
=============================================================================
