----------------------------- MODULE LendingOps -----------------------------
(***************************************************************************)
(* The lending pool of crates/apps/src/defi.rs as functions on a pool      *)
(* value: each operation yields [err, pool], the Result it returns and the *)
(* pool it leaves behind.  An operation that returns Err may leave a       *)
(* changed pool: the interest already accrued, or the part of an update    *)
(* made before a checked addition failed.                                  *)
(*                                                                         *)
(* Amounts are u64: MaxU64 stands for u64::MAX and every sum the code      *)
(* checks is compared with it; "as u64" keeps the value modulo MaxU64 + 1. *)
(***************************************************************************)
EXTENDS Integers, FiniteSets, Functions

CONSTANTS
    Owners,          \* addresses that hold positions
    MaxU64,          \* u64::MAX
    BPS,             \* BPS_DENOMINATOR, 10_000 in the code
    MinRatio,        \* min_collateral_ratio_bps
    LiquidationRatio,\* liquidation_ratio_bps
    Bonus,           \* liquidation_bonus_bps
    BaseRate,        \* base_rate_bps
    Slope,           \* utilization_slope_bps
    SecondsPerYear   \* SECONDS_PER_YEAR

ASSUME LendingAssumption ==
    /\ MaxU64 \in Nat
    /\ {MinRatio, LiquidationRatio, Bonus, BaseRate, Slope} \subseteq 0..MaxU64
    /\ BPS \in Nat \ {0} /\ SecondsPerYear \in Nat \ {0}
    /\ LiquidationRatio <= MinRatio

Position == [col : 0..MaxU64, debt : 0..MaxU64, ratio : 0..MaxU64]

\* LendingPool: positions of some owners, the totals, and the last accrual.
IsPool(p) ==
    /\ p \in [pos : {p.pos}, totalCol : 0..MaxU64, totalDebt : 0..MaxU64, last : Nat]
    /\ p.pos \in [DOMAIN p.pos -> Position] /\ DOMAIN p.pos \subseteq Owners

EmptyPool(now) == [pos |-> << >>, totalCol |-> 0, totalDebt |-> 0, last |-> now]

\* DefiError, but for InvalidAmount: an amount of zero is refused first of all,
\* and no amount here is zero.
Errors == {"TimeRewind", "PositionNotFound", "InsufficientCollateral", "RatioTooLow",
           "NotLiquidatable", "Overflow"}

Result(err, p) == [err |-> err, pool |-> p]

Wrap(n) == n % (MaxU64 + 1)
AtMost(m, n) == IF m <= n THEN m ELSE n

\* calculate_collateral_ratio_bps: u64::MAX when there is no debt.
Ratio(col, debt) == IF debt = 0 THEN MaxU64 ELSE Wrap((col * BPS) \div debt)

\* Position o replaced by one with the ratio computed from its amounts.
Holding(p, o, col, debt) ==
    [x \in DOMAIN p.pos \cup {o} |->
        IF x = o THEN [col |-> col, debt |-> debt, ratio |-> Ratio(col, debt)]
                 ELSE p.pos[x]]

-----------------------------------------------------------------------------
(* Interest *)

current_borrow_rate_bps(p) ==
    LET utilization ==
            IF p.totalCol = 0 THEN 0 ELSE Wrap((p.totalDebt * BPS) \div p.totalCol)
    IN  AtMost(BaseRate + Wrap((utilization * Slope) \div BPS), MaxU64)

Annual(p, o) == (p.pos[o].debt * current_borrow_rate_bps(p)) \div BPS
Interest(p, o, now) == (Annual(p, o) * (now - p.last)) \div SecondsPerYear

\* The loop of accrue_interest reaches position o and one of its checked
\* operations fails.
InterestOverflows(p, o, now) ==
    \/ Annual(p, o) > MaxU64
    \/ Annual(p, o) * (now - p.last) > MaxU64
    \/ p.pos[o].debt + Interest(p, o, now) > MaxU64

\* Mutant: interest is added without computing the ratio again.
ChargedStale(p, S, now) ==
    [o \in DOMAIN p.pos |->
        IF o \in S THEN [p.pos[o] EXCEPT !.debt = @ + Interest(p, o, now)] ELSE p.pos[o]]

\* Interest is charged to the positions in S; one with no interest is skipped.
Charged(p, S, now) ==
    [o \in DOMAIN p.pos |->
        LET debt == p.pos[o].debt + Interest(p, o, now)
        IN  IF o \in S /\ debt # p.pos[o].debt
              THEN [p.pos[o] EXCEPT !.debt = debt, !.ratio = Ratio(p.pos[o].col, debt)]
              ELSE p.pos[o]]

\* accrue_interest.  The loop runs in HashMap order, so when it stops early any
\* set of the other positions may have been charged already; total_debt and
\* last_accrual_ts are then still the old ones.
AccrueInterest(p, now) ==
    LET debtors  == {o \in DOMAIN p.pos : p.pos[o].debt > 0}
        fine     == {o \in debtors : ~InterestOverflows(p, o, now)}
        total(S) == SumFunction([o \in S |-> Interest(p, o, now)])
        stopped(S) == fine # debtors \/ S = debtors \/ total(S) > MaxU64
    IN  CASE now < p.last -> {Result("TimeRewind", p)}
          [] now = p.last \/ (now > p.last /\ p.totalDebt = 0) ->
                {Result("ok", [p EXCEPT !.last = now])}
          [] OTHER ->
                IF fine = debtors /\ p.totalDebt + total(debtors) <= MaxU64
                  THEN {Result("ok", [p EXCEPT !.pos = Charged(p, debtors, now),
                                               !.totalDebt = @ + total(debtors),
                                               !.last = now])}
                  ELSE {Result("Overflow", [p EXCEPT !.pos = Charged(p, S, now)]) :
                            S \in {T \in SUBSET fine : stopped(T)}}

-----------------------------------------------------------------------------
(* Operations.  Those after the first take the outcome a of the accrual    *)
(* they begin with.                                                        *)

\* Mutant: the sums are not checked.
DepositUnchecked(p, o, amount) ==
    LET old == IF o \in DOMAIN p.pos THEN p.pos[o]
                                     ELSE [col |-> 0, debt |-> 0, ratio |-> MaxU64]
    IN  Result("ok", [p EXCEPT !.pos = Holding(p, o, old.col + amount, old.debt),
                               !.totalCol = @ + amount])

DepositCollateral(p, o, amount) ==
    LET old    == IF o \in DOMAIN p.pos THEN p.pos[o]
                                        ELSE [col |-> 0, debt |-> 0, ratio |-> MaxU64]
        put(c) == [p EXCEPT !.pos = [x \in DOMAIN p.pos \cup {o} |->
                                        IF x = o THEN c ELSE p.pos[x]]]
    IN  CASE old.col + amount > MaxU64 -> Result("Overflow", put(old))
          [] old.col + amount <= MaxU64 /\ p.totalCol + amount > MaxU64 ->
                Result("Overflow", put([old EXCEPT !.col = @ + amount]))
          [] OTHER ->
                Result("ok", [p EXCEPT !.pos = Holding(p, o, old.col + amount, old.debt),
                                       !.totalCol = @ + amount])

Borrow(a, o, amount) ==
    LET p    == a.pool
        col  == p.pos[o].col
        debt == p.pos[o].debt + amount
    IN  CASE a.err # "ok" -> a
          [] a.err = "ok" /\ o \notin DOMAIN p.pos -> Result("PositionNotFound", p)
          [] OTHER ->
             IF debt > MaxU64 THEN Result("Overflow", p)
             ELSE IF Ratio(col, debt) < MinRatio THEN Result("RatioTooLow", p)
             ELSE IF p.totalDebt + amount > MaxU64
               THEN Result("Overflow", [p EXCEPT !.pos = Holding(p, o, col, debt)])
               ELSE Result("ok", [p EXCEPT !.pos = Holding(p, o, col, debt),
                                           !.totalDebt = @ + amount])

\* The position is written before the pool's total is checked.  The stored
\* ratio is written last, so it is left stale if the total is too small.
Repay(a, o, amount) ==
    LET p    == a.pool
        paid == AtMost(amount, p.pos[o].debt)
    IN  CASE a.err # "ok" -> a
          [] a.err = "ok" /\ o \notin DOMAIN p.pos -> Result("PositionNotFound", p)
          [] OTHER ->
             IF paid > p.totalDebt
               THEN Result("Overflow", [p EXCEPT !.pos[o].debt = @ - paid])
               ELSE Result("ok",
                        [p EXCEPT !.pos = Holding(p, o, p.pos[o].col, p.pos[o].debt - paid),
                                  !.totalDebt = @ - paid])

\* Mutant: the collateral ratio left behind is not looked at.
WithdrawUnchecked(a, o, amount) ==
    LET p == a.pool
    IN  IF a.err # "ok" THEN a
        ELSE IF o \notin DOMAIN p.pos THEN Result("PositionNotFound", p)
        ELSE IF p.pos[o].col < amount THEN Result("InsufficientCollateral", p)
        ELSE Result("ok",
                [p EXCEPT !.pos = Holding(p, o, p.pos[o].col - amount, p.pos[o].debt),
                          !.totalCol = @ - amount])

\* Mutant: the position is written before the ratio is looked at.
WithdrawLate(a, o, amount) ==
    LET p    == a.pool
        debt == p.pos[o].debt
        held == [p EXCEPT !.pos = Holding(p, o, p.pos[o].col - amount, debt)]
    IN  IF a.err # "ok" THEN a
        ELSE IF o \notin DOMAIN p.pos THEN Result("PositionNotFound", p)
        ELSE IF p.pos[o].col < amount THEN Result("InsufficientCollateral", p)
        ELSE IF debt > 0 /\ held.pos[o].ratio < MinRatio THEN Result("RatioTooLow", held)
        ELSE Result("ok", [held EXCEPT !.totalCol = @ - amount])

WithdrawCollateral(a, o, amount) ==
    LET p    == a.pool
        debt == p.pos[o].debt
        col  == p.pos[o].col - amount
        held == Holding(p, o, col, debt)
    IN  CASE a.err # "ok" -> a
          [] a.err = "ok" /\ o \notin DOMAIN p.pos -> Result("PositionNotFound", p)
          [] OTHER ->
             IF p.pos[o].col < amount THEN Result("InsufficientCollateral", p)
             ELSE IF debt > 0 /\ Ratio(col, debt) < MinRatio THEN Result("RatioTooLow", p)
             ELSE IF amount > p.totalCol
               THEN Result("Overflow", [p EXCEPT !.pos = held])
               ELSE Result("ok", [p EXCEPT !.pos = held, !.totalCol = @ - amount])

\* Mutant: seized collateral stays in the pool's total.
LiquidateKeepsTotal(a, o, amount) ==
    LET p      == a.pool
        paid   == AtMost(amount, p.pos[o].debt)
        seized == AtMost(p.pos[o].col, paid + (paid * Bonus) \div BPS)
    IN  IF a.err # "ok" THEN a
        ELSE IF o \notin DOMAIN p.pos THEN Result("PositionNotFound", p)
        ELSE IF p.pos[o].debt = 0 \/ p.pos[o].ratio >= LiquidationRatio
          THEN Result("NotLiquidatable", p)
        ELSE Result("ok",
                [p EXCEPT !.pos = Holding(p, o, p.pos[o].col - seized, p.pos[o].debt - paid),
                          !.totalDebt = @ - paid])

\* Whether the position may be liquidated is read from the stored ratio.
Liquidate(a, o, amount) ==
    LET p      == a.pool
        paid   == AtMost(amount, p.pos[o].debt)
        bonus  == (paid * Bonus) \div BPS
        seized == AtMost(p.pos[o].col, paid + bonus)
        held   == Holding(p, o, p.pos[o].col - seized, p.pos[o].debt - paid)
    IN  CASE a.err # "ok" -> a
          [] a.err = "ok" /\ o \notin DOMAIN p.pos -> Result("PositionNotFound", p)
          [] OTHER ->
             IF p.pos[o].debt = 0 \/ p.pos[o].ratio >= LiquidationRatio
               THEN Result("NotLiquidatable", p)
             ELSE IF paid + bonus > MaxU64 THEN Result("Overflow", p)
             ELSE IF paid > p.totalDebt THEN Result("Overflow", [p EXCEPT !.pos = held])
             ELSE IF seized > p.totalCol
               THEN Result("Overflow", [p EXCEPT !.pos = held, !.totalDebt = @ - paid])
               ELSE Result("ok", [p EXCEPT !.pos = held,
                                           !.totalDebt = @ - paid,
                                           !.totalCol = @ - seized])
=============================================================================
