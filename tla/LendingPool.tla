---------------------------- MODULE LendingPool -----------------------------
(***************************************************************************)
(* The lending pool as a state machine: any sequence of the five           *)
(* operations, with timestamps chosen by the callers (transactions carry   *)
(* their own), so time may also run backwards.                             *)
(***************************************************************************)
EXTENDS LendingOps

CONSTANTS
    Amounts,   \* bound: amounts asked for
    MaxTime    \* bound: timestamps are 0..MaxTime

ASSUME CallerAssumption == Amounts \subseteq 1..MaxU64 /\ MaxTime \in Nat

VARIABLES
    pool,       \* the LendingPool
    outcome,    \* history: the Result of the last operation
    overflowed  \* history: some operation has returned ArithmeticOverflow

vars == <<pool, outcome, overflowed>>

Init == /\ pool = EmptyPool(0)
        /\ outcome = "ok"
        /\ overflowed = FALSE

Finish(r) == /\ pool' = r.pool
             /\ outcome' = r.err
             /\ overflowed' = (overflowed \/ r.err = "Overflow")

DoDeposit(o, amount) == Finish(DepositCollateral(pool, o, amount))
DoBorrow(o, amount, now) ==
    \E a \in AccrueInterest(pool, now) : Finish(Borrow(a, o, amount))
DoRepay(o, amount, now) ==
    \E a \in AccrueInterest(pool, now) : Finish(Repay(a, o, amount))
DoWithdraw(o, amount, now) ==
    \E a \in AccrueInterest(pool, now) : Finish(WithdrawCollateral(a, o, amount))
DoLiquidate(o, amount, now) ==
    \E a \in AccrueInterest(pool, now) : Finish(Liquidate(a, o, amount))

Next ==
    \E o \in Owners, amount \in Amounts :
        \/ DoDeposit(o, amount)
        \/ \E now \in 0..MaxTime :
            \/ DoBorrow(o, amount, now)
            \/ DoRepay(o, amount, now)
            \/ DoWithdraw(o, amount, now)
            \/ DoLiquidate(o, amount, now)

Spec == Init /\ [][Next]_vars

-----------------------------------------------------------------------------
TypeOK ==
    /\ IsPool(pool) /\ pool.last <= MaxTime
    /\ outcome \in Errors \cup {"ok"}
    /\ overflowed \in BOOLEAN

\* defi_stats_handler, and the amounts of defi_position_handler.
Stats == [totalCol |-> pool.totalCol, totalDebt |-> pool.totalDebt,
          rate |-> current_borrow_rate_bps(pool), count |-> Cardinality(DOMAIN pool.pos)]
Shown(o) == pool.pos[o]

\* The interest rate is computed from total_debt and total_collateral, which
\* every operation updates beside the position it changes: the totals that the
\* statistics show stay the sums of the positions shown until a checked
\* addition fails half-way.  Where nobody owes anything the rate is the base rate.
TotalsMatch ==
    ~overflowed => /\ Stats.totalCol = SumFunction([o \in DOMAIN pool.pos |-> Shown(o).col])
                   /\ Stats.totalDebt = SumFunction([o \in DOMAIN pool.pos |-> Shown(o).debt])
                   /\ (\A o \in DOMAIN pool.pos : Shown(o).debt = 0) => Stats.rate = BaseRate

\* Liquidation trusts the stored collateral_ratio_bps: whatever changed the
\* position last (interest accrued for another owner's call included), the
\* stored ratio is that of the amounts held.
RatioFresh ==
    ~overflowed =>
        \A o \in DOMAIN pool.pos :
            pool.pos[o].ratio = Ratio(pool.pos[o].col, pool.pos[o].debt)

\* The ratio of o fits in 64 bits: "as u64" cuts nothing off.
Fits(o) == pool.pos[o].debt > 0 => (pool.pos[o].col * BPS) \div pool.pos[o].debt <= MaxU64

Healthy(o) == pool.pos[o].debt = 0 \/ pool.pos[o].ratio >= MinRatio

\* A position at or above the minimum ratio drops below it only through
\* interest, that is in a step that moves last_accrual_ts: no deposit, loan,
\* repayment, withdrawal or liquidation of anybody does it by itself.
OnlyInterestErodes ==
    [][\A o \in DOMAIN pool.pos :
          (Healthy(o) /\ ~Healthy(o)' /\ Fits(o)' /\ ~overflowed')
            => pool'.last > pool.last]_vars

\* A refused operation takes nothing from anybody: collateral, repayable debt
\* and the totals are those of the same pool with interest accrued or not.
RefusalOnlyAccrues ==
    [][outcome' \notin {"ok", "Overflow"} =>
          \/ pool' = pool
          \/ \E now \in 0..MaxTime : Result("ok", pool') \in AccrueInterest(pool, now)]_vars
=============================================================================
