---------------------------- MODULE MCBlockchain ----------------------------
(***************************************************************************)
(* Blockchain with the lending pool of LendingOps and one contract run by  *)
(* the machine of VmOps as its business state.                             *)
(***************************************************************************)
EXTENDS ChainQueries, TLC

CONSTANTS
    Alice, Bob, Contract,
    Executed    \* what executing each script on each storage gives

MCAddress == {Alice, Bob, Contract}

Pool == INSTANCE LendingOps WITH
    Owners <- {Alice, Bob}, BPS <- 4, MinRatio <- 6, LiquidationRatio <- 5,
    Bonus <- 1, BaseRate <- 1, Slope <- 2, SecondsPerYear <- 1

Machine == INSTANCE VmOps WITH MaxI64 <- 3

\* slot: the contract's storage, which has one key.
MCInitApp == [pool |-> Pool!EmptyPool(0), slot |-> Machine!NoState]

Slot == Machine!Name("slot")
Storages == {Machine!NoState} \cup [{Slot} -> {0, 1}]

\* Only Alice uses the pool.
MCApp == [pool : [pos : {<< >>} \cup [{Alice} -> Pool!Position],
                  totalCol : 0..MaxU64, totalDebt : 0..MaxU64, last : Nat],
          slot : Storages]

Const(n) == Machine!Line("LOAD_CONST", <<Machine!Num(n)>>)
Load == Machine!Line("LOAD", <<Slot>>)
Store == Machine!Line("STORE", <<Slot>>)

\* A script that stores a one, and one that divides by the slot and clears it.
Source == [set |-> <<Const(1), Store>>,
           clear |-> <<Const(1), Load, Machine!Line("DIV", << >>), Const(0), Store>>]

\* execute with its limit, here 8, for each script and storage.
MCExecuted == [s \in DOMAIN Source, state \in Storages |->
                Machine!Run(Machine!Compile(Source[s]).program, state, 8)]

Called(r, a) ==
    [ok |-> r.at = "ok", app |-> IF r.at = "ok" THEN [a EXCEPT !.slot = r.state] ELSE a]
Lent(r, a) == [ok |-> r.err = "ok", app |-> [a EXCEPT !.pool = r.pool]]

Lending(tx, p, accrued) ==
    CASE tx.does = "deposit"  -> Pool!DepositCollateral(p, tx.owner, tx.qty)
      [] tx.does = "borrow"   -> Pool!Borrow(accrued, tx.owner, tx.qty)
      [] tx.does = "repay"    -> Pool!Repay(accrued, tx.owner, tx.qty)
      [] tx.does = "withdraw" -> Pool!WithdrawCollateral(accrued, tx.owner, tx.qty)
      [] tx.does = "liquidate" -> Pool!Liquidate(accrued, tx.owner, tx.qty)

Accrued(p, now) == CHOOSE q \in Pool!AccrueInterest(p, now) : TRUE

MCOutcome(tx, a) ==
    IF tx.kind = "Contract" THEN Called(Executed[tx.does, a.slot], a)
    ELSE Lent(Lending(tx, a.pool, Accrued(a.pool, tx.now)), a)

Pay(from, to, amount) ==
    [kind |-> "Transfer", from |-> from, to |-> to, amount |-> amount, sealed |-> TRUE]
Run(from, script) ==
    [kind |-> "Contract", from |-> from, to |-> Contract, amount |-> 1, sealed |-> TRUE,
     does |-> script]
Defi(who, does, owner, qty, now) ==
    [kind |-> "Defi", from |-> who, to |-> who, amount |-> qty, sealed |-> TRUE,
     does |-> does, owner |-> owner, qty |-> qty, now |-> now]

\* A collateral of 4 carries one loan of 2 (a ratio of 8, at least 6), not two.
Loans == {Defi(Alice, "deposit", Alice, 4, 0), Defi(Alice, "borrow", Alice, 2, 0)}

\* Contract calls, loans, and an action of Bob on the position of Alice.
Payloads == {Run(Alice, "set"), Run(Alice, "clear"),
             Defi(Bob, "withdraw", Alice, 3, 2)} \cup Loans

\* Transfers, one of them to its sender and one forged; and money from nowhere,
\* which only a block of a peer may hold: a transfer of the system, two of which
\* pass MaxU64, and a reward that names a user as its sender.
Transfers == {Pay(Alice, Bob, 2), Pay(Bob, Alice, 1), Pay(Alice, Alice, 1),
              [Pay(Alice, Bob, 1) EXCEPT !.sealed = FALSE],
              Pay(SystemAddress, Bob, 20),
              [Pay(Bob, Alice, 1) EXCEPT !.kind = "SystemReward"]}

MCTx == Payloads \cup Transfers
=============================================================================
