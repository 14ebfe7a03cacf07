----------------------------- MODULE Blockchain -----------------------------
(***************************************************************************)
(* The Blockchain aggregate of crates/core/src/blockchain.rs: the chain,   *)
(* the pool of pending transactions, account balances, and the business    *)
(* state that transactions with a payload advance (contract storage and    *)
(* the lending pool, here one value app).  Its owner calls it under one    *)
(* lock, so each public operation is one step.                             *)
(*                                                                         *)
(* What a payload does is the parameter Outcome: MCBlockchain instantiates *)
(* it with the lending pool of LendingOps and two contract scripts.        *)
(*                                                                         *)
(* Abstracted: a block is its transactions.  Header checks (hash, index,   *)
(* previous hash, difficulty) accept or refuse a block before anything     *)
(* modelled here happens; PeerSync has them.  That the id and signature of *)
(* a transaction are those of its content is its field sealed.  The        *)
(* genesis block is empty and is left out of chain.                        *)
(***************************************************************************)
EXTENDS Integers, Sequences, FiniteSets, SequencesExt

CONSTANTS
    Address,         \* account and contract addresses
    Miners,          \* addresses rewarded for blocks
    Tx,              \* transactions users and peers send: [kind, from, to, amount, sealed],
                     \* of kind "Defi" also [does, owner], the action and whose position
    MiningReward,    \* mining_reward
    MaxU64,          \* u64::MAX
    App,             \* contract and lending states
    InitApp,         \* the state at genesis
    Outcome(_, _),   \* Outcome(tx, app): [ok, app] of executing tx's payload
    MaxHeight,       \* bound: blocks on the chain
    MaxPending,      \* bound: pending transactions
    MaxBlock,        \* bound: transactions in a block of a peer
    MaxConfirmed     \* bound: transactions on the chain

\* Deployments and calls are "Contract"; NFT kinds carry no checked payload and are
\* transfers to the chain.
Kinds == {"Transfer", "Contract", "Defi", "SystemReward"}

SystemAddress == "__system__"

\* is_system
IsSystem(tx) == tx.kind = "SystemReward" \/ tx.from = SystemAddress

\* Anybody can make a system transaction: of any amount, to anybody, of any kind.
ASSUME ChainAssumption ==
    /\ MiningReward \in Nat /\ MaxU64 \in Nat
    /\ MaxHeight \in Nat /\ MaxPending \in Nat /\ MaxBlock \in Nat /\ MaxConfirmed \in Nat
    /\ IsFiniteSet(Address) /\ Miners \subseteq Address
    /\ \A tx \in Tx : /\ tx.kind \in Kinds
                      /\ tx.from \in Address \/ IsSystem(tx)
                      /\ tx.to \in Address /\ tx.amount \in Nat /\ tx.sealed \in BOOLEAN
    /\ InitApp \in App

VARIABLES
    chain,      \* the confirmed blocks after genesis, each a sequence of transactions
    pending,    \* pending_transactions
    app,        \* contract_states, contract_events and lending_pool
    stranded    \* history: a block failed half-way through its state transitions

vars == <<chain, pending, app, stranded>>

\* Transaction::system.  Its id is its content, so rewards of one second may share it.
RewardTx(miner) == [kind |-> "SystemReward", from |-> SystemAddress, to |-> miner,
                    amount |-> MiningReward, sealed |-> TRUE]

AnyTx == Tx \cup {RewardTx(m) : m \in Miners}

-----------------------------------------------------------------------------
(* Balances *)

HasPayload(tx) == tx.kind \in {"Contract", "Defi"}

\* Executing the payload on state a; other kinds have none.
Execute(tx, a) == IF HasPayload(tx) THEN Outcome(tx, a) ELSE [ok |-> TRUE, app |-> a]

\* Transaction::validate_for_chain.  Of a system transaction only the id is checked.
ValidForChain(tx) == tx.amount > 0 /\ tx.sealed

\* Only a liquidation may act on another's position.  This is checked where a
\* payload is tried out, not where it is executed.
Permitted(tx) == tx.kind = "Defi" /\ tx.does # "liquidate" => tx.owner = tx.from

\* The transaction and its payload pass, on state a.
Accepts(tx, a) == ValidForChain(tx) /\ Permitted(tx) /\ Execute(tx, a).ok

Credit(b, who, amount) ==
    [b EXCEPT ![who] = IF @ + amount > MaxU64 THEN MaxU64 ELSE @ + amount]

\* Mutant: the sender is not debited.
ApplyNoDebit(tx, a, b) ==
    IF Accepts(tx, a) /\ (IsSystem(tx) \/ b[tx.from] >= tx.amount)
      THEN [ok |-> TRUE, bal |-> Credit(b, tx.to, tx.amount)]
      ELSE [ok |-> FALSE, bal |-> b]

\* apply_transaction_to_balances: b is unchanged when the transaction fails.
\* The payload is tried out on the business state a of the present moment.
ApplyToBalances(tx, a, b) ==
    LET paid == IF IsSystem(tx) THEN b ELSE [b EXCEPT ![tx.from] = @ - tx.amount]
        unfunded == tx.kind # "Defi" /\ ~IsSystem(tx) /\ b[tx.from] < tx.amount
    IN  IF ~Accepts(tx, a) \/ unfunded THEN [ok |-> FALSE, bal |-> b]
        ELSE [ok |-> TRUE, bal |-> IF tx.kind = "Defi" THEN b ELSE Credit(paid, tx.to, tx.amount)]

\* apply_transactions_to_balances: stops at the first failure, keeping what was
\* applied before it.
ApplyAllToBalances(txs, a, b) ==
    LET run[i \in 0..Len(txs)] ==
            IF i = 0 THEN [ok |-> TRUE, bal |-> b]
            ELSE LET r == run[i - 1]
                 IN  IF r.ok THEN ApplyToBalances(txs[i], a, r.bal) ELSE r
    IN  run[Len(txs)]

NoMoney == [who \in Address |-> 0]

\* balances(): every confirmed block is applied again, on the business state of
\* now; the error of a block is ignored, so its transactions from the failing
\* one on do not count.
BalancesOf(blocks, a) ==
    LET after[h \in 0..Len(blocks)] ==
            IF h = 0 THEN NoMoney ELSE ApplyAllToBalances(blocks[h], a, after[h - 1]).bal
    IN  after[Len(blocks)]

Balances == BalancesOf(chain, app)

\* Mutant: the balances are not checked.
ValidUnfunded(txs) == TRUE

\* validate_next_block, once the header is accepted.
ValidBlock(txs) == ApplyAllToBalances(txs, app, Balances).ok

-----------------------------------------------------------------------------
(* Business state *)

\* apply_state_transitions: the state is changed in place, transaction by
\* transaction; the first error stops it and nothing is undone.  A payload that
\* fails may itself have changed the state.
ApplyTransitions(txs, a) ==
    LET run[i \in 0..Len(txs)] ==
            IF i = 0 THEN [ok |-> TRUE, app |-> a]
            ELSE LET r == run[i - 1]
                 IN  IF r.ok THEN Execute(txs[i], r.app) ELSE r
    IN  run[Len(txs)]

\* Mutant: the pool keeps what the block confirmed.
UnconfirmedInverted(pool, block) == SelectSeq(pool, LAMBDA tx : tx \in ToSet(block))

\* The pool without what a block confirmed (retain).
Unconfirmed(pool, block) ==
    LET kept[i \in 0..Len(pool)] ==
            IF i = 0 THEN << >>
            ELSE IF pool[i] \in ToSet(block) THEN kept[i - 1]
            ELSE Append(kept[i - 1], pool[i])
    IN  kept[Len(pool)]

-----------------------------------------------------------------------------
(* Operations *)

Init == /\ chain = << >>
        /\ pending = << >>
        /\ app = InitApp
        /\ stranded = FALSE

Confirmed == FoldLeft(LAMBDA n, block : n + Len(block), 0, chain)

\* Mutant: transactions of the system are let in.
AddAnything(tx) ==
    /\ Len(pending) < MaxPending
    /\ ApplyAllToBalances(Append(pending, tx), app, Balances).ok
    /\ pending' = Append(pending, tx)
    /\ UNCHANGED <<chain, app, stranded>>

\* add_transaction: the pending transactions and then the new one are applied
\* to the present balances; each payload is tried out on the present state.
AddTransaction(tx) ==
    /\ ~IsSystem(tx)
    /\ Len(pending) < MaxPending
    /\ ApplyAllToBalances(Append(pending, tx), app, Balances).ok
    /\ pending' = Append(pending, tx)
    /\ UNCHANGED <<chain, app, stranded>>

\* Mutant: the state transitions are tried but not kept.
CommitWithoutState(block, left) ==
    /\ ValidBlock(block)
    /\ ApplyTransitions(block, app).ok
    /\ chain' = Append(chain, block) /\ pending' = left
    /\ UNCHANGED <<app, stranded>>

\* The part mine_pending_transactions and append_external_block share: the
\* business state moves even when the block is then refused.
Commit(block, left) ==
    LET r == ApplyTransitions(block, app)
    IN  /\ ValidBlock(block)
        /\ app' = r.app
        /\ stranded' = (stranded \/ ~r.ok)
        /\ IF r.ok THEN chain' = Append(chain, block) /\ pending' = left
                   ELSE UNCHANGED <<chain, pending>>

\* mine_pending_transactions: all pending transactions, then the reward.
MinePendingTransactions(miner) ==
    /\ Len(chain) < MaxHeight
    /\ Confirmed + Len(pending) < MaxConfirmed
    /\ Commit(Append(pending, RewardTx(miner)), << >>)

\* append_external_block: a block another node made on the same tip, of any
\* transactions that apply: nothing asks for a reward, or for only one, or for
\* the amount of a system transaction.  Confirmed transactions leave the pool; the
\* others are not checked again.
AppendExternalBlock(block) ==
    /\ Len(chain) < MaxHeight
    /\ Confirmed + Len(block) <= MaxConfirmed
    /\ Commit(block, Unconfirmed(pending, block))

SoloNext ==
    \/ \E tx \in AnyTx : AddTransaction(tx)
    \/ \E m \in Miners : MinePendingTransactions(m)

Next ==
    \/ SoloNext
    \/ \E block \in BoundedSeq(AnyTx, MaxBlock) : AppendExternalBlock(block)

Spec == Init /\ [][Next]_vars

\* A node that mines and is fed by no peer.
SoloSpec == Init /\ [][SoloNext]_vars
-----------------------------------------------------------------------------
(* Properties *)

\* The transactions that may be confirmed, and those that may be pooled.
Txs == {tx \in AnyTx : ValidForChain(tx) /\ Permitted(tx)}
Poolable == {tx \in Txs : ~IsSystem(tx)}

\* No way in, of the user or of a peer, takes a transaction that is forged or
\* acts on a position of somebody else, and none of the system waits in the pool,
\* so that a block mined here has its reward only.
TypeOK ==
    /\ chain \in Seq(Seq(Txs))
    /\ pending \in Seq(Poolable)
    /\ app \in App
    /\ stranded \in BOOLEAN

\* What a transaction adds to the balances without taking it from one of them.
Mint(tx) == IF IsSystem(tx) /\ tx.kind # "Defi" THEN tx.amount ELSE 0

MintedIn(txs) == SumFunction([i \in DOMAIN txs |-> Mint(txs[i])])
Minted(blocks) == SumFunction([h \in DOMAIN blocks |-> MintedIn(blocks[h])])

\* Whatever balances() drops or applies twice, it never credits more than the
\* system transactions of the confirmed blocks, of this node or of peers, give:
\* every other transaction credits only what it debits.
NoMoneyFromNothing == SumFunction(Balances) <= Minted(chain)

PayloadFree == \A h \in DOMAIN chain : \A i \in DOMAIN chain[h] : ~HasPayload(chain[h][i])

\* On a chain of plain transfers, replaying from genesis accepts every block,
\* with blocks of other nodes arriving between the local ones and transfers
\* resubmitted after they are confirmed; and it accounts for everything that
\* system transactions minted, as long as that fits a u64.
TransferLedgerSound ==
    PayloadFree =>
        /\ \A h \in DOMAIN chain :
              ApplyAllToBalances(chain[h], app, BalancesOf(SubSeq(chain, 1, h - 1), app)).ok
        /\ Minted(chain) <= MaxU64 => SumFunction(Balances) = Minted(chain)

\* The business state that executing blocks from genesis leads to.
StateAfter(blocks) ==
    LET after[h \in 0..Len(blocks)] ==
            IF h = 0 THEN InitApp ELSE ApplyTransitions(blocks[h], after[h - 1]).app
    IN  after[Len(blocks)]

\* The business state is that of executing the confirmed blocks in order,
\* unless a block failed half-way at some time and left its effects behind.
AppFollowsChain ==
    ~stranded => app = StateAfter(chain)

\* A pending transaction leaves the pool exactly when it is confirmed: a block
\* that fails keeps the whole pool, one mined here takes all of it, and one of a
\* peer takes what the two share, every copy of it, and nothing else.
LeavesPoolWhenConfirmed ==
    [][\A tx \in ToSet(pending) :
          tx \notin ToSet(pending') <=> /\ Len(chain') > Len(chain)
                                       /\ tx \in ToSet(Last(chain'))]_vars

-----------------------------------------------------------------------------
(* What comments of the code say and the code does not do *)

\* blockchain.rs:438: admission tries the payload on a copy of the lending pool,
\* "so that entering the pool guarantees success".
AdmittedCanBeMined ==
    \A m \in Miners :
        LET block == Append(pending, RewardTx(m))
        IN  ValidBlock(block) /\ ApplyTransitions(block, app).ok

\* blockchain.rs:40: the lending pool "advances as blocks are confirmed".
AppAdvancesWithBlocks == [][app' # app => Len(chain') > Len(chain)]_app

\* blockchain.rs:574-577: the amount of a DeFi action is a business quantity and
\* "should not affect account balances": a block of DeFi actions leaves every
\* balance but the miner's, and the miner's grows by the reward.
DefiLeavesBalances ==
    [][\A m \in Miners :
          /\ Len(chain') > Len(chain)
          /\ Last(Last(chain')) = RewardTx(m)
          /\ \A tx \in ToSet(Last(chain')) : tx.kind \in {"Defi", "SystemReward"}
          => Balances' = Credit(Balances, m, MiningReward)]_vars
=============================================================================
