# Verification of RustChain Lab

TLA+ models of RustChain Lab (`crates/` of the repository), the TLC runs that
check them on small instances, and the TLAPS proofs of the properties that
matter most. File and line references are to the repository.

## 1. Inventory

RustChain Lab is one process per node: an HTTP service (`crates/api`, a
multi-threaded tokio runtime) around four pieces of shared state, each behind
its own mutex, and two stores.

| Part | State it keeps | Operations | Models |
| --- | --- | --- | --- |
| Blockchain aggregate, `core/src/blockchain.rs`, `transaction.rs`, `defi_payload.rs` | `chain`, `pending_transactions`, `contract_states`, `contract_events`, `lending_pool`, `difficulty` | `add_transaction`, `mine_pending_transactions`, `append_external_block`, `balances`, `validate_chain` | `Blockchain`, `MCBlockchain` |
| Difficulty and block validity, `blockchain.rs:235-344`, `block.rs` | cached `difficulty` | window rule, validation of a block and of a chain | `Difficulty`, used by `PeerSync` |
| Contract VM, `vm/src/` | stack, program counter, steps; storage and events per contract | compile, execute | `VmOps`, `Vm` |
| Lending pool, `apps/src/defi.rs` | `positions`, `total_collateral`, `total_debt`, `last_accrual_ts` | deposit, borrow, repay, withdraw, liquidate, accrue | `LendingOps`, `LendingPool` |
| NFT market, `apps/src/nft.rs` | `tokens`, `listings`, two counters | mint, list, cancel, buy | `NftMarketplace`, `NftOwnership` |
| API node, `api/src/chain_ops.rs`, `handlers/chain.rs`, `state.rs` | the mutexes, the two stores, what each request has copied out of them | submit, mine, accept a block, persist, advertise, restart | `ApiNode` |
| Query handlers, `handlers/chain.rs`, `defi.rs`, `nft.rs` | none, but they look in two places one after the other | transaction, balance and contract queries; address records, summary, pages | `ApiQueries`, `ChainQueries`; the pool's and the market's in their modules |
| Sync engine, `p2p/src/engine.rs`, `peer.rs`, `handlers/p2p.rs` | peer registry with heights, own chain summary | handshake, status, blocks, discovery, choice of sync target, DHT lookup | `PeerSync`, `Kademlia` |
| Message delivery, `p2p/src/codec.rs`, `transport.rs`, `queue.rs`, `handlers/p2p.rs` | decode buffer and `next_sequence` per session, `next_expected` and `pending` per peer | bytes in, messages posted in, queue push and release | `Delivery` |
| Storage backends, `storage/src/` | key-value maps, LevelDB, RocksDB | put, get, delete | as used by `ApiNode`, `ApiQueries` |
| Wallet and signatures, `crypto/src/` | none | pure functions | not modelled (one bit of a transaction) |
| Configuration, logging, routes, CLI, scripts | none | I/O | not modelled |

**How they interact.** A handler takes one mutex at a time (`with_chain_mut`,
`with_p2p_mut`, `with_market_mut`), copies out what it needs and releases it;
only `p2p_transport_frame_handler` holds two, always engine then sessions, so
there is no lock cycle. Handlers contain no `await`, so a request runs on its
thread to the end, beside the requests of other threads. The chain calls the
lending pool and the VM twice per payload: on a copy, to admit it, and in place,
when a block is added. The mining and accepting handlers write the block, its
transactions and the state *after* the chain's mutex is released and then update
the summary in the engine. Peers send bytes (cut into frames and numbered by the
transport session) or post numbered messages; both end in the peer's ordered
queue. Nothing in a node sends on its own: a handler's answer lists the messages
that ought to go out, and an operator or a transport takes them along. So
synchronisation moves only while somebody keeps asking.

**What is hard here.** Puts of two requests interleave (ApiNode). A put fails or
the process stops half-way (ApiNode). A block fails after some of its payloads
changed state in place (Blockchain). Old payloads are validated again on new
state, and blocks of peers mint what they like (Blockchain). A checked addition
fails after the position was changed (LendingOps). Numbers from two sources, gaps, repetitions and bad frames meet in
one queue (Delivery). A query looks into the pool and then, under another lock,
into the history (ApiQueries). Records shift between two pages of a client
(ChainQueries). A node asks for blocks by a summary that lags its chain, of a
peer whose height it heard some time ago, over a net that loses messages, while
other handlers add blocks (PeerSync). The next difficulty is cached, and derived
from miners' clocks that may go backwards (Difficulty). A contract may loop,
fail in the middle or panic under the chain's lock (Vm). `PROJECT.json` lists
every such hazard with its line and the properties that watch it.

## 2. Modules and how they correspond to the code

`NftMarketplace` has the two maps as functions on the numbers of tokens and
listings; the counters are implied, since numbers in use are `1..n`. One action
per method; refused requests are not steps because they change nothing.
`NftOwnership` is the promise: who owns a token, and at most one open offer per
token, taken only from the present owner. `NftMarketplace` implements it with
`offer[t]` = the seller of the active listing of `t`, if any.

`LendingOps` has no variables: each method is a function from a pool to
`[err, pool]`, keeping the pool an error leaves behind (positions are changed
before the totals are checked). `AccrueInterest` returns a *set* of outcomes,
because an overflow stops a loop over a `HashMap`. `LendingPool` makes a state
machine of it and adds what the DeFi query handlers show. The same operators are
business state of `MCBlockchain`.

`VmOps` has the compiler and the machine as functions: `Compile` of a source,
`Turn` for one iteration of the loop in `execute_with_limit`, `Run` for a whole
execution. i64 has as many bits as `MaxI64` says. `Vm` takes one turn per step,
for both callers (`request` says which, and with what source): the handler (fresh
storage, the caller's limit) and a confirmed contract transaction, whose storage
is replaced only when the program ends well.
A panic (`i64::MIN / -1`) unwinds through the chain's lock guard and poisons it.

`Blockchain` has the chain, the pool and the business state `app` (contract
storage and lending pool together). What a payload does is the constant
`Outcome`; `MCBlockchain` gives it the lending pool and a contract run by
`VmOps`. A transaction is admitted when its signature is its own (`sealed`), its
payload passes on a copy of the state, and the position it acts on is the
sender's (`Permitted`; a liquidator may act on another's). `Commit` is the tail that
`mine_pending_transactions` and `append_external_block` share: validate on the present balances, move the
business state in place, then append. `balances()` is the operator `Balances`,
which re-applies every block on the *present* `app`, as the code does. The
history variable `stranded` records that some block failed half-way. Loops of the
code are recursive functions here (`ApplyAllToBalances`, `StateAfter`,
`Unconfirmed`), so that they can be proved about. A block of a peer is any
sequence of transactions that apply (`AppendExternalBlock`): nobody counts its
rewards or looks at their amount, its recipients or its senders, since a system
transaction skips signature and balance (`transaction.rs:174-235`,
`blockchain.rs:363-385`). Only `add_transaction` refuses system transactions, so
those of users never reach the pool; a block mined here has the one reward.
`ChainQueries` has what the query handlers compute from chain and pool while they
hold the lock: records of an address, the mempool, pages, the summary's sums, with
the loops as recursive functions too.

`ApiNode` has threads, each with the request it is working on: the block it
added, the view of the chain it copied, and what remains to put. `AddBlock` is
the critical section; `PutBlock`, `PutTx`, `PutState`, `Advertise` are the steps
after it; `PutFails` is a `StorageError`; `Restart` is a new process that starts
from genesis beside the old stores (`state.rs:69-125`). A store entry is the
view it was written from, so "stale" is visible. Which balances are written is
what `balances()` lists at the time (`Listings`, kept in `listed`): it tries old
payloads on the business state of now and drops the rest of a block that fails, so
an address may disappear from it, and its key keeps the old value. Contract keys
only grow. Whether the state store
survives a restart (RocksDB or memory, a build feature) is chosen in `Init`.
`ApiQueries` adds one client whose query finds nothing in the first place and then
looks in the second (`Ask`, then `Found` or `Missed`), with any steps of the node
in between.

`Difficulty` has the window rule (`ExpectedDifficulty`), the header checks of one
block (`Follows`, `validate_next_block`) and of a chain (`ValidChain`,
`validate_chain`), which the code writes separately. `Kademlia` has the XOR
distance, the nearest peers and the buckets; a digest is the set of its one bits.
`PeerSync` puts several nodes together: registry, summary, chain and cached
difficulty per node, messages in flight, and for each request being served what
is left of it (its *job*), because `p2p_message_handler` locks the engine, then the
chain, then the engine again. `Restart` is a new process of one node: genesis, an
empty summary and the seed list (`state.rs:69-93`), while the other nodes keep
what they heard of it and its old messages are still in flight. `life` counts the
restarts; it makes the hashes of blocks of different lives differ, as their times
and transactions do, and tells the properties from which life a request is.
`On...` are the arms of the message handler;
`AppendBlock`, `Advertise`, `ReadHeight` and `Ask` are what follows a `Blocks`;
`Mine` and `Announce` are the mining handler; `SyncStep`, `Poll`, `Bootstrap`,
`Discover` and `RegisterPeer` are what operators do. `SelfId` is
`local_peer_id`, which every node has the same (`state.rs`), so a handshake's
height is noted under it whoever sent it, and it may come out as the sync
target, to which nothing can be delivered. A node may learn its own name through
discovery; blocks received are not relayed; a fork is never resolved, since
blocks are only appended.

`Delivery` has one remote peer: the halves of frames received, the frames
consumed, the session's number, and the queue. A bad frame stays at the head of
the buffer and drops what was drained before it in the same call
(`codec.rs:153-159`). `PostMessage` is the HTTP way in: queue, then act.
`TransportSessionPool::remove` is part of the crate's interface and modelled,
though the service itself never calls it.

## 3. Runs

| Run | Configuration | What it shows |
| --- | --- | --- |
| `nft` | 3 users, 2 tokens, 4 listings | one open offer per token, by its owner; refinement of `NftOwnership` |
| `lending` | 2 owners, amounts 4 and 6, times 0..2, u64 up to 24 | totals, stored ratios, health and refusals, until a checked addition fails |
| `chain` | 2 accounts, 1 contract with one storage key; 2 contract calls, a deposit, a loan, an action on another's position, 4 transfers (one forged), and 2 system transactions beside the rewards; 3 blocks, 4 confirmed transactions, peers' blocks of up to 2 | money from nowhere, the replay accounts for all that is minted, business state follows the chain, what leaves the pool, address summaries add up, records keep their place between pages |
| `node` | 2 threads, 3 blocks, 1 transaction that writes a contract key, a balance that is listed or not, 1 storage error, 1 restart, 1 client | the advertised tip is stored, confirmed transactions are found, what a query may miss, what sequential requests leave current |
| `vm` | `MaxI64` 3, all sources of two lines out of 20, each operation on pairs of 5 constants, loops and faulty scripts; limits 1, 3 and 24, chain limit 12, 2 contract calls | reported steps, stack, storage, division and panic, and that calls end |
| `sync` | 2 nodes (`a` mines 2 blocks, is restarted once and mines again, `b` mines 1 and follows), 2 names of nodes that are down, heights to 3, window 2, batch 2, 1 stray block | requests connect, chains are valid and never mix the blocks of two lives, the cached difficulty is the next, both views of the registry agree, the follower catches up |
| `delivery` | 4 frames (the third bad), 2 posted messages, numbers 1..4, 1 removal | order and completeness of what the engine handles |
| `admission`, `app_advance`, `defi_balance` | a deposit of 4 and a loan of 2, without peers | statements of comments in `blockchain.rs` that the code does not keep |
| `advertised_height` | 1 thread, 1 storage error | the statement of `chain_ops.rs:89-90` |
| `applied_order` | the `delivery` instance | the statement of `engine.rs:85` |

**Bounds, and why they are enough.** Three users let a token return to a former
owner; four listings let each token be relisted. Basis points of 4 and a year of
one tick put interest, an unhealthy position, liquidation and an overflow of
`MaxU64 = 24` within a few steps; a constraint stops *after* the first overflow,
since the totals are wrong from there on and the properties say so
(`~overflowed`). Three blocks let a payload in the first be re-validated on the
state the third left, and four confirmed transactions leave room for a block of
two beside them. A transaction of 20 mints nearly `MaxU64 = 24`, so two
of them saturate. `MaxHeight` and `MaxConfirmed` bound when blocks are added,
`MaxBlock` what a peer puts into one. Two threads and three blocks give overlap, an older
summary shown after a newer one, and a block after an error or restart. Four
frames with the third bad give a batch that drops messages and one that is
complete; numbers up to four leave room for a gap before the session's next
number. In `sync`, a batch of two leaves the chain's lock free between its blocks
and is followed by a request for more; the
block of `b` makes a fork or a race between two handlers of one node (`b` serves
two requests at once, `a` one); with windows of two blocks, height 4 is the first
whose difficulty is adjusted, and the clocks at height 3 make one window slow and
one end before it begins; a digest has three bits, so that two buckets and one per
bit differ. The chains of `sync` end at height 3, below the
first block of an adjusted difficulty: TLC sees the cached difficulty of such a
block, and the theorem `ChainsStayValid` covers the block. A restart is tried while
no chain is longer than `MaxLost = 1`: `b` may then have heard of a height, hold a
block, and have messages in flight that are of the former life of `a`, which mines
on another chain. `MaxInFlight = 1` bounds only when operators act; answers and
announcements pile up beyond it. In `vm`, the count-down loop takes 19 steps: the
chain limit of 12 stops it after its first stores, the handler's 24 lets it end.
Deadlock is not checked where the bounds, or users who stop asking, let the
system rest: all runs.

**Fairness.** Only two properties are liveness. `CallsEnd` needs weak fairness of
one turn of the machine: execution has no `await` and waits for nothing.
`CatchesUp` needs weak fairness of a node's jobs, one for the adding and one for
the asking part, since each request has a thread of its own, and of the delivery of
what is in flight; and *strong* fairness in two places, per pair of nodes:
`GetBlocks` from a follower to a peer and `Blocks` from that peer arrive now and
then although any of them may be lost, and the operators of followers ask each peer
for its status again and again, although other messages may fill the net in
between. The last is an assumption about operators
and is named as such in `Fairness`: nothing in the code drives synchronisation.
`CatchesUp` also leaves out a node whose summary stays behind its own chain
(`SummaryLags`): when two handlers add blocks and the older summary is shown
last, the node goes on asking for blocks it has, and refuses the first of the
answer, and with it the rest.

**Findings** (details in `PROJECT.json`). (1) Payloads admitted one by one may be
impossible to mine together, and then block the pool. (2) A block that fails
half-way leaves its first effects in the business state. (3) `balances()` loses
the reward of a block whose payload succeeded but no longer passes on the state it
led to. (4) After a failed put,
a later block advertises a height that includes the block that was not
persisted. (5) The message handler acts on messages out of order.

## 4. What is proved

Every type invariant, safety invariant and action property that a passing run
checks is also a theorem of its specification, for every value of the constants;
so is the refinement of `NftOwnership`. What remains with TLC is listed at the end.

**Method.** The provers cannot use the library's induction theorems, which take
a predicate as a parameter. `Sums` puts a *set* in its place: `SetInduction`,
`SequenceInduction`, `SizeInduction` (finite sets) and `LeastNumber` follow from
the well-foundedness of `<` on numbers. With them a recursive function is shown
to exist and to be unique (`RunExists`, `RunsAgree`, `RunStays`, and the
`...StepsExist`, `...Run` lemmas of each module), which is what a `LET` function
needs before its equations can be used, and `SumFunctionOnSet` of the community
modules is shown to add up (`SumInsert`, `SumRemove`, `SumOneChanged`). From there
every proof has the same shape: one lemma per operator says what one more
transaction, block or turn changes, and an inductive invariant collects them.

**Assumptions** are the named ones in the modules, and a few stated in a theorem.

| Where | Assumed | Because |
| --- | --- | --- |
| `ChainAssumption` | finitely many addresses; the sender of a transaction is one of them, or it is a system transaction | `balances()` is a map of what occurs; nothing is assumed of what peers or users send |
| `LendingAssumption` | parameters are u64, the year and the basis are not 0, liquidation at or below the minimum ratio | constants of `defi.rs` |
| `CallerAssumption` | amounts are positive u64 | the handlers refuse 0; a payload's u64 |
| `VmAssumption` | limits are positive, sources are lists of lines | `handlers/vm.rs:70` refuses a `max_steps` of 0 |
| `SyncAssumption` | finitely many names, digests of so many bits | SHA-256 of the name |
| `ChainTypes` | `OutcomeKeepsApp`: a payload leads from business state to business state | the type of `apply_state_transitions`; `MCBlockchain` gives an instance |

**NFT market**, `NftMarketplaceProofs`: `MarketTypes`, `NeverOnSaleTwice`,
`SellersOwnTheirTokens` and `MarketImplementsOwnership`. The invariant is the
conjunction of the two safety properties with the types, because each needs the
other: a sale keeps "the seller owns the token" only if no second active listing
names it, and a new listing is unique only because the search covers all. The
refinement uses that the seller a `CHOOSE` finds is the owner, whichever listing
it is. Assumed: `NoOffer` is no user.

**Lending pool**, `LendingProofs`: `LendingTypes`, `StoredRatiosAreFresh`,
`TotalsAreSums`, `RefusalsOnlyAccrue`, `OnlyInterestErodesHealth`. Every method is
`Accrues` (what charging interest does, including where an overflow stops it) and
then `Effect` on one position, so the invariants are shown twice instead of once
per error path. The totals are sums over the positions: interest changes many of
them at once (`SumAdd`), an operation one (`SumOneChanged`). Once a checked
addition has failed the totals may be wrong for good; the invariant says so with
`overflowed`, as the property does.

**Blockchain**, `BlockchainProofs`. `ChainInv`: every block on the chain was
accepted transaction by transaction, and the pool was. From it:

* `ChainTypes`, `SupplyBound` (`BlockMoney`: a block creates at most what its
  system transactions mint, whatever is dropped on replay, since any other
  transaction credits what it debits or, when saturated, less), `AppIsReplay`
  (`StateAppend`).
* `PoolLosesWhatIsConfirmed`: `UnconfirmedIsRest` says that `retain` leaves exactly
  what the block does not have, every copy; a block that fails leaves the pool as it is.
* `LedgerSound`: on a chain of plain transfers the business state does not matter
  for the replay (`PlainSameBalances`), so a block that applied once applies in
  every later replay. Without this the old blocks could not be carried along:
  `balances()` replays them on the state of now. What peers mint is any amount; the
  equality is claimed until the sum leaves u64, where a saturating credit loses
  money.
* `PagesStayInPlace`: one more block puts its records before all others
  (`AddressTxsAppend`), one more pending transaction before the pending ones and
  after the mempool's (`PoolPages`). When a block takes records out of the pool
  those behind them move up, and a client's next page skips as many: the property
  leaves that step out, because the code does it.
* `SummaryExplainsBalance`: the handler adds what comes in and goes out by itself.
  `FlowsExplainBalances` follows balance and sums together through one list of
  transactions, `FlowConcat` says how the saturating sums of two lists combine,
  and `ExplainedAppend` carries it from block to block. Saturated sums explain
  nothing, and a peer's system transaction that names an account as its sender is
  listed as outgoing but debits nobody; the property leaves both out by name.

**Contract VM**, `VmProofs`. `VmInv` says of a machine that its program compiled,
its counter is inside it or just behind, and its stack and events are paid for
with steps (`VmTypes`). On top of it:

* `GuardedDivisionsDoNotPanic`: before a guarded division its divisor is on top of
  the stack (`DivisorLoaded`), because no jump leads between the two.
* `StackIsAsWritten`: without jumps the counter only moves on by one, and
  `HeightSteps` says that each turn changes the stack as the text says.
* `ContractStorageIsReplay`: the execution under way is some turn of the run that
  its source defines (`OnTrace`), so one that ends well ends with that run's state
  (`RunIsTrace`), and the calls of the log are replayed in their order.
* `ReportedStepsAreNeeded`: two runs that differ in the limit are alike until the
  smaller limit bites (`Alike`), so as many steps suffice and one less does not.

**API node and queries**, `ApiProofs`: `NodeTypes`, `TipIsStored` and
`ConfirmedIsFound`: past a put its effect is in the history store, and nothing is
ever taken out of it, not by errors, restarts or other threads; one thread's step
changes this for its own block only. `QuietNodeIsCurrent`: with one
request at a time the puts follow the order of the blocks, and the request that runs
has in its keys whatever is not yet written (`Current`). It speaks of the keys that
`balances()` listed when the tip was added: a balance that is no longer listed stays
as it was, and so does a key of an old process that the new chain has not touched.
`MissesAreWrites`:
steps of a query are stutters of the node, so its invariant carries over; what a
query has not found in the first place is on the chain already, which only grows
until a restart, and that ends the query too.

**Message delivery**, `DeliveryProofs`: `DeliveryTypes`, `HandledInSequence`,
`SessionKeepsBehind`, `FramesStayInOrder`. `OnIncomingOrder` is the lemma about the
queue: what comes out carries the numbers that were next. A frame never waits,
because the session's number is at most the queue's; so frames are handled at
once or dropped, in the order they were decoded.

**Synchronisation**, `PeerSyncProofs`: `SyncTypes`, `RequestsAlwaysConnect`,
`ChainsStayValid`, `CacheStaysNext`,
`BucketsFollowDistance`, for any nodes, seeds, clocks, batch size and window.
`SyncInv` says of every job that it knows no more than the chain of its node, and of
every request in flight that it connects to its sender's chain as long as the sender
is not restarted (`life`); it is inductive because chains only grow within a life
(`OldMessagesStayGood`, `OldJobsStayGood`) and a restart ends the node's jobs
(`RestartKeepsInv`). Heights that peers have heard may be wrong after a restart, and
nothing is claimed of them. Heights alone do not make chains valid: `ChainInv` adds
that each chain passes `ValidChain` and that the cache is `ExpectedDifficulty` of the
next height. `FollowsKeepsValid` connects the two ways the code checks a header,
and `ExpectedOnPrefix` says that the expected difficulty of a height depends only
on the blocks below it, so nodes on one branch agree. For the registry,
`HigherIsFarther` relates the highest differing bit, which buckets count, to the
whole distance, which nearest peers sort by.

**Only model-checked:** `CallsEnd` and `CatchesUp`, since liveness
under fairness is outside this prover. The five statements of comments that the
code does not keep are counterexamples, which TLC finds.

## 5. Not modelled

* Wallets, keys, signatures, hashes, Merkle roots and proof of work: pure functions
  of their inputs. A transaction's signature is its own or not (`sealed`), a
  block's hash is its height and miner, its work is done.
* Pings and mempool messages of the sync engine: they move neither heights nor
  blocks, and a mempool's transactions go through `add_transaction` as any
  submitted one does (`Blockchain`). The diagnose and gap handlers rephrase the
  registry and the choice of a target. `mark_disconnected` has no caller.
* The list of peer addresses in `Blockchain`, which is only counted.
* Message contents, JSON, field validation of requests, routes, the health
  answer: no state of the system.
* What a refused block leaves in the business state (`Blockchain`, `app_advance`)
  is not carried into `ApiNode`: there it would only make the stores older than the
  memory, until the next block is written.
* `Delivery` is one lifetime of a process: a restart empties queue and sessions
  alike, which is its `Init`.
* Configuration, logging, CLI and scripts: argument and file handling, an HTTP
  client and process scripts.
* `PeerSync` takes puts to succeed and transactions in blocks to apply, since
  `ApiNode` and `Blockchain` have those errors; `Blockchain` takes every
  operation to end, since `Vm` has the panic and the poisoned lock.

## 6. Plan

Done, in this order:

1. `NftMarketplace` / `NftOwnership` and their proofs.
2. `LendingOps`, `LendingPool`.
3. `Blockchain`, composed with `LendingOps` and `VmOps` in `MCBlockchain`.
4. `ApiNode` and its proofs.
5. `Delivery` and its proofs.
6. `Difficulty`, `Kademlia` and `PeerSync`, with proofs of their safety.
7. `VmOps` and `Vm`.
8. `ApiQueries` with its proof, `ChainQueries`, and the query handlers of the
   market and the pool.

9. Proofs of all safety: `Sums`, `LendingProofs`, `BlockchainProofs`, `VmProofs`,
   `ApiProofs`, and what was missing of the market, delivery and the registry.

Next, abstract specifications worth stating and proving as refinements: an ordered
channel that `Delivery` implements, and a write-ahead promise (a tip becomes
visible only once it is stored) that `ApiNode` implements. Both follow from
invariants that are proved, and say more directly what the components promise.
