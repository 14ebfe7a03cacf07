------------------------------ MODULE ApiNode -------------------------------
(***************************************************************************)
(* One API node serving requests on several threads: the chain, the pool,  *)
(* the two stores and the chain summary it shows to peers                  *)
(* (crates/api/src: chain_ops.rs, handlers/chain.rs, state.rs).            *)
(*                                                                         *)
(* The handlers that add a block do so under the chain's lock and write    *)
(* the stores after releasing it, one put at a time; so requests           *)
(* interleave between puts, and a put may fail or the process stop there.  *)
(*                                                                         *)
(* Abstracted: a block is an identity and a set of transactions, one of    *)
(* which is the reward, named by the identity of its block; the order and  *)
(* repetition of transactions, whether the chain accepts them, and what a  *)
(* refused block leaves behind in the business state, are Blockchain's     *)
(* matter.  A store entry is the sequence of blocks (a view) whose balance *)
(* or contract state it holds.                                             *)
(***************************************************************************)
EXTENDS Naturals, Sequences, FiniteSets, SequencesExt

CONSTANTS
    Threads,       \* requests served at the same time
    Tx,            \* user transactions
    BalanceKeys,   \* state-store keys of balances
    ContractKeys,  \* state-store keys of contract fields, snapshots and events
    Touched,       \* Touched[tx]: the keys that exist once tx is confirmed
    MinerKey,      \* the key of the miner's balance
    MaxBlocks,     \* bound: blocks ever made
    MaxFailures,   \* bound: puts that fail
    MaxRestarts    \* bound: restarts of the process

ASSUME NodeAssumption ==
    /\ BalanceKeys \cap ContractKeys = {}
    /\ MinerKey \in BalanceKeys
    /\ Touched \in [Tx -> SUBSET (BalanceKeys \cup ContractKeys)]
    /\ {MaxBlocks, MaxFailures, MaxRestarts} \subseteq Nat

Keys == BalanceKeys \cup ContractKeys

VARIABLES
    chain,     \* blockchain.chain without genesis: a sequence of blocks
    pending,   \* blockchain.pending_transactions
    status,    \* p2p_engine.local_chain_status, as the view it was taken from
    blocksDb,  \* history_store: blocks put
    txsDb,     \* history_store: transactions put
    stateDb,   \* state_store: the view each key was last written from
    durable,   \* the state store is RocksDB (feature rocksdb-backend) or in memory
    req,       \* what each thread is doing
    made,      \* blocks ever made
    failed,    \* history: blocks whose handler met a storage error
    restarts,  \* restarts so far
    overlap,   \* history: since the start two block handlers ran at a time
    listed     \* the balance keys balances() had when the last block was added

vars == <<chain, pending, status, blocksDb, txsDb, stateDb, durable,
          req, made, failed, restarts, overlap, listed>>
stores == <<blocksDb, txsDb, stateDb>>

\* The keys the blocks of a view touch.
KeysOf(view) ==
    UNION {{MinerKey} \cup UNION {Touched[tx] : tx \in b.txs \cap Tx} : b \in ToSet(view)}

\* What balances() may list at a view: it tries old payloads on the business state
\* of now and drops the rest of a block at the first that fails, so an address may
\* be missing, and missing again after it was listed.  A reward alone in its block
\* always counts.
Listings(view) ==
    {keys \in SUBSET (KeysOf(view) \cap BalanceKeys) :
        (\E b \in ToSet(view) : b.txs \cap Tx = {}) => MinerKey \in keys}

\* What persist_runtime_state writes: the balances listed, and all that
\* contract_states and contract_events have, which only grow.
Written(view, balances) == balances \cup (KeysOf(view) \cap ContractKeys)

Idle == [at |-> "idle", txs |-> {}]
Busy(t) == req[t].at # "idle"

Init ==
    /\ chain = << >> /\ pending = {} /\ status = << >>
    /\ blocksDb = {} /\ txsDb = {}
    /\ stateDb = [k \in Keys |-> << >>]
    /\ durable \in BOOLEAN
    /\ req = [t \in Threads |-> Idle]
    /\ made = 0 /\ failed = {} /\ restarts = 0 /\ overlap = FALSE /\ listed = {}

-----------------------------------------------------------------------------
(* Requests *)

\* chain_submit_tx_handler (and NewTransaction from a peer): one critical section.
SubmitTx(t, tx) ==
    /\ ~Busy(t)
    /\ pending' = pending \cup {tx}
    /\ UNCHANGED <<chain, status, stores, durable, req, made, failed, restarts, overlap, listed>>

\* Mutant: what the handler needs later is copied before the block is added.
AddBlockStale(t, txs, left) ==
    LET block == [id |-> made + 1, txs |-> txs \cup {made + 1}]
    IN  /\ ~Busy(t)
        /\ made < MaxBlocks
        /\ made' = made + 1
        /\ chain' = Append(chain, block)
        /\ pending' = left
        /\ listed' \in Listings(chain')
        /\ req' = [req EXCEPT ![t] = [at |-> "putBlock", block |-> block, view |-> chain,
                                      txs |-> block.txs, keys |-> Written(chain', listed')]]
        /\ overlap' = (overlap \/ \E u \in Threads : Busy(u))
        /\ UNCHANGED <<status, stores, durable, failed, restarts>>

\* Mutant: the block is persisted but not pushed on the chain.
AddBlockUnpushed(t, txs, left) ==
    LET block == [id |-> made + 1, txs |-> txs \cup {made + 1}]
    IN  /\ ~Busy(t)
        /\ made < MaxBlocks
        /\ made' = made + 1
        /\ pending' = left
        /\ listed' \in Listings(chain)
        /\ req' = [req EXCEPT ![t] = [at |-> "putBlock", block |-> block, view |-> chain,
                                      txs |-> block.txs, keys |-> Written(chain, listed')]]
        /\ UNCHANGED <<chain, status, stores, durable, failed, restarts, overlap>>

\* The critical section of a handler that adds a block: what it needs later is
\* copied out of the chain before the lock is released.
AddBlock(t, txs, left) ==
    LET block == [id |-> made + 1, txs |-> txs \cup {made + 1}]
    IN  /\ ~Busy(t)
        /\ made < MaxBlocks
        /\ made' = made + 1
        /\ chain' = Append(chain, block)
        /\ pending' = left
        /\ listed' \in Listings(chain')
        /\ req' = [req EXCEPT ![t] = [at |-> "putBlock", block |-> block, view |-> chain',
                                      txs |-> block.txs, keys |-> Written(chain', listed')]]
        /\ overlap' = (overlap \/ \E u \in Threads : Busy(u))
        /\ UNCHANGED <<status, stores, durable, failed, restarts>>

\* chain_mine_handler
StartMine(t) == AddBlock(t, pending, {})

\* accept_synced_block, for a NewBlock or one of the Blocks of a peer
StartAccept(t, txs) == AddBlock(t, txs, pending \ txs)

-----------------------------------------------------------------------------
(* After the lock is released *)

Goto(t, place) == req' = [req EXCEPT ![t].at = place]

\* persist_mined_block: first the block, ...
PutBlock(t) ==
    /\ req[t].at = "putBlock"
    /\ blocksDb' = blocksDb \cup {req[t].block.id}
    /\ Goto(t, "putTxs")
    /\ UNCHANGED <<chain, pending, status, txsDb, stateDb, durable, made, failed,
                   restarts, overlap, listed>>

\* Where a request goes on after its last transaction.
StatePlace(r) == IF r.keys = {} THEN "advertise" ELSE "putState"

\* Mutant: the last transaction is left out.
PutTxShort(t, tx) ==
    /\ req[t].at = "putTxs"
    /\ tx \in req[t].txs
    /\ txsDb' = txsDb \cup {tx}
    /\ req' = [req EXCEPT ![t].txs = @ \ {tx},
                          ![t].at = IF Cardinality(req[t].txs) <= 2 THEN StatePlace(req[t]) ELSE @]
    /\ UNCHANGED <<chain, pending, status, blocksDb, stateDb, durable, made, failed,
                   restarts, overlap, listed>>

\* ... then its transactions one by one.
PutTx(t, tx) ==
    /\ req[t].at = "putTxs"
    /\ tx \in req[t].txs
    /\ txsDb' = txsDb \cup {tx}
    /\ req' = [req EXCEPT ![t].txs = @ \ {tx},
                          ![t].at = IF req[t].txs = {tx} THEN StatePlace(req[t]) ELSE @]
    /\ UNCHANGED <<chain, pending, status, blocksDb, stateDb, durable, made, failed,
                   restarts, overlap, listed>>

\* persist_runtime_state: the balances in HashMap order, then the contracts.
PutState(t, k) ==
    /\ req[t].at = "putState"
    /\ k \in req[t].keys
    /\ k \in ContractKeys => req[t].keys \cap BalanceKeys = {}
    /\ stateDb' = [stateDb EXCEPT ![k] = req[t].view]
    /\ req' = [req EXCEPT ![t].keys = @ \ {k},
                          ![t].at = IF req[t].keys = {k} THEN "advertise" ELSE @]
    /\ UNCHANGED <<chain, pending, status, blocksDb, txsDb, durable, made, failed,
                   restarts, overlap, listed>>

\* Mutant: the summary is shown before anything is persisted.
AdvertiseEarly(t) ==
    /\ req[t].at \in {"putBlock", "advertise"}
    /\ status' = req[t].view
    /\ req' = IF req[t].at = "advertise" THEN [req EXCEPT ![t] = Idle] ELSE req
    /\ UNCHANGED <<chain, pending, stores, durable, made, failed, restarts, overlap,
                   listed>>

\* update_local_chain_status (and, after mining, the broadcast), under the
\* engine's lock: with the summary taken when the block was added.
Advertise(t) ==
    /\ req[t].at = "advertise"
    /\ status' = req[t].view
    /\ req' = [req EXCEPT ![t] = Idle]
    /\ UNCHANGED <<chain, pending, stores, durable, made, failed, restarts, overlap,
                   listed>>

Continue(t) == \/ PutBlock(t) \/ Advertise(t)
               \/ \E tx \in req[t].txs : PutTx(t, tx)
               \/ \E k \in Keys : PutState(t, k)

\* A put returns StorageError: the handler answers 500 and leaves the chain as it is.
PutFails(t) ==
    /\ req[t].at \in {"putBlock", "putTxs", "putState"}
    /\ Cardinality(failed) < MaxFailures
    /\ failed' = failed \cup {req[t].block.id}
    /\ req' = [req EXCEPT ![t] = Idle]
    /\ UNCHANGED <<chain, pending, status, stores, durable, made, restarts, overlap, listed>>

\* default_app_state_with_config: a new process starts from genesis beside the
\* old LevelDB history and, if durable, the old state store.
Restart ==
    /\ restarts < MaxRestarts
    /\ restarts' = restarts + 1
    /\ chain' = << >> /\ pending' = {} /\ status' = << >>
    /\ stateDb' = IF durable THEN stateDb ELSE [k \in Keys |-> << >>]
    /\ req' = [t \in Threads |-> Idle]
    /\ overlap' = FALSE /\ listed' = {}
    /\ UNCHANGED <<blocksDb, txsDb, durable, made, failed>>

Next ==
    \/ \E t \in Threads :
        \/ \E tx \in Tx : SubmitTx(t, tx)
        \/ StartMine(t)
        \/ \E txs \in SUBSET Tx : StartAccept(t, txs)
        \/ Continue(t)
        \/ PutFails(t)
    \/ Restart

Spec == Init /\ [][Next]_vars

-----------------------------------------------------------------------------
(* Properties *)

Blocks == [id : 1..MaxBlocks, txs : SUBSET (Tx \cup 1..MaxBlocks)]

TypeOK ==
    /\ \A view \in {chain, status} \cup Range(stateDb) : ToSet(view) \subseteq Blocks
    /\ pending \subseteq Tx
    /\ blocksDb \subseteq 1..made /\ txsDb \subseteq Tx \cup 1..made
    /\ durable \in BOOLEAN /\ overlap \in BOOLEAN
    /\ \A t \in Threads : Busy(t) =>
          /\ req[t].at \in {"putBlock", "putTxs", "putState", "advertise"}
          /\ req[t].block \in ToSet(chain) /\ req[t].keys \subseteq Keys
    /\ listed \subseteq KeysOf(chain) \cap BalanceKeys
    /\ made \in 0..MaxBlocks /\ failed \subseteq 1..made /\ restarts \in 0..MaxRestarts

\* What history_block_handler finds for a block, and history_tx_handler for its
\* transactions.
Stored(b) == b.id \in blocksDb /\ b.txs \subseteq txsDb

\* The block a node shows peers as its best is in its history store with every
\* transaction, whatever other requests, storage errors and restarts happened.
AdvertisedTipStored == status # << >> => Stored(Last(status))

InFlight(b) == \E t \in Threads : Busy(t) /\ req[t].block = b

\* A transaction that has left the pool for a block can be found in the history
\* (chain_tx_query_handler looks in the pool, then in the history), except while
\* the handler that added the block is still writing, or when a put failed it.
ConfirmedIsStored ==
    \A b \in ToSet(chain) : Stored(b) \/ InFlight(b) \/ b.id \in failed

\* Requests served one at a time leave the stores and the summary at the tip,
\* unless the tip's handler failed: every contract key, and every balance that
\* balances() listed when the tip was added, was written from there.  A balance it
\* no longer listed keeps its old value, and what a refused block changes in the
\* business state afterwards (Blockchain) is not written either.
SequentialNodeIsCurrent ==
    (chain # << >> /\ ~overlap /\ (\A t \in Threads : ~Busy(t)) /\ Last(chain).id \notin failed)
        => status = chain /\ \A k \in Written(chain, listed) : stateDb[k] = chain

\* chain_ops.rs:90, "guarantees that when any step fails no height that is not
\* persisted is broadcast": every block up to the advertised height is in the
\* history store.
AdvertisedHeightPersisted == \A b \in ToSet(status) : b.id \in blocksDb
=============================================================================
