------------------------------ MODULE ApiProofs ------------------------------
(***************************************************************************)
(* The properties of ApiNode and ApiQueries for every number of threads,   *)
(* blocks, failures and restarts.  First where a block is: the one a node  *)
(* advertises as its best is in its history store, and so is every block   *)
(* on its chain unless it is in flight or a put failed; so a query misses  *)
(* only a transaction whose block is one of these two.  Then what the      *)
(* state store holds when requests are served one at a time.               *)
(***************************************************************************)
EXTENDS ApiQueries, TLAPS

AnyBlock == [id : Nat, txs : SUBSET (Tx \cup Nat)]
Places == {"putBlock", "putTxs", "putState", "advertise"}
Request == [at : Places, block : AnyBlock, view : Seq(AnyBlock),
            txs : SUBSET (Tx \cup Nat), keys : SUBSET Keys]

Types ==
    /\ made \in Nat /\ pending \subseteq Tx
    /\ chain \in Seq(AnyBlock) /\ status \in Seq(AnyBlock)
    /\ req \in [Threads -> {Idle} \cup Request]

\* How far a request has come, and what is then stored.  A request that is past
\* a put has its effect in the store, and nothing is taken out of the history.
Progress(r) ==
    /\ r.view # << >> /\ Last(r.view) = r.block
    /\ r.at # "putBlock" => r.block.id \in blocksDb
    /\ r.at \in {"putBlock", "putTxs"} => r.block.txs \subseteq txsDb \cup r.txs
    /\ r.at \in {"putState", "advertise"} => r.block.txs \subseteq txsDb

NodeInv ==
    /\ Types
    /\ \A t \in Threads : Busy(t) => Progress(req[t])
    /\ AdvertisedTipStored

\* A busy thread has a request.
LEMMA BusyRequest ==
    ASSUME Types, NEW t \in Threads, Busy(t)
    PROVE  req[t] \in Request
  BY DEF Types, Busy, Idle

\* What is written are keys of the store.
LEMMA WrittenKeys ==
    ASSUME NEW view, NEW balances \in Listings(view)
    PROVE  Written(view, balances) \subseteq Keys /\ balances \subseteq KeysOf(view) \cap BalanceKeys
  BY DEF Listings, Written, Keys

\* A step of thread t keeps the invariant if it keeps t's own progress, lets the
\* history grow, and shows only what is stored.
LEMMA StepOfOne ==
    ASSUME NodeInv, NEW t \in Threads, NEW r \in {Idle} \cup Request,
           req' = [req EXCEPT ![t] = r],
           blocksDb \subseteq blocksDb', txsDb \subseteq txsDb',
           r # Idle => Progress(r)',
           made' \in Nat, pending' \subseteq Tx, chain' \in Seq(AnyBlock),
           status' = status \/ (status' \in Seq(AnyBlock) /\ AdvertisedTipStored')
    PROVE  NodeInv'
  <1>1. Types'
    BY DEF NodeInv, Types
  <1>2. ASSUME NEW u \in Threads, Busy(u)'
        PROVE  Progress(req[u])'
    <2>1. CASE u = t
      BY <2>1, <1>2 DEF Busy, Idle, NodeInv, Types
    <2>2. CASE u # t
      <3>1. req'[u] = req[u]
        BY <2>2 DEF NodeInv, Types
      <3>2. Progress(req[u])
        BY <1>2, <3>1 DEF NodeInv, Busy
      <3>3. QED
        BY <3>1, <3>2 DEF Progress
    <2>3. QED
      BY <2>1, <2>2
  <1>3. AdvertisedTipStored'
    BY DEF NodeInv, AdvertisedTipStored, Stored
  <1>4. QED
    BY <1>1, <1>2, <1>3 DEF NodeInv

\* The block just added is the last of the view kept for later.
LEMMA AddBlockInv ==
    ASSUME NodeInv, NEW t \in Threads, NEW txs \in SUBSET Tx, NEW left \in SUBSET Tx,
           AddBlock(t, txs, left)
    PROVE  NodeInv'
  <1>1. PICK b : b = [id |-> made + 1, txs |-> txs \cup {made + 1}]
    OBVIOUS
  <1>2. b \in AnyBlock
    BY <1>1 DEF AnyBlock, NodeInv, Types
  <1>3. PICK v : v = Append(chain, b)
    OBVIOUS
  <1>4. v \in Seq(AnyBlock) /\ v # << >> /\ Last(v) = b
    BY <1>2, <1>3 DEF NodeInv, Types, Last
  <1>5. PICK r : r = [at |-> "putBlock", block |-> b, view |-> v, txs |-> b.txs,
                      keys |-> Written(v, listed')]
    OBVIOUS
  <1>6. r \in Request
    <2>1. listed' \in Listings(v)
      BY <1>1, <1>3 DEF AddBlock
    <2>2. Written(v, listed') \subseteq Keys
      BY <2>1, WrittenKeys
    <2>3. QED
      BY <1>2, <1>4, <1>5, <2>2 DEF Request, Places, AnyBlock
  <1>7. /\ req' = [req EXCEPT ![t] = r]
        /\ chain' = v /\ made' = made + 1 /\ pending' = left
        /\ status' = status /\ blocksDb' = blocksDb /\ txsDb' = txsDb
    BY <1>1, <1>3, <1>5 DEF AddBlock, stores
  <1>8. Progress(r)'
    BY <1>4, <1>5 DEF Progress
  <1>9. /\ made' \in Nat /\ pending' \subseteq Tx /\ chain' \in Seq(AnyBlock)
        /\ blocksDb \subseteq blocksDb' /\ txsDb \subseteq txsDb'
    BY <1>4, <1>7 DEF NodeInv, Types
  <1>10. QED
    BY <1>6, <1>7, <1>8, <1>9, StepOfOne, Zenon

\* Putting the block.
LEMMA PutBlockInv ==
    ASSUME NodeInv, NEW t \in Threads, PutBlock(t)
    PROVE  NodeInv'
  <1>1. req[t] \in Request /\ Progress(req[t])
    BY BusyRequest DEF PutBlock, NodeInv, Busy
  <1>2. PICK r : r = [req[t] EXCEPT !.at = "putTxs"]
    OBVIOUS
  <1>3. r \in Request /\ req' = [req EXCEPT ![t] = r]
    BY <1>1, <1>2 DEF PutBlock, Goto, Request, Places, NodeInv, Types
  <1>4. Progress(r)'
    BY <1>1, <1>2 DEF Progress, Request, PutBlock
  <1>5. QED
    BY <1>3, <1>4, StepOfOne DEF PutBlock, NodeInv, Types

\* Putting one transaction; after the last one all of them are stored.
LEMMA PutTxInv ==
    ASSUME NodeInv, NEW t \in Threads, NEW tx, PutTx(t, tx)
    PROVE  NodeInv'
  <1>1. req[t] \in Request /\ Progress(req[t])
    BY BusyRequest DEF PutTx, NodeInv, Busy
  <1>2. PICK r : r = [req[t] EXCEPT !.txs = @ \ {tx},
                                    !.at = IF req[t].txs = {tx} THEN StatePlace(req[t]) ELSE @]
    OBVIOUS
  <1>3. r \in Request
    BY <1>1, <1>2 DEF Request, Places, StatePlace
  <1>4. req' = [req EXCEPT ![t] = r]
    BY <1>1, <1>2 DEF PutTx, NodeInv, Types
  <1>5. Progress(r)'
    BY <1>1, <1>2 DEF Progress, Request, PutTx
  <1>6. QED
    BY <1>3, <1>4, <1>5, StepOfOne DEF PutTx, NodeInv, Types

\* Putting one key of the state store.
LEMMA PutStateInv ==
    ASSUME NodeInv, NEW t \in Threads, NEW k \in Keys, PutState(t, k)
    PROVE  NodeInv'
  <1>1. req[t] \in Request /\ Progress(req[t])
    BY BusyRequest DEF PutState, NodeInv, Busy
  <1>2. PICK r : r = [req[t] EXCEPT !.keys = @ \ {k},
                                    !.at = IF req[t].keys = {k} THEN "advertise" ELSE @]
    OBVIOUS
  <1>3. r \in Request
    BY <1>1, <1>2 DEF Request, Places
  <1>4. req' = [req EXCEPT ![t] = r]
    BY <1>1, <1>2 DEF PutState, NodeInv, Types
  <1>5. Progress(r)'
    BY <1>1, <1>2 DEF Progress, Request, PutState
  <1>6. QED
    BY <1>3, <1>4, <1>5, StepOfOne DEF PutState, NodeInv, Types

\* Only a request that has put everything advertises.
LEMMA AdvertiseInv ==
    ASSUME NodeInv, NEW t \in Threads, Advertise(t)
    PROVE  NodeInv'
  <1>1. req[t] \in Request /\ Progress(req[t])
    BY BusyRequest DEF Advertise, NodeInv, Busy
  <1>2. /\ status' = req[t].view /\ req' = [req EXCEPT ![t] = Idle]
        /\ blocksDb' = blocksDb /\ txsDb' = txsDb
        /\ made' = made /\ pending' = pending /\ chain' = chain
    BY DEF Advertise, stores
  <1>3. status' \in Seq(AnyBlock)
    BY <1>1, <1>2 DEF Request
  <1>4. AdvertisedTipStored'
    BY <1>1, <1>2 DEF AdvertisedTipStored, Stored, Progress, Advertise
  <1>5. QED
    BY <1>2, <1>3, <1>4, StepOfOne DEF NodeInv, Types

\* Every step keeps the invariant.
LEMMA NextInv == NodeInv /\ [Next]_vars => NodeInv'
  <1> SUFFICES ASSUME NodeInv, [Next]_vars
               PROVE  NodeInv'
    OBVIOUS
  <1>1. ASSUME NEW t \in Threads, NEW tx \in Tx, SubmitTx(t, tx)
        PROVE  NodeInv'
    BY <1>1 DEF SubmitTx, stores, NodeInv, Types, Busy, Progress, AdvertisedTipStored, Stored
  <1>2. ASSUME NEW t \in Threads, StartMine(t)
        PROVE  NodeInv'
    BY <1>2, AddBlockInv DEF StartMine, NodeInv, Types
  <1>3. ASSUME NEW t \in Threads, NEW txs \in SUBSET Tx, StartAccept(t, txs)
        PROVE  NodeInv'
    <2>1. pending \ txs \in SUBSET Tx
      BY DEF NodeInv, Types
    <2>2. QED
      BY <1>3, <2>1, AddBlockInv DEF StartAccept
  <1>4. ASSUME NEW t \in Threads, Continue(t)
        PROVE  NodeInv'
    BY <1>4, PutBlockInv, PutTxInv, PutStateInv, AdvertiseInv DEF Continue
  <1>5. ASSUME NEW t \in Threads, PutFails(t)
        PROVE  NodeInv'
    BY <1>5, StepOfOne DEF PutFails, stores, NodeInv, Types
  <1>6. CASE Restart
    <2>1. << >> \in Seq(AnyBlock)
      OBVIOUS
    <2>2. QED
      BY <1>6, <2>1 DEF Restart, NodeInv, Types, Busy, Idle, AdvertisedTipStored
  <1>7. CASE UNCHANGED vars
    BY <1>7 DEF vars, NodeInv, Types, Busy, Progress, AdvertisedTipStored, Stored
  <1>8. QED
    BY <1>1, <1>2, <1>3, <1>4, <1>5, <1>6, <1>7 DEF Next

\* A node that has just started advertises nothing.
LEMMA InitInv == Init => NodeInv
  BY DEF Init, NodeInv, Types, Busy, Idle, AdvertisedTipStored

\* A node never advertises as its best a block its history store does not hold
\* with all its transactions: the puts come before update_local_chain_status
\* (chain_ops.rs:91-119, handlers/chain.rs:1002-1093), however the requests of
\* other threads, storage errors and restarts fall between them.
THEOREM TipIsStored == Spec => []AdvertisedTipStored
  <1>1. NodeInv => AdvertisedTipStored
    BY DEF NodeInv
  <1>2. QED
    BY <1>1, InitInv, NextInv, PTL DEF Spec
-----------------------------------------------------------------------------
(* Confirmed transactions are found.  A block is accounted for when it is   *)
(* stored, being stored, or failed; the step of one thread changes this     *)
(* only for the block it works on.                                          *)

AccountedFor(b) == Stored(b) \/ InFlight(b) \/ b.id \in failed

\* A step of thread t keeps every block accounted for if it does so for t's own.
LEMMA AccountOfOne ==
    ASSUME NodeInv, NEW t \in Threads, NEW r \in {Idle} \cup Request,
           req' = [req EXCEPT ![t] = r],
           blocksDb \subseteq blocksDb', txsDb \subseteq txsDb', failed \subseteq failed',
           NEW own, Busy(t) => /\ own = req[t].block
                               /\ \/ r # Idle /\ r.block = own
                                  \/ Stored(own)'
                                  \/ own.id \in failed',
           NEW b, AccountedFor(b)
    PROVE  AccountedFor(b)'
  <1>1. CASE Stored(b) \/ b.id \in failed
    BY <1>1 DEF AccountedFor, Stored
  <1>2. ASSUME NEW u \in Threads, Busy(u), req[u].block = b
        PROVE  AccountedFor(b)'
    <2>1. CASE u # t
      <3>1. req'[u] = req[u]
        BY <2>1 DEF NodeInv, Types
      <3>2. Busy(u)' /\ req'[u].block = b
        BY <1>2, <3>1 DEF Busy
      <3>3. QED
        BY <3>2 DEF AccountedFor, InFlight
    <2>2. CASE u = t /\ r # Idle /\ r.block = own
      <3>1. req'[t] = r /\ r.at # "idle"
        BY <2>2 DEF NodeInv, Types, Request, Places
      <3>2. Busy(t)' /\ req'[t].block = b
        BY <1>2, <2>2, <3>1 DEF Busy
      <3>3. QED
        BY <3>2 DEF AccountedFor, InFlight
    <2>3. CASE u = t /\ (Stored(own)' \/ own.id \in failed')
      BY <1>2, <2>3 DEF AccountedFor
    <2>4. QED
      BY <1>2, <2>1, <2>2, <2>3
  <1>3. QED
    BY <1>1, <1>2 DEF AccountedFor, InFlight

\* The block just added is in flight; the others stay accounted for.
LEMMA AddBlockAccount ==
    ASSUME NodeInv, ConfirmedIsStored, NEW t \in Threads,
           NEW txs \in SUBSET Tx, NEW left \in SUBSET Tx, AddBlock(t, txs, left)
    PROVE  ConfirmedIsStored'
  <1>1. PICK b : b = [id |-> made + 1, txs |-> txs \cup {made + 1}]
    OBVIOUS
  <1>2. b \in AnyBlock
    BY <1>1 DEF AnyBlock, NodeInv, Types
  <1>3. PICK r : r = [at |-> "putBlock", block |-> b, view |-> chain', txs |-> b.txs,
                      keys |-> Written(chain', listed')]
    OBVIOUS
  <1>4. /\ chain' = Append(chain, b) /\ req' = [req EXCEPT ![t] = r] /\ ~Busy(t)
        /\ blocksDb' = blocksDb /\ txsDb' = txsDb /\ failed' = failed
    BY <1>1, <1>3 DEF AddBlock, stores
  <1>5. r \in Request
    <2>1. chain' \in Seq(AnyBlock)
      BY <1>2, <1>4 DEF NodeInv, Types
    <2>2. Written(chain', listed') \subseteq Keys
      BY WrittenKeys DEF AddBlock
    <2>3. QED
      BY <1>2, <1>3, <2>1, <2>2 DEF Request, Places, AnyBlock
  <1>6. \A c \in ToSet(chain') : c \in ToSet(chain) \/ c = b
    BY <1>2, <1>4 DEF ToSet, NodeInv, Types
  <1>7. AccountedFor(b)'
    <2>1. req'[t] = r
      BY <1>4 DEF NodeInv, Types
    <2>2. QED
      BY <1>3, <2>1 DEF AccountedFor, InFlight, Busy
  <1>8. ASSUME NEW c \in ToSet(chain)
        PROVE  AccountedFor(c)'
    <2>1. AccountedFor(c)
      BY DEF ConfirmedIsStored, AccountedFor
    <2>2. QED
      BY <1>4, <1>5, <2>1, AccountOfOne
  <1>9. QED
    BY <1>6, <1>7, <1>8 DEF ConfirmedIsStored, AccountedFor

\* A step that adds no block accounts for its own as before, or has stored it.
LEMMA ContinueAccount ==
    ASSUME NodeInv, ConfirmedIsStored, NEW t \in Threads, Continue(t) \/ PutFails(t)
    PROVE  ConfirmedIsStored'
  <1>1. Busy(t)
    BY DEF Continue, PutBlock, PutTx, PutState, Advertise, PutFails, Busy
  <1>2. PICK own : own = req[t].block
    OBVIOUS
  <1>3. req[t] \in Request /\ Progress(req[t])
    BY <1>1, BusyRequest DEF NodeInv
  <1>4. /\ chain' = chain
        /\ blocksDb \subseteq blocksDb' /\ txsDb \subseteq txsDb' /\ failed \subseteq failed'
    BY DEF Continue, PutBlock, PutTx, PutState, Advertise, PutFails, stores
  <1>5. PICK r \in {Idle} \cup Request :
          /\ req' = [req EXCEPT ![t] = r]
          /\ (r # Idle /\ r.block = own) \/ Stored(own)' \/ own.id \in failed'
    <2>1. CASE PutBlock(t)
      <3>1. PICK r : r = [req[t] EXCEPT !.at = "putTxs"]
        OBVIOUS
      <3>2. r \in Request /\ r # Idle /\ r.block = own
        BY <1>2, <1>3, <3>1 DEF Request, Places, Idle
      <3>3. req' = [req EXCEPT ![t] = r]
        BY <2>1, <3>1 DEF PutBlock, Goto
      <3>4. QED
        BY <3>2, <3>3
    <2>2. ASSUME NEW tx, PutTx(t, tx)
          PROVE  \E r \in Request : /\ req' = [req EXCEPT ![t] = r]
                                    /\ r # Idle /\ r.block = own
      <3>1. PICK r : r = [req[t] EXCEPT !.txs = @ \ {tx},
                                        !.at = IF req[t].txs = {tx} THEN StatePlace(req[t]) ELSE @]
        OBVIOUS
      <3>2. r \in Request /\ r # Idle /\ r.block = own
        BY <1>2, <1>3, <3>1 DEF Request, Places, Idle, StatePlace
      <3>3. req' = [req EXCEPT ![t] = r]
        BY <1>3, <2>2, <3>1 DEF PutTx, NodeInv, Types
      <3>4. QED
        BY <3>2, <3>3
    <2>3. ASSUME NEW k \in Keys, PutState(t, k)
          PROVE  \E r \in Request : /\ req' = [req EXCEPT ![t] = r]
                                    /\ r # Idle /\ r.block = own
      <3>1. PICK r : r = [req[t] EXCEPT !.keys = @ \ {k},
                                        !.at = IF req[t].keys = {k} THEN "advertise" ELSE @]
        OBVIOUS
      <3>2. r \in Request /\ r # Idle /\ r.block = own
        BY <1>2, <1>3, <3>1 DEF Request, Places, Idle
      <3>3. req' = [req EXCEPT ![t] = r]
        BY <1>3, <2>3, <3>1 DEF PutState, NodeInv, Types
      <3>4. QED
        BY <3>2, <3>3
    <2>4. CASE Advertise(t)
      <3>1. req' = [req EXCEPT ![t] = Idle] /\ blocksDb' = blocksDb /\ txsDb' = txsDb
        BY <2>4 DEF Advertise, stores
      <3>2. Stored(own)'
        BY <1>2, <1>3, <2>4, <3>1 DEF Advertise, Progress, Stored
      <3>3. QED
        BY <3>1, <3>2
    <2>5. CASE PutFails(t)
      BY <1>2, <2>5 DEF PutFails
    <2>6. QED
      BY <2>1, <2>2, <2>3, <2>4, <2>5 DEF Continue
  <1>6. ASSUME NEW c \in ToSet(chain)
        PROVE  AccountedFor(c)'
    <2>1. AccountedFor(c)
      BY DEF ConfirmedIsStored, AccountedFor
    <2>2. QED
      BY <1>2, <1>4, <1>5, <2>1, AccountOfOne
  <1>7. QED
    BY <1>4, <1>6 DEF ConfirmedIsStored, AccountedFor

\* Every step keeps confirmed blocks accounted for.
LEMMA NextAccount == NodeInv /\ ConfirmedIsStored /\ [Next]_vars => ConfirmedIsStored'
  <1> SUFFICES ASSUME NodeInv, ConfirmedIsStored, [Next]_vars
               PROVE  ConfirmedIsStored'
    OBVIOUS
  <1>1. CASE \/ UNCHANGED vars
             \/ \E t \in Threads, tx \in Tx : SubmitTx(t, tx)
    BY <1>1 DEF vars, stores, SubmitTx, ConfirmedIsStored, Stored, InFlight, Busy
  <1>2. ASSUME NEW t \in Threads, StartMine(t)
        PROVE  ConfirmedIsStored'
    BY <1>2, AddBlockAccount DEF StartMine, NodeInv, Types
  <1>3. ASSUME NEW t \in Threads, NEW txs \in SUBSET Tx, StartAccept(t, txs)
        PROVE  ConfirmedIsStored'
    <2>1. pending \ txs \in SUBSET Tx
      BY DEF NodeInv, Types
    <2>2. QED
      BY <1>3, <2>1, AddBlockAccount DEF StartAccept
  <1>4. ASSUME NEW t \in Threads, Continue(t) \/ PutFails(t)
        PROVE  ConfirmedIsStored'
    BY <1>4, ContinueAccount
  <1>5. CASE Restart
    BY <1>5 DEF Restart, ConfirmedIsStored, ToSet
  <1>6. QED
    BY <1>1, <1>2, <1>3, <1>4, <1>5 DEF Next

\* A transaction that left the pool for a block is in the history store, or its
\* handler is still writing it, or a put failed: chain_tx_query_handler, which
\* looks in the pool and then in the history, misses no other.
THEOREM ConfirmedIsFound == Spec => []ConfirmedIsStored
  <1>1. Init => ConfirmedIsStored
    BY DEF Init, ConfirmedIsStored, ToSet
  <1>2. QED
    BY <1>1, InitInv, NextInv, NextAccount, PTL DEF Spec

-----------------------------------------------------------------------------
(* Queries.  What one has not found in the first place is on the chain      *)
(* already, and stays there until the process restarts, which ends it too.  *)

QueryInv ==
    query # NoQuery =>
        \/ query \in Tx /\ OnChain(query)
        \/ query \in ContractKeys /\ query \in KeysOf(chain)

Inv == NodeInv /\ ConfirmedIsStored /\ QueryInv

\* Whatever a query does, for the rest of the node it is a stutter.
LEMMA QueryStepIsNodeStep == [QueryNext]_<<vars, query>> => [Next]_vars
  BY DEF QueryNext, ServeNext, Next, Ask, Found, Missed

\* The chain only grows while the process runs.
LEMMA ChainGrows ==
    ASSUME NodeInv, ServeNext
    PROVE  /\ ToSet(chain) \subseteq ToSet(chain')
           /\ KeysOf(chain) \subseteq KeysOf(chain')
  <1>1. ASSUME NEW t \in Threads, NEW txs \in SUBSET Tx, NEW left, AddBlock(t, txs, left)
        PROVE  ToSet(chain) \subseteq ToSet(chain')
    <2>1. PICK b : b = [id |-> made + 1, txs |-> txs \cup {made + 1}]
      OBVIOUS
    <2>2. b \in AnyBlock
      BY <2>1 DEF AnyBlock, NodeInv, Types
    <2>3. chain' = Append(chain, b)
      BY <1>1, <2>1 DEF AddBlock
    <2>4. QED
      BY <2>2, <2>3 DEF ToSet, NodeInv, Types
  <1>2. ASSUME NEW t \in Threads, \/ \E tx \in Tx : SubmitTx(t, tx)
                                  \/ Continue(t) \/ PutFails(t)
        PROVE  chain' = chain
    <2>1. CASE \E tx \in Tx : SubmitTx(t, tx)
      BY <2>1 DEF SubmitTx
    <2>2. CASE Continue(t)
      BY <2>2 DEF Continue, PutBlock, PutTx, PutState, Advertise
    <2>3. CASE PutFails(t)
      BY <2>3 DEF PutFails
    <2>4. QED
      BY <1>2, <2>1, <2>2, <2>3
  <1>3. ToSet(chain) \subseteq ToSet(chain')
    <2>1. pending \in SUBSET Tx
      BY DEF NodeInv, Types
    <2>2. QED
      BY <1>1, <1>2, <2>1 DEF ServeNext, StartMine, StartAccept
  <1>4. QED
    BY <1>3 DEF KeysOf

\* Every step keeps what is asked for on the chain.
LEMMA QueryNextInv == Inv /\ [QueryNext]_<<vars, query>> => Inv'
  <1> SUFFICES ASSUME Inv, [QueryNext]_<<vars, query>>
               PROVE  Inv'
    OBVIOUS
  <1>1. NodeInv' /\ ConfirmedIsStored'
    BY QueryStepIsNodeStep, NextInv, NextAccount DEF Inv
  <1>2. QueryInv'
    <2>1. CASE ServeNext /\ UNCHANGED query
      BY <2>1, ChainGrows DEF Inv, QueryInv, OnChain
    <2>2. CASE (Restart /\ query' = NoQuery) \/ Found \/ Missed
      BY <2>2 DEF QueryInv, Found, Missed
    <2>3. ASSUME NEW what \in Tx \cup ContractKeys, Ask(what)
          PROVE  QueryInv'
      <3>1. query' = what /\ chain' = chain /\ Known(what) /\ ~Has(PlacesOf(what)[1], what)
        BY <2>3 DEF Ask, vars
      <3>2. CASE what \in Tx
        <4>1. OnChain(what)
          BY <3>1, <3>2 DEF Known, PlacesOf, TxPlaces, Has
        <4>2. QED
          BY <3>1, <3>2, <4>1 DEF QueryInv, OnChain
      <3>3. CASE what \notin Tx
        BY <3>1, <3>3 DEF Known, QueryInv
      <3>4. QED
        BY <3>2, <3>3
    <2>4. CASE UNCHANGED <<vars, query>>
      BY <2>4 DEF vars, Inv, QueryInv, OnChain
    <2>5. QED
      BY <2>1, <2>2, <2>3, <2>4 DEF QueryNext
  <1>3. QED
    BY <1>1, <1>2 DEF Inv

\* chain_tx_query_handler (handlers/chain.rs:697-759) answers 404 to what the
\* node has taken in only while the block is being written or after a put failed,
\* whatever happens between its two locks; the contract queries (790-951) never.
THEOREM MissesAreWrites == QuerySpec => MissedOnlyWhileWriting
  <1>1. QueryInit => Inv
    <2>1. Init => ConfirmedIsStored
      BY DEF Init, ConfirmedIsStored, ToSet
    <2>2. QED
      BY <2>1, InitInv DEF QueryInit, Inv, QueryInv
  <1>2. ASSUME Inv, Missed
        PROVE  /\ query \in Tx
               /\ \E b \in ToSet(chain) :
                     query \in b.txs /\ (InFlight(b) \/ b.id \in failed)
    <2>1. CASE query \in Tx
      <3>1. PICK b \in ToSet(chain) : query \in b.txs
        BY <1>2, <2>1, QueryAssumption DEF Missed, Inv, QueryInv, OnChain, Keys
      <3>2. query \notin txsDb
        BY <1>2, <2>1 DEF Missed, PlacesOf, TxPlaces, Has
      <3>3. QED
        BY <1>2, <2>1, <3>1, <3>2 DEF Inv, ConfirmedIsStored, Stored
    <2>2. CASE query \notin Tx
      BY <1>2, <2>2 DEF Missed, PlacesOf, ContractPlaces, Has, Inv, QueryInv
    <2>3. QED
      BY <2>1, <2>2
  <1>3. Inv => [Missed => /\ query \in Tx
                          /\ \E b \in ToSet(chain) :
                                query \in b.txs /\ (InFlight(b) \/ b.id \in failed)]_query
    BY <1>2
  <1>4. QED
    BY <1>1, <1>3, QueryNextInv, PTL DEF QuerySpec, MissedOnlyWhileWriting

-----------------------------------------------------------------------------
(* What the stores hold: everything in them is of a block made.             *)

Made == [id : 1..made, txs : SUBSET (Tx \cup 1..made)]

Sound ==
    /\ made \in 0..MaxBlocks /\ restarts \in 0..MaxRestarts
    /\ durable \in BOOLEAN /\ overlap \in BOOLEAN
    /\ chain \in Seq(Made) /\ status \in Seq(Made) /\ stateDb \in [Keys -> Seq(Made)]
    /\ blocksDb \subseteq 1..made /\ txsDb \subseteq Tx \cup 1..made /\ failed \subseteq 1..made
    /\ listed \subseteq KeysOf(chain) \cap BalanceKeys
    /\ \A t \in Threads : Busy(t) => /\ req[t].block \in ToSet(chain)
                                     /\ req[t].txs \subseteq req[t].block.txs
                                     /\ req[t].view \in Seq(Made)

\* What a step that adds no block does to the request of its thread: r is what
\* is left of it.
Serves(t, r) ==
    /\ req' = [req EXCEPT ![t] = r]
    /\ r # Idle => r.block = req[t].block /\ r.view = req[t].view /\ r.txs \subseteq req[t].txs
    /\ blocksDb' \subseteq blocksDb \cup {req[t].block.id}
    /\ txsDb' \subseteq txsDb \cup req[t].txs
    /\ status' \in {status, req[t].view}
    /\ stateDb' = stateDb \/ \E k \in Keys : stateDb' = [stateDb EXCEPT ![k] = req[t].view]
    /\ failed' \subseteq failed \cup {req[t].block.id}
    /\ UNCHANGED <<chain, pending, durable, made, restarts, overlap, listed>>

LEMMA ServesRequest ==
    ASSUME NodeInv, NEW t \in Threads, Continue(t) \/ PutFails(t)
    PROVE  /\ Busy(t)
           /\ \E r \in {Idle} \cup Request : Serves(t, r)
  <1>1. Busy(t)
    BY DEF Continue, PutBlock, PutTx, PutState, Advertise, PutFails, Busy
  <1>2. req[t] \in Request
    BY <1>1, BusyRequest DEF NodeInv
  <1>3. ASSUME PutBlock(t)
        PROVE  \E r \in Request : Serves(t, r)
    <2>1. PICK r : r = [req[t] EXCEPT !.at = "putTxs"]
      OBVIOUS
    <2>2. r \in Request /\ r.block = req[t].block /\ r.view = req[t].view /\ r.txs = req[t].txs
      BY <1>2, <2>1 DEF Request, Places
    <2>3. req' = [req EXCEPT ![t] = r]
      BY <1>3, <2>1 DEF PutBlock, Goto
    <2>4. Serves(t, r)
      BY <1>3, <2>2, <2>3 DEF PutBlock, Serves
    <2>5. QED
      BY <2>2, <2>4
  <1>4. ASSUME NEW tx \in req[t].txs, PutTx(t, tx)
        PROVE  \E r \in Request : Serves(t, r)
    <2>1. PICK r : r = [req[t] EXCEPT !.txs = @ \ {tx},
                                      !.at = IF req[t].txs = {tx} THEN StatePlace(req[t]) ELSE @]
      OBVIOUS
    <2>2. r \in Request /\ r.block = req[t].block /\ r.view = req[t].view
      BY <1>2, <2>1 DEF Request, Places, StatePlace
    <2>3. r.txs \subseteq req[t].txs
      BY <1>2, <2>1 DEF Request
    <2>4. req' = [req EXCEPT ![t] = r]
      BY <1>2, <1>4, <2>1 DEF PutTx, NodeInv, Types
    <2>5. Serves(t, r)
      BY <1>4, <2>2, <2>3, <2>4 DEF PutTx, Serves
    <2>6. QED
      BY <2>2, <2>5
  <1>5. ASSUME NEW k \in Keys, PutState(t, k)
        PROVE  \E r \in Request : Serves(t, r)
    <2>1. PICK r : r = [req[t] EXCEPT !.keys = @ \ {k},
                                      !.at = IF req[t].keys = {k} THEN "advertise" ELSE @]
      OBVIOUS
    <2>2. r \in Request /\ r.block = req[t].block /\ r.view = req[t].view /\ r.txs = req[t].txs
      BY <1>2, <2>1 DEF Request, Places
    <2>3. req' = [req EXCEPT ![t] = r]
      BY <1>2, <1>5, <2>1 DEF PutState, NodeInv, Types
    <2>4. Serves(t, r)
      BY <1>5, <2>2, <2>3 DEF PutState, Serves
    <2>5. QED
      BY <2>2, <2>4
  <1>6. ASSUME Advertise(t) \/ PutFails(t)
        PROVE  Serves(t, Idle)
    BY <1>6 DEF Advertise, PutFails, Serves, stores
  <1>7. QED
    BY <1>1, <1>3, <1>4, <1>5, <1>6 DEF Continue

\* What a sequence holds stays in it when an element is appended.
LEMMA AppendElements ==
    ASSUME NEW S, NEW s \in Seq(S), NEW b \in S
    PROVE  ToSet(s) \subseteq ToSet(Append(s, b)) /\ b \in ToSet(Append(s, b))
  <1>1. DOMAIN s \subseteq DOMAIN Append(s, b) /\ Len(s) + 1 \in DOMAIN Append(s, b)
    OBVIOUS
  <1>2. /\ \A i \in DOMAIN s : Append(s, b)[i] = s[i]
        /\ Append(s, b)[Len(s) + 1] = b
    OBVIOUS
  <1>3. QED
    BY <1>1, <1>2 DEF ToSet

\* Adding a block makes it, and its view is the whole chain.
LEMMA AddBlockSound ==
    ASSUME NodeInv, Sound, NEW t \in Threads, NEW txs \in SUBSET Tx, NEW left,
           AddBlock(t, txs, left)
    PROVE  Sound'
  <1>1. PICK b : b = [id |-> made + 1, txs |-> txs \cup {made + 1}]
    OBVIOUS
  <1>2. PICK r : r = [at |-> "putBlock", block |-> b, view |-> chain', txs |-> b.txs,
                      keys |-> Written(chain', listed')]
    OBVIOUS
  <1>3. /\ chain' = Append(chain, b) /\ req' = [req EXCEPT ![t] = r]
        /\ made' = made + 1 /\ made < MaxBlocks /\ overlap' \in BOOLEAN
        /\ UNCHANGED <<status, blocksDb, txsDb, stateDb, durable, failed, restarts>>
    BY <1>1, <1>2 DEF AddBlock, stores
  <1>4. made \in Nat /\ MaxBlocks \in Nat /\ 1..made \subseteq 1..made' /\ made' \in 1..made'
    BY <1>3, NodeAssumption DEF Sound
  <1>5. b \in Made' /\ Made \subseteq Made'
    BY <1>1, <1>3, <1>4 DEF Made
  <1>6. Seq(Made) \subseteq Seq(Made')
    BY <1>5
  <1>7. chain' \in Seq(Made')
    BY <1>3, <1>5, <1>6 DEF Sound
  <1>8. ToSet(chain) \subseteq ToSet(chain') /\ b \in ToSet(chain')
    BY <1>3, <1>5, <1>6, AppendElements DEF Sound
  <1>9. listed' \subseteq KeysOf(chain') \cap BalanceKeys
    BY WrittenKeys DEF AddBlock
  <1>10. KeysOf(chain)' = KeysOf(chain')
    BY DEF KeysOf
  <1>11. ASSUME NEW u \in Threads, Busy(u)'
         PROVE  /\ req'[u].block \in ToSet(chain') /\ req'[u].txs \subseteq req'[u].block.txs
                /\ req'[u].view \in Seq(Made')
    <2>1. CASE u = t
      <3>1. req'[u] = r
        BY <1>3, <2>1 DEF NodeInv, Types
      <3>2. QED
        BY <1>2, <1>7, <1>8, <3>1
    <2>2. CASE u # t
      <3>1. req'[u] = req[u] /\ Busy(u)
        BY <1>3, <1>11, <2>2 DEF NodeInv, Types, Busy
      <3>2. QED
        BY <1>6, <1>8, <3>1 DEF Sound
    <2>3. QED
      BY <2>1, <2>2
  <1>12. /\ made' \in 0..MaxBlocks /\ restarts' \in 0..MaxRestarts /\ durable' \in BOOLEAN
         /\ blocksDb' \subseteq 1..made' /\ failed' \subseteq 1..made'
         /\ txsDb' \subseteq Tx \cup 1..made'
    BY <1>3, <1>4 DEF Sound
  <1>13. status' \in Seq(Made') /\ stateDb' \in [Keys -> Seq(Made')]
    BY <1>3, <1>6 DEF Sound
  <1>14. Sound'
    BY <1>3, <1>7, <1>9, <1>10, <1>11, <1>12, <1>13 DEF Sound
  <1>15. QED
    BY <1>14

\* Going on with a request writes nothing but its block and its view.
LEMMA ServesSound ==
    ASSUME NodeInv, Sound, NEW t \in Threads, Busy(t), NEW r \in {Idle} \cup Request, Serves(t, r)
    PROVE  Sound'
  <1>1. /\ req[t].block \in ToSet(chain) /\ req[t].txs \subseteq req[t].block.txs
        /\ req[t].view \in Seq(Made)
    BY DEF Sound
  <1>2. /\ UNCHANGED <<chain, durable, made, restarts, overlap, listed>>
        /\ Made' = Made
    BY DEF Serves, Made
  <1>3. req[t].block.id \in 1..made /\ req[t].block.txs \subseteq Tx \cup 1..made
    <2>1. ToSet(chain) \subseteq Made
      BY DEF Sound, ToSet
    <2>2. QED
      BY <1>1, <2>1 DEF Made
  <1>4. /\ blocksDb' \subseteq 1..made /\ failed' \subseteq 1..made
        /\ txsDb' \subseteq Tx \cup 1..made /\ status' \in Seq(Made)
    BY <1>1, <1>3 DEF Serves, Sound
  <1>5. /\ stateDb' \in [Keys -> Seq(Made)]
        /\ \A k \in Keys : stateDb'[k] \in {stateDb[k], req[t].view}
    BY <1>1 DEF Serves, Sound
  <1>6. ASSUME NEW u \in Threads, Busy(u)'
        PROVE  /\ req'[u].block \in ToSet(chain) /\ req'[u].txs \subseteq req'[u].block.txs
               /\ req'[u].view \in Seq(Made)
    <2>1. CASE u = t
      <3>1. req'[u] = r /\ r # Idle
        BY <1>6, <2>1 DEF Serves, NodeInv, Types, Busy, Idle
      <3>2. QED
        BY <1>1, <3>1 DEF Serves
    <2>2. CASE u # t
      <3>1. req'[u] = req[u] /\ Busy(u)
        BY <1>6, <2>2 DEF Serves, NodeInv, Types, Busy
      <3>2. QED
        BY <3>1 DEF Sound
    <2>3. QED
      BY <2>1, <2>2
  <1>7. KeysOf(chain)' = KeysOf(chain)
    BY <1>2 DEF KeysOf
  <1>8. QED
    BY <1>2, <1>4, <1>5, <1>6, <1>7 DEF Sound

\* A restart keeps what was made, and a durable store what was written.
LEMMA RestartSound ==
    ASSUME NodeInv, Sound, Restart
    PROVE  Sound'
  <1>1. << >> \in Seq(Made) /\ Made' = Made
    BY DEF Restart, Made
  <1>2. /\ stateDb' \in [Keys -> Seq(Made)]
        /\ chain' = << >> /\ status' = << >> /\ overlap' = FALSE /\ listed' = {}
        /\ UNCHANGED <<blocksDb, txsDb, durable, made, failed>>
    BY <1>1 DEF Restart, Sound
  <1>3. restarts' \in 0..MaxRestarts
    BY NodeAssumption DEF Restart, Sound
  <1>4. \A t \in Threads : ~Busy(t)'
    BY DEF Restart, Busy, Idle
  <1>5. Sound'
    BY <1>1, <1>2, <1>3, <1>4 DEF Sound
  <1>6. QED
    BY <1>5

\* Every step keeps it.
LEMMA NextSound == NodeInv /\ Sound /\ [Next]_vars => Sound'
  <1> SUFFICES ASSUME NodeInv, Sound, [Next]_vars
               PROVE  Sound'
    OBVIOUS
  <1>1. CASE \/ UNCHANGED vars
             \/ \E t \in Threads, tx \in Tx : SubmitTx(t, tx)
    <2>1. /\ UNCHANGED <<chain, status, blocksDb, txsDb, stateDb, durable, req, made, failed,
                         restarts, overlap, listed>>
          /\ Made' = Made /\ KeysOf(chain)' = KeysOf(chain)
      BY <1>1 DEF vars, stores, SubmitTx, Made, KeysOf
    <2>2. QED
      BY <2>1 DEF Sound, Busy
  <1>2. ASSUME NEW t \in Threads, StartMine(t)
        PROVE  Sound'
    BY <1>2, AddBlockSound DEF StartMine, NodeInv, Types
  <1>3. ASSUME NEW t \in Threads, NEW txs \in SUBSET Tx, StartAccept(t, txs)
        PROVE  Sound'
    BY <1>3, AddBlockSound DEF StartAccept
  <1>4. ASSUME NEW t \in Threads, Continue(t) \/ PutFails(t)
        PROVE  Sound'
    BY <1>4, ServesRequest, ServesSound
  <1>5. CASE Restart
    BY <1>5, RestartSound
  <1>6. QED
    BY <1>1, <1>2, <1>3, <1>4, <1>5 DEF Next

\* A node that has just started has nothing.
LEMMA InitSound == Init => Sound
  <1> SUFFICES ASSUME Init
               PROVE  Sound
    OBVIOUS
  <1>1. << >> \in Seq(Made)
    OBVIOUS
  <1>2. \A t \in Threads : ~Busy(t)
    BY DEF Init, Busy, Idle
  <1>3. Sound
    <2>1. made \in 0..MaxBlocks /\ restarts \in 0..MaxRestarts
      BY NodeAssumption DEF Init
    <2>2. chain \in Seq(Made) /\ status \in Seq(Made) /\ stateDb \in [Keys -> Seq(Made)]
      BY <1>1 DEF Init
    <2>3. QED
      BY <1>2, <2>1, <2>2 DEF Init, Sound
  <1>4. QED
    BY <1>3

\* What is made is a block, and a busy thread is somewhere in its request.
LEMMA SoundIsTypeOK == NodeInv /\ Sound => TypeOK
  <1> SUFFICES ASSUME NodeInv, Sound
               PROVE  TypeOK
    OBVIOUS
  <1>1. Made \subseteq Blocks
    <2>1. 1..made \subseteq 1..MaxBlocks
      BY NodeAssumption DEF Sound
    <2>2. QED
      BY <2>1 DEF Made, Blocks
  <1>2. \A view \in Seq(Made) : ToSet(view) \subseteq Blocks
    BY <1>1 DEF ToSet
  <1>3. \A view \in {chain, status} \cup Range(stateDb) : view \in Seq(Made)
    BY DEF Sound, Range
  <1>4. \A t \in Threads : Busy(t) => /\ req[t].at \in Places
                                      /\ req[t].block \in ToSet(chain) /\ req[t].keys \subseteq Keys
    BY BusyRequest DEF NodeInv, Sound, Request
  <1>5. QED
    BY <1>2, <1>3, <1>4 DEF TypeOK, NodeInv, Types, Sound, Places

\* Everything a node has in memory and in its stores comes from a block it made
\* or took in, and a request that is being served is about a block of the chain:
\* what is copied before the lock is released (chain_ops.rs:39-75,
\* handlers/chain.rs:958-1000) stays right until the handler ends.
THEOREM NodeTypes == Spec => []TypeOK
  BY InitInv, NextInv, InitSound, NextSound, SoundIsTypeOK, PTL DEF Spec

-----------------------------------------------------------------------------
(* Requests one at a time.  While no two block handlers have run together,  *)
(* the one that runs writes the chain itself, key by key; when it ends well *)
(* nothing is behind.                                                       *)

\* The request of the only busy thread: what it has not written is in keys.
Current(r) ==
    /\ r.view = chain
    /\ \A k \in Written(chain, listed) : k \in r.keys \/ stateDb[k] = chain
    /\ r.at = "advertise" => r.keys = {}

Settled ==
    chain # << >> /\ Last(chain).id \notin failed =>
        status = chain /\ \A k \in Written(chain, listed) : stateDb[k] = chain

Alone ==
    ~overlap =>
        /\ \A t, u \in Threads : Busy(t) /\ Busy(u) => t = u
        /\ \A t \in Threads : Busy(t) => Current(req[t])
        /\ (\A t \in Threads : ~Busy(t)) => Settled

\* A block added while nobody is busy is the business of one thread.
LEMMA AddBlockAlone ==
    ASSUME NodeInv, Alone, NEW t \in Threads, NEW txs \in SUBSET Tx, NEW left,
           AddBlock(t, txs, left)
    PROVE  Alone'
  <1> SUFFICES ASSUME ~overlap'
               PROVE  /\ \A u, v \in Threads : Busy(u)' /\ Busy(v)' => u = v
                      /\ \A u \in Threads : Busy(u)' => Current(req[u])'
                      /\ ~(\A u \in Threads : ~Busy(u)')
    BY DEF Alone
  <1>1. PICK r : r = [at |-> "putBlock",
                      block |-> [id |-> made + 1, txs |-> txs \cup {made + 1}],
                      view |-> chain', txs |-> txs \cup {made + 1}, keys |-> Written(chain', listed')]
    OBVIOUS
  <1>2. req' = [req EXCEPT ![t] = r] /\ \A u \in Threads : ~Busy(u)
    BY <1>1 DEF AddBlock
  <1>3. req'[t] = r /\ \A u \in Threads : u # t => req'[u] = req[u]
    BY <1>2 DEF NodeInv, Types
  <1>4. Busy(t)' /\ \A u \in Threads : Busy(u)' => u = t
    BY <1>1, <1>2, <1>3 DEF Busy
  <1>5. Current(r)'
    BY <1>1 DEF Current
  <1>6. Current(req[t])'
    BY <1>3, <1>5 DEF Current
  <1>7. QED
    BY <1>4, <1>6

\* The only busy thread keeps its request current, or leaves everything settled.
LEMMA ServesAlone ==
    ASSUME NodeInv, Sound, Alone, NEW t \in Threads, Continue(t) \/ PutFails(t)
    PROVE  Alone'
  <1> SUFFICES ASSUME ~overlap'
               PROVE  /\ \A u, v \in Threads : Busy(u)' /\ Busy(v)' => u = v
                      /\ \A u \in Threads : Busy(u)' => Current(req[u])'
                      /\ (\A u \in Threads : ~Busy(u)') => Settled'
    BY DEF Alone
  <1>1. Busy(t)
    BY ServesRequest
  <1>2. PICK r0 \in {Idle} \cup Request : Serves(t, r0)
    BY ServesRequest
  <1>3. ~overlap /\ chain' = chain /\ listed' = listed /\ \A u \in Threads : Busy(u) => u = t
    BY <1>1, <1>2 DEF Serves, Alone
  <1>4. Current(req[t]) /\ req[t] \in Request /\ Progress(req[t])
    BY <1>1, <1>3, BusyRequest DEF Alone, NodeInv
  <1>5. \A u \in Threads : u # t => ~Busy(u)'
    BY <1>2, <1>3 DEF Serves, NodeInv, Types, Busy
  <1>6. Written(chain, listed)' = Written(chain, listed)
    BY <1>3 DEF Written, KeysOf
  <1>7. CASE PutBlock(t) \/ \E tx \in req[t].txs : PutTx(t, tx)
    <2>1. /\ stateDb' = stateDb /\ req'[t].view = req[t].view /\ req'[t].keys = req[t].keys
          /\ req'[t].at = "advertise" => req'[t].keys = {}
          /\ req'[t].at # "idle"
      <3>1. CASE PutBlock(t)
        <4>1. req'[t] = [req[t] EXCEPT !.at = "putTxs"]
          BY <3>1 DEF PutBlock, Goto, NodeInv, Types
        <4>2. QED
          BY <1>4, <3>1, <4>1 DEF PutBlock, Request
      <3>2. ASSUME NEW tx \in req[t].txs, PutTx(t, tx)
            PROVE  <2>1!1 /\ <2>1!2 /\ <2>1!3
        <4>1. req'[t] = [req[t] EXCEPT !.txs = @ \ {tx},
                                       !.at = IF req[t].txs = {tx} THEN StatePlace(req[t]) ELSE @]
          BY <1>4, <3>2 DEF PutTx, NodeInv, Types
        <4>2. /\ req'[t].view = req[t].view /\ req'[t].keys = req[t].keys
              /\ req'[t].at = IF req[t].txs = {tx} THEN StatePlace(req[t]) ELSE req[t].at
          BY <1>4, <4>1 DEF Request
        <4>3. stateDb' = stateDb /\ req[t].at = "putTxs"
          BY <3>2 DEF PutTx
        <4>4. QED
          BY <4>2, <4>3 DEF StatePlace
      <3>3. QED
        BY <1>7, <3>1, <3>2
    <2>2. Current(req[t])' /\ Busy(t)'
      BY <1>3, <1>4, <1>6, <2>1 DEF Current, Busy
    <2>3. QED
      BY <1>5, <2>2
  <1>8. ASSUME NEW k \in Keys, PutState(t, k)
        PROVE  Current(req[t])' /\ Busy(t)'
    <2>1. req'[t] = [req[t] EXCEPT !.keys = @ \ {k},
                                   !.at = IF req[t].keys = {k} THEN "advertise" ELSE @]
      BY <1>4, <1>8 DEF PutState, NodeInv, Types
    <2>2. /\ req'[t].view = req[t].view /\ req'[t].keys = req[t].keys \ {k}
          /\ req'[t].at \in {"putState", "advertise"}
          /\ req'[t].at = "advertise" => req'[t].keys = {}
      <3>1. req[t].at = "putState"
        BY <1>8 DEF PutState
      <3>2. /\ req'[t].view = req[t].view /\ req'[t].keys = req[t].keys \ {k}
            /\ req'[t].at = IF req[t].keys = {k} THEN "advertise" ELSE req[t].at
        BY <1>4, <2>1 DEF Request
      <3>3. req[t].keys = {k} => req'[t].keys = {}
        BY <3>2
      <3>4. QED
        BY <3>1, <3>2, <3>3
    <2>3. /\ stateDb'[k] = chain
          /\ \A j \in Keys : j # k => stateDb'[j] = stateDb[j]
      BY <1>4, <1>8 DEF PutState, Sound, Current
    <2>4. Written(chain, listed) \subseteq Keys
      BY DEF Sound, Written, Keys
    <2>5. \A j \in Written(chain, listed) : j \in req'[t].keys \/ stateDb'[j] = chain
      BY <1>4, <2>2, <2>3, <2>4 DEF Current
    <2>6. QED
      BY <1>3, <1>4, <1>6, <2>2, <2>5 DEF Current, Busy
  <1>9. CASE Advertise(t)
    <2>1. ~Busy(t)' /\ status' = chain /\ stateDb' = stateDb /\ req[t].at = "advertise"
      BY <1>4, <1>9 DEF Advertise, stores, Current, NodeInv, Types, Busy, Idle
    <2>2. Settled'
      BY <1>3, <1>4, <1>6, <2>1 DEF Settled, Current
    <2>3. QED
      BY <1>5, <2>1, <2>2
  <1>10. CASE PutFails(t)
    <2>1. ~Busy(t)' /\ req[t].block.id \in failed'
      BY <1>10 DEF PutFails, NodeInv, Types, Busy, Idle
    <2>2. Last(chain) = req[t].block
      BY <1>4 DEF Current, Progress
    <2>3. QED
      BY <1>3, <1>5, <2>1, <2>2 DEF Settled
  <1>11. QED
    BY <1>5, <1>7, <1>8, <1>9, <1>10 DEF Continue

\* Every step keeps the only request current.
LEMMA NextAlone == NodeInv /\ Sound /\ Alone /\ [Next]_vars => Alone'
  <1> SUFFICES ASSUME NodeInv, Sound, Alone, [Next]_vars
               PROVE  Alone'
    OBVIOUS
  <1>1. CASE \/ UNCHANGED vars
             \/ \E t \in Threads, tx \in Tx : SubmitTx(t, tx)
    <2>1. UNCHANGED <<chain, status, stateDb, req, failed, overlap, listed>>
      BY <1>1 DEF vars, stores, SubmitTx
    <2>2. QED
      BY <2>1 DEF Alone, Settled, Current, Busy, Written, KeysOf
  <1>2. ASSUME NEW t \in Threads, StartMine(t)
        PROVE  Alone'
    BY <1>2, AddBlockAlone DEF StartMine, NodeInv, Types
  <1>3. ASSUME NEW t \in Threads, NEW txs \in SUBSET Tx, StartAccept(t, txs)
        PROVE  Alone'
    BY <1>3, AddBlockAlone DEF StartAccept
  <1>4. ASSUME NEW t \in Threads, Continue(t) \/ PutFails(t)
        PROVE  Alone'
    BY <1>4, ServesAlone
  <1>5. CASE Restart
    <2>1. chain' = << >> /\ \A t \in Threads : ~Busy(t)'
      BY <1>5 DEF Restart, Busy, Idle
    <2>2. QED
      BY <2>1 DEF Alone, Settled
  <1>6. QED
    BY <1>1, <1>2, <1>3, <1>4, <1>5 DEF Next

\* A node that serves its block requests one at a time shows its tip whenever it
\* is quiet, and has written from there every contract key and every balance that
\* balances() listed when the tip was added, except after a put that failed the tip
\* (chain_mine_handler and accept_synced_block): what is then missing is never
\* repaired by an idle node.  A balance that balances() no longer lists keeps the
\* value an earlier block gave it (chain_ops.rs:46 writes only what is listed).
THEOREM QuietNodeIsCurrent == Spec => []SequentialNodeIsCurrent
  <1>1. Init => Alone
    BY DEF Init, Alone, Busy, Idle, Settled
  <1>2. Alone => SequentialNodeIsCurrent
    BY DEF Alone, Settled, SequentialNodeIsCurrent
  <1>3. QED
    BY <1>1, <1>2, InitInv, NextInv, InitSound, NextSound, NextAlone, PTL DEF Spec
=============================================================================
