----------------------------- MODULE ApiQueries -----------------------------
(***************************************************************************)
(* The queries of an API node (crates/api/src/handlers/chain.rs), beside   *)
(* the requests of ApiNode that change what they read.                     *)
(*                                                                         *)
(* A query that looks in two places locks one after the other, so blocks   *)
(* are added and persisted in between.  One client asks; the handlers only *)
(* read, so several would not get in each other's way.                     *)
(*                                                                         *)
(* Abstracted: paging and counting are Blockchain's matter; a stored value *)
(* can be decoded.                                                         *)
(***************************************************************************)
EXTENDS ApiNode

VARIABLE query   \* what a query looks for that was not in the first place

NoQuery == "none"

ASSUME QueryAssumption == Tx \cap Keys = {} /\ NoQuery \notin Tx \cup Keys

OnChain(tx) == \E b \in ToSet(chain) : tx \in b.txs

\* Mutant: the history is searched before the pool.
HistoryFirst == <<"history", "pool">>

\* chain_tx_query_handler
TxPlaces == <<"pool", "history">>

\* chain_contract_state_handler, chain_contract_events_handler and
\* chain_contract_field_handler: the chain has what the store does not have yet.
ContractPlaces == <<"store", "chain">>

PlacesOf(what) == IF what \in Tx THEN TxPlaces ELSE ContractPlaces

\* The pool is searched by id, as chain_pending_tx_handler does on its own; the
\* history as history_tx_handler does.
Has(place, what) ==
    \/ place = "pool" /\ what \in pending
    \/ place = "history" /\ what \in txsDb
    \/ place = "store" /\ stateDb[what] # << >>
    \/ place = "chain" /\ what \in KeysOf(chain)

\* The node has taken in the transaction, or run a block that wrote the field.
Known(what) == IF what \in Tx THEN what \in pending \/ OnChain(what) ELSE what \in KeysOf(chain)

\* The first place: if it has what is asked for, it is the answer.  Questions
\* about what the node does not know are left out.
Ask(what) ==
    /\ query = NoQuery /\ Known(what)
    /\ ~Has(PlacesOf(what)[1], what)
    /\ query' = what
    /\ UNCHANGED vars

Found ==
    /\ query # NoQuery /\ Has(PlacesOf(query)[2], query)
    /\ query' = NoQuery
    /\ UNCHANGED vars

\* The second place does not have it either: 404.
Missed ==
    /\ query # NoQuery /\ ~Has(PlacesOf(query)[2], query)
    /\ query' = NoQuery
    /\ UNCHANGED vars

QueryInit == Init /\ query = NoQuery

ServeNext ==
    \/ \E t \in Threads :
        \/ \E tx \in Tx : SubmitTx(t, tx)
        \/ StartMine(t)
        \/ \E txs \in SUBSET Tx : StartAccept(t, txs)
        \/ Continue(t)
        \/ PutFails(t)

QueryNext ==
    \/ ServeNext /\ UNCHANGED query
    \/ Restart /\ query' = NoQuery
    \/ \E what \in Tx \cup ContractKeys : Ask(what)
    \/ Found \/ Missed

QuerySpec == QueryInit /\ [][QueryNext]_<<vars, query>>

-----------------------------------------------------------------------------
(* Properties *)

\* A query answers "not found" only for a transaction whose block is still being
\* written or met a storage error, although the transaction moves from the one
\* place to the other while the query is between them; and it never does for
\* what a confirmed call wrote to a contract.
MissedOnlyWhileWriting ==
    [][Missed => /\ query \in Tx
                 /\ \E b \in ToSet(chain) :
                       query \in b.txs /\ (InFlight(b) \/ b.id \in failed)]_query
=============================================================================
