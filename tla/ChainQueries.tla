---------------------------- MODULE ChainQueries ----------------------------
(***************************************************************************)
(* What the query handlers of crates/api/src/handlers/chain.rs compute     *)
(* from a Blockchain while they hold its lock.                             *)
(*                                                                         *)
(* Abstracted: records are the transactions they show; that the balance of *)
(* a summary is read before its counters is the matter of ApiQueries.      *)
(***************************************************************************)
EXTENDS Blockchain

Directions == {"all", "in", "out"}

\* Is tx a record of address?  A transfer to oneself is one in each direction.
Listed(tx, address, direction) ==
    \/ direction \in {"all", "in"} /\ tx.to = address
    \/ direction \in {"all", "out"} /\ tx.from = address

Records(txs, address, direction) ==
    LET kept[i \in 0..Len(txs)] ==
            IF i = 0 THEN << >>
            ELSE IF Listed(txs[i], address, direction) THEN Append(kept[i - 1], txs[i])
            ELSE kept[i - 1]
    IN  kept[Len(txs)]

\* Mutant: blocks are listed from the oldest to the newest.
AddressTxsOldestFirst(blocks, address, direction) ==
    LET upTo[h \in 0..Len(blocks)] ==
            IF h = 0 THEN << >> ELSE upTo[h - 1] \o Records(blocks[h], address, direction)
    IN  upTo[Len(blocks)]

\* chain_address_txs_handler, before paging: the newest block comes first, and
\* the transactions of a block in its order.
AddressTxs(blocks, address, direction) ==
    LET upTo[h \in 0..Len(blocks)] ==
            IF h = 0 THEN << >> ELSE Records(blocks[h], address, direction) \o upTo[h - 1]
    IN  upTo[Len(blocks)]

\* chain_address_pending_txs_handler, before paging.
AddressPendingTxs(pool, address, direction) ==
    Reverse(Records(pool, address, direction))

\* chain_mempool_handler for an address, before paging.
Mempool(pool, address) == Records(pool, address, "all")

\* skip(offset).take(limit)
Page(records, offset, limit) ==
    SubSeq(records, offset + 1, IF offset + limit < Len(records) THEN offset + limit
                                ELSE Len(records))

Joined(blocks) ==
    LET upTo[h \in 0..Len(blocks)] == IF h = 0 THEN << >> ELSE upTo[h - 1] \o blocks[h]
    IN  upTo[Len(blocks)]

\* saturating_add, one transaction after the other.
Total(txs) ==
    LET sum[i \in 0..Len(txs)] ==
            IF i = 0 THEN 0
            ELSE IF sum[i - 1] + txs[i].amount > MaxU64 THEN MaxU64
            ELSE sum[i - 1] + txs[i].amount
    IN  sum[Len(txs)]

\* Mutant: what is pending counts as confirmed.
SummaryOptimistic(blocks, pool, address) ==
    LET all == Joined(blocks) \o pool
    IN  [in |-> Total(Records(all, address, "in")), out |-> Total(Records(all, address, "out")),
         pendingIn |-> 0, pendingOut |-> 0]

\* chain_address_summary_handler: the amounts.
Summary(blocks, pool, address) ==
    LET all == Joined(blocks)
    IN  [in |-> Total(Records(all, address, "in")), out |-> Total(Records(all, address, "out")),
         pendingIn |-> Total(Records(pool, address, "in")),
         pendingOut |-> Total(Records(pool, address, "out"))]

-----------------------------------------------------------------------------
(* Properties *)

\* A system transaction on the chain names address as its sender.  A summary
\* counts its amount as sent, balances() takes it from nobody.
SystemSends(address) ==
    \E tx \in ToSet(Joined(chain)) : IsSystem(tx) /\ tx.from = address

\* On a chain of plain transfers the summary of an address explains its balance:
\* what came in is what went out and what is left.  With a pool of transfers
\* that apply, its pending amounts lead to the balance the pool leaves.  This is
\* so until what came in reaches u64::MAX, for an address that no system
\* transaction names as its sender.
SummaryReconciles ==
    PayloadFree =>
        LET balances == Balances
            pooled == ApplyAllToBalances(pending, app, balances)
        IN  \A address \in Address :
                LET sum == Summary(chain, pending, address)
                IN  sum.in + sum.pendingIn < MaxU64 /\ ~SystemSends(address) =>
                        /\ balances[address] + sum.out = sum.in
                        /\ pooled.ok /\ (\A i \in DOMAIN pending : ~HasPayload(pending[i]))
                              => pooled.bal[address]
                                    = balances[address] + sum.pendingIn - sum.pendingOut

\* The records of before are the last ones of after.
KeepsTail(before, after) ==
    Page(after, Len(after) - Len(before), Len(before)) = before

\* A client that reads records page by page misses none of a block that was there
\* when it began.  The lists of an address start with the newest record: when
\* blocks are added between two pages, what was listed keeps its distance from
\* the end, so the next page starts at or before the first record not yet read.
\* So do the pending records of an address, and those of the mempool, which starts
\* with the oldest, keep their place from the front, as long as none of them is
\* confirmed; when one is, the pages of the pool move up and may skip another.
PagesKeepPlace ==
    [][\A address \in Address, direction \in Directions :
          /\ KeepsTail(AddressTxs(chain, address, direction),
                       AddressTxs(chain', address, direction))
          /\ (\A tx \in ToSet(pending) :
                  Listed(tx, address, direction) => tx \in ToSet(pending')) =>
                /\ KeepsTail(AddressPendingTxs(pending, address, direction),
                             AddressPendingTxs(pending', address, direction))
                /\ direction = "all" =>
                      LET shown == Mempool(pending, address)
                      IN  Page(Mempool(pending', address), 0, Len(shown)) = shown
      ]_<<chain, pending>>
=============================================================================
