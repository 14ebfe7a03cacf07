------------------------------ MODULE PeerSync ------------------------------
(***************************************************************************)
(* Nodes that mine, announce their height and fetch blocks of one another: *)
(* the peer registry and message handling of crates/p2p/src/engine.rs, the *)
(* handlers of crates/api/src/handlers/p2p.rs, and the header rules of     *)
(* Difficulty.                                                             *)
(*                                                                         *)
(* A handler locks the engine, then the chain, then the engine again, so   *)
(* it is several steps: what remains of a request is its job.  The node    *)
(* sends nothing by itself: outbound messages are in its answers, and an   *)
(* operator or transport takes them along, in any order, possibly never.   *)
(*                                                                         *)
(* Abstracted: messages are numbered in the order they arrive (Delivery    *)
(* has the other orders); transactions are Blockchain's matter, and puts   *)
(* succeed (ApiNode has failing ones).  Addresses, latencies and last seen *)
(* times decide nothing but ties.  Pings and mempool messages are left     *)
(* out: they touch neither chains nor heights nor the registry's names.    *)
(* A node that is restarted begins again from genesis (state.rs); blocks   *)
(* it mines then differ from those of its former life, whose times they    *)
(* do not share.                                                           *)
(***************************************************************************)
EXTENDS Difficulty, Kademlia

CONSTANTS
    Node,           \* nodes, by the names their peers register them under
    Down,           \* other names, of nodes that are down
    Seeds,          \* Seeds[n]: the names in the seed list of n
    SelfId,         \* local_peer_id, which is the same on every node
    Clock(_, _),    \* times the clock of a miner may show at a height
    Stray,          \* blocks of other networks that reach the nodes
    Batch,          \* blocks of one request, 128 in the code
    Near,           \* names of one answer to FindNode
    MaxJobs,        \* MaxJobs[n]: requests that node n serves at the same time
    Followers,      \* nodes whose operators keep them in step with their peers
    Registrable,    \* bound: names an operator registers by hand
    MaxMined,       \* bound: MaxMined[n] blocks mined by n
    MaxRestarts,    \* bound: MaxRestarts[n] restarts of n
    MaxHeight,      \* bound: height of a chain
    MaxLost,        \* bound: height of every chain when a node is restarted
    MaxInFlight     \* bound: messages in flight when an operator does something

Names == Node \cup Down \cup {SelfId}

Hashes == (Names \cup {"genesis"}) \X Nat \X Nat
Block == [index : Nat, miner : Names, life : Nat, time : Int, prev : Hashes,
          difficulty : Nat]

ASSUME SyncAssumption ==
    /\ SelfId \notin Node \cup Down /\ Down \cap Node = {} /\ Followers \subseteq Node
    /\ IsFiniteSet(Node \cup Down)
    /\ Bits \in Nat /\ \A p \in Names : Digest(p) \subseteq 1..Bits
    /\ Seeds \in [Node -> SUBSET (Node \cup Down)]
    /\ \A n \in Node, h \in 1..MaxHeight : Clock(n, h) \subseteq Int
    /\ Stray \subseteq Block
    /\ Batch \in 1..200 /\ Near \in 1..64 /\ MaxJobs \in [Node -> Nat]
    /\ Registrable \subseteq Names
    /\ MaxMined \in [Node -> Nat] /\ MaxRestarts \in [Node -> Nat]
    /\ MaxHeight \in Nat /\ MaxLost \in Nat /\ MaxInFlight \in Nat

VARIABLES
    chain,       \* blockchain.chain of each node, without genesis
    difficulty,  \* blockchain.difficulty: the cached one of the next block
    status,      \* best_height of local_chain_status
    peers,       \* the registry: known names, with their height and connection
    jobs,        \* what remains of the requests each node is serving
    net,         \* messages in flight
    life         \* how many times each node was restarted

vars == <<chain, difficulty, status, peers, jobs, net, life>>
ledger == <<chain, difficulty, life>>

Height(n) == Len(chain[n])

\* Two requests with the same rest are one job: the second would find the block
\* there, or write and send what the first did.
Free(n) == Cardinality(jobs[n]) < MaxJobs[n]
Begin(n, j) == Free(n) /\ jobs' = [jobs EXCEPT ![n] = @ \cup {j}]
Replace(n, j, new) == jobs' = [jobs EXCEPT ![n] = (@ \ {j}) \cup {new}]
End(n, j) == jobs' = [jobs EXCEPT ![n] = @ \ {j}]

-----------------------------------------------------------------------------
(* Registry *)

NewPeer == [height |-> 0, connected |-> FALSE]

UpsertAll(reg, ps) ==
    [p \in DOMAIN reg \cup ps |-> IF p \in DOMAIN reg THEN reg[p] ELSE NewPeer]
Upsert(reg, p) == UpsertAll(reg, {p})
MarkAlive(reg, p) == [Upsert(reg, p) EXCEPT ![p].connected = TRUE]
UpdateChainTip(reg, p, h) == [reg EXCEPT ![p].height = h]

\* sync_candidates: the names heard to be higher than the summary.
SyncCandidates(n) == {p \in DOMAIN peers[n] : peers[n][p].height > status[n]}

\* compare_sync_priority, up to ties.
Preferred(n, p, q) ==
    \/ peers[n][p].connected /\ ~peers[n][q].connected
    \/ /\ peers[n][p].connected = peers[n][q].connected
       /\ peers[n][p].height > peers[n][q].height

\* select_sync_target, which p2p_sync_target_handler shows: any of the best.
SyncTargets(n) ==
    {p \in SyncCandidates(n) : \A q \in SyncCandidates(n) : ~Preferred(n, q, p)}

-----------------------------------------------------------------------------
(* Messages *)

Handshake(n, to) == [kind |-> "Handshake", from |-> n, to |-> to, height |-> status[n]]
GetChainStatus(n, to) == [kind |-> "GetChainStatus", from |-> n, to |-> to]
ChainStatus(n, to) == [kind |-> "ChainStatus", from |-> n, to |-> to, height |-> status[n]]
\* life, which no handler reads, tells from which life of the sender a request is.
GetBlocks(n, to, from, limit) ==
    [kind |-> "GetBlocks", from |-> n, to |-> to, first |-> from, limit |-> limit,
     life |-> life[n]]
Blocks(n, to, blocks) == [kind |-> "Blocks", from |-> n, to |-> to, blocks |-> blocks]
FindNode(n, to, target, limit) ==
    [kind |-> "FindNode", from |-> n, to |-> to, target |-> target, limit |-> limit]
Nodes(n, to, names) == [kind |-> "Nodes", from |-> n, to |-> to, names |-> names]
NewBlock(n, to, block) == [kind |-> "NewBlock", from |-> n, to |-> to, blocks |-> <<block>>]

\* bootstrap_seed_nodes
SeedRegistry(n) == [p \in Seeds[n] |-> NewPeer]

Init ==
    /\ chain = [n \in Node |-> << >>]
    /\ difficulty = [n \in Node |-> InitialDifficulty]
    /\ status = [n \in Node |-> 0]
    /\ peers = [n \in Node |-> SeedRegistry(n)]
    /\ jobs = [n \in Node |-> {}]
    /\ net = {NewBlock(SelfId, n, b) : n \in Followers, b \in Stray}
    /\ life = [n \in Node |-> 0]

\* What the engine does with message m: the sender is alive, the registry
\* becomes reg, the answers go out.
Receive(m, reg, answers) ==
    /\ peers' = [peers EXCEPT ![m.to] = reg]
    /\ net' = (net \ {m}) \cup answers

Alive(m) == MarkAlive(peers[m.to], m.from)

\* The height is noted for the name in the handshake, which is SelfId whoever sent it.
OnHandshake(m) ==
    /\ m.kind = "Handshake"
    /\ Receive(m, MarkAlive(UpdateChainTip(Upsert(Alive(m), SelfId), SelfId, m.height), SelfId),
               {ChainStatus(m.to, m.from)})
    /\ UNCHANGED <<ledger, status, jobs>>

OnGetChainStatus(m) ==
    /\ m.kind = "GetChainStatus"
    /\ Receive(m, Alive(m), {ChainStatus(m.to, m.from)})
    /\ UNCHANGED <<ledger, status, jobs>>

\* Mutant: the request starts behind the next block.
OnChainStatusGap(m) ==
    /\ m.kind = "ChainStatus"
    /\ Receive(m, UpdateChainTip(Alive(m), m.from, m.height),
               IF m.height > status[m.to]
                 THEN {GetBlocks(m.to, m.from, m.height, Batch)} ELSE {})
    /\ UNCHANGED <<ledger, status, jobs>>

OnChainStatus(m) ==
    /\ m.kind = "ChainStatus"
    /\ Receive(m, UpdateChainTip(Alive(m), m.from, m.height),
               IF m.height > status[m.to]
                 THEN {GetBlocks(m.to, m.from, status[m.to] + 1, Batch)} ELSE {})
    /\ UNCHANGED <<ledger, status, jobs>>

\* Mutant: the answer starts behind the first block asked for.
OnGetBlocksLate(m) ==
    LET last == IF m.first + m.limit - 1 < Height(m.to) THEN m.first + m.limit - 1
                ELSE Height(m.to)
    IN  /\ m.kind = "GetBlocks"
        /\ Receive(m, Alive(m), {Blocks(m.to, m.from, SubSeq(chain[m.to], m.first + 1, last))})
        /\ UNCHANGED <<ledger, status, jobs>>

\* The engine's empty Blocks is replaced by what the chain has from that height on.
OnGetBlocks(m) ==
    LET last == IF m.first + m.limit - 1 < Height(m.to) THEN m.first + m.limit - 1
                ELSE Height(m.to)
    IN  /\ m.kind = "GetBlocks"
        /\ Receive(m, Alive(m), {Blocks(m.to, m.from, SubSeq(chain[m.to], m.first, last))})
        /\ UNCHANGED <<ledger, status, jobs>>

\* NewBlock and Blocks: the rest of the handler is a job.  After a Blocks that
\* is not empty it asks for more.
OnBlocks(m) ==
    /\ m.kind \in {"NewBlock", "Blocks"}
    /\ Receive(m, Alive(m), {})
    /\ IF m.blocks = << >> THEN UNCHANGED jobs
       ELSE Begin(m.to, [at |-> "append", blocks |-> m.blocks, peer |-> m.from,
                         more |-> m.kind = "Blocks"])
    /\ UNCHANGED <<ledger, status>>

OnFindNode(m) ==
    /\ m.kind = "FindNode"
    /\ Receive(m, Alive(m),
               {Nodes(m.to, m.from, NearestPeers(DOMAIN Alive(m), m.target, m.limit))})
    /\ UNCHANGED <<ledger, status, jobs>>

\* All names are registered but SelfId: the receiver may learn its own.
OnNodes(m) ==
    /\ m.kind = "Nodes"
    /\ Receive(m, UpsertAll(Alive(m), m.names \ {SelfId}), {})
    /\ UNCHANGED <<ledger, status, jobs>>

Deliver(m) ==
    /\ m \in net /\ m.to \in Node
    /\ \/ OnHandshake(m) \/ OnGetChainStatus(m) \/ OnChainStatus(m)
       \/ OnGetBlocks(m) \/ OnBlocks(m) \/ OnFindNode(m) \/ OnNodes(m)

\* Losing a status message or a handshake is the operator not sending it.
Lose(m) ==
    /\ m \in net /\ m.kind \in {"GetBlocks", "Blocks"}
    /\ net' = net \ {m}
    /\ UNCHANGED <<ledger, status, peers, jobs>>

-----------------------------------------------------------------------------
(* Adding blocks *)

\* Operators, miners included, act when few messages are in flight.
Quiet == Cardinality(net) < MaxInFlight

\* Mutant: the cache is refreshed before the block is pushed.
PushStale(n, block) ==
    /\ chain' = [chain EXCEPT ![n] = Append(@, block)]
    /\ difficulty' = [difficulty EXCEPT ![n] = ExpectedDifficulty(chain[n], Height(n) + 1)]
    /\ UNCHANGED life

\* The push shared by mining and synchronisation, and refresh_next_difficulty_cache.
Push(n, block) ==
    /\ chain' = [chain EXCEPT ![n] = Append(@, block)]
    /\ difficulty' = [difficulty EXCEPT
                          ![n] = ExpectedDifficulty(Append(chain[n], block), Height(n) + 2)]
    /\ UNCHANGED life

MinedBy(n) == {i \in DOMAIN chain[n] : chain[n][i].miner = n}

\* chain_mine_handler up to the release of the chain's lock.
Mine(n, time) ==
    LET block == NewBlockOn(chain[n], n, life[n], time)
    IN  /\ Quiet
        /\ Height(n) < MaxHeight /\ Cardinality(MinedBy(n)) < MaxMined[n]
        /\ Push(n, block)
        /\ Begin(n, [at |-> "announce", block |-> block, view |-> Height(n) + 1])
        /\ UNCHANGED <<status, peers, net>>

\* append_external_block of the first block of the job.  A block that does not
\* follow ends the handler, with the rest of the blocks and the request for more.
AppendBlock(n, j) ==
    /\ j.at = "append"
    /\ IF Follows(chain[n], Head(j.blocks))
         THEN /\ Push(n, Head(j.blocks))
              /\ Replace(n, j, [at |-> "advertise", blocks |-> Tail(j.blocks), peer |-> j.peer,
                                more |-> j.more, view |-> Height(n) + 1])
         ELSE End(n, j) /\ UNCHANGED ledger
    /\ UNCHANGED <<status, peers, net>>

\* update_local_chain_status with the view taken when the block was appended.
Advertise(n, j) ==
    /\ j.at = "advertise"
    /\ status' = [status EXCEPT ![n] = j.view]
    /\ IF j.blocks # << >>
         THEN Replace(n, j, [at |-> "append", blocks |-> j.blocks, peer |-> j.peer,
                             more |-> j.more])
         ELSE IF j.more THEN Replace(n, j, [at |-> "read", peer |-> j.peer])
         ELSE End(n, j)
    /\ UNCHANGED <<ledger, peers, net>>

Connected(n) == {p \in DOMAIN peers[n] : peers[n][p].connected}

\* Mutant: the summary shows the block after the mined one.
AnnounceAhead(n, j) ==
    /\ j.at = "announce"
    /\ status' = [status EXCEPT ![n] = j.view + 1]
    /\ net' = net \cup {NewBlock(n, p, j.block) : p \in Connected(n) \cap Node}
    /\ End(n, j)
    /\ UNCHANGED <<ledger, peers>>

\* The end of mining: the summary and broadcast_to_connected.
Announce(n, j) ==
    /\ j.at = "announce"
    /\ status' = [status EXCEPT ![n] = j.view]
    /\ net' = net \cup {NewBlock(n, p, j.block) : p \in Connected(n) \cap Node}
    /\ End(n, j)
    /\ UNCHANGED <<ledger, peers>>

\* build_next_get_blocks_request: the chain's height under one lock, ...
ReadHeight(n, j) ==
    /\ j.at = "read"
    /\ Replace(n, j, [at |-> "ask", peer |-> j.peer, height |-> Height(n)])
    /\ UNCHANGED <<ledger, status, peers, net>>

\* ... the peer's under another.
Ask(n, j) ==
    LET remaining == peers[n][j.peer].height - j.height
        limit == IF remaining < Batch THEN remaining ELSE Batch
    IN  /\ j.at = "ask"
        /\ net' = IF remaining > 0 /\ j.peer \in Node
                    THEN net \cup {GetBlocks(n, j.peer, j.height + 1, limit)} ELSE net
        /\ End(n, j)
        /\ UNCHANGED <<ledger, status, peers>>

\* A handler adds blocks to the chain, or asks a peer for more of them.
Adding(n, j) == AppendBlock(n, j) \/ Advertise(n, j) \/ Announce(n, j)
Asking(n, j) == ReadHeight(n, j) \/ Ask(n, j)

-----------------------------------------------------------------------------
(* Operators *)

\* p2p_sync_step_handler, whose action the operator then carries out, one at a
\* time (a bound, as in Bootstrap).  p2p_sync_plan_handler shows the same request.
SyncStep(n) ==
    /\ Quiet /\ jobs[n] = {}
    /\ \E target \in SyncTargets(n) : Begin(n, [at |-> "read", peer |-> target])
    /\ UNCHANGED <<ledger, status, peers, net>>

\* Asking a peer for its status in n's name.
Poll(n, p) ==
    /\ Quiet
    /\ net' = net \cup {GetChainStatus(n, p)}
    /\ UNCHANGED <<ledger, status, peers, jobs>>

\* p2p_bootstrap_handler
Bootstrap(n) ==
    LET targets == {p \in DOMAIN peers[n] \ {SelfId} : ~peers[n][p].connected} \cap Node
    IN  /\ Quiet /\ jobs[n] = {}
        /\ net' = net \cup {Handshake(n, p) : p \in targets}
        /\ UNCHANGED <<ledger, status, peers, jobs>>

\* p2p_discover_handler, for the default target.
Discover(n) ==
    /\ Quiet /\ jobs[n] = {}
    /\ net' = net \cup {FindNode(n, p, SelfId, Near) : p \in (DOMAIN peers[n] \ {SelfId}) \cap Node}
    /\ UNCHANGED <<ledger, status, peers, jobs>>

\* p2p_register_peer_handler
RegisterPeer(n, p) ==
    /\ Quiet /\ jobs[n] = {}
    /\ peers' = [peers EXCEPT ![n] = Upsert(@, p)]
    /\ UNCHANGED <<ledger, status, jobs, net>>

\* default_app_state_with_config in a new process: genesis and the seed list.
\* What others heard of the node, and its messages in flight, are of its former life.
Restart(n) ==
    /\ life[n] < MaxRestarts[n]
    /\ \A m \in Node : Height(m) <= MaxLost
    /\ life' = [life EXCEPT ![n] = @ + 1]
    /\ chain' = [chain EXCEPT ![n] = << >>]
    /\ difficulty' = [difficulty EXCEPT ![n] = InitialDifficulty]
    /\ status' = [status EXCEPT ![n] = 0]
    /\ peers' = [peers EXCEPT ![n] = SeedRegistry(n)]
    /\ jobs' = [jobs EXCEPT ![n] = {}]
    /\ UNCHANGED net

\* What chain_info_handler, chain_difficulty_handler and metrics_handler show of
\* the chain.  They derive the next difficulty and leave the cached one alone.
ChainInfo(n) ==
    [height |-> Height(n),
     latest |-> IF chain[n] = << >> THEN 0 ELSE chain[n][Height(n)].difficulty,
     next |-> ExpectedDifficulty(chain[n], Height(n) + 1)]

\* p2p_nearest_peers_handler and p2p_dht_buckets_handler.
Nearest(n, target, limit) == NearestPeers(DOMAIN peers[n], target, limit)
Buckets(n, target, count) ==
    [i \in 0..count - 1 |-> {p \in DOMAIN peers[n] : BucketIndex(p, target, count) = i}]

Next ==
    \/ \E m \in net : Deliver(m) \/ Lose(m)
    \/ \E n \in Node :
        \/ \E time \in Clock(n, Height(n) + 1) : Mine(n, time)
        \/ \E j \in jobs[n] : Adding(n, j) \/ Asking(n, j)
        \/ Restart(n)
    \/ \E n \in Followers :
        \/ SyncStep(n) \/ Bootstrap(n) \/ Discover(n)
        \/ \E p \in Registrable : RegisterPeer(n, p)
        \/ \E p \in Node \ {n} : Poll(n, p)

\* Of the messages that p keeps sending to n, one gets through now and then.
Arrives(kind, p, n) ==
    SF_vars(\E m \in net : m.kind = kind /\ m.from = p /\ m.to = n /\ Deliver(m))

\* A handler that has begun ends, and what is in flight arrives or is lost.
\* Operators of followers keep asking every peer for its status, as nothing in
\* the node does.
Fairness ==
    /\ WF_vars(\E m \in net : Deliver(m))
    /\ \A n \in Node : /\ WF_vars(\E j \in jobs[n] : Adding(n, j))
                       /\ WF_vars(\E j \in jobs[n] : Asking(n, j))
    /\ \A n \in Followers : \A p \in Node \ {n} :
          SF_vars(Poll(n, p)) /\ Arrives("GetBlocks", n, p) /\ Arrives("Blocks", p, n)

Spec == Init /\ [][Next]_vars /\ Fairness
-----------------------------------------------------------------------------
(* Properties *)

Entry == [height : Nat, connected : BOOLEAN]

Message ==
    [kind : {"Handshake", "ChainStatus"}, from : Node, to : Names, height : Nat]
      \cup [kind : {"GetChainStatus"}, from : Node, to : Names]
      \cup [kind : {"GetBlocks"}, from : Node, to : Names, first : Nat, limit : Nat,
             life : Nat]
      \cup [kind : {"Blocks", "NewBlock"}, from : Names, to : Names, blocks : Seq(Block)]
      \cup [kind : {"FindNode"}, from : Node, to : Names, target : Names, limit : Nat]
      \cup [kind : {"Nodes"}, from : Node, to : Names, names : SUBSET Names]

Job ==
    [at : {"append"}, blocks : Seq(Block), peer : Names, more : BOOLEAN]
      \cup [at : {"advertise"}, blocks : Seq(Block), peer : Names, more : BOOLEAN, view : Nat]
      \cup [at : {"announce"}, block : Block, view : Nat]
      \cup [at : {"read"}, peer : Names]
      \cup [at : {"ask"}, peer : Names, height : Nat]

\* With it: a summary never runs ahead of its chain, nor a request ahead of what
\* its node knows.
TypeOK ==
    /\ chain \in [Node -> Seq(Block)]
    /\ difficulty \in [Node -> Nat]
    /\ status \in [Node -> Nat] /\ \A n \in Node : status[n] <= Height(n)
    /\ DOMAIN peers = Node
    /\ \A n \in Node : /\ DOMAIN peers[n] \subseteq Names
                       /\ \A p \in DOMAIN peers[n] : peers[n][p] \in Entry
    /\ jobs \in [Node -> SUBSET Job]
    /\ \A n \in Node : \A j \in jobs[n] :
          (j.at \in {"append", "read", "ask"} => j.peer \in DOMAIN peers[n])
    /\ net \subseteq Message
    /\ life \in [Node -> Nat]

\* Whatever a node's summary, jobs and messages are late by, a request for
\* blocks is one the receiver does not refuse (validate_basic), and starts at a
\* height its sender can use, at once or after it has caught up to it.  Only a
\* restart of the sender makes its earlier requests useless.
RequestsConnect ==
    \A m \in net : m.kind = "GetBlocks" =>
        /\ m.first >= 1 /\ m.limit \in 1..Batch
        /\ m.life = life[m.from] => m.first <= Height(m.from) + 1

\* Every chain passes validate_chain, with stray blocks, forks, blocks that
\* arrive late, twice or out of order, and blocks of a node's former life.
ChainsAreValid == \A n \in Node : ValidChain(chain[n])

\* The difficulty a node keeps is the one it shows for the next block, and the
\* one that any other node on the same branch did give that block.  After genesis
\* it is at most one away from that of the latest block.
CacheIsNext ==
    \A n, m \in Node :
        /\ difficulty[n] = ChainInfo(n).next
        /\ chain[n] # << >> => ChainInfo(n).next - ChainInfo(n).latest \in {-1, 0, 1}
        /\ Height(m) > Height(n) /\ SubSeq(chain[m], 1, Height(n)) = chain[n]
              => chain[m][Height(n) + 1].difficulty = difficulty[n]

Behind(n, m) == Height(m) > Height(n) /\ SubSeq(chain[m], 1, Height(n)) = chain[n]

SummaryLags(n) == status[n] # Height(n)

\* With operators that keep asking, a node does not stay behind another on its
\* own branch, whatever was lost, whoever was restarted and however wrong the
\* heights heard before became by it, unless its summary stays behind its own
\* chain: then it keeps asking for blocks it has.
CatchesUp == \A n \in Followers, m \in Node : <>[](Behind(n, m) => SummaryLags(n))

\* Two buckets, or one for every distance of the highest bit.
Bucketed(n, target) ==
    \A limit \in 1..Cardinality(DOMAIN peers[n]) - 1, count \in {2, Bits + 1} :
        LET near == Nearest(n, target, limit)
            bucket == Buckets(n, target, count)
        IN  \A i \in {k \in DOMAIN bucket : near \cap bucket[k] # {}} :
                \A j \in i + 1..count - 1 : bucket[j] \subseteq near

\* The two views of the registry agree for every target, whatever names get
\* registered: when the nearest peers reach into a bucket, they hold all of the
\* nearer buckets.
BucketsAreByDistance ==
    [][\A n \in Node : DOMAIN peers'[n] # DOMAIN peers[n] =>
          \A target \in Names : Bucketed(n, target)']_peers
=============================================================================
