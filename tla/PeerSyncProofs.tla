--------------------------- MODULE PeerSyncProofs ---------------------------
(***************************************************************************)
(* For every set of nodes, clocks, batch size and adjustment window,       *)
(* whatever is lost or late and whoever is restarted: requests connect,    *)
(* chains are valid and the cached difficulty is the next one.             *)
(***************************************************************************)
EXTENDS PeerSync, Sums, SequenceTheorems, TLAPS

GoodRegistry(reg) == DOMAIN reg \subseteq Names /\ \A p \in DOMAIN reg : reg[p] \in Entry

\* What is left of a request of n: it does not know more than the chain.
GoodJob(n, j) ==
    /\ j \in Job
    /\ j.at = "append" => j.blocks # << >>
    /\ j.at \in {"append", "advertise", "read", "ask"} => j.peer \in DOMAIN peers[n]
    /\ j.at \in {"advertise", "announce"} => j.view <= Height(n)
    /\ j.at = "ask" => j.height <= Height(n)

\* A request of the present life of its sender connects to the sender's chain.
GoodMessage(m) ==
    /\ m \in Message
    /\ m.kind = "GetBlocks" =>
          /\ m.life \in 0..life[m.from] /\ m.first >= 1 /\ m.limit \in 1..Batch
          /\ m.life = life[m.from] => m.first <= Height(m.from) + 1

Ledgers ==
    /\ chain \in [Node -> Seq(Block)]
    /\ difficulty \in [Node -> Nat]
    /\ status \in [Node -> Nat] /\ \A n \in Node : status[n] <= Height(n)
    /\ life \in [Node -> Nat]

SyncInv ==
    /\ Ledgers
    /\ peers = [n \in Node |-> peers[n]] /\ jobs = [n \in Node |-> jobs[n]]
    /\ \A n \in Node : GoodRegistry(peers[n])
    /\ \A n \in Node : \A j \in jobs[n] : GoodJob(n, j)
    /\ \A m \in net : GoodMessage(m)

HeightsGrow ==
    UNCHANGED life /\ \A k \in Node : Height(k)' \in Nat /\ Height(k) <= Height(k)'

LEMMA HeightIsNat ==
    ASSUME Ledgers, NEW n \in Node
    PROVE  Height(n) \in Nat
  BY DEF Ledgers, Height

\* While heights and registries only grow, nothing that is late becomes wrong.
LEMMA OldMessagesStayGood ==
    ASSUME Ledgers, HeightsGrow, NEW m, GoodMessage(m)
    PROVE  GoodMessage(m)'
  <1>1. m \in Message
    BY DEF GoodMessage
  <1>2. CASE m.kind = "GetBlocks"
    <2>1. m.from \in Node /\ m.first \in Nat
      BY <1>1, <1>2 DEF Message
    <2> QED
      BY <1>2, <2>1, HeightIsNat DEF GoodMessage, HeightsGrow
  <1> QED
    BY <1>1, <1>2 DEF GoodMessage

LEMMA OldJobsStayGood ==
    ASSUME Ledgers, HeightsGrow, NEW n \in Node, NEW j, GoodJob(n, j),
           DOMAIN peers[n] \subseteq DOMAIN peers'[n]
    PROVE  GoodJob(n, j)'
  <1>1. j \in Job /\ Height(n) \in Nat /\ Height(n)' \in Nat /\ Height(n) <= Height(n)'
    BY HeightIsNat DEF GoodJob, HeightsGrow
  <1>2. j.at \in {"advertise", "announce"} => j.view \in Nat
    BY <1>1 DEF Job
  <1>3. j.at = "ask" => j.height \in Nat
    BY <1>1 DEF Job
  <1> QED
    BY <1>1, <1>2, <1>3 DEF GoodJob

\* A step of node n keeps the invariant if what it adds is good.
LEMMA StepOfOne ==
    ASSUME SyncInv, NEW n \in Node, Ledgers', HeightsGrow,
           NEW reg, peers' = [peers EXCEPT ![n] = reg],
           DOMAIN peers[n] \subseteq DOMAIN reg, GoodRegistry(reg),
           NEW js, jobs' = [jobs EXCEPT ![n] = js],
           \A j \in js : j \in jobs[n] \/ GoodJob(n, j)',
           \A m \in net' : m \in net \/ GoodMessage(m)'
    PROVE  SyncInv'
  <1>1. /\ peers'[n] = reg /\ jobs'[n] = js
        /\ \A k \in Node \ {n} : peers'[k] = peers[k] /\ jobs'[k] = jobs[k]
        /\ peers' = [k \in Node |-> peers'[k]] /\ jobs' = [k \in Node |-> jobs'[k]]
    BY DEF SyncInv
  <1>2. \A k \in Node : DOMAIN peers[k] \subseteq DOMAIN peers'[k]
    BY <1>1
  <1>3. \A k \in Node : GoodRegistry(peers[k])'
    BY <1>1 DEF SyncInv, GoodRegistry
  <1>4. ASSUME NEW k \in Node, NEW j \in jobs'[k]
        PROVE  GoodJob(k, j)'
    <2>1. CASE j \in jobs[k]
      BY <1>2, <2>1, OldJobsStayGood DEF SyncInv
    <2>2. CASE j \notin jobs[k]
      <3>1. k = n
        BY <1>1, <1>4, <2>2
      <3> QED
        BY <1>1, <1>4, <2>2, <3>1
    <2> QED
      BY <2>1, <2>2
  <1>5. \A m \in net' : GoodMessage(m)'
    BY OldMessagesStayGood DEF SyncInv
  <1> QED
    BY <1>1, <1>3, <1>4, <1>5 DEF SyncInv

-----------------------------------------------------------------------------
(* Registries *)

LEMMA NewPeerIsEntry == NewPeer \in Entry
  BY DEF NewPeer, Entry

LEMMA UpsertIsGood ==
    ASSUME NEW reg, GoodRegistry(reg), NEW ps \in SUBSET Names
    PROVE  /\ GoodRegistry(UpsertAll(reg, ps))
           /\ DOMAIN UpsertAll(reg, ps) = DOMAIN reg \cup ps
  BY NewPeerIsEntry DEF UpsertAll, GoodRegistry

LEMMA AliveIsGood ==
    ASSUME NEW reg, GoodRegistry(reg), NEW p \in Names
    PROVE  /\ GoodRegistry(MarkAlive(reg, p))
           /\ DOMAIN MarkAlive(reg, p) = DOMAIN reg \cup {p}
  <1>1. PICK r : r = UpsertAll(reg, {p})
    OBVIOUS
  <1>2. GoodRegistry(r) /\ DOMAIN r = DOMAIN reg \cup {p}
    BY <1>1, UpsertIsGood
  <1>3. MarkAlive(reg, p) = [r EXCEPT ![p].connected = TRUE]
    BY <1>1 DEF MarkAlive, Upsert
  <1>4. \A q \in DOMAIN r : [r EXCEPT ![p].connected = TRUE][q] \in Entry
    BY <1>2 DEF GoodRegistry, Entry
  <1> QED
    BY <1>2, <1>3, <1>4 DEF GoodRegistry

LEMMA TipIsGood ==
    ASSUME NEW reg, GoodRegistry(reg), NEW p \in DOMAIN reg, NEW h \in Nat
    PROVE  /\ GoodRegistry(UpdateChainTip(reg, p, h))
           /\ DOMAIN UpdateChainTip(reg, p, h) = DOMAIN reg
  BY DEF GoodRegistry, UpdateChainTip, Entry

LEMMA SeedsAreGood ==
    ASSUME NEW n \in Node
    PROVE  GoodRegistry(SeedRegistry(n))
  BY SyncAssumption, NewPeerIsEntry DEF SeedRegistry, GoodRegistry, Names

-----------------------------------------------------------------------------
(* Messages *)

LEMMA SyncInit == Init => SyncInv
  <1> SUFFICES ASSUME Init
               PROVE  SyncInv
    OBVIOUS
  <1>1. Ledgers
    BY DifficultyAssumption DEF Init, Ledgers, Height
  <1>2. \A n \in Node : peers[n] = SeedRegistry(n)
    BY DEF Init
  <1>3. \A n \in Node : GoodRegistry(peers[n])
    BY <1>2, SeedsAreGood
  <1>4. ASSUME NEW m \in net
        PROVE  GoodMessage(m)
    <2>1. PICK n \in Followers, b \in Stray : m = NewBlock(SelfId, n, b)
      BY <1>4 DEF Init
    <2>2. n \in Names /\ SelfId \in Names /\ b \in Block
      BY <2>1, SyncAssumption DEF Names
    <2>3. <<b>> \in Seq(Block)
      BY <2>2
    <2> QED
      BY <2>1, <2>2, <2>3 DEF GoodMessage, NewBlock, Message
  <1> QED
    BY <1>1, <1>3, <1>4 DEF Init, SyncInv

LEMMA ChainsStand ==
    ASSUME SyncInv, UNCHANGED <<ledger, status>>
    PROVE  Ledgers' /\ HeightsGrow
  BY HeightIsNat DEF SyncInv, Ledgers, HeightsGrow, Height, ledger

\* With the chains as they are, good is good after the step.
LEMMA StepBesideChains ==
    ASSUME SyncInv, UNCHANGED <<ledger, status>>, NEW n \in Node,
           NEW reg, peers' = [peers EXCEPT ![n] = reg],
           DOMAIN peers[n] \subseteq DOMAIN reg, GoodRegistry(reg),
           NEW js, jobs' = [jobs EXCEPT ![n] = js],
           \A j \in js : j \in jobs[n] \/ GoodJob(n, j)',
           NEW answers, net' \subseteq net \cup answers,
           \A m \in answers : GoodMessage(m)
    PROVE  SyncInv'
  <1>1. Ledgers /\ Ledgers' /\ HeightsGrow
    BY ChainsStand DEF SyncInv
  <1>2. \A m \in answers : GoodMessage(m)'
    BY <1>1, OldMessagesStayGood
  <1> QED
    BY <1>1, <1>2, StepOfOne

\* A message that is answered without a job.
LEMMA AnswerKeepsInv ==
    ASSUME SyncInv, UNCHANGED <<ledger, status, jobs>>, NEW m \in net, m.to \in Node,
           NEW reg, NEW answers, Receive(m, reg, answers),
           GoodRegistry(reg), DOMAIN peers[m.to] \subseteq DOMAIN reg,
           \A a \in answers : GoodMessage(a)
    PROVE  SyncInv'
  <1>1. PICK n \in Node : n = m.to
    OBVIOUS
  <1>2. PICK js : js = jobs[n]
    OBVIOUS
  <1>3. jobs' = [jobs EXCEPT ![n] = js]
    BY <1>2 DEF SyncInv
  <1>4. peers' = [peers EXCEPT ![n] = reg] /\ net' \subseteq net \cup answers
    BY <1>1 DEF Receive
  <1> QED
    BY <1>1, <1>2, <1>3, <1>4, StepBesideChains

LEMMA SenderIsName ==
    ASSUME SyncInv, NEW m \in net
    PROVE  m.from \in Names /\ m \in Message /\ GoodMessage(m)
  BY DEF SyncInv, GoodMessage, Message, Names

LEMMA AliveSender ==
    ASSUME SyncInv, NEW m \in net, m.to \in Node
    PROVE  /\ GoodRegistry(Alive(m))
           /\ DOMAIN Alive(m) = DOMAIN peers[m.to] \cup {m.from}
  BY SenderIsName, AliveIsGood DEF Alive, SyncInv

LEMMA StatusIsGood ==
    ASSUME SyncInv, NEW n \in Node, NEW to \in Names
    PROVE  GoodMessage(ChainStatus(n, to)) /\ GoodMessage(Handshake(n, to))
  BY DEF SyncInv, Ledgers, GoodMessage, ChainStatus, Handshake, Message

LEMMA MessageKeepsInv ==
    ASSUME SyncInv, NEW m \in net, Deliver(m)
    PROVE  SyncInv'
  <1>1. m.to \in Node /\ m.from \in Names /\ m \in Message /\ GoodMessage(m)
    BY SenderIsName DEF Deliver
  <1>2. PICK alive : alive = Alive(m)
    OBVIOUS
  <1>3. GoodRegistry(alive) /\ DOMAIN alive = DOMAIN peers[m.to] \cup {m.from}
    BY <1>1, <1>2, AliveSender
  <1>4. Ledgers /\ Node # {}
    BY <1>1 DEF SyncInv
  <1>5. CASE OnHandshake(m)
    <2>1. m.height \in Nat
      BY <1>1, <1>5 DEF OnHandshake, Message
    <2>2. SelfId \in Names
      BY DEF Names
    <2>3. PICK r1 : r1 = Upsert(alive, SelfId)
      OBVIOUS
    <2>4. GoodRegistry(r1) /\ DOMAIN r1 = DOMAIN alive \cup {SelfId}
      BY <1>3, <1>4, <2>2, <2>3, UpsertIsGood DEF Upsert
    <2>5. PICK r2 : r2 = UpdateChainTip(r1, SelfId, m.height)
      OBVIOUS
    <2>6. GoodRegistry(r2) /\ DOMAIN r2 = DOMAIN r1
      BY <2>1, <2>2, <2>4, <2>5, TipIsGood
    <2>7. PICK r3 : r3 = MarkAlive(r2, SelfId)
      OBVIOUS
    <2>8. GoodRegistry(r3) /\ DOMAIN r3 = DOMAIN r2 \cup {SelfId}
      BY <1>4, <2>2, <2>6, <2>7, AliveIsGood
    <2>9. PICK answers : answers = {ChainStatus(m.to, m.from)}
      OBVIOUS
    <2>10. \A a \in answers : GoodMessage(a)
      BY <1>1, <2>9, StatusIsGood
    <2>11. Receive(m, r3, answers) /\ UNCHANGED <<ledger, status, jobs>>
      BY <1>2, <1>5, <2>3, <2>5, <2>7, <2>9 DEF OnHandshake
    <2> QED
      BY <1>1, <1>3, <2>4, <2>6, <2>8, <2>10, <2>11, AnswerKeepsInv
  <1>6. CASE OnGetChainStatus(m)
    <2>1. PICK answers : answers = {ChainStatus(m.to, m.from)}
      OBVIOUS
    <2>2. \A a \in answers : GoodMessage(a)
      BY <1>1, <2>1, StatusIsGood
    <2>3. Receive(m, alive, answers) /\ UNCHANGED <<ledger, status, jobs>>
      BY <1>2, <1>6, <2>1 DEF OnGetChainStatus
    <2> QED
      BY <1>1, <1>3, <2>2, <2>3, AnswerKeepsInv
  <1>7. CASE OnChainStatus(m)
    <2>1. m.height \in Nat
      BY <1>1, <1>7 DEF OnChainStatus, Message
    <2>3. PICK reg : reg = UpdateChainTip(alive, m.from, m.height)
      OBVIOUS
    <2>4. GoodRegistry(reg) /\ DOMAIN reg = DOMAIN alive
      BY <1>3, <2>1, <2>3, TipIsGood
    <2>5. PICK answers : answers = IF m.height > status[m.to]
              THEN {GetBlocks(m.to, m.from, status[m.to] + 1, Batch)} ELSE {}
      OBVIOUS
    <2>6. GoodMessage(GetBlocks(m.to, m.from, status[m.to] + 1, Batch))
      <3>1. status[m.to] \in Nat /\ Height(m.to) \in Nat /\ status[m.to] <= Height(m.to)
        BY <1>1, <1>4, HeightIsNat DEF Ledgers
      <3>2. Batch \in Nat /\ Batch \in 1..Batch
        BY SyncAssumption
      <3>3. life[m.to] \in Nat
        BY <1>1, <1>4 DEF Ledgers
      <3> QED
        BY <1>1, <3>1, <3>2, <3>3 DEF GoodMessage, GetBlocks, Message
    <2>7. Receive(m, reg, answers) /\ UNCHANGED <<ledger, status, jobs>>
      BY <1>2, <1>7, <2>3, <2>5 DEF OnChainStatus
    <2> QED
      BY <1>1, <1>3, <2>4, <2>5, <2>6, <2>7, AnswerKeepsInv
  <1>8. CASE OnGetBlocks(m)
    <2>1. m.first \in Nat /\ m.first >= 1 /\ m.limit \in Nat /\ m.from \in Node
      BY <1>1, <1>8, HeightIsNat DEF OnGetBlocks, Message, GoodMessage
    <2>2. PICK last : last = IF m.first + m.limit - 1 < Height(m.to)
                               THEN m.first + m.limit - 1 ELSE Height(m.to)
      OBVIOUS
    <2>8. last \in Int /\ last <= Height(m.to)
      BY <1>1, <1>4, <2>1, <2>2, HeightIsNat
    <2>3. PICK blocks : blocks = SubSeq(chain[m.to], m.first, last)
      OBVIOUS
    <2>4. blocks \in Seq(Block)
      BY <1>1, <1>4, <2>1, <2>8, <2>3, SubSeqProperties DEF Ledgers, Height
    <2>5. PICK answers : answers = {Blocks(m.to, m.from, blocks)}
      OBVIOUS
    <2>6. \A a \in answers : GoodMessage(a)
      BY <1>1, <2>4, <2>5 DEF GoodMessage, Blocks, Message, Names
    <2>7. Receive(m, alive, answers) /\ UNCHANGED <<ledger, status, jobs>>
      BY <1>2, <1>8, <2>2, <2>3, <2>5 DEF OnGetBlocks
    <2> QED
      BY <1>1, <1>3, <2>6, <2>7, AnswerKeepsInv
  <1>9. CASE OnBlocks(m)
    <2>1. m.blocks \in Seq(Block)
      BY <1>1, <1>9 DEF OnBlocks, Message
    <2>2. PICK n \in Node : n = m.to
      BY <1>1
    <2>3. PICK j : j = [at |-> "append", blocks |-> m.blocks, peer |-> m.from,
                        more |-> m.kind = "Blocks"]
      OBVIOUS
    <2>4. PICK js : js = IF m.blocks = << >> THEN jobs[n] ELSE jobs[n] \cup {j}
      OBVIOUS
    <2>5. jobs' = [jobs EXCEPT ![n] = js]
      BY <1>9, <2>2, <2>3, <2>4 DEF OnBlocks, Begin, SyncInv
    <2>6. peers' = [peers EXCEPT ![n] = alive] /\ net' \subseteq net \cup {}
      BY <1>2, <1>9, <2>2 DEF OnBlocks, Receive
    <2>7. m.blocks # << >> => GoodJob(n, j)'
      <3>1. j \in Job
        BY <1>1, <2>1, <2>3 DEF Job
      <3>2. m.from \in DOMAIN peers'[n]
        BY <1>3, <2>2, <2>6 DEF SyncInv
      <3> QED
        BY <2>3, <3>1, <3>2 DEF GoodJob
    <2> QED
      <3>1. \A k \in js : k \in jobs[n] \/ GoodJob(n, k)'
        BY <2>4, <2>7
      <3>2. UNCHANGED <<ledger, status>>
        BY <1>9 DEF OnBlocks
      <3>3. GoodRegistry(alive) /\ DOMAIN peers[n] \subseteq DOMAIN alive
        BY <1>3, <2>2
      <3>4. PICK none : none = {}
        OBVIOUS
      <3>5. net' \subseteq net \cup none /\ \A k \in none : GoodMessage(k)
        BY <2>6, <3>4
      <3> QED
        BY <2>5, <2>6, <3>5, <3>1, <3>2, <3>3, StepBesideChains
  <1>10. CASE OnFindNode(m)
    <2>1. m.from \in Node
      BY <1>1, <1>10 DEF OnFindNode, Message
    <2>2. PICK names : names = NearestPeers(DOMAIN alive, m.target, m.limit)
      OBVIOUS
    <2>3. names \subseteq Names
      BY <1>3, <2>2 DEF NearestPeers, GoodRegistry
    <2>4. PICK answers : answers = {Nodes(m.to, m.from, names)}
      OBVIOUS
    <2>5. \A a \in answers : GoodMessage(a)
      BY <1>1, <2>3, <2>4 DEF GoodMessage, Nodes, Message
    <2>6. Receive(m, alive, answers) /\ UNCHANGED <<ledger, status, jobs>>
      BY <1>2, <1>10, <2>2, <2>4 DEF OnFindNode
    <2> QED
      BY <1>1, <1>3, <2>5, <2>6, AnswerKeepsInv
  <1>11. CASE OnNodes(m)
    <2>1. m.names \subseteq Names
      BY <1>1, <1>11 DEF OnNodes, Message
    <2>2. PICK reg : reg = UpsertAll(alive, m.names \ {SelfId})
      OBVIOUS
    <2>3. GoodRegistry(reg) /\ DOMAIN reg = DOMAIN alive \cup (m.names \ {SelfId})
      BY <1>3, <1>4, <2>1, <2>2, UpsertIsGood
    <2>4. Receive(m, reg, {}) /\ UNCHANGED <<ledger, status, jobs>>
      BY <1>2, <1>11, <2>2 DEF OnNodes
    <2> QED
      BY <1>1, <1>3, <2>3, <2>4, AnswerKeepsInv
  <1> QED
    BY <1>5, <1>6, <1>7, <1>8, <1>9, <1>10, <1>11 DEF Deliver

-----------------------------------------------------------------------------
(* Blocks *)

\* The difficulty a chain asks for is a difficulty.
LEMMA ExpectedIsNat ==
    ASSUME NEW blocks \in Seq(Block), NEW h \in 1..Len(blocks) + 1
    PROVE  ExpectedDifficulty(blocks, h) \in Nat
  <1>1. h = 1 \/ blocks[h - 1].difficulty \in Nat
    <2>1. h = 1 \/ blocks[h - 1] \in Block
      OBVIOUS
    <2> QED
      BY <2>1 DEF Block
  <1>2. ASSUME NEW d \in Nat, NEW e, NEW x
        PROVE  Adjusted(d, e, x) \in Nat
    BY DEF Adjusted
  <1> QED
    BY <1>1, <1>2, DifficultyAssumption DEF ExpectedDifficulty

LEMMA NewBlockIsBlock ==
    ASSUME NEW blocks \in Seq(Block), NEW n \in Node, NEW l \in Nat, NEW time \in Int
    PROVE  NewBlockOn(blocks, n, l, time) \in Block
  <1>1. ExpectedDifficulty(blocks, Len(blocks) + 1) \in Nat
    BY ExpectedIsNat
  <1>2. LatestHash(blocks) \in Hashes
    <2>1. CASE blocks = << >>
      BY <2>1 DEF LatestHash, Hashes
    <2>2. CASE blocks # << >>
      <3>1. blocks[Len(blocks)] \in Block
        BY <2>2
      <3> QED
        BY <2>2, <3>1 DEF LatestHash, HashOf, Hashes, Block
    <2> QED
      BY <2>1, <2>2
  <1>3. Len(blocks) + 1 \in Nat /\ n \in Names
    BY DEF Names
  <1> QED
    BY <1>1, <1>2, <1>3 DEF NewBlockOn, Block

LEMMA PushIsGood ==
    ASSUME Ledgers, NEW n \in Node, NEW b \in Block, Push(n, b), UNCHANGED status
    PROVE  Ledgers' /\ HeightsGrow /\ Height(n)' = Height(n) + 1
  <1>1. chain[n] \in Seq(Block) /\ Append(chain[n], b) \in Seq(Block)
        /\ Len(Append(chain[n], b)) = Height(n) + 1
    BY DEF Ledgers, Height
  <1>2. chain' \in [Node -> Seq(Block)] /\ chain'[n] = Append(chain[n], b)
        /\ \A k \in Node \ {n} : chain'[k] = chain[k]
    BY <1>1 DEF Push, Ledgers
  <1>3. \A k \in Node : Height(k)' = IF k = n THEN Height(n) + 1 ELSE Height(k)
    BY <1>1, <1>2 DEF Height
  <1>4. HeightsGrow /\ Height(n)' = Height(n) + 1
    BY <1>3, HeightIsNat DEF HeightsGrow, Push
  <1>5. difficulty' \in [Node -> Nat]
    <2>1. Height(n) + 2 \in 1..Len(Append(chain[n], b)) + 1
      BY <1>1, HeightIsNat
    <2>2. ExpectedDifficulty(Append(chain[n], b), Height(n) + 2) \in Nat
      BY <1>1, <2>1, ExpectedIsNat
    <2> QED
      BY <2>2 DEF Push, Ledgers
  <1>6. life' \in [Node -> Nat] /\ \A k \in Node : status'[k] <= Height(k)'
    BY <1>4, HeightIsNat DEF Ledgers, HeightsGrow
  <1> QED
    BY <1>2, <1>4, <1>5, <1>6 DEF Ledgers

-----------------------------------------------------------------------------
(* Steps of handlers and operators *)

\* A step that changes messages only.
LEMMA SendingKeepsInv ==
    ASSUME SyncInv, UNCHANGED <<ledger, status, peers, jobs>>,
           \A m \in net' : m \in net \/ GoodMessage(m)
    PROVE  SyncInv'
  <1>1. Ledgers /\ Ledgers' /\ HeightsGrow
    BY ChainsStand DEF SyncInv
  <1>2. \A m \in net' : GoodMessage(m)'
    BY <1>1, OldMessagesStayGood DEF SyncInv
  <1>3. ASSUME NEW n \in Node, NEW j \in jobs'[n]
        PROVE  GoodJob(n, j)'
    BY <1>1, <1>3, OldJobsStayGood DEF SyncInv
  <1> QED
    BY <1>1, <1>2, <1>3 DEF SyncInv, GoodRegistry

\* A step of a handler of n, which leaves the registry alone.
LEMMA JobKeepsInv ==
    ASSUME SyncInv, NEW n \in Node, Ledgers', HeightsGrow, UNCHANGED peers,
           NEW js, jobs' = [jobs EXCEPT ![n] = js],
           \A j \in js : j \in jobs[n] \/ GoodJob(n, j)',
           \A m \in net' : m \in net \/ GoodMessage(m)'
    PROVE  SyncInv'
  <1>1. PICK reg : reg = peers[n]
    OBVIOUS
  <1>2. peers' = [peers EXCEPT ![n] = reg]
    BY <1>1 DEF SyncInv
  <1>3. GoodRegistry(reg)
    BY <1>1 DEF SyncInv
  <1> QED
    BY <1>1, <1>2, <1>3, StepOfOne

LEMMA MineKeepsInv ==
    ASSUME SyncInv, NEW n \in Node, NEW time \in Clock(n, Height(n) + 1), Mine(n, time)
    PROVE  SyncInv'
  <1>1. chain[n] \in Seq(Block) /\ Height(n) \in Nat /\ life[n] \in Nat
    BY HeightIsNat DEF SyncInv, Ledgers
  <1>2. time \in Int
    BY <1>1, SyncAssumption DEF Mine
  <1>3. PICK b \in Block : b = NewBlockOn(chain[n], n, life[n], time)
    BY <1>1, <1>2, NewBlockIsBlock
  <1>4. Push(n, b) /\ UNCHANGED status
    BY <1>3 DEF Mine
  <1>5. Ledgers' /\ HeightsGrow /\ Height(n)' = Height(n) + 1
    BY <1>4, PushIsGood DEF SyncInv
  <1>6. PICK j : j = [at |-> "announce", block |-> b, view |-> Height(n) + 1]
    OBVIOUS
  <1>7. PICK js : js = jobs[n] \cup {j}
    OBVIOUS
  <1>8. jobs' = [jobs EXCEPT ![n] = js] /\ UNCHANGED <<peers, net>>
    BY <1>3, <1>6, <1>7 DEF Mine, Begin
  <1>9. GoodJob(n, j)'
    BY <1>1, <1>5, <1>6 DEF GoodJob, Job
  <1> QED
    BY <1>5, <1>7, <1>8, <1>9, JobKeepsInv

LEMMA AppendKeepsInv ==
    ASSUME SyncInv, NEW n \in Node, NEW j \in jobs[n], AppendBlock(n, j)
    PROVE  SyncInv'
  <1>1. /\ j.blocks \in Seq(Block) /\ j.blocks # << >> /\ j.peer \in Names /\ j.more \in BOOLEAN
        /\ j.peer \in DOMAIN peers[n]
    BY DEF SyncInv, GoodJob, AppendBlock, Job
  <1>2. UNCHANGED <<status, peers, net>> /\ Height(n) \in Nat
    BY HeightIsNat DEF AppendBlock, SyncInv
  <1>3. CASE Follows(chain[n], Head(j.blocks))
    <2>1. PICK b \in Block : b = Head(j.blocks)
      BY <1>1, <1>3
    <2>2. Push(n, b)
      BY <1>3, <2>1 DEF AppendBlock
    <2>3. Ledgers' /\ HeightsGrow /\ Height(n)' = Height(n) + 1
      BY <1>2, <2>2, PushIsGood DEF SyncInv
    <2>4. PICK k : k = [at |-> "advertise", blocks |-> Tail(j.blocks), peer |-> j.peer,
                        more |-> j.more, view |-> Height(n) + 1]
      OBVIOUS
    <2>5. PICK js : js = (jobs[n] \ {j}) \cup {k}
      OBVIOUS
    <2>6. jobs' = [jobs EXCEPT ![n] = js]
      BY <1>3, <2>4, <2>5 DEF AppendBlock, Replace, SyncInv
    <2>7. Tail(j.blocks) \in Seq(Block)
      BY <1>1, <1>3
    <2>8. GoodJob(n, k)'
      BY <1>1, <1>2, <2>3, <2>4, <2>7 DEF GoodJob, Job
    <2> QED
      BY <1>2, <2>3, <2>5, <2>6, <2>8, JobKeepsInv
  <1>4. CASE ~Follows(chain[n], Head(j.blocks))
    <2>1. PICK js : js = jobs[n] \ {j}
      OBVIOUS
    <2>2. jobs' = [jobs EXCEPT ![n] = js] /\ UNCHANGED <<ledger, status>>
      BY <1>4, <2>1 DEF AppendBlock, End, SyncInv
    <2>3. Ledgers' /\ HeightsGrow
      BY <2>2, ChainsStand
    <2> QED
      BY <1>2, <2>1, <2>2, <2>3, JobKeepsInv
  <1> QED
    BY <1>3, <1>4

\* Storing a view that a job has kept since it was the chain's height.
LEMMA ViewIsGood ==
    ASSUME SyncInv, NEW n \in Node, NEW j \in jobs[n], j.at \in {"advertise", "announce"},
           status' = [status EXCEPT ![n] = j.view], UNCHANGED ledger
    PROVE  Ledgers' /\ HeightsGrow
  <1>1. j.view \in Nat /\ j.view <= Height(n)
    BY DEF SyncInv, GoodJob, Job
  <1>2. \A k \in Node : Height(k)' = Height(k) /\ Height(k) \in Nat
    BY HeightIsNat DEF ledger, Height, SyncInv
  <1> QED
    BY <1>1, <1>2 DEF SyncInv, Ledgers, HeightsGrow, ledger

LEMMA AdvertiseKeepsInv ==
    ASSUME SyncInv, NEW n \in Node, NEW j \in jobs[n], Advertise(n, j)
    PROVE  SyncInv'
  <1>1. /\ j.blocks \in Seq(Block) /\ j.peer \in Names /\ j.more \in BOOLEAN
        /\ j.peer \in DOMAIN peers[n] /\ j.at = "advertise"
    BY DEF SyncInv, GoodJob, Advertise, Job
  <1>2. Ledgers' /\ HeightsGrow /\ UNCHANGED <<peers, net>>
    BY <1>1, ViewIsGood DEF Advertise
  <1>3. PICK next : next = [at |-> "append", blocks |-> j.blocks, peer |-> j.peer,
                            more |-> j.more]
    OBVIOUS
  <1>4. PICK read : read = [at |-> "read", peer |-> j.peer]
    OBVIOUS
  <1>5. PICK js : js = (jobs[n] \ {j}) \cup
            (IF j.blocks # << >> THEN {next} ELSE IF j.more THEN {read} ELSE {})
    OBVIOUS
  <1>6. jobs' = [jobs EXCEPT ![n] = js]
    <2>1. CASE j.blocks # << >>
      BY <1>3, <1>5, <2>1 DEF Advertise, Replace, SyncInv
    <2>2. CASE j.blocks = << >> /\ j.more
      BY <1>4, <1>5, <2>2 DEF Advertise, Replace, SyncInv
    <2>3. CASE j.blocks = << >> /\ ~j.more
      BY <1>5, <2>3 DEF Advertise, End, SyncInv
    <2> QED
      BY <2>1, <2>2, <2>3
  <1>7. j.blocks # << >> => GoodJob(n, next)'
    BY <1>1, <1>2, <1>3 DEF GoodJob, Job
  <1>8. GoodJob(n, read)'
    BY <1>1, <1>2, <1>4 DEF GoodJob, Job
  <1>9. \A k \in js : k \in jobs[n] \/ GoodJob(n, k)'
    BY <1>5, <1>7, <1>8
  <1> QED
    BY <1>2, <1>6, <1>9, JobKeepsInv

LEMMA AnnounceKeepsInv ==
    ASSUME SyncInv, NEW n \in Node, NEW j \in jobs[n], Announce(n, j)
    PROVE  SyncInv'
  <1>1. j.block \in Block /\ j.at = "announce"
    BY DEF SyncInv, GoodJob, Announce, Job
  <1>2. Ledgers' /\ HeightsGrow /\ UNCHANGED peers
    BY <1>1, ViewIsGood DEF Announce
  <1>3. PICK js : js = jobs[n] \ {j}
    OBVIOUS
  <1>4. jobs' = [jobs EXCEPT ![n] = js]
    BY <1>3 DEF Announce, End, SyncInv
  <1>5. \A m \in net' : m \in net \/ GoodMessage(m)'
    <2>1. SUFFICES ASSUME NEW m \in net', m \notin net
                   PROVE  GoodMessage(m)'
      OBVIOUS
    <2>2. PICK p \in Node : m = NewBlock(n, p, j.block)
      BY <2>1 DEF Announce
    <2>3. <<j.block>> \in Seq(Block) /\ n \in Names /\ p \in Names
      BY <1>1 DEF Names
    <2> QED
      BY <2>2, <2>3 DEF GoodMessage, NewBlock, Message
  <1> QED
    BY <1>2, <1>3, <1>4, <1>5, JobKeepsInv

LEMMA ReadHeightKeepsInv ==
    ASSUME SyncInv, NEW n \in Node, NEW j \in jobs[n], ReadHeight(n, j)
    PROVE  SyncInv'
  <1>1. j.peer \in Names /\ j.peer \in DOMAIN peers[n] /\ Height(n) \in Nat
    BY HeightIsNat DEF SyncInv, GoodJob, ReadHeight, Job
  <1>2. Ledgers' /\ HeightsGrow /\ UNCHANGED <<peers, net>>
    BY ChainsStand DEF ReadHeight
  <1>3. PICK k : k = [at |-> "ask", peer |-> j.peer, height |-> Height(n)]
    OBVIOUS
  <1>4. PICK js : js = (jobs[n] \ {j}) \cup {k}
    OBVIOUS
  <1>5. jobs' = [jobs EXCEPT ![n] = js]
    BY <1>3, <1>4 DEF ReadHeight, Replace, SyncInv
  <1>6. Height(n) <= Height(n)'
    BY <1>2 DEF HeightsGrow
  <1>7. GoodJob(n, k)'
    BY <1>1, <1>2, <1>3, <1>6 DEF GoodJob, Job
  <1> QED
    BY <1>2, <1>4, <1>5, <1>7, JobKeepsInv

LEMMA AskKeepsInv ==
    ASSUME SyncInv, NEW n \in Node, NEW j \in jobs[n], Ask(n, j)
    PROVE  SyncInv'
  <1>1. /\ j.peer \in DOMAIN peers[n] /\ j.height \in Nat /\ j.height <= Height(n)
        /\ Height(n) \in Nat
    BY HeightIsNat DEF SyncInv, GoodJob, Ask, Job
  <1>2. Ledgers /\ Ledgers' /\ HeightsGrow /\ UNCHANGED peers
    BY ChainsStand DEF Ask, SyncInv
  <1>3. PICK js : js = jobs[n] \ {j}
    OBVIOUS
  <1>4. jobs' = [jobs EXCEPT ![n] = js]
    BY <1>3 DEF Ask, End, SyncInv
  <1>5. ASSUME NEW m \in net', m \notin net
        PROVE  GoodMessage(m)'
    <2>1. peers[n][j.peer].height \in Nat
      BY <1>1 DEF SyncInv, GoodRegistry, Entry
    <2>2. PICK remaining : remaining = peers[n][j.peer].height - j.height
      OBVIOUS
    <2>3. PICK limit : limit = IF remaining < Batch THEN remaining ELSE Batch
      OBVIOUS
    <2>4. remaining > 0 /\ j.peer \in Node /\ m = GetBlocks(n, j.peer, j.height + 1, limit)
      BY <1>5, <2>2, <2>3 DEF Ask
    <2>5. limit \in 1..Batch /\ Batch \in Nat
      BY <1>1, <2>1, <2>2, <2>3, <2>4, SyncAssumption
    <2>6. j.height + 1 \in 1..Height(n) + 1 /\ limit \in Nat /\ j.peer \in Names
      BY <1>1, <2>4, <2>5 DEF Names
    <2>7. life[n] \in Nat
      BY <1>2 DEF Ledgers
    <2>8. GoodMessage(m)
      BY <2>4, <2>5, <2>6, <2>7 DEF GoodMessage, GetBlocks, Message
    <2> QED
      BY <1>2, <2>8, OldMessagesStayGood
  <1> QED
    BY <1>2, <1>3, <1>4, <1>5, JobKeepsInv

LEMMA SyncStepKeepsInv ==
    ASSUME SyncInv, NEW n \in Node, SyncStep(n)
    PROVE  SyncInv'
  <1>1. PICK target \in SyncTargets(n) : Begin(n, [at |-> "read", peer |-> target])
    BY DEF SyncStep
  <1>2. target \in DOMAIN peers[n] /\ target \in Names
    BY <1>1 DEF SyncTargets, SyncCandidates, SyncInv, GoodRegistry
  <1>3. Ledgers' /\ HeightsGrow /\ UNCHANGED <<peers, net>>
    BY ChainsStand DEF SyncStep
  <1>4. PICK k : k = [at |-> "read", peer |-> target]
    OBVIOUS
  <1>5. PICK js : js = jobs[n] \cup {k}
    OBVIOUS
  <1>6. jobs' = [jobs EXCEPT ![n] = js]
    BY <1>1, <1>4, <1>5 DEF Begin, SyncInv
  <1>7. GoodJob(n, k)'
    BY <1>2, <1>3, <1>4 DEF GoodJob, Job
  <1> QED
    BY <1>3, <1>5, <1>6, <1>7, JobKeepsInv

LEMMA RegisterKeepsInv ==
    ASSUME SyncInv, NEW n \in Node, NEW p \in Registrable, RegisterPeer(n, p)
    PROVE  SyncInv'
  <1>1. p \in Names /\ Ledgers /\ Node # {}
    BY SyncAssumption DEF SyncInv
  <1>2. PICK reg : reg = Upsert(peers[n], p)
    OBVIOUS
  <1>3. GoodRegistry(reg) /\ DOMAIN reg = DOMAIN peers[n] \cup {p}
    BY <1>1, <1>2, UpsertIsGood DEF Upsert, SyncInv
  <1>4. UNCHANGED <<ledger, status, jobs, net>> /\ peers' = [peers EXCEPT ![n] = reg]
    BY <1>2 DEF RegisterPeer, SyncInv
  <1>5. PICK js : js = jobs[n]
    OBVIOUS
  <1>6. jobs' = [jobs EXCEPT ![n] = js]
    BY <1>4, <1>5 DEF SyncInv
  <1>7. PICK none : none = {}
    OBVIOUS
  <1>8. net' \subseteq net \cup none /\ \A m \in none : GoodMessage(m)
    BY <1>4, <1>7
  <1> QED
    BY <1>3, <1>4, <1>5, <1>6, <1>8, StepBesideChains

LEMMA OperatorsKeepInv ==
    ASSUME SyncInv, NEW n \in Node,
           Bootstrap(n) \/ Discover(n) \/ (\E p \in Node \ {n} : Poll(n, p))
    PROVE  SyncInv'
  <1>1. CASE Bootstrap(n)
    <2>1. ASSUME NEW m \in net', m \notin net
          PROVE  GoodMessage(m)
      <3>1. PICK p \in Node : m = Handshake(n, p)
        BY <1>1, <2>1 DEF Bootstrap
      <3> QED
        BY <3>1, StatusIsGood DEF Names
    <2> QED
      BY <1>1, <2>1, SendingKeepsInv DEF Bootstrap
  <1>2. CASE Discover(n)
    <2>1. ASSUME NEW m \in net', m \notin net
          PROVE  GoodMessage(m)
      <3>1. PICK p \in Node : m = FindNode(n, p, SelfId, Near)
        BY <1>2, <2>1 DEF Discover
      <3>2. Near \in Nat /\ SelfId \in Names /\ p \in Names
        BY SyncAssumption DEF Names
      <3> QED
        BY <3>1, <3>2 DEF GoodMessage, FindNode, Message
    <2> QED
      BY <1>2, <2>1, SendingKeepsInv DEF Discover
  <1>3. ASSUME NEW p \in Node \ {n}, Poll(n, p)
        PROVE  SyncInv'
    <2>1. GoodMessage(GetChainStatus(n, p))
      BY DEF GoodMessage, GetChainStatus, Message, Names
    <2> QED
      BY <1>3, <2>1, SendingKeepsInv DEF Poll
  <1> QED
    BY <1>1, <1>2, <1>3

\* A restart: the node's earlier requests are those of a former life.
LEMMA RestartKeepsInv ==
    ASSUME SyncInv, NEW n \in Node, Restart(n)
    PROVE  SyncInv'
  <1>1. /\ chain \in [Node -> Seq(Block)] /\ difficulty \in [Node -> Nat]
        /\ status \in [Node -> Nat] /\ life \in [Node -> Nat]
        /\ \A k \in Node : status[k] <= Height(k) /\ Height(k) \in Nat
    BY HeightIsNat DEF SyncInv, Ledgers
  <1>2. /\ chain'[n] = << >> /\ status'[n] = 0 /\ life'[n] = life[n] + 1
        /\ peers'[n] = SeedRegistry(n) /\ jobs'[n] = {}
    BY <1>1 DEF Restart, SyncInv
  <1>3. \A k \in Node \ {n} :
           /\ chain'[k] = chain[k] /\ status'[k] = status[k] /\ life'[k] = life[k]
           /\ peers'[k] = peers[k] /\ jobs'[k] = jobs[k]
    BY <1>1 DEF Restart, SyncInv
  <1>4. Height(n)' = 0 /\ \A k \in Node \ {n} : Height(k)' = Height(k)
    BY <1>2, <1>3 DEF Height
  <1>5. Ledgers'
    <2>1. << >> \in Seq(Block) /\ InitialDifficulty \in Nat /\ life[n] + 1 \in Nat
      BY <1>1, DifficultyAssumption
    <2>2. chain' \in [Node -> Seq(Block)]
      BY <1>1, <2>1 DEF Restart
    <2>3. difficulty' \in [Node -> Nat]
      BY <1>1, <2>1 DEF Restart
    <2>4. status' \in [Node -> Nat]
      BY <1>1 DEF Restart
    <2>5. life' \in [Node -> Nat]
      BY <1>1, <2>1 DEF Restart
    <2>6. ASSUME NEW k \in Node
          PROVE  status'[k] <= Height(k)'
      <3>1. CASE k = n
        BY <1>2, <1>4, <3>1
      <3>2. CASE k # n
        BY <1>1, <1>3, <1>4, <3>2
      <3> QED
        BY <3>1, <3>2
    <2> QED
      BY <2>2, <2>3, <2>4, <2>5, <2>6 DEF Ledgers
  <1>6. \A k \in Node : GoodRegistry(peers'[k])
    BY <1>2, <1>3, SeedsAreGood DEF SyncInv
  <1>7. ASSUME NEW k \in Node, NEW j \in jobs'[k]
        PROVE  GoodJob(k, j)'
    <2>1. k # n /\ GoodJob(k, j)
      BY <1>2, <1>3, <1>7 DEF SyncInv
    <2> QED
      BY <1>3, <1>4, <2>1 DEF GoodJob
  <1>8. ASSUME NEW m \in net'
        PROVE  GoodMessage(m)'
    <2>1. GoodMessage(m)
      BY DEF Restart, SyncInv
    <2>2. CASE m.kind = "GetBlocks"
      <3>1. m.from \in Node
        BY <2>1, <2>2 DEF GoodMessage, Message
      <3>2. CASE m.from = n
        BY <1>1, <1>2, <2>1, <2>2, <3>2 DEF GoodMessage
      <3>3. CASE m.from # n
        BY <1>3, <1>4, <2>1, <2>2, <3>1, <3>3 DEF GoodMessage
      <3> QED
        BY <3>2, <3>3
    <2> QED
      BY <2>1, <2>2 DEF GoodMessage
  <1>9. peers' = [k \in Node |-> peers'[k]] /\ jobs' = [k \in Node |-> jobs'[k]]
    BY DEF Restart, SyncInv
  <1> QED
    BY <1>5, <1>6, <1>7, <1>8, <1>9 DEF SyncInv, GoodRegistry

LEMMA SyncNext == SyncInv /\ [Next]_vars => SyncInv'
  <1> SUFFICES ASSUME SyncInv, [Next]_vars
               PROVE  SyncInv'
    OBVIOUS
  <1>1. CASE UNCHANGED vars
    BY <1>1, SendingKeepsInv DEF vars, ledger
  <1>2. ASSUME NEW m \in net, Deliver(m)
        PROVE  SyncInv'
    BY <1>2, MessageKeepsInv
  <1>3. ASSUME NEW m \in net, Lose(m)
        PROVE  SyncInv'
    BY <1>3, SendingKeepsInv DEF Lose
  <1>4. ASSUME NEW n \in Node, NEW time \in Clock(n, Height(n) + 1), Mine(n, time)
        PROVE  SyncInv'
    BY <1>4, MineKeepsInv
  <1>5. ASSUME NEW n \in Node, NEW j \in jobs[n], Adding(n, j)
        PROVE  SyncInv'
    BY <1>5, AppendKeepsInv, AdvertiseKeepsInv, AnnounceKeepsInv DEF Adding
  <1>6. ASSUME NEW n \in Node, NEW j \in jobs[n], Asking(n, j)
        PROVE  SyncInv'
    BY <1>6, ReadHeightKeepsInv, AskKeepsInv DEF Asking
  <1>7. ASSUME NEW n \in Followers,
               SyncStep(n) \/ Bootstrap(n) \/ Discover(n) \/ (\E p \in Node \ {n} : Poll(n, p))
        PROVE  SyncInv'
    <2>1. n \in Node
      BY SyncAssumption
    <2> QED
      BY <1>7, <2>1, SyncStepKeepsInv, OperatorsKeepInv
  <1>8. ASSUME NEW n \in Followers, NEW p \in Registrable, RegisterPeer(n, p)
        PROVE  SyncInv'
    <2>1. n \in Node
      BY SyncAssumption
    <2> QED
      BY <1>8, <2>1, RegisterKeepsInv
  <1>9. ASSUME NEW n \in Node, Restart(n)
        PROVE  SyncInv'
    BY <1>9, RestartKeepsInv
  <1> QED
    BY <1>1, <1>2, <1>3, <1>4, <1>5, <1>6, <1>7, <1>8, <1>9 DEF Next

LEMMA SyncInvariant == Spec => []SyncInv
  BY SyncInit, SyncNext, PTL DEF Spec

-----------------------------------------------------------------------------
(* Chains *)

\* The difficulty of a block depends on the blocks below it only.
LEMMA ExpectedOnPrefix ==
    ASSUME NEW blocks \in Seq(Block), NEW k \in 0..Len(blocks), NEW h \in 1..k + 1
    PROVE  ExpectedDifficulty(SubSeq(blocks, 1, k), h) = ExpectedDifficulty(blocks, h)
  <1>1. PICK low : low = SubSeq(blocks, 1, k)
    OBVIOUS
  <1>2. \A i \in 1..k : low[i] = blocks[i]
    BY <1>1, SubSeqProperties
  <1>3. h # 1 => low[h - 1] = blocks[h - 1]
    BY <1>2
  <1>4. h > Interval => low[h - Interval] = blocks[h - Interval] \/ Interval = 0
    BY <1>2, DifficultyAssumption
  <1>5. CASE h = 1
    BY <1>1, <1>5 DEF ExpectedDifficulty
  <1>6. CASE h # 1 /\ (Interval <= 1 \/ h % Interval # 0 \/ h <= Interval)
    BY <1>1, <1>3, <1>6, Zenon DEF ExpectedDifficulty
  <1>7. CASE h # 1 /\ ~(Interval <= 1 \/ h % Interval # 0 \/ h <= Interval)
    <2>1. low[h - Interval] = blocks[h - Interval]
      BY <1>4, <1>7, DifficultyAssumption
    <2> QED
      BY <1>1, <1>3, <1>7, <2>1, Zenon DEF ExpectedDifficulty
  <1> QED
    BY <1>5, <1>6, <1>7

\* A block that follows keeps the chain valid, though validate_chain and
\* validate_next_block look at it from different ends.
LEMMA FollowsKeepsValid ==
    ASSUME NEW blocks \in Seq(Block), NEW b \in Block,
           ValidChain(blocks), Follows(blocks, b)
    PROVE  ValidChain(Append(blocks, b))
  <1>1. PICK all : all = Append(blocks, b)
    OBVIOUS
  <1>2. /\ all \in Seq(Block) /\ Len(all) = Len(blocks) + 1 /\ Len(blocks) \in Nat
        /\ all[Len(blocks) + 1] = b /\ \A i \in 1..Len(blocks) : all[i] = blocks[i]
    BY <1>1, AppendProperties
  <1>3. ASSUME NEW k \in 0..Len(blocks)
        PROVE  SubSeq(all, 1, k) = SubSeq(blocks, 1, k)
    <2>1. SubSeq(all, 1, k) = [i \in 1..k |-> all[i]]
      BY <1>2 DEF SubSeq
    <2>2. SubSeq(blocks, 1, k) = [i \in 1..k |-> blocks[i]]
      BY <1>2 DEF SubSeq
    <2> QED
      BY <1>2, <2>1, <2>2
  <1>4. SubSeq(all, 1, Len(blocks)) = blocks
    BY <1>2, <1>3, SubSeqProperties
  <1>5. ASSUME NEW i \in 1..Len(blocks) + 1
        PROVE  ExpectedDifficulty(all, i) = ExpectedDifficulty(blocks, i)
    <2>1. PICK k \in 0..Len(all) : k = Len(blocks)
      BY <1>2
    <2>2. i \in 1..k + 1
      BY <2>1
    <2> QED
      BY <1>2, <1>4, <2>1, <2>2, ExpectedOnPrefix
  <1>6. ASSUME NEW i \in DOMAIN all
        PROVE  /\ all[i].index = i
               /\ all[i].prev = LatestHash(SubSeq(all, 1, i - 1))
               /\ all[i].difficulty = ExpectedDifficulty(all, i)
    <2>1. i \in 1..Len(blocks) + 1
      BY <1>2
    <2>2. CASE i = Len(blocks) + 1
      <3>1. all[i] = b /\ i - 1 = Len(blocks)
        BY <1>2, <2>2
      <3>2. SubSeq(all, 1, i - 1) = blocks
        BY <1>4, <3>1
      <3>3. ExpectedDifficulty(all, i) = ExpectedDifficulty(blocks, b.index) /\ b.index = i
        BY <1>5, <2>1, <2>2 DEF Follows
      <3> QED
        BY <3>1, <3>2, <3>3 DEF Follows
    <2>3. CASE i \in 1..Len(blocks)
      <3>1. all[i] = blocks[i] /\ i \in DOMAIN blocks /\ i - 1 \in 0..Len(blocks)
        BY <1>2, <2>3
      <3>2. SubSeq(all, 1, i - 1) = SubSeq(blocks, 1, i - 1)
        BY <1>3, <3>1
      <3>3. ExpectedDifficulty(all, i) = ExpectedDifficulty(blocks, i)
        BY <1>5, <2>1
      <3>4. /\ blocks[i].index = i
            /\ blocks[i].prev = LatestHash(SubSeq(blocks, 1, i - 1))
            /\ blocks[i].difficulty = ExpectedDifficulty(blocks, i)
        BY <3>1 DEF ValidChain
      <3> QED
        BY <3>1, <3>2, <3>3, <3>4
    <2> QED
      BY <2>1, <2>2, <2>3
  <1> QED
    BY <1>1, <1>6 DEF ValidChain

ChainInv ==
    \A n \in Node :
        /\ ValidChain(chain[n])
        /\ difficulty[n] = ExpectedDifficulty(chain[n], Height(n) + 1)

LEMMA ChainInit == Init => ChainInv
  BY DEF Init, ChainInv, ValidChain, ExpectedDifficulty, Height

LEMMA PushKeepsChains ==
    ASSUME SyncInv, ChainInv, NEW n \in Node, NEW b \in Block,
           Follows(chain[n], b), Push(n, b)
    PROVE  ChainInv'
  <1>1. chain \in [Node -> Seq(Block)] /\ difficulty \in [Node -> Nat]
    BY DEF SyncInv, Ledgers
  <1>2. PICK all : all = Append(chain[n], b)
    OBVIOUS
  <1>3. ValidChain(all) /\ Len(all) = Len(chain[n]) + 1 /\ Len(chain[n]) \in Nat
    BY <1>1, <1>2, FollowsKeepsValid DEF ChainInv
  <1>4. /\ chain' = [chain EXCEPT ![n] = all]
        /\ difficulty' = [difficulty EXCEPT ![n] = ExpectedDifficulty(all, Len(all) + 1)]
    BY <1>2, <1>3 DEF Push, Height
  <1>5. ASSUME NEW k \in Node
        PROVE  /\ ValidChain(chain'[k])
               /\ difficulty'[k] = ExpectedDifficulty(chain'[k], Len(chain'[k]) + 1)
    <2>1. CASE k = n
      BY <1>1, <1>3, <1>4, <2>1
    <2>2. CASE k # n
      BY <1>1, <1>4, <2>2 DEF ChainInv, Height
    <2> QED
      BY <2>1, <2>2
  <1> QED
    BY <1>5 DEF ChainInv, Height, ValidChain

LEMMA ChainNext == SyncInv /\ ChainInv /\ [Next]_vars => ChainInv'
  <1> SUFFICES ASSUME SyncInv, ChainInv, [Next]_vars
               PROVE  ChainInv'
    OBVIOUS
  <1>1. CASE UNCHANGED ledger
    BY <1>1 DEF ChainInv, Height, ledger, ValidChain
  <1>2. ASSUME NEW n \in Node, NEW time \in Clock(n, Height(n) + 1), Mine(n, time)
        PROVE  ChainInv'
    <2>1. chain[n] \in Seq(Block) /\ Height(n) \in Nat /\ life[n] \in Nat
      BY HeightIsNat DEF SyncInv, Ledgers
    <2>2. time \in Int
      BY <1>2, <2>1, SyncAssumption DEF Mine
    <2>3. PICK b \in Block : b = NewBlockOn(chain[n], n, life[n], time)
      BY <2>1, <2>2, NewBlockIsBlock
    <2>4. Follows(chain[n], b) /\ Push(n, b)
      BY <1>2, <2>1, <2>3 DEF Follows, NewBlockOn, Mine
    <2> QED
      BY <2>4, PushKeepsChains
  <1>3. ASSUME NEW n \in Node, NEW j \in jobs[n], AppendBlock(n, j)
        PROVE  ChainInv'
    <2>1. CASE Follows(chain[n], Head(j.blocks))
      <3>1. j.blocks \in Seq(Block) /\ j.blocks # << >>
        BY <1>3 DEF SyncInv, GoodJob, AppendBlock, Job
      <3>2. PICK b \in Block : b = Head(j.blocks)
        BY <3>1
      <3> QED
        BY <1>3, <2>1, <3>2, PushKeepsChains DEF AppendBlock
    <2>2. CASE ~Follows(chain[n], Head(j.blocks))
      BY <1>1, <1>3, <2>2 DEF AppendBlock
    <2> QED
      BY <2>1, <2>2
  <1>4. ASSUME NEW m \in net, Deliver(m) \/ Lose(m)
        PROVE  UNCHANGED ledger
    BY <1>4 DEF Deliver, Lose, OnHandshake, OnGetChainStatus, OnChainStatus, OnGetBlocks,
                OnBlocks, OnFindNode, OnNodes
  <1>5. ASSUME NEW n \in Node, NEW j \in jobs[n],
               Advertise(n, j) \/ Announce(n, j) \/ Asking(n, j)
        PROVE  UNCHANGED ledger
    BY <1>5 DEF Advertise, Announce, Asking, ReadHeight, Ask
  <1>6. ASSUME NEW n \in Followers,
               \/ SyncStep(n) \/ Bootstrap(n) \/ Discover(n)
               \/ \E p \in Registrable : RegisterPeer(n, p)
               \/ \E p \in Node \ {n} : Poll(n, p)
        PROVE  UNCHANGED ledger
    BY <1>6 DEF SyncStep, Bootstrap, Discover, RegisterPeer, Poll
  <1>7. ASSUME NEW n \in Node, Restart(n)
        PROVE  ChainInv'
    <2>1. ValidChain(<< >>) /\ ExpectedDifficulty(<< >>, Len(<< >>) + 1) = InitialDifficulty
      BY DEF ValidChain, ExpectedDifficulty
    <2>2. chain \in [Node -> Seq(Block)] /\ difficulty \in [Node -> Nat]
      BY DEF SyncInv, Ledgers
    <2>3. \A k \in Node :
             /\ ValidChain(chain'[k])
             /\ difficulty'[k] = ExpectedDifficulty(chain'[k], Len(chain'[k]) + 1)
      BY <1>7, <2>1, <2>2 DEF Restart, ChainInv, Height
    <2> QED
      BY <2>3 DEF ChainInv, Height, ValidChain
  <1> QED
    BY <1>1, <1>2, <1>3, <1>4, <1>5, <1>6, <1>7 DEF Next, Adding, vars, ledger

LEMMA ChainInvariant == Spec => [](SyncInv /\ ChainInv)
  BY SyncInvariant, ChainInit, ChainNext, PTL DEF Spec

-----------------------------------------------------------------------------
(* Theorems *)

\* Type correctness, for every bound: with it, no summary is ahead of its chain.
THEOREM SyncTypes == Spec => []TypeOK
  <1>1. SyncInv => TypeOK
    <2> SUFFICES ASSUME SyncInv
                 PROVE  TypeOK
      OBVIOUS
    <2>1. jobs \in [Node -> SUBSET Job]
      BY DEF SyncInv, GoodJob
    <2>2. net \subseteq Message /\ DOMAIN peers = Node
      BY DEF SyncInv, GoodMessage
    <2> QED
      BY <2>1, <2>2 DEF SyncInv, GoodRegistry, GoodJob, Ledgers, TypeOK
  <1> QED
    BY <1>1, SyncInvariant, PTL

\* Requests for blocks connect to the chain of their sender, whatever messages
\* are late or lost, however handlers overlap, and until the sender is restarted.
THEOREM RequestsAlwaysConnect == Spec => []RequestsConnect
  <1>1. SyncInv => RequestsConnect
    BY DEF SyncInv, GoodMessage, RequestsConnect
  <1> QED
    BY <1>1, SyncInvariant, PTL

\* Every chain passes validate_chain, whatever blocks peers send and whoever is
\* restarted.
THEOREM ChainsStayValid == Spec => []ChainsAreValid
  <1>1. ChainInv => ChainsAreValid
    BY DEF ChainInv, ChainsAreValid
  <1> QED
    BY <1>1, ChainInvariant, PTL

\* The cached difficulty is the one of the next block, on every branch.
THEOREM CacheStaysNext == Spec => []CacheIsNext
  <1>1. ASSUME SyncInv, ChainInv, NEW n \in Node, NEW m \in Node
        PROVE  /\ difficulty[n] = ChainInfo(n).next
               /\ chain[n] # << >> => ChainInfo(n).next - ChainInfo(n).latest \in {-1, 0, 1}
               /\ Height(m) > Height(n) /\ SubSeq(chain[m], 1, Height(n)) = chain[n]
                     => chain[m][Height(n) + 1].difficulty = difficulty[n]
    <2>1. chain[n] \in Seq(Block) /\ Height(n) \in Nat /\ Height(n) = Len(chain[n])
      BY <1>1 DEF SyncInv, Ledgers, Height
    <2>2. chain[m] \in Seq(Block) /\ Height(m) \in Nat /\ Height(m) = Len(chain[m])
      BY <1>1 DEF SyncInv, Ledgers, Height
    <2>3. difficulty[n] = ChainInfo(n).next
      BY <1>1 DEF ChainInv, ChainInfo
    <2>4. ASSUME chain[n] # << >>
          PROVE  ChainInfo(n).next - ChainInfo(n).latest \in {-1, 0, 1}
      <3>1. PICK d : d = chain[n][Height(n)].difficulty
        OBVIOUS
      <3>2. chain[n][Height(n)] \in Block
        BY <2>1, <2>4
      <3>3. d \in Nat
        BY <3>1, <3>2 DEF Block
      <3>4. \A e, x : Adjusted(d, e, x) - d \in {-1, 0, 1}
        BY <3>3 DEF Adjusted
      <3>5. Height(n) + 1 # 1 /\ (Height(n) + 1) - 1 = Height(n)
        BY <2>1, <2>4
      <3>6. ExpectedDifficulty(chain[n], Height(n) + 1) - d \in {-1, 0, 1}
        BY <3>1, <3>3, <3>4, <3>5 DEF ExpectedDifficulty
      <3>7. ChainInfo(n).latest = d
        BY <2>4, <3>1 DEF ChainInfo
      <3> QED
        BY <3>6, <3>7 DEF ChainInfo
    <2>5. ASSUME Height(m) > Height(n), SubSeq(chain[m], 1, Height(n)) = chain[n]
          PROVE  chain[m][Height(n) + 1].difficulty = difficulty[n]
      <3>1. Height(n) + 1 \in DOMAIN chain[m] /\ Height(n) \in 0..Len(chain[m])
        BY <2>1, <2>2, <2>5
      <3>2. chain[m][Height(n) + 1].difficulty = ExpectedDifficulty(chain[m], Height(n) + 1)
        BY <1>1, <3>1 DEF ChainInv, ValidChain
      <3>3. ExpectedDifficulty(chain[n], Height(n) + 1)
              = ExpectedDifficulty(chain[m], Height(n) + 1)
        <4>1. PICK k \in 0..Len(chain[m]) : k = Height(n)
          BY <3>1
        <4>2. k + 1 \in 1..k + 1
          BY <2>1, <4>1
        <4> QED
          BY <2>2, <2>5, <4>1, <4>2, ExpectedOnPrefix
      <3> QED
        BY <1>1, <3>2, <3>3 DEF ChainInv
    <2> QED
      BY <2>3, <2>4, <2>5
  <1>2. SyncInv /\ ChainInv => CacheIsNext
    BY <1>1 DEF CacheIsNext
  <1> QED
    BY <1>2, ChainInvariant, PTL

-----------------------------------------------------------------------------
(* Distances *)

\* The highest bit of a distance, 0 when there is none.
Top(d) == Bits - LeadingZeroBits(d)

LEMMA TopIsHighest ==
    ASSUME NEW d, d \subseteq 1..Bits, Bits \in Nat
    PROVE  /\ Top(d) \in 0..Bits /\ LeadingZeroBits(d) \in 0..Bits
           /\ Top(d) > 0 => Top(d) \in d
           /\ \A bit \in d : bit <= Top(d)
  <1>1. CASE d = {}
    BY <1>1 DEF Top, LeadingZeroBits
  <1>2. CASE d # {}
    <2> DEFINE N == {Bits - bit : bit \in d}
    <2>1. N \subseteq Nat /\ N # {}
      <3>1. \A bit \in d : bit \in 1..Bits
        OBVIOUS
      <3>2. \A bit \in d : Bits - bit \in Nat
        BY <3>1
      <3>3. QED
        BY <1>2, <3>2
    <2>2. PICK x \in N : \A y \in N : x <= y
      <3> HIDE DEF N
      <3>1. QED
        BY <2>1, LeastNumber
    <2>3. Bits - x \in d /\ \A bit \in d : Bits - x >= bit
      <3>1. PICK b \in d : x = Bits - b
        BY <2>2
      <3>2. b \in Nat /\ Bits - x = b
        BY <3>1
      <3>3. \A bit \in d : Bits - bit \in N /\ bit \in Nat
        OBVIOUS
      <3>4. \A bit \in d : x <= Bits - bit
        BY <2>2, <3>3
      <3>5. QED
        BY <3>1, <3>2, <3>3, <3>4
    <2>4. PICK top : top = Max(d)
      OBVIOUS
    <2>5. top \in d /\ \A bit \in d : top >= bit
      BY <2>3, <2>4 DEF Max
    <2>6. LeadingZeroBits(d) = Bits - top /\ top \in 1..Bits
      BY <1>2, <2>4, <2>5 DEF LeadingZeroBits
    <2>7. Top(d) = top
      BY <2>6 DEF Top
    <2>8. QED
      BY <2>5, <2>6, <2>7
  <1>3. QED
    BY <1>1, <1>2

\* What is not farther than a distance is not as far as one of a higher bit.
LEMMA HigherIsFarther ==
    ASSUME NEW r, r \subseteq 1..Bits, NEW d, d \subseteq 1..Bits, NEW e, e \subseteq 1..Bits,
           Bits \in Nat, Top(d) < Top(e), Nearer(r, d) \/ r = d
    PROVE  Nearer(r, e)
  <1>1. /\ Top(d) \in 0..Bits /\ Top(e) \in 0..Bits /\ Top(e) > 0 /\ Top(e) \in e
        /\ \A bit \in e : bit <= Top(e)
        /\ \A bit \in d : bit <= Top(d)
    <2>1. Top(d) \in 0..Bits /\ \A bit \in d : bit <= Top(d)
      BY TopIsHighest
    <2>2. /\ Top(e) \in 0..Bits /\ (Top(e) > 0 => Top(e) \in e)
          /\ \A bit \in e : bit <= Top(e)
      BY TopIsHighest
    <2>3. Top(e) > 0
      BY <2>1, <2>2
    <2>4. QED
      BY <2>1, <2>2, <2>3
  <1>2. \A bit \in r : bit <= Top(d)
    <2>1. CASE r = d
      BY <1>1, <2>1
    <2>2. CASE Nearer(r, d)
      <3>1. PICK bit \in d \ r : \A above \in bit + 1..Bits : (above \in r) = (above \in d)
        BY <2>2 DEF Nearer
      <3>2. ASSUME NEW x \in r, ~(x <= Top(d))
            PROVE  FALSE
        <4>1. x \in 1..Bits /\ bit \in 1..Bits /\ bit <= Top(d)
          BY <1>1, <3>1
        <4>2. x \in bit + 1..Bits
          BY <1>1, <3>2, <4>1
        <4>3. x \in d
          BY <3>1, <3>2, <4>2
        <4>4. QED
          BY <1>1, <3>2, <4>3
      <3>3. QED
        BY <3>2
    <2>3. QED
      BY <2>1, <2>2
  <1>3. PICK t : t = Top(e)
    OBVIOUS
  <1>4. t \in e \ r /\ t \in Nat
    BY <1>1, <1>2, <1>3
  <1>5. \A above \in t + 1..Bits : above \notin r /\ above \notin e
    <2> SUFFICES ASSUME NEW above \in t + 1..Bits
                 PROVE  above \notin r /\ above \notin e
      OBVIOUS
    <2>1. above \in Nat /\ above > t /\ Top(d) < t /\ Top(d) \in Nat
      BY <1>1, <1>3, <1>4
    <2>2. above \notin r
      <3>1. above \in r => above <= Top(d)
        BY <1>2
      <3>2. QED
        BY <1>4, <2>1, <3>1
    <2>3. above \notin e
      <3>1. above \in e => above <= t
        BY <1>1, <1>3
      <3>2. QED
        BY <1>4, <2>1, <3>1
    <2>4. QED
      BY <2>2, <2>3
  <1>6. QED
    BY <1>4, <1>5 DEF Nearer

LEMMA DistanceIsBits ==
    ASSUME NEW p \in Names, NEW q \in Names
    PROVE  XorDistance(p, q) \subseteq 1..Bits
  BY SyncAssumption DEF XorDistance

\* The nearest names, when they reach into a bucket, hold the nearer buckets.
LEMMA NearestByBucket ==
    ASSUME NEW names \in SUBSET Names, NEW target \in Names, NEW limit, NEW count \in Nat,
           NEW p \in NearestPeers(names, target, limit), NEW q \in names, limit \in Nat,
           BucketIndex(p, target, count) < BucketIndex(q, target, count)
    PROVE  q \in NearestPeers(names, target, limit)
  <1> DEFINE D(x) == XorDistance(x, target)
  <1> DEFINE Closer(x) == {y \in names : Nearer(D(y), D(x))}
  <1>1. /\ Bits \in Nat /\ IsFiniteSet(names) /\ p \in names /\ Cardinality(Closer(p)) < limit
        /\ \A x \in names : D(x) \subseteq 1..Bits
    <2>1. IsFiniteSet(Names)
      BY SyncAssumption, FS_AddElement DEF Names
    <2>2. \A x \in names : x \in Names
      OBVIOUS
    <2>3. QED
      BY <2>1, <2>2, SyncAssumption, DistanceIsBits, FS_Subset DEF NearestPeers
  <1> HIDE DEF D
  <1>2. Top(D(q)) < Top(D(p))
    <2>1. PICK i : i = LeadingZeroBits(D(p))
      OBVIOUS
    <2>2. PICK j : j = LeadingZeroBits(D(q))
      OBVIOUS
    <2>3. i \in Nat /\ j \in Nat
      BY <1>1, <2>1, <2>2, TopIsHighest
    <2>4. /\ BucketIndex(p, target, count) = IF i < count - 1 THEN i ELSE count - 1
          /\ BucketIndex(q, target, count) = IF j < count - 1 THEN j ELSE count - 1
      BY <2>1, <2>2 DEF BucketIndex, D
    <2>5. i < j
      BY <2>3, <2>4
    <2>6. QED
      BY <1>1, <2>1, <2>2, <2>3, <2>5 DEF Top
  <1>3. Closer(q) \subseteq Closer(p)
    BY <1>1, <1>2, HigherIsFarther
  <1>4. Cardinality(Closer(q)) <= Cardinality(Closer(p)) /\ Cardinality(Closer(p)) \in Nat
        /\ Cardinality(Closer(q)) \in Nat
    <2>1. IsFiniteSet(Closer(p)) /\ IsFiniteSet(Closer(q))
      BY <1>1, FS_Subset
    <2>2. QED
      BY <1>3, <2>1, FS_Subset, FS_CardinalityType
  <1>5. Cardinality(Closer(q)) < limit
    BY <1>1, <1>4
  <1>6. QED
    BY <1>5 DEF NearestPeers, D

\* The nearest peers and the buckets of every registry agree for every target:
\* whatever the digests and however many names, when the nearest peers reach into
\* a bucket they hold all the nearer buckets.
THEOREM BucketsFollowDistance == Spec => BucketsAreByDistance
  <1>1. ASSUME SyncInv', NEW n \in Node, NEW target \in Names
        PROVE  Bucketed(n, target)'
    <2>1. PICK names : names = DOMAIN peers'[n]
      OBVIOUS
    <2>2. names \in SUBSET Names
      BY <1>1, <2>1 DEF SyncInv, GoodRegistry
    <2>3. ASSUME NEW limit \in 1..Cardinality(names) - 1, NEW count \in {2, Bits + 1},
                 NEW i \in 0..count - 1, NEW j \in i + 1..count - 1,
                 NEW p \in NearestPeers(names, target, limit), BucketIndex(p, target, count) = i,
                 NEW q \in names, BucketIndex(q, target, count) = j
          PROVE  q \in NearestPeers(names, target, limit)
      <3>1. limit \in Nat /\ count \in Nat /\ i < j
        BY <2>3, SyncAssumption, DistanceIsBits
      <3>2. QED
        BY <2>2, <2>3, <3>1, NearestByBucket
    <2>4. ASSUME NEW limit \in 1..Cardinality(names) - 1, NEW count \in {2, Bits + 1},
                 NEW i \in {k \in DOMAIN Buckets(n, target, count)' :
                               NearestPeers(names, target, limit)
                                 \cap Buckets(n, target, count)'[k] # {}},
                 NEW j \in i + 1..count - 1
          PROVE  Buckets(n, target, count)'[j] \subseteq NearestPeers(names, target, limit)
      <3>1. PICK bucket : bucket = Buckets(n, target, count)'
        OBVIOUS
      <3>2. bucket = [k \in 0..count - 1 |-> {q \in names : BucketIndex(q, target, count) = k}]
        BY <2>1, <3>1 DEF Buckets
      <3>3. i \in 0..count - 1 /\ count \in Nat /\ j \in 0..count - 1
        <4>1. i \in DOMAIN bucket
          BY <3>1
        <4>2. i \in 0..count - 1 /\ count \in Nat
          BY <3>2, <4>1, SyncAssumption
        <4>3. QED
          BY <4>2
      <3>4. PICK p \in NearestPeers(names, target, limit) : BucketIndex(p, target, count) = i
        BY <3>1, <3>2, <3>3
      <3>5. \A q \in bucket[j] : q \in names /\ BucketIndex(q, target, count) = j
        BY <3>2, <3>3
      <3>6. QED
        BY <2>3, <3>1, <3>3, <3>4, <3>5
    <2>5. \A limit : Nearest(n, target, limit)' = NearestPeers(names, target, limit)
      BY <2>1 DEF Nearest
    <2>6. QED
      BY <2>1, <2>4, <2>5, Zenon DEF Bucketed
  <1>2. SyncInv' => [\A n \in Node : DOMAIN peers'[n] # DOMAIN peers[n] =>
                        \A target \in Names : Bucketed(n, target)']_peers
    BY <1>1
  <1>3. BucketsAreByDistance <=>
           [][\A n \in Node : DOMAIN peers'[n] # DOMAIN peers[n] =>
                 \A target \in Names : Bucketed(n, target)']_peers
    BY DEF BucketsAreByDistance
  <1>4. QED
    BY <1>2, <1>3, SyncInvariant, PTL
=============================================================================
