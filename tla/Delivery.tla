------------------------------ MODULE Delivery ------------------------------
(***************************************************************************)
(* How the messages of one remote peer reach a node (crates/p2p/src:       *)
(* codec.rs, transport.rs, queue.rs, engine.rs, and handlers/p2p.rs of the *)
(* API).  There are two ways in, which share the peer's                    *)
(* OrderedMessageQueue in the engine:                                      *)
(*   - bytes of a connection, which the transport session cuts into frames *)
(*     and numbers itself (p2p_transport_frame_handler);                   *)
(*   - messages posted with a number of the sender's (p2p_message_handler).*)
(*                                                                         *)
(* Abstracted: a frame is two halves, so that a read may end in its middle;*)
(* a frame in Bad does not decode once it is whole (decode() also checks   *)
(* validate_basic, so what is decoded or posted cannot fail in             *)
(* handle_message).  Sequence numbers stay far below u64::MAX.             *)
(***************************************************************************)
EXTENDS Integers, Sequences

CONSTANTS
    Frames,     \* bound: frames the peer writes to its connections
    Bad,        \* numbers of the frames that do not decode
    Posts,      \* messages posted with a sequence number
    MaxSeq,     \* bound: sequence numbers are 1..MaxSeq
    MaxApplied, \* bound: posted messages accepted
    MaxRemoves  \* bound: disconnections

ASSUME DeliveryAssumption ==
    /\ Frames \in Nat /\ MaxSeq \in Nat
    /\ Bad \subseteq 1..Frames

VARIABLES
    got,        \* halves of frames received on the peer's connections
    used,       \* frames the decode buffer has consumed
    decoded,    \* messages drained from the buffer and not yet given to the engine
    sessionSeq, \* next_sequence of the transport session
    next,       \* next_expected of the queue
    waiting,    \* pending of the queue: a function on sequence numbers
    handled,    \* history: messages given to handle_message
    applied,    \* history: messages p2p_message_handler has acted on
    removes     \* sessions removed so far

queue == <<next, waiting, handled>>
session == <<got, used, decoded, sessionSeq>>
vars == <<session, queue, applied, removes>>

Frame(f) == [from |-> "frame", n |-> f]
Post(m)  == [from |-> "post", n |-> m]
Message  == [from : {"frame"}, n : 1..Frames] \cup [from : {"post"}, n : Posts]
Numbered(s, m) == [seq |-> s, msg |-> m]
Item == [seq : 1..MaxSeq, msg : Message]

Init ==
    /\ got = 0 /\ used = 0 /\ decoded = << >> /\ sessionSeq = 1
    /\ next = 1 /\ waiting = << >> /\ handled = << >>
    /\ applied = << >> /\ removes = 0

-----------------------------------------------------------------------------
(* The engine *)

\* Mutant: whatever is waiting comes out, gap or no gap.
OnIncomingEager(s, m) ==
    /\ next' = s + 1
    /\ waiting' = << >>
    /\ handled' = Append(handled, Numbered(s, m))

\* Mutant: push forgets collect_ready.
OnIncomingKept(s, m) ==
    /\ waiting' = [k \in DOMAIN waiting \cup {s} |-> IF k = s THEN m ELSE waiting[k]]
    /\ UNCHANGED <<next, handled>>

\* OrderedMessageQueue::push of a number that is not stale, then pop_all_ready
\* and handle_message of what came out.  A number already waiting keeps its
\* first message; n is the first number missing after the new one is in.
OnIncoming(s, m) ==
    LET stored == IF s \in DOMAIN waiting THEN waiting
                  ELSE [k \in DOMAIN waiting \cup {s} |-> IF k = s THEN m ELSE waiting[k]]
    IN  \E n \in next..(MaxSeq + 1) :
            /\ n \notin DOMAIN stored
            /\ next..(n - 1) \subseteq DOMAIN stored
            /\ next' = n
            /\ waiting' = [k \in DOMAIN stored \ (next..(n - 1)) |-> stored[k]]
            /\ handled' = handled \o
                 [i \in 1..(n - next) |-> Numbered(next + i - 1, stored[next + i - 1])]

-----------------------------------------------------------------------------
(* The transport session.  Its handler holds the engine's lock while it     *)
(* feeds the engine: nothing else happens while decoded is not empty.       *)

\* Mutant: one frame too many is taken out of the buffer.
PushBytesOver(k) ==
    LET whole == (got + k) \div 2
    IN  /\ decoded = << >>
        /\ got + k <= 2 * Frames
        /\ got' = got + k
        /\ used' = whole + 1
        /\ decoded' = [i \in 1..(whole - used) |-> used + i]
        /\ UNCHANGED <<sessionSeq, queue, applied, removes>>

\* Mutant: a frame that does not decode is skipped, with those drained before it.
PushBytesSkip(k) ==
    LET whole == (got + k) \div 2
    IN  /\ decoded = << >>
        /\ got + k <= 2 * Frames
        /\ got' = got + k
        /\ used' = whole
        /\ decoded' = IF (used + 1)..whole \cap Bad # {} THEN << >>
                      ELSE [i \in 1..(whole - used) |-> used + i]
        /\ UNCHANGED <<sessionSeq, queue, applied, removes>>

\* k more halves arrive: FrameDecodeBuffer::push and drain_messages, which
\* stops at the end of the whole frames or at a frame that does not decode.
\* That frame stays at the head of the buffer for good, and the messages drained
\* before it in the same call are dropped with the error.
PushBytes(k) ==
    LET whole == (got + k) \div 2
    IN  /\ decoded = << >>
        /\ got + k <= 2 * Frames
        /\ got' = got + k
        /\ \E last \in used..whole :
              /\ (used + 1)..last \cap Bad = {}
              /\ last = whole \/ last + 1 \in Bad
              /\ used' = last
              /\ decoded' = IF last = whole THEN [i \in 1..(last - used) |-> used + i]
                            ELSE << >>
        /\ UNCHANGED <<sessionSeq, queue, applied, removes>>

\* The engine takes the next message under the session's number ...
Feed ==
    /\ decoded # << >>
    /\ next <= sessionSeq /\ sessionSeq <= MaxSeq
    /\ OnIncoming(sessionSeq, Frame(Head(decoded)))
    /\ sessionSeq' = sessionSeq + 1
    /\ decoded' = Tail(decoded)
    /\ UNCHANGED <<got, used, applied, removes>>

\* ... or refuses it as stale: the number stays, the messages are lost.
FeedStale ==
    /\ decoded # << >>
    /\ sessionSeq < next
    /\ decoded' = << >>
    /\ UNCHANGED <<got, used, sessionSeq, queue, applied, removes>>

\* TransportSessionPool::remove; bytes then come on a new connection, to a new
\* session.  The engine keeps the peer's queue.
RemoveSession ==
    /\ decoded = << >>
    /\ removes < MaxRemoves
    /\ removes' = removes + 1
    /\ used' = (got + 1) \div 2
    /\ got' = 2 * used'
    /\ sessionSeq' = 1
    /\ UNCHANGED <<decoded, queue, applied>>

-----------------------------------------------------------------------------
(* The message handler *)

\* p2p_message_handler: queues the message, then acts on it (adds the
\* transaction, the block, ...) whether or not its turn has come.  Between the
\* two it holds no lock; here they are one step, which is the most orderly case.
PostMessage(s, m) ==
    /\ decoded = << >>
    /\ Len(applied) < MaxApplied
    /\ next <= s
    /\ OnIncoming(s, Post(m))
    /\ applied' = Append(applied, Numbered(s, Post(m)))
    /\ UNCHANGED <<session, removes>>

Next ==
    \/ \E k \in 1..(2 * Frames) : PushBytes(k)
    \/ Feed \/ FeedStale
    \/ RemoveSession
    \/ \E s \in 1..MaxSeq, m \in Posts : PostMessage(s, m)

Spec == Init /\ [][Next]_vars

-----------------------------------------------------------------------------
(* Properties *)

TypeOK ==
    /\ got \in 0..(2 * Frames) /\ used \in 0..Frames
    /\ decoded \in Seq(1..Frames)
    /\ sessionSeq \in 1..(MaxSeq + 1) /\ next \in 1..(MaxSeq + 1)
    /\ DOMAIN waiting \subseteq 1..MaxSeq
    /\ waiting \in [DOMAIN waiting -> Message]
    /\ handled \in Seq(Item)
    /\ applied \in Seq(Item)
    /\ removes \in Nat

\* The engine handles the messages of a peer under the numbers 1, 2, 3, ...
\* without a gap or a repetition, however numbers repeat, skip or come from
\* the two ways in; what waits has a number still to come.
HandledInOrder ==
    /\ Len(handled) = next - 1
    /\ \A i \in DOMAIN handled : handled[i].seq = i
    /\ \A s \in DOMAIN waiting : s > next

\* The session's number never passes the queue's: no frame is ever left waiting
\* for a message that did not arrive on the connection.
SessionNeverAhead ==
    /\ sessionSeq <= next
    /\ \A s \in DOMAIN waiting : waiting[s].from = "post"

IsFrame(i) == handled[i].msg.from = "frame"

\* Frames are handled in the order written, on all connections together; with
\* one connection and nothing posted, a frame is handled only if all before it were.
FramesInOrder ==
    /\ \A i, j \in DOMAIN handled :
          i < j /\ IsFrame(i) /\ IsFrame(j) => handled[i].msg.n < handled[j].msg.n
    /\ applied = << >> /\ removes = 0 => \A i \in DOMAIN handled : handled[i].msg = Frame(i)

\* engine.rs:85, "processes inbound messages and executes them in order": the
\* handler acts on posted messages in the order of their numbers, once each.
AppliedInOrder ==
    \A i, j \in DOMAIN applied : i < j => applied[i].seq < applied[j].seq
=============================================================================
