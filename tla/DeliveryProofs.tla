--------------------------- MODULE DeliveryProofs ---------------------------
(***************************************************************************)
(* For every number of frames, bad frames, posted messages and             *)
(* disconnections: the engine handles a peer's messages in order, and the  *)
(* transport session never leaves a frame waiting.                         *)
(***************************************************************************)
EXTENDS Delivery, SequenceTheorems, TLAPS

\* The part of TypeOK about the engine's queue.
QueueOK ==
    /\ next \in 1..(MaxSeq + 1)
    /\ DOMAIN waiting \subseteq 1..MaxSeq
    /\ waiting \in [DOMAIN waiting -> Message]
    /\ handled \in Seq(Item)

\* A function on an initial segment of the numbers is a sequence.
LEMMA SeqOfFunction ==
    ASSUME NEW S, NEW n \in Nat, NEW f \in [1..n -> S]
    PROVE  f \in Seq(S) /\ Len(f) = n
  BY SMT

\* The messages that come out of the queue carry the numbers that were next.
LEMMA Released ==
    ASSUME NEW a \in 1..(MaxSeq + 1), NEW n \in a..(MaxSeq + 1),
           NEW h \in Seq(Item),
           Len(h) = a - 1, \A i \in DOMAIN h : h[i].seq = i,
           NEW out \in [1..(n - a) -> Item],
           \A i \in 1..(n - a) : out[i].seq = a + i - 1
    PROVE  /\ h \o out \in Seq(Item)
           /\ Len(h \o out) = n - 1
           /\ \A i \in DOMAIN (h \o out) : (h \o out)[i].seq = i
  <1>0. MaxSeq \in Nat
    BY DeliveryAssumption
  <1>1. \A i \in 1..(n - a) : out[i].seq = a + i - 1
    OBVIOUS
  <1>2. out \in Seq(Item) /\ Len(out) = n - a
    <2>1. n - a \in Nat
      BY <1>0
    <2>2. QED
      BY <2>1, SeqOfFunction
  <1>3. /\ h \o out \in Seq(Item)
        /\ Len(h \o out) = Len(h) + Len(out)
        /\ \A i \in 1..(Len(h) + Len(out)) :
              (h \o out)[i] = IF i <= Len(h) THEN h[i] ELSE out[i - Len(h)]
    BY <1>2, ConcatProperties
  <1>4. Len(h) + Len(out) = n - 1
    BY <1>0, <1>2
  <1>5. ASSUME NEW i \in 1..(n - 1)
        PROVE  (h \o out)[i].seq = i
    <2>1. CASE i <= a - 1
      <3>1. (h \o out)[i] = h[i]
        BY <1>3, <1>4, <2>1
      <3>2. i \in DOMAIN h
        BY <1>0, <2>1, LenProperties
      <3>3. QED
        BY <3>1, <3>2
    <2>2. CASE i > a - 1
      <3>0. i \in 1..(Len(h) + Len(out)) /\ ~(i <= Len(h)) /\ Len(h) = a - 1
        BY <1>0, <1>4, <2>2
      <3>1. (h \o out)[i] = out[i - (a - 1)]
        BY <1>3, <3>0
      <3>2. i - (a - 1) \in 1..(n - a) /\ a + (i - (a - 1)) - 1 = i
        BY <1>0, <2>2
      <3>3. QED
        BY <1>1, <3>1, <3>2
    <2>3. QED
      BY <1>0, <2>1, <2>2
  <1>6. DOMAIN (h \o out) = 1..(n - 1)
    BY <1>3, <1>4, LenProperties
  <1>7. QED
    BY <1>3, <1>4, <1>5, <1>6

\* One message into the queue.
LEMMA OnIncomingOrder ==
    ASSUME QueueOK, HandledInOrder,
           NEW s \in 1..MaxSeq, next <= s, NEW m \in Message, OnIncoming(s, m)
    PROVE  /\ QueueOK' /\ HandledInOrder'
           /\ s = next => next' > s
           /\ \A k \in DOMAIN waiting' :
                 \/ k \in DOMAIN waiting /\ waiting'[k] = waiting[k]
                 \/ k = s /\ k > next
  <1> DEFINE stored == IF s \in DOMAIN waiting THEN waiting
                       ELSE [k \in DOMAIN waiting \cup {s} |-> IF k = s THEN m ELSE waiting[k]]
  <1>0. MaxSeq \in Nat /\ next \in 1..(MaxSeq + 1)
    BY DeliveryAssumption DEF QueueOK
  <1>1. /\ DOMAIN stored = DOMAIN waiting \cup {s}
        /\ stored \in [DOMAIN stored -> Message]
        /\ \A k \in DOMAIN waiting : stored[k] = waiting[k]
    BY DEF QueueOK
  <1>2. DOMAIN stored \subseteq 1..MaxSeq
    BY <1>1 DEF QueueOK
  <1>3. PICK n \in next..(MaxSeq + 1) :
            /\ n \notin DOMAIN stored
            /\ next..(n - 1) \subseteq DOMAIN stored
            /\ next' = n
            /\ waiting' = [k \in DOMAIN stored \ (next..(n - 1)) |-> stored[k]]
            /\ handled' = handled \o
                 [i \in 1..(n - next) |-> Numbered(next + i - 1, stored[next + i - 1])]
    BY DEF OnIncoming
  <1>4. /\ handled' \in Seq(Item)
        /\ Len(handled') = n - 1
        /\ \A i \in DOMAIN handled' : handled'[i].seq = i
    <2>1. PICK out :
            /\ out = [i \in 1..(n - next) |-> Numbered(next + i - 1, stored[next + i - 1])]
            /\ handled' = handled \o out
      BY <1>3
    <2>2. \A i \in 1..(n - next) : out[i] \in Item /\ out[i].seq = next + i - 1
      <3>1. TAKE i \in 1..(n - next)
      <3>2. next + i - 1 \in next..(n - 1) /\ next..(n - 1) \subseteq DOMAIN stored
        BY <1>0, <1>3
      <3>3. next + i - 1 \in 1..MaxSeq /\ stored[next + i - 1] \in Message
        <4> HIDE DEF stored
        <4> QED
          BY <1>1, <1>2, <3>2
      <3>4. out[i] = [seq |-> next + i - 1, msg |-> stored[next + i - 1]]
        BY <2>1 DEF Numbered
      <3>5. QED
        BY <3>3, <3>4 DEF Item
    <2>3. out \in [1..(n - next) -> Item]
      BY <2>1, <2>2
    <2>4. handled \in Seq(Item) /\ Len(handled) = next - 1
      BY DEF QueueOK, HandledInOrder
    <2>5. \A i \in DOMAIN handled : handled[i].seq = i
      BY DEF HandledInOrder
    <2> HIDE DEF stored
    <2>6. /\ handled \o out \in Seq(Item)
          /\ Len(handled \o out) = n - 1
          /\ \A i \in DOMAIN (handled \o out) : (handled \o out)[i].seq = i
      <3>1. next \in 1..(MaxSeq + 1) /\ n \in next..(MaxSeq + 1)
        BY <1>0
      <3>2. \A i \in 1..(n - next) : out[i].seq = next + i - 1
        BY <2>2
      <3>3. QED
        BY <2>3, <2>4, <2>5, <3>1, <3>2, Released, Zenon
    <2>7. QED
      BY <2>1, <2>6
  <1>5. \A k \in DOMAIN stored : k >= next
    BY <1>0, <1>1, <1>2 DEF HandledInOrder
  <1>6. /\ DOMAIN waiting' = DOMAIN stored \ (next..(n - 1))
        /\ \A k \in DOMAIN waiting' : waiting'[k] = stored[k]
    BY <1>3
  <1>7. \A k \in DOMAIN waiting' : k > n
    BY <1>0, <1>2, <1>3, <1>5, <1>6
  <1>8. QueueOK'
    <2>1. waiting' \in [DOMAIN waiting' -> Message]
      BY <1>1, <1>3, <1>6
    <2>2. QED
      BY <1>0, <1>2, <1>3, <1>4, <1>6, <2>1 DEF QueueOK
  <1>9. HandledInOrder'
    BY <1>3, <1>4, <1>7 DEF HandledInOrder
  <1>10. s = next => next' > s
    BY <1>0, <1>1, <1>3
  <1>11. \A k \in DOMAIN waiting' :
            \/ k \in DOMAIN waiting /\ waiting'[k] = waiting[k]
            \/ k = s /\ k > next
    BY <1>0, <1>1, <1>2, <1>3, <1>6, <1>7
  <1>12. QED
    BY <1>8, <1>9, <1>10, <1>11

-----------------------------------------------------------------------------
DeliveryInv == TypeOK /\ HandledInOrder /\ SessionNeverAhead

\* Nothing has arrived.
LEMMA InitInv == Init => DeliveryInv
  <1>1. Frames \in Nat /\ MaxSeq \in Nat
    BY DeliveryAssumption
  <1>2. DOMAIN << >> = {} /\ << >> \in [{} -> Message]
    BY SMT
  <1>3. QED
    BY <1>1, <1>2 DEF Init, DeliveryInv, TypeOK, HandledInOrder, SessionNeverAhead

\* Bytes change only the buffer.
LEMMA PushBytesInv ==
    ASSUME DeliveryInv, NEW k \in 1..(2 * Frames), PushBytes(k)
    PROVE  DeliveryInv'
  <1>0. Frames \in Nat /\ MaxSeq \in Nat
    BY DeliveryAssumption
  <1>1. PICK last \in used..((got + k) \div 2) :
            /\ used' = last
            /\ decoded' = IF last = (got + k) \div 2
                            THEN [i \in 1..(last - used) |-> used + i] ELSE << >>
    BY DEF PushBytes
  <1>2. got + k <= 2 * Frames /\ got' = got + k
    BY DEF PushBytes
  <1>3. UNCHANGED <<sessionSeq, queue, applied, removes>>
    BY DEF PushBytes
  <1>4. used \in 0..Frames /\ got \in 0..(2 * Frames) /\ last \in 0..Frames
    BY <1>0, <1>2 DEF DeliveryInv, TypeOK
  <1>5. decoded' \in Seq(1..Frames)
    <2>1. CASE last = (got + k) \div 2
      <3>1. last - used \in Nat
        BY <1>0, <1>4
      <3>2. decoded' \in [1..(last - used) -> 1..Frames]
        BY <1>0, <1>1, <1>4, <2>1
      <3>3. QED
        BY <3>1, <3>2, SeqOfFunction
    <2>2. CASE last # (got + k) \div 2
      BY <1>1, <2>2
    <2>3. QED
      BY <2>1, <2>2
  <1>6. TypeOK'
    <2>1. got' \in 0..(2 * Frames) /\ used' \in 0..Frames
      BY <1>0, <1>1, <1>2, <1>4
    <2>2. /\ sessionSeq' = sessionSeq /\ next' = next /\ waiting' = waiting
          /\ handled' = handled /\ applied' = applied /\ removes' = removes
      BY <1>3 DEF queue
    <2>3. QED
      BY <1>5, <2>1, <2>2 DEF DeliveryInv, TypeOK
  <1>7. HandledInOrder' /\ SessionNeverAhead'
    BY <1>3 DEF DeliveryInv, HandledInOrder, SessionNeverAhead, queue
  <1>8. QED
    BY <1>6, <1>7 DEF DeliveryInv

\* The session's number is the queue's when it is not stale, so its frame comes
\* out at once.
LEMMA FeedInv ==
    ASSUME DeliveryInv, Feed
    PROVE  DeliveryInv'
  <1> DEFINE m == Frame(Head(decoded))
  <1>0. Frames \in Nat /\ MaxSeq \in Nat
    BY DeliveryAssumption
  <1>1. sessionSeq \in 1..MaxSeq /\ next = sessionSeq
    BY <1>0 DEF Feed, DeliveryInv, TypeOK, SessionNeverAhead
  <1>2. Head(decoded) \in 1..Frames /\ Tail(decoded) \in Seq(1..Frames)
    BY HeadTailProperties DEF Feed, DeliveryInv, TypeOK
  <1>3. m \in Message
    BY <1>2 DEF Message, Frame
  <1>4. QueueOK /\ HandledInOrder /\ OnIncoming(sessionSeq, m)
    BY DEF DeliveryInv, TypeOK, QueueOK, Feed
  <1>5. /\ QueueOK' /\ HandledInOrder' /\ next' > sessionSeq
        /\ \A k \in DOMAIN waiting' : k \in DOMAIN waiting /\ waiting'[k] = waiting[k]
    <2> HIDE DEF m
    <2>1. next <= sessionSeq
      BY <1>0, <1>1
    <2>2. /\ QueueOK' /\ HandledInOrder' /\ next' > sessionSeq
          /\ \A k \in DOMAIN waiting' :
                 \/ k \in DOMAIN waiting /\ waiting'[k] = waiting[k]
                 \/ k = sessionSeq /\ k > next
      BY <1>1, <1>3, <1>4, <2>1, OnIncomingOrder
    <2>3. QED
      BY <1>0, <1>1, <2>2
  <1>6. sessionSeq' = sessionSeq + 1 /\ decoded' = Tail(decoded)
        /\ UNCHANGED <<got, used, applied, removes>>
    BY DEF Feed
  <1>7. TypeOK'
    <2>1. sessionSeq' \in 1..(MaxSeq + 1) /\ decoded' \in Seq(1..Frames)
      BY <1>0, <1>1, <1>2, <1>6
    <2>2. /\ got' = got /\ used' = used /\ applied' = applied /\ removes' = removes
      BY <1>6
    <2>3. QED
      BY <1>5, <2>1, <2>2 DEF DeliveryInv, TypeOK, QueueOK
  <1>8. SessionNeverAhead'
    BY <1>0, <1>1, <1>5, <1>6 DEF DeliveryInv, SessionNeverAhead, QueueOK
  <1>9. QED
    BY <1>5, <1>7, <1>8 DEF DeliveryInv

\* A posted message may wait; the session's number stays where it is.
LEMMA PostInv ==
    ASSUME DeliveryInv, NEW s \in 1..MaxSeq, NEW p \in Posts, PostMessage(s, p)
    PROVE  DeliveryInv'
  <1>0. Frames \in Nat /\ MaxSeq \in Nat
    BY DeliveryAssumption
  <1>1. Post(p) \in Message /\ Post(p).from = "post"
    BY DEF Message, Post
  <1>2. QueueOK /\ HandledInOrder /\ OnIncoming(s, Post(p)) /\ next <= s
    BY DEF DeliveryInv, TypeOK, QueueOK, PostMessage
  <1>3. QueueOK' /\ HandledInOrder'
    BY <1>1, <1>2, OnIncomingOrder
  <1>4. /\ UNCHANGED <<got, used, decoded, sessionSeq, removes>>
        /\ applied' = Append(applied, Numbered(s, Post(p)))
    BY DEF PostMessage, session
  <1>5. Numbered(s, Post(p)) \in Item
    BY <1>1 DEF Numbered, Item
  <1>6. TypeOK'
    BY <1>3, <1>4, <1>5 DEF DeliveryInv, TypeOK, QueueOK
  <1>7. SessionNeverAhead'
    <2> DEFINE stored == IF s \in DOMAIN waiting THEN waiting
                         ELSE [k \in DOMAIN waiting \cup {s} |->
                                  IF k = s THEN Post(p) ELSE waiting[k]]
    <2>1. PICK n \in next..(MaxSeq + 1) :
              /\ next' = n
              /\ waiting' = [k \in DOMAIN stored \ (next..(n - 1)) |-> stored[k]]
      BY <1>2 DEF OnIncoming
    <2>2. \A k \in DOMAIN stored : stored[k].from = "post"
      BY <1>1 DEF DeliveryInv, SessionNeverAhead
    <2>3. \A k \in DOMAIN waiting' : k \in DOMAIN stored /\ waiting'[k] = stored[k]
      BY <2>1
    <2>4. \A k \in DOMAIN waiting' : waiting'[k].from = "post"
      BY <2>2, <2>3
    <2>5. sessionSeq' <= next'
      BY <1>0, <1>4, <2>1 DEF DeliveryInv, TypeOK, SessionNeverAhead
    <2>6. QED
      BY <2>4, <2>5 DEF SessionNeverAhead
  <1>8. QED
    BY <1>3, <1>6, <1>7 DEF DeliveryInv

\* Every step keeps the invariant.
LEMMA NextInv == DeliveryInv /\ [Next]_vars => DeliveryInv'
  <1>1. SUFFICES ASSUME DeliveryInv, [Next]_vars PROVE DeliveryInv'
    OBVIOUS
  <1>2. Frames \in Nat /\ MaxSeq \in Nat
    BY DeliveryAssumption
  <1>3. CASE \E k \in 1..(2 * Frames) : PushBytes(k)
    BY <1>1, <1>3, PushBytesInv
  <1>4. CASE Feed
    BY <1>1, <1>4, FeedInv
  <1>5. CASE FeedStale
    <2>1. /\ decoded' = << >>
          /\ UNCHANGED <<got, used, sessionSeq, next, waiting, handled, applied, removes>>
      BY <1>5 DEF FeedStale, queue
    <2>2. QED
      BY <1>1, <2>1 DEF DeliveryInv, TypeOK, HandledInOrder, SessionNeverAhead
  <1>6. CASE RemoveSession
    <2>1. /\ removes' = removes + 1 /\ used' = (got + 1) \div 2 /\ got' = 2 * used'
          /\ sessionSeq' = 1
          /\ UNCHANGED <<decoded, next, waiting, handled, applied>>
      BY <1>6 DEF RemoveSession, queue
    <2>2. used' \in 0..Frames /\ got' \in 0..(2 * Frames)
      BY <1>1, <1>2, <2>1 DEF DeliveryInv, TypeOK
    <2>3. TypeOK'
      <3>1. TypeOK
        BY <1>1 DEF DeliveryInv
      <3>2. sessionSeq' \in 1..(MaxSeq + 1) /\ removes' \in Nat
        BY <1>2, <2>1, <3>1 DEF TypeOK
      <3>3. QED
        BY <2>1, <2>2, <3>1, <3>2 DEF TypeOK
    <2>4. HandledInOrder' /\ SessionNeverAhead'
      BY <1>1, <1>2, <2>1 DEF DeliveryInv, TypeOK, HandledInOrder, SessionNeverAhead
    <2>5. QED
      BY <2>3, <2>4 DEF DeliveryInv
  <1>7. CASE \E s \in 1..MaxSeq, m \in Posts : PostMessage(s, m)
    BY <1>1, <1>7, PostInv
  <1>8. CASE UNCHANGED vars
    BY <1>1, <1>8 DEF DeliveryInv, TypeOK, HandledInOrder, SessionNeverAhead,
                      vars, session, queue
  <1>9. QED
    BY <1>1, <1>3, <1>4, <1>5, <1>6, <1>7, <1>8 DEF Next

\* The three invariants hold together.
LEMMA Invariant == Spec => []DeliveryInv
  BY InitInv, NextInv, PTL DEF Spec

\* OrderedMessageQueue delivers a peer's messages in the order of their numbers,
\* each once, whichever entry point they come from and in whatever order.
THEOREM HandledInSequence == Spec => []HandledInOrder
  BY Invariant, PTL DEF DeliveryInv

\* A transport session's frames never wait in the queue: its number is at most
\* the queue's, and only posted messages wait.
THEOREM SessionKeepsBehind == Spec => []SessionNeverAhead
  BY Invariant, PTL DEF DeliveryInv

\* Every variable keeps its type.
THEOREM DeliveryTypes == Spec => []TypeOK
  BY Invariant, PTL DEF DeliveryInv

-----------------------------------------------------------------------------
(* Frames in order.  The frames taken out of the buffer and no longer in    *)
(* decoded are 1..Taken; a frame is handled with a number above all of      *)
(* these.  On one connection with nothing posted, Taken is also the number  *)
(* of messages handled, until a frame does not decode: then no further      *)
(* frame ever leaves the buffer.                                            *)

Taken == used - Len(decoded)

BufferInv ==
    /\ 2 * used <= got
    /\ Len(decoded) <= used
    /\ \A i \in DOMAIN decoded : decoded[i] = Taken + i

FramesHandled ==
    /\ \A i \in DOMAIN handled : IsFrame(i) => handled[i].msg.n <= Taken
    /\ \A i, j \in DOMAIN handled :
          i < j /\ IsFrame(i) /\ IsFrame(j) => handled[i].msg.n < handled[j].msg.n

OnlyConnection ==
    applied = << >> /\ removes = 0 =>
        /\ \A i \in DOMAIN handled : handled[i].msg = Frame(i)
        /\ DOMAIN waiting = {} /\ sessionSeq = next
        /\ \/ Len(handled) = Taken
           \/ decoded = << >> /\ used + 1 \in Bad

FrameInv == BufferInv /\ FramesHandled /\ OnlyConnection

\* What is handled after one message came in was handled before, was waiting
\* under its place in the sequence, or is the message itself.
LEMMA OnIncomingHandled ==
    ASSUME QueueOK, HandledInOrder,
           NEW s \in 1..MaxSeq, next <= s, NEW m, OnIncoming(s, m)
    PROVE  /\ DOMAIN handled \subseteq DOMAIN handled'
           /\ \A i \in DOMAIN handled' :
                 \/ i \in DOMAIN handled /\ handled'[i] = handled[i]
                 \/ i \notin DOMAIN handled /\ i \in DOMAIN waiting /\ handled'[i].msg = waiting[i]
                 \/ i \notin DOMAIN handled /\ i = s /\ handled'[i].msg = m
           /\ DOMAIN waiting = {} /\ s = next => next' = s + 1 /\ DOMAIN waiting' = {}
  <1> DEFINE stored == IF s \in DOMAIN waiting THEN waiting
                       ELSE [k \in DOMAIN waiting \cup {s} |-> IF k = s THEN m ELSE waiting[k]]
  <1>0. MaxSeq \in Nat /\ next \in 1..(MaxSeq + 1) /\ handled \in Seq(Item)
        /\ DOMAIN handled = 1..(next - 1) /\ Len(handled) = next - 1
    BY DeliveryAssumption DEF QueueOK, HandledInOrder
  <1>1. /\ DOMAIN stored = DOMAIN waiting \cup {s}
        /\ \A k \in DOMAIN waiting : stored[k] = waiting[k]
        /\ s \notin DOMAIN waiting => stored[s] = m
    OBVIOUS
  <1>2. PICK n \in next..(MaxSeq + 1) :
            /\ n \notin DOMAIN stored
            /\ next..(n - 1) \subseteq DOMAIN stored
            /\ next' = n
            /\ waiting' = [k \in DOMAIN stored \ (next..(n - 1)) |-> stored[k]]
            /\ handled' = handled \o
                 [i \in 1..(n - next) |-> Numbered(next + i - 1, stored[next + i - 1])]
    BY DEF OnIncoming
  <1>3. PICK out : /\ out = [i \in 1..(n - next) |-> Numbered(next + i - 1, stored[next + i - 1])]
                   /\ handled' = handled \o out
    BY <1>2
  <1> HIDE DEF stored
  <1>4. n - next \in Nat
    BY <1>0
  <1>5. \A i \in 1..(n - next) : out[i] = [seq |-> next + i - 1, msg |-> stored[next + i - 1]]
    BY <1>3 DEF Numbered
  <1>6. PICK S : S = {out[i] : i \in 1..(n - next)} \cup Item
    OBVIOUS
  <1>7. out \in [1..(n - next) -> S]
    BY <1>3, <1>6
  <1>8. out \in Seq(S) /\ Len(out) = n - next
    BY <1>4, <1>7, SeqOfFunction
  <1>9. handled \in Seq(S)
    BY <1>0, <1>6
  <1>10. /\ Len(handled') = n - 1 /\ handled' \in Seq(S)
         /\ \A i \in 1..(n - 1) :
               handled'[i] = IF i <= next - 1 THEN handled[i] ELSE out[i - (next - 1)]
    <2>1. /\ Len(handled \o out) = Len(handled) + Len(out) /\ handled \o out \in Seq(S)
          /\ \A i \in 1..(Len(handled) + Len(out)) :
              (handled \o out)[i] = IF i <= Len(handled) THEN handled[i] ELSE out[i - Len(handled)]
      BY <1>8, <1>9, ConcatProperties
    <2>2. Len(handled) + Len(out) = n - 1
      BY <1>0, <1>4, <1>8
    <2>3. QED
      BY <1>0, <1>3, <2>1, <2>2
  <1>11. DOMAIN handled' = 1..(n - 1)
    BY <1>10
  <1>12. ASSUME NEW i \in 1..(n - 1), i > next - 1
         PROVE  handled'[i].msg = stored[i] /\ i \in DOMAIN stored
    <2>1. PICK j \in 1..(n - next) : j = i - (next - 1) /\ next + j - 1 = i
      BY <1>0, <1>4, <1>12
    <2>2. handled'[i] = out[j]
      <3>1. ~(i <= next - 1) /\ i - (next - 1) = j
        BY <1>0, <1>12, <2>1
      <3>2. handled'[i] = IF i <= next - 1 THEN handled[i] ELSE out[i - (next - 1)]
        BY <1>10
      <3>3. QED
        BY <3>1, <3>2
    <2>3. i \in next..(n - 1)
      BY <1>0, <1>12
    <2>4. i \in DOMAIN stored
      BY <1>2, <2>3
    <2>5. out[j] = [seq |-> next + j - 1, msg |-> stored[next + j - 1]]
      BY <1>5
    <2>6. QED
      BY <2>1, <2>2, <2>4, <2>5
  <1>13. \A i \in DOMAIN handled' :
             \/ i \in DOMAIN handled /\ handled'[i] = handled[i]
             \/ i \notin DOMAIN handled /\ i \in DOMAIN waiting /\ handled'[i].msg = waiting[i]
             \/ i \notin DOMAIN handled /\ i = s /\ handled'[i].msg = m
    <2> SUFFICES ASSUME NEW i \in 1..(n - 1)
                 PROVE  \/ i \in DOMAIN handled /\ handled'[i] = handled[i]
                        \/ i \notin DOMAIN handled /\ i \in DOMAIN waiting /\ handled'[i].msg = waiting[i]
                        \/ i \notin DOMAIN handled /\ i = s /\ handled'[i].msg = m
      BY <1>11
    <2>1. CASE i <= next - 1
      BY <1>0, <1>10, <2>1
    <2>2. CASE i > next - 1
      <3>1. i \notin DOMAIN handled
        BY <1>0, <2>2
      <3>2. QED
        BY <1>1, <1>12, <2>2, <3>1
    <2>3. QED
      BY <1>0, <2>1, <2>2
  <1>14. DOMAIN handled \subseteq DOMAIN handled'
    BY <1>0, <1>11
  <1>15. DOMAIN waiting = {} /\ s = next => n = s + 1 /\ DOMAIN waiting' = {}
    <2> SUFFICES ASSUME DOMAIN waiting = {}, s = next
                 PROVE  n = s + 1 /\ DOMAIN waiting' = {}
      OBVIOUS
    <2>1. DOMAIN stored = {s}
      BY <1>1
    <2>2. n # s /\ n >= s /\ next..(n - 1) \subseteq {s}
      <3>1. n \notin DOMAIN stored /\ next..(n - 1) \subseteq DOMAIN stored
        BY <1>2
      <3>2. QED
        BY <1>0, <2>1, <3>1
    <2>3. n = s + 1
      <3>1. CASE n > s + 1
        <4>1. s + 1 \in next..(n - 1)
          BY <1>0, <3>1
        <4>2. QED
          BY <2>2, <4>1
      <3>2. QED
        BY <1>0, <2>2, <3>1
    <2>4. next..(n - 1) = {s}
      BY <1>0, <2>3
    <2>5. QED
      BY <1>2, <2>1, <2>3, <2>4
  <1>16. QED
    BY <1>2, <1>13, <1>14, <1>15

\* The frames handled are numbered.
LEMMA HandledFrames ==
    ASSUME DeliveryInv
    PROVE  /\ DOMAIN handled = 1..(next - 1)
           /\ \A i \in DOMAIN handled : IsFrame(i) => handled[i].msg.n \in Nat
  <1>1. handled \in Seq(Item) /\ Len(handled) = next - 1
    BY DEF DeliveryInv, TypeOK, HandledInOrder
  <1>2. \A m \in Message : m.from = "frame" => m.n \in Nat
    <2>1. \A m \in [from : {"frame"}, n : 1..Frames] : m.n \in Nat
      BY DeliveryAssumption
    <2>2. \A m \in [from : {"post"}, n : Posts] : m.from # "frame"
      OBVIOUS
    <2>3. QED
      BY <2>1, <2>2 DEF Message
  <1>3. \A i \in DOMAIN handled : handled[i].msg \in Message
    <2>1. \A i \in DOMAIN handled : handled[i] \in Item
      BY <1>1
    <2>2. QED
      BY <2>1 DEF Item
  <1>4. QED
    BY <1>1, <1>2, <1>3 DEF IsFrame

\* Bytes that decode are numbered on from the frames already taken.
LEMMA PushBytesFrames ==
    ASSUME DeliveryInv, FrameInv, NEW k \in 1..(2 * Frames), PushBytes(k)
    PROVE  FrameInv'
  <1>0. Frames \in Nat /\ got \in 0..(2 * Frames) /\ used \in 0..Frames /\ k \in Nat
    BY DeliveryAssumption DEF DeliveryInv, TypeOK
  <1>1. PICK last \in used..((got + k) \div 2) :
            /\ (used + 1)..last \cap Bad = {}
            /\ last = (got + k) \div 2 \/ last + 1 \in Bad
            /\ used' = last
            /\ decoded' = IF last = (got + k) \div 2
                            THEN [i \in 1..(last - used) |-> used + i] ELSE << >>
    BY DEF PushBytes
  <1>2. /\ decoded = << >> /\ got' = got + k
        /\ UNCHANGED <<sessionSeq, next, waiting, handled, applied, removes>>
    BY DEF PushBytes, queue
  <1>3. last \in Nat /\ used <= last /\ 2 * last <= got + k
    BY <1>0
  <1>4. Len(decoded) = 0 /\ Taken = used
    BY <1>0, <1>2 DEF Taken
  <1>5. /\ BufferInv' /\ Taken' \in Nat /\ Taken <= Taken'
        /\ \/ Taken' = used /\ last = used + Len(decoded)'
           \/ decoded' = << >> /\ last + 1 \in Bad
    <2>1. CASE last = (got + k) \div 2
      <3>1. last - used \in Nat
        BY <1>0, <1>3
      <3>2. decoded' = [i \in 1..(last - used) |-> used + i]
        BY <1>1, <2>1
      <3>3. decoded' \in [1..(last - used) -> Nat]
        BY <1>0, <3>2
      <3>4. Len(decoded') = last - used /\ DOMAIN decoded' = 1..(last - used)
        BY <3>1, <3>3, SeqOfFunction
      <3>5. Taken' = used
        BY <1>0, <1>1, <1>3, <3>4 DEF Taken
      <3>6. \A i \in DOMAIN decoded' : decoded'[i] = Taken' + i
        BY <3>2, <3>4, <3>5
      <3>7. 2 * used' <= got' /\ Len(decoded') <= used'
        BY <1>0, <1>1, <1>2, <1>3, <3>4
      <3>8. BufferInv'
        BY <3>6, <3>7 DEF BufferInv
      <3>9. QED
        BY <1>0, <1>3, <1>4, <3>4, <3>5, <3>8
    <2>2. CASE last # (got + k) \div 2
      <3>1. decoded' = << >> /\ Len(decoded') = 0 /\ DOMAIN decoded' = {}
        BY <1>1, <2>2
      <3>2. Taken' = last
        <4>1. Taken' = last - 0
          BY <1>1, <3>1 DEF Taken
        <4>2. QED
          BY <1>3, <4>1
      <3>3. QED
        BY <1>0, <1>1, <1>2, <1>3, <1>4, <2>2, <3>1, <3>2 DEF BufferInv
    <2>3. QED
      BY <2>1, <2>2
  <1>6. FramesHandled'
    <2>1. \A i \in DOMAIN handled : IsFrame(i) => handled[i].msg.n \in Nat
      BY HandledFrames
    <2>2. QED
      BY <1>0, <1>2, <1>4, <1>5, <2>1 DEF FrameInv, FramesHandled, IsFrame
  <1>7. OnlyConnection'
    <2> SUFFICES ASSUME applied = << >>, removes = 0
                 PROVE  \/ Len(handled) = Taken'
                        \/ decoded' = << >> /\ used' + 1 \in Bad
      BY <1>2 DEF OnlyConnection, FrameInv
    <2>1. CASE Len(handled) = Taken
      BY <1>1, <1>4, <1>5, <2>1
    <2>2. CASE used + 1 \in Bad
      <3>1. last = used
        <4>1. last > used => used + 1 \in (used + 1)..last
          BY <1>0, <1>3
        <4>2. QED
          BY <1>0, <1>1, <1>3, <2>2, <4>1
      <3>2. decoded' = << >>
        <4>1. [i \in 1..0 |-> used + i] = << >>
          OBVIOUS
        <4>2. last - used = 0
          BY <1>0, <3>1
        <4>3. QED
          BY <1>1, <4>1, <4>2
      <3>3. QED
        BY <1>1, <2>2, <3>1, <3>2
    <2>3. QED
      BY <2>1, <2>2 DEF FrameInv, OnlyConnection
  <1>8. QED
    BY <1>5, <1>6, <1>7 DEF FrameInv

\* The next frame comes out of the queue at once, and nothing else is a frame.
LEMMA FeedFrames ==
    ASSUME DeliveryInv, FrameInv, Feed
    PROVE  FrameInv'
  <1>0. /\ Frames \in Nat /\ MaxSeq \in Nat /\ used \in 0..Frames
        /\ decoded \in Seq(1..Frames) /\ decoded # << >>
        /\ QueueOK /\ HandledInOrder
    BY DeliveryAssumption DEF DeliveryInv, TypeOK, Feed, QueueOK
  <1>1. sessionSeq \in 1..MaxSeq /\ next = sessionSeq
    BY <1>0 DEF Feed, DeliveryInv, TypeOK, SessionNeverAhead
  <1>2. PICK f : f = Head(decoded)
    OBVIOUS
  <1>3. Len(decoded) \in Nat \ {0} /\ Len(decoded) <= used /\ Taken \in Nat
    BY <1>0 DEF FrameInv, BufferInv, Taken
  <1>4. f = Taken + 1 /\ f \in 1..Frames
    BY <1>0, <1>2, <1>3 DEF FrameInv, BufferInv
  <1>5. /\ OnIncoming(sessionSeq, Frame(f)) /\ sessionSeq' = sessionSeq + 1
        /\ decoded' = Tail(decoded)
        /\ UNCHANGED <<got, used, applied, removes>>
    BY <1>2 DEF Feed
  <1>6. /\ Len(decoded') = Len(decoded) - 1
        /\ \A i \in DOMAIN decoded' : i + 1 \in DOMAIN decoded /\ decoded'[i] = decoded[i + 1]
        /\ Taken' = Taken + 1
    <2>1. /\ Len(decoded') = Len(decoded) - 1
          /\ \A i \in DOMAIN decoded' : i + 1 \in DOMAIN decoded /\ decoded'[i] = decoded[i + 1]
      BY <1>0, <1>5
    <2>2. QED
      BY <1>0, <1>3, <1>5, <2>1 DEF Taken
  <1>7. BufferInv'
    <2>1. ASSUME NEW i \in DOMAIN decoded'
          PROVE  decoded'[i] = Taken' + i
      <3>1. i \in Nat /\ decoded[i + 1] = Taken + (i + 1)
        BY <1>0, <1>5, <1>6, <2>1 DEF FrameInv, BufferInv
      <3>2. QED
        BY <1>3, <1>6, <3>1
    <2>2. 2 * used' <= got' /\ Len(decoded') <= used'
      BY <1>0, <1>3, <1>5, <1>6 DEF FrameInv, BufferInv
    <2>3. QED
      BY <2>1, <2>2 DEF BufferInv
  <1>8. /\ DOMAIN handled \subseteq DOMAIN handled'
        /\ \A i \in DOMAIN handled' :
              \/ i \in DOMAIN handled /\ handled'[i] = handled[i]
              \/ i \notin DOMAIN handled /\ i \in DOMAIN waiting /\ handled'[i].msg = waiting[i]
              \/ i \notin DOMAIN handled /\ i = sessionSeq /\ handled'[i].msg = Frame(f)
        /\ DOMAIN waiting = {} => next' = sessionSeq + 1 /\ DOMAIN waiting' = {}
    <2>1. next <= sessionSeq /\ sessionSeq = next
      BY <1>0, <1>1
    <2>2. QED
      BY <1>0, <1>1, <1>5, <2>1, OnIncomingHandled
  <1>9. \A i \in DOMAIN handled' :
            \/ i \in DOMAIN handled /\ handled'[i] = handled[i]
            \/ i \notin DOMAIN handled /\ handled'[i].msg.from = "post"
            \/ i \notin DOMAIN handled /\ i = sessionSeq /\ handled'[i].msg = Frame(f)
    BY <1>8 DEF DeliveryInv, SessionNeverAhead
  <1>10. /\ DOMAIN handled = 1..(next - 1) /\ DOMAIN handled' \subseteq Nat
         /\ handled' \in Seq(Item) /\ Len(handled') = next' - 1
    <2>1. Frame(f) \in Message /\ next <= sessionSeq /\ sessionSeq = next
      BY <1>0, <1>1, <1>4 DEF Message, Frame
    <2>2. QueueOK' /\ HandledInOrder'
      BY <1>0, <1>1, <1>5, <2>1, OnIncomingOrder
    <2>3. QED
      BY <2>2, HandledFrames DEF QueueOK, HandledInOrder
  <1>11. \A i \in DOMAIN handled : IsFrame(i) => handled[i].msg.n \in Nat /\ handled[i].msg.n < f
    <2>1. \A i \in DOMAIN handled : IsFrame(i) => handled[i].msg.n \in Nat
      BY HandledFrames
    <2>2. QED
      BY <1>3, <1>4, <2>1 DEF FrameInv, FramesHandled
  <1>12. FramesHandled'
    <2>1. ASSUME NEW i \in DOMAIN handled', IsFrame(i)'
          PROVE  \/ i \in DOMAIN handled /\ IsFrame(i) /\ handled'[i] = handled[i]
                 \/ i = next /\ handled'[i].msg.n = f
      BY <1>1, <1>9, <2>1 DEF IsFrame, Frame
    <2>2. \A i \in DOMAIN handled' : IsFrame(i)' => handled'[i].msg.n <= Taken'
      BY <1>3, <1>4, <1>6, <1>11, <2>1
    <2>3. ASSUME NEW i \in DOMAIN handled', NEW j \in DOMAIN handled',
                 i < j, IsFrame(i)', IsFrame(j)'
          PROVE  handled'[i].msg.n < handled'[j].msg.n
      <3>1. i \in DOMAIN handled /\ IsFrame(i) /\ handled'[i] = handled[i]
        <4>1. CASE i = next
          <5>1. ~(j \in DOMAIN handled) /\ j # next
            BY <1>0, <1>1, <1>10, <2>3, <4>1
          <5>2. QED
            BY <2>1, <2>3, <5>1
        <4>2. QED
          BY <2>1, <2>3, <4>1
      <3>2. QED
        BY <1>11, <2>1, <2>3, <3>1 DEF FrameInv, FramesHandled
    <2>4. QED
      BY <2>2, <2>3 DEF FramesHandled
  <1>13. OnlyConnection'
    <2> SUFFICES ASSUME applied = << >>, removes = 0
                 PROVE  /\ \A i \in DOMAIN handled' : handled'[i].msg = Frame(i)
                        /\ DOMAIN waiting' = {} /\ sessionSeq' = next'
                        /\ Len(handled') = Taken'
      BY <1>5 DEF OnlyConnection
    <2>1. /\ \A i \in DOMAIN handled : handled[i].msg = Frame(i)
          /\ DOMAIN waiting = {} /\ Len(handled) = Taken
      BY <1>0 DEF FrameInv, OnlyConnection
    <2>2. DOMAIN waiting' = {} /\ next' = sessionSeq + 1
      BY <1>8, <2>1
    <2>3. f = sessionSeq
      BY <1>0, <1>1, <1>4, <2>1 DEF HandledInOrder
    <2>4. \A i \in DOMAIN handled' : handled'[i].msg = Frame(i)
      BY <1>8, <2>1, <2>3
    <2>5. Len(handled') = next' - 1
      BY <1>10
    <2>6. QED
      BY <1>1, <1>4, <1>5, <1>6, <2>2, <2>3, <2>4, <2>5, <1>3
  <1>14. QED
    BY <1>7, <1>12, <1>13 DEF FrameInv

\* No frame comes out of the queue when a message is posted.
LEMMA PostFrames ==
    ASSUME DeliveryInv, FrameInv, NEW s \in 1..MaxSeq, NEW p \in Posts, PostMessage(s, p)
    PROVE  FrameInv'
  <1>1. /\ QueueOK /\ HandledInOrder /\ OnIncoming(s, Post(p)) /\ next <= s
        /\ UNCHANGED <<got, used, decoded>>
        /\ applied' = Append(applied, Numbered(s, Post(p))) /\ applied \in Seq(Item)
    BY DEF DeliveryInv, TypeOK, QueueOK, PostMessage, session
  <1>2. BufferInv' /\ Taken' = Taken
    BY <1>1 DEF FrameInv, BufferInv, Taken
  <1>3. \A i \in DOMAIN handled' : IsFrame(i)' =>
            i \in DOMAIN handled /\ IsFrame(i) /\ handled'[i] = handled[i]
    <2>1. \A i \in DOMAIN handled' :
              \/ i \in DOMAIN handled /\ handled'[i] = handled[i]
              \/ i \notin DOMAIN handled /\ i \in DOMAIN waiting /\ handled'[i].msg = waiting[i]
              \/ i \notin DOMAIN handled /\ i = s /\ handled'[i].msg = Post(p)
      BY <1>1, OnIncomingHandled
    <2>2. QED
      BY <2>1 DEF DeliveryInv, SessionNeverAhead, IsFrame, Post
  <1>4. FramesHandled'
    BY <1>2, <1>3 DEF FrameInv, FramesHandled
  <1>5. applied' # << >>
    BY <1>1 DEF Numbered
  <1>6. QED
    BY <1>2, <1>4, <1>5 DEF FrameInv, OnlyConnection

\* Every step keeps the order of frames.
LEMMA NextFrames == DeliveryInv /\ FrameInv /\ [Next]_vars => FrameInv'
  <1> SUFFICES ASSUME DeliveryInv, FrameInv, [Next]_vars
               PROVE  FrameInv'
    OBVIOUS
  <1>1. CASE \E k \in 1..(2 * Frames) : PushBytes(k)
    BY <1>1, PushBytesFrames
  <1>2. CASE Feed
    BY <1>2, FeedFrames
  <1>3. /\ used \in Nat /\ got \in Nat /\ Len(decoded) \in Nat /\ removes \in Nat
        /\ \A i \in DOMAIN handled : IsFrame(i) => handled[i].msg.n \in Nat
    <2>1. used \in Nat /\ got \in Nat /\ removes \in Nat /\ decoded \in Seq(1..Frames)
      BY DeliveryAssumption DEF DeliveryInv, TypeOK
    <2>2. QED
      BY <2>1, HandledFrames
  <1>4. CASE FeedStale
    <2>1. /\ decoded' = << >> /\ sessionSeq < next
          /\ UNCHANGED <<got, used, sessionSeq, next, waiting, handled, applied, removes>>
      BY <1>4 DEF FeedStale, queue
    <2>2. Taken' = used /\ Taken <= Taken' /\ Taken \in Nat /\ BufferInv'
      BY <1>3, <2>1 DEF Taken, FrameInv, BufferInv
    <2>3. FramesHandled'
      BY <1>3, <2>1, <2>2 DEF FrameInv, FramesHandled, IsFrame
    <2>4. ~(applied = << >> /\ removes = 0)
      BY <2>1, DeliveryAssumption DEF FrameInv, OnlyConnection, DeliveryInv, TypeOK
    <2>5. QED
      BY <2>1, <2>2, <2>3, <2>4 DEF FrameInv, OnlyConnection
  <1>5. CASE RemoveSession
    <2>1. /\ removes' = removes + 1 /\ used' = (got + 1) \div 2 /\ got' = 2 * used'
          /\ decoded = << >>
          /\ UNCHANGED <<decoded, next, waiting, handled, applied>>
      BY <1>5 DEF RemoveSession, queue
    <2>2. used <= used' /\ used' \in Nat
      BY <1>3, <2>1 DEF FrameInv, BufferInv
    <2>3. Taken' = used' /\ Taken = used /\ BufferInv'
      BY <1>3, <2>1, <2>2 DEF Taken, FrameInv, BufferInv
    <2>4. FramesHandled'
      BY <1>3, <2>1, <2>2, <2>3 DEF FrameInv, FramesHandled, IsFrame
    <2>5. removes' # 0
      BY <1>3, <2>1
    <2>6. QED
      BY <2>3, <2>4, <2>5 DEF FrameInv, OnlyConnection
  <1>6. CASE \E s \in 1..MaxSeq, m \in Posts : PostMessage(s, m)
    BY <1>6, PostFrames
  <1>7. CASE UNCHANGED vars
    BY <1>7 DEF vars, session, queue, FrameInv, BufferInv, FramesHandled, OnlyConnection,
                Taken, IsFrame
  <1>8. QED
    BY <1>1, <1>2, <1>4, <1>5, <1>6, <1>7 DEF Next

\* Before anything arrives no frame is out of order.
LEMMA InitFrames == Init => FrameInv
  <1> SUFFICES ASSUME Init
               PROVE  FrameInv
    OBVIOUS
  <1>1. /\ Len(decoded) = 0 /\ DOMAIN decoded = {} /\ DOMAIN handled = {} /\ Len(handled) = 0
        /\ DOMAIN waiting = {}
    BY DEF Init
  <1>2. Taken = 0 /\ Len(handled) = Taken
    <2>1. used = 0
      BY DEF Init
    <2>2. QED
      BY <1>1, <2>1 DEF Taken
  <1>3. QED
    BY <1>1, <1>2 DEF Init, FrameInv, BufferInv, FramesHandled, OnlyConnection

\* A peer's frames reach handle_message in the order it wrote them, on whatever
\* connections and beside whatever it posts (transport.rs:60-108,
\* engine.rs:86-103); on one connection alone, none is missing before another:
\* a frame that does not decode stops the session for good (codec.rs:28-56).
THEOREM FramesStayInOrder == Spec => []FramesInOrder
  <1>1. FrameInv => FramesInOrder
    BY DEF FrameInv, FramesHandled, OnlyConnection, FramesInOrder
  <1>2. QED
    BY <1>1, InitInv, NextInv, InitFrames, NextFrames, PTL DEF Spec
=============================================================================
