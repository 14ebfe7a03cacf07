------------------------------ MODULE Kademlia ------------------------------
(***************************************************************************)
(* Nearest peers and buckets by XOR distance (crates/p2p/src/peer.rs).     *)
(*                                                                         *)
(* Abstracted: the SHA-256 digest of a name is the set of its one bits,    *)
(* of Bits bits with Bits the most significant, so XOR is the symmetric    *)
(* difference.  Names are told apart by their digests.                     *)
(***************************************************************************)
EXTENDS Integers, Sequences, FiniteSets, FiniteSetsExt

CONSTANTS
    Bits,        \* bits of a digest, 256 in the code
    Digest(_)    \* digest_node_id

XorDistance(a, b) == (Digest(a) \ Digest(b)) \cup (Digest(b) \ Digest(a))

\* The order of distances as byte arrays: the highest bit they differ in decides.
Nearer(d, e) ==
    \E bit \in e \ d : \A above \in bit + 1..Bits : (above \in d) = (above \in e)

\* nearest_peers: the limit names nearest to target, as a set.
NearestPeers(names, target, limit) ==
    {p \in names :
        Cardinality({q \in names : Nearer(XorDistance(q, target), XorDistance(p, target))})
          < limit}

\* Mutant: zeros are counted from the low end.
TrailingZeroBits(d) == IF d = {} THEN Bits ELSE Min(d) - 1

LeadingZeroBits(d) == IF d = {} THEN Bits ELSE Bits - Max(d)

\* dht_buckets: the bucket of a name; the last bucket takes all that are nearer.
BucketIndex(name, target, count) ==
    LET zeros == LeadingZeroBits(XorDistance(name, target))
    IN  IF zeros < count - 1 THEN zeros ELSE count - 1
=============================================================================
