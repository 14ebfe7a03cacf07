----------------------------- MODULE MCPeerSync -----------------------------
(***************************************************************************)
(* Node a mines a chain that b follows, loses it in a restart, and mines   *)
(* again; b may put one block of its own on it, or start a fork with it.   *)
(* With windows of two blocks, height 4 is the first whose difficulty is   *)
(* adjusted.  At height 3 the clocks differ: a's block ends a slow window, *)
(* b's a fast one that seems to end before it begins.                      *)
(***************************************************************************)
EXTENDS PeerSync, TLC

CONSTANTS a, b, c, d

MCDigest(name) == CASE name = a -> {1} [] name = b -> {1, 3} [] name = c -> {2, 3}
                     [] name = d -> {1, 2} [] OTHER -> {2}
MCClock(n, h) == {IF h # 3 THEN 2 ELSE IF n = a THEN 11 ELSE 0}
MCSeeds == (a :> {b, d}) @@ (b :> {c})
MCMaxJobs == (a :> 1) @@ (b :> 2)
MCMaxMined == (a :> 2) @@ (b :> 1)
MCRestarts == (a :> 1) @@ (b :> 0)

\* A first block of a network with another initial difficulty.
MCStray == {[index |-> 1, miner |-> SelfId, life |-> 0, time |-> 0,
             prev |-> <<"genesis", 0, 0>>, difficulty |-> 3]}
=============================================================================
