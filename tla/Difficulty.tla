----------------------------- MODULE Difficulty -----------------------------
(***************************************************************************)
(* The difficulty a block must have (crates/core/src/blockchain.rs), and   *)
(* the header checks of a candidate block.                                 *)
(*                                                                         *)
(* A chain is the sequence of blocks after genesis, so the block at height *)
(* h is blocks[h].  Abstracted: a block's hash is its miner, how often the *)
(* miner was restarted, and its height (a node mines a height once from    *)
(* one start to the next); the proof of work meets the difficulty the      *)
(* block states.                                                           *)
(***************************************************************************)
EXTENDS Integers, Sequences

CONSTANTS
    InitialDifficulty,  \* initial_difficulty
    Interval,           \* difficulty_adjustment_interval
    TargetTime          \* target_block_time_secs

ASSUME DifficultyAssumption ==
    InitialDifficulty \in Nat /\ Interval \in Nat /\ TargetTime \in Nat

AtLeastOne(n) == IF n < 1 THEN 1 ELSE n

\* adjust_difficulty_with_elapsed: fast windows raise it, slow ones lower it.
Adjusted(difficulty, elapsed, expected) ==
    IF expected = 0 THEN difficulty
    ELSE IF elapsed < AtLeastOne(expected \div 2) THEN difficulty + 1
    ELSE IF elapsed > 2 * expected THEN IF difficulty = 0 THEN 0 ELSE difficulty - 1
    ELSE difficulty

\* expected_difficulty_for_height, at most one above the tip.  Timestamps are
\* the miners' clocks: elapsed may be negative.  Genesis is no start of a window.
ExpectedDifficulty(blocks, height) ==
    IF height = 1 THEN InitialDifficulty
    ELSE IF Interval <= 1 \/ height % Interval # 0 \/ height <= Interval
      THEN blocks[height - 1].difficulty
    ELSE Adjusted(blocks[height - 1].difficulty,
                  AtLeastOne(blocks[height - 1].time - blocks[height - Interval].time),
                  TargetTime * AtLeastOne(Interval - 1))

HashOf(block) == <<block.miner, block.life, block.index>>
LatestHash(blocks) == IF blocks = << >> THEN <<"genesis", 0, 0>> ELSE HashOf(blocks[Len(blocks)])

\* Block::new, on the tip of blocks.
NewBlockOn(blocks, miner, lives, time) ==
    [index |-> Len(blocks) + 1, miner |-> miner, life |-> lives, time |-> time,
     prev |-> LatestHash(blocks), difficulty |-> ExpectedDifficulty(blocks, Len(blocks) + 1)]

\* Mutant: any difficulty will do.
AnyDifficultyFollows(blocks, b) == b.index = Len(blocks) + 1 /\ b.prev = LatestHash(blocks)

\* The header part of validate_next_block.
Follows(blocks, b) ==
    /\ b.index = Len(blocks) + 1
    /\ b.prev = LatestHash(blocks)
    /\ b.difficulty = ExpectedDifficulty(blocks, b.index)

\* The header part of validate_chain, whose checks are not those of Follows.
ValidChain(blocks) ==
    \A i \in DOMAIN blocks :
        /\ blocks[i].index = i
        /\ blocks[i].prev = LatestHash(SubSeq(blocks, 1, i - 1))
        /\ blocks[i].difficulty = ExpectedDifficulty(blocks, i)
=============================================================================
