---------------------------- MODULE BlockBuffers ----------------------------
(***************************************************************************)
(* The memory of the block manager: how many Data buffers it has at a time *)
(* (those in blocks_, the superblock's included, and those in free_data_). *)
(* The state is BlockManager's, with a history variable for the largest    *)
(* number of blocks that were referenced at once since it was opened.      *)
(***************************************************************************)
EXTENDS BlockManager

VARIABLE peak   \* most blocks referenced at once, the superblock included

bvars == <<vars, peak>>

Pinned == 1 + Cardinality({b \in Blocks : holders[b] # {}})
Larger(m, n) == IF m < n THEN n ELSE m

BInit == Init /\ peak = 0
BNext == Next /\ peak' = IF Up' THEN Larger(peak, Pinned') ELSE 0
BSpec == BInit /\ [][BNext]_bvars

\* Buffers are reused: past the limit, the manager never has more than one
\* buffer beyond what the callers once needed at the same time, however often
\* blocks are loaded, freed, evicted and released (get_free_data_,
\* release_block_, free_block, which loads a block nobody references).
BufferBound == Up => Size + pool <= Larger(MaxPool, peak + 1)
=============================================================================
