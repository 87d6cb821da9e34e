---------------------------- MODULE PagedKvCache ----------------------------
(***************************************************************************)
(* KvBlockPool and the PagedKvCaches that share it: append takes blocks from *)
(* the end of the free list one at a time and may find it empty half way,   *)
(* decode reads through the block table, free gives the blocks back.  The    *)
(* token at position n of cache c is <<c, n>>: what decode must read there.  *)
(***************************************************************************)
EXTENDS Integers, FiniteSets, Sequences, SequencesExt

CONSTANTS
  Caches,
  TotalBlocks, BlockSize,
  MaxBatch       \* tokens in one call of append

ASSUME PageAssumption ==
  TotalBlocks \in Nat /\ BlockSize \in Nat \ {0} /\ MaxBatch \in Nat

VARIABLES
  freeBlocks,  \* free_blocks, the next one last
  content,     \* what is stored in each block, by offset
  table,       \* block_table of each cache
  len          \* current_len of each cache

pageVars == <<freeBlocks, content, table, len>>

Blocks == 0..(TotalBlocks - 1)
Empty == <<>>

PageInit ==
  /\ freeBlocks = [i \in 1..TotalBlocks |-> i - 1]
  /\ content = [b \in Blocks |-> [o \in 0..(BlockSize - 1) |-> Empty]]
  /\ table = [c \in Caches |-> <<>>]
  /\ len = [c \in Caches |-> 0]

\* A pool and one cache of it while append runs.
Appending(c) == [free |-> freeBlocks, table |-> table[c], len |-> len[c], content |-> content]

\* Mutant: the block is read off the end of the free list and left there.
MutAppendOne(c, s) ==
  LET offset == s.len % BlockSize
      tab == IF offset = 0 THEN Append(s.table, Last(s.free)) ELSE s.table
  IN IF offset = 0 /\ s.free = <<>> THEN s
     ELSE [s EXCEPT !.table = tab, !.len = @ + 1,
                    !.content[Last(tab)][offset] = <<c, s.len>>]

\* One turn of append's loop: out of blocks at a block boundary, it gives up.
AppendOne(c, s) ==
  LET offset == s.len % BlockSize
      tab == IF offset = 0 THEN Append(s.table, Last(s.free)) ELSE s.table
  IN IF offset = 0 /\ s.free = <<>> THEN s
     ELSE [free |-> IF offset = 0 THEN Front(s.free) ELSE s.free,
           table |-> tab, len |-> s.len + 1,
           content |-> [s.content EXCEPT ![Last(tab)][offset] = <<c, s.len>>]]

\* append's loop: pool and cache after each turn.
Turns(c, batch) ==
  LET turn[n \in 0..batch] == IF n = 0 THEN Appending(c) ELSE AppendOne(c, turn[n - 1])
  IN turn

\* PagedKvCache::append of so many tokens; it keeps what it stored on an error.
AppendTokens(c, batch) ==
  LET done == Turns(c, batch)[batch]
  IN /\ freeBlocks' = done.free
     /\ content' = done.content
     /\ table' = [table EXCEPT ![c] = done.table]
     /\ len' = [len EXCEPT ![c] = done.len]

\* free's loop: the free list after each block of the table; release_block
\* passes over one that is free already.
Released(blocks) ==
  LET list[n \in 0..Len(blocks)] ==
        IF n = 0 THEN freeBlocks
        ELSE IF blocks[n] \in ToSet(list[n - 1]) THEN list[n - 1]
        ELSE Append(list[n - 1], blocks[n])
  IN list

Free(c) ==
  /\ table[c] # <<>>
  /\ freeBlocks' = Released(table[c])[Len(table[c])]
  /\ table' = [table EXCEPT ![c] = <<>>]
  /\ len' = [len EXCEPT ![c] = 0]
  /\ UNCHANGED content

\* decode_attention_step: the key at position p that the scores are made of.
Read(c, p) == content[table[c][p \div BlockSize + 1]][p % BlockSize]

PageNext ==
  \E c \in Caches : Free(c) \/ \E batch \in 1..MaxBatch : AppendTokens(c, batch)

PageSpec == PageInit /\ [][PageNext]_pageVars

-----------------------------------------------------------------------------
(* The places a block has in the tables.                                    *)
Held(b) == UNION {{c} \X {i \in DOMAIN table[c] : table[c][i] = b} : c \in Caches}

(* Every block is in one place, once: in the free list or in the table of    *)
(* one cache, after appends that ran out of blocks half way and after frees  *)
(* in any order (kv_cache.rs:516, 521, 571, 824).                          *)
BlockInOnePlace ==
  \A b \in Blocks :
    Cardinality({i \in DOMAIN freeBlocks : freeBlocks[i] = b}) + Cardinality(Held(b)) = 1

(* A cache holds no more blocks than its tokens need, also after an append  *)
(* that failed.                                                             *)
TableFits == 
  \A c \in Caches : /\ Len(table[c]) * BlockSize >= len[c]
                   /\ len[c] > (Len(table[c]) - 1) * BlockSize

(* Whatever the other caches do, decode reads at each position of a cache    *)
(* the token that was appended there (kv_cache.rs:628).                     *)
ReadsOwnTokens ==
  \A c \in Caches : \A p \in 0..(len[c] - 1) : Read(c, p) = <<c, p>>

(* Pool and tables agree on who holds each block, and each cache reads what   *)
(* was appended to it.                                                      *)
PagesConsistent == BlockInOnePlace /\ TableFits /\ ReadsOwnTokens
=============================================================================
