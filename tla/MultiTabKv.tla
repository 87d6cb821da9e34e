----------------------------- MODULE MultiTabKv -----------------------------
(***************************************************************************)
(* MultiTabKvManager: the caches of the tabs under one memory cap, the least *)
(* recently used tab evicted first; a tab has a linear cache, and perhaps a  *)
(* RingKvCache that keeps its first PrefixLen tokens and slides over the     *)
(* rest.  Memory is counted in tokens, and a token is its position in what   *)
(* the tab was fed.  A panic of append's asserts changes nothing.           *)
(***************************************************************************)
EXTENDS Integers, FiniteSets, Sequences, SequencesExt

CONSTANTS
  TabIds, Sizes,
  CapTokens,     \* max_memory_bytes
  PrefixLen,
  MaxFed         \* bound: tokens fed to a tab between two clears

ASSUME TabAssumption ==
  CapTokens \in Nat /\ PrefixLen \in Nat /\ MaxFed \in Nat /\ Sizes \subseteq Nat \ {0}

VARIABLES
  tabs,  \* the open tabs: [size, ring, held: the tokens in the window, fed]
  lru    \* lru_order, the oldest first

tabVars == <<tabs, lru>>
Open == DOMAIN tabs

TabInit == tabs = <<>> /\ lru = <<>>

\* total_memory_bytes of these tabs: the linear cache alone is counted.
Total(ids) == FoldSet(LAMBDA id, sum : sum + tabs[id].size, 0, ids)

\* What they take: a ring tab has a ring beside its linear cache, as large.
Allocated(ids) ==
  FoldSet(LAMBDA id, sum : sum + tabs[id].size * (IF tabs[id].ring THEN 2 ELSE 1), 0, ids)

Touched(id) == Append(Remove(lru, id), id)

\* Mutant: the most recent tabs are evicted first.
MutEvicted(size) ==
  LET over(n) == Total(Open \ ToSet(SubSeq(lru, Len(lru) - n + 1, Len(lru)))) + size > CapTokens
      n == CHOOSE n \in 0..Len(lru) : ~over(n) /\ \A k \in 0..(n - 1) : over(k)
  IN ToSet(SubSeq(lru, Len(lru) - n + 1, Len(lru)))

\* The shortest beginning of lru_order that makes room for size.
Evicted(size) ==
  LET over(n) == Total(Open \ ToSet(SubSeq(lru, 1, n))) + size > CapTokens
      n == CHOOSE n \in 0..Len(lru) : ~over(n) /\ \A k \in 0..(n - 1) : over(k)
  IN ToSet(SubSeq(lru, 1, n))

\* RingKvCache::new asserts that the window is longer than the prefix.
RingFits(size) == PrefixLen < size

\* get_or_create_tab and get_or_create_ring_tab of a tab that is not there.
CreateTab(id, size, ring) ==
  /\ id \notin Open /\ size <= CapTokens
  /\ ring => RingFits(size)
  /\ LET kept == Open \ Evicted(size)
     IN /\ tabs' = [t \in kept \cup {id} |-> IF t \in kept THEN tabs[t]
                      ELSE [size |-> size, ring |-> ring, held |-> <<>>, fed |-> 0]]
        /\ lru' = Append(SelectSeq(lru, LAMBDA t : t \in kept), id)

\* The assert panics when room has been made already, and nothing takes it.
CreatePanics(id, size) ==
  /\ id \notin Open /\ size <= CapTokens
  /\ ~ RingFits(size)
  /\ LET kept == Open \ Evicted(size)
     IN /\ tabs' = [t \in kept |-> tabs[t]]
        /\ lru' = SelectSeq(lru, LAMBDA t : t \in kept)

\* get_or_create of a tab that is there (whatever its kind), get_tab_mut and
\* the two decode steps.
TouchTab(id) ==
  /\ id \in Open
  /\ lru' = Touched(id)
  /\ UNCHANGED tabs

\* Mutant: a full ring drops its first token, prefix or not.
MutPushed(held, token, size) ==
  Append(IF Len(held) = size THEN Tail(held) ELSE held, token)

\* RingKvCache::append of one token: evict_one_token shifts the window.
Pushed(held, token, size) ==
  Append(IF Len(held) = size THEN RemoveAt(held, PrefixLen + 1) ELSE held, token)

AppendToTab(id, n) ==
  /\ id \in Open
  /\ LET tab == tabs[id]
         new == [i \in 1..n |-> tab.fed + i]
     IN /\ tab.fed + n <= IF tab.ring THEN MaxFed ELSE tab.size
        /\ tabs' = [tabs EXCEPT ![id].fed = @ + n,
             ![id].held = FoldLeft(LAMBDA held, k : Pushed(held, k, tab.size), @, new)]
  /\ lru' = Touched(id)

ClearTab(id) ==
  /\ id \in Open
  /\ tabs' = [tabs EXCEPT ![id].fed = 0, ![id].held = <<>>]
  /\ lru' = Touched(id)

CloseTab(id) ==
  /\ id \in Open
  /\ tabs' = [t \in Open \ {id} |-> tabs[t]]
  /\ lru' = Remove(lru, id)

TabNext ==
  \E id \in TabIds :
    \/ \E size \in Sizes, ring \in BOOLEAN : CreateTab(id, size, ring)
    \/ \E size \in Sizes : CreatePanics(id, size)
    \/ TouchTab(id) \/ ClearTab(id) \/ CloseTab(id)
    \/ \E n \in 1..2 : AppendToTab(id, n)

TabSpec == TabInit /\ [][TabNext]_tabVars

-----------------------------------------------------------------------------
(* lru_order lists every open tab once and no other: a tab it misses could   *)
(* never be evicted, and a stale entry would end the eviction loop's hope of *)
(* room (kv_cache.rs:891, 1044, 1055).                                     *)
LruListsTabs == IsInjective(lru) /\ ToSet(lru) = Open

(* What the tabs take exceeds max_memory_bytes by no more than the linear     *)
(* caches that ring tabs hold beside their rings: total_memory_bytes does not *)
(* count both (kv_cache.rs:1064), for all that 847 and 1062 say.             *)
WithinCap == Allocated(Open) <= CapTokens + Total({id \in Open : tabs[id].ring})

(* Making room, be it for a ring that then panics, evicts from the least     *)
(* recently used end only, and no tab more than needed (kv_cache.rs:889-895,  *)
(* 937-944).  A step that closes one tab and opens none may be close_tab.     *)
MakesRoom(gone, size) ==
  \A i, j \in 1..Len(lru) :
    /\ lru[j] \in gone /\ i < j => lru[i] \in gone
    /\ lru[i] \in gone /\ (\A k \in (i + 1)..Len(lru) : lru[k] \notin gone)
         => Total((Open \ gone) \cup {lru[i]}) + size > CapTokens

EvictsOldestOnly ==
  [][LET gone == Open \ DOMAIN tabs'
         made == DOMAIN tabs' \ Open
     IN /\ \A id \in made : MakesRoom(gone, tabs'[id].size)
        /\ Cardinality(gone) > 1 => \E size \in Sizes : MakesRoom(gone, size)]_tabVars

(* A ring tab holds its first PrefixLen tokens and the latest of the others, *)
(* in order, and a linear tab all of them (kv_cache.rs:421).                *)
WindowIsPrefixAndLast ==
  \A id \in Open :
    LET tab == tabs[id]
        dropped == IF tab.fed <= tab.size THEN 0 ELSE tab.fed - tab.size
    IN tab.held = [i \in 1..(tab.fed - dropped) |->
                     IF i <= PrefixLen THEN i ELSE i + dropped]

(* Tabs, their LRU order and the memory they take agree, and each tab holds   *)
(* the window its kind promises.                                           *)
TabsConsistent == LruListsTabs /\ WithinCap /\ WindowIsPrefixAndLast

(* That, and room for a tab is made at the expense of the oldest ones only.   *)
TabsKept == []TabsConsistent /\ EvictsOldestOnly
=============================================================================
