------------------------------- MODULE SlotPool -------------------------------
(***************************************************************************)
(* OrderBook::SlotPool (src/core/order_book.cpp): the free list of order   *)
(* slots, a stack threaded through free_nexts.  The callers free only the  *)
(* slots they hold (remove_order_from_level and try_match free a slot that *)
(* is linked in a level).                                                  *)
(***************************************************************************)
EXTENDS Integers, Sequences, FiniteSets

CONSTANTS
    kMaxOrders,   \* slots in the pool
    NULL_IDX      \* UINT32_MAX

Slots == 0 .. kMaxOrders - 1

ASSUME PoolAssumption == kMaxOrders \in Nat \ {0} /\ NULL_IDX \notin Slots

VARIABLES
    free_nexts, free_head, used,
    live,    \* history: the slots handed out and not freed
    stack    \* history: the free slots, the next one to hand out first

vars == <<free_nexts, free_head, used, live, stack>>

-----------------------------------------------------------------------------
Init ==
    /\ free_nexts = [i \in Slots |-> IF i < kMaxOrders - 1 THEN i + 1 ELSE NULL_IDX]
    /\ free_head = 0
    /\ used = 0
    /\ live = {}
    /\ stack = [k \in 1 .. kMaxOrders |-> k - 1]

alloc ==
    /\ free_head # NULL_IDX
    /\ free_head' = free_nexts[free_head]
    /\ used' = used + 1
    /\ live' = live \cup {free_head}
    /\ stack' = Tail(stack)
    /\ UNCHANGED free_nexts

\* The pool is exhausted: alloc returns NULL_IDX.
alloc_fails == free_head = NULL_IDX /\ UNCHANGED vars

\* Mutant: free_head is set first, so that the slot links to itself.
free_slotSwapped(idx) ==
    /\ free_nexts' = [free_nexts EXCEPT ![idx] = idx]
    /\ free_head' = idx
    /\ used' = used - 1
    /\ live' = live \ {idx}
    /\ stack' = <<idx>> \o stack

free_slot(idx) ==
    /\ free_nexts' = [free_nexts EXCEPT ![idx] = free_head]
    /\ free_head' = idx
    /\ used' = used - 1
    /\ live' = live \ {idx}
    /\ stack' = <<idx>> \o stack

Next == alloc \/ alloc_fails \/ \E idx \in live : free_slot(idx)

Spec == Init /\ [][Next]_vars

-----------------------------------------------------------------------------
(* Properties *)

TypeOK ==
    /\ free_nexts \in [Slots -> Slots \cup {NULL_IDX}]
    /\ free_head \in Slots \cup {NULL_IDX}
    /\ used \in Int
    /\ live \subseteq Slots
    /\ stack \in Seq(Slots)

\* The chain from free_head through free_nexts is the stack of free slots and
\* ends: stale free_nexts of slots handed out are never followed.
ChainIsStack ==
    /\ free_head = IF stack = <<>> THEN NULL_IDX ELSE stack[1]
    /\ \A k \in 1 .. Len(stack) :
          free_nexts[stack[k]] = IF k = Len(stack) THEN NULL_IDX ELSE stack[k + 1]

\* No slot is free twice, none is both free and handed out, none is lost.
FreeIsComplement ==
    /\ \A i, j \in 1 .. Len(stack) : stack[i] = stack[j] => i = j
    /\ {stack[k] : k \in 1 .. Len(stack)} = Slots \ live

\* used counts the slots handed out, and alloc refuses only when that is all.
UsedIsCount == used = Cardinality(live) /\ (free_head = NULL_IDX <=> used = kMaxOrders)

\* The free list is exact, however slots are allocated and freed: a chain over
\* the slots not handed out, each once, and a true count of the others.
FreeListExact == TypeOK /\ ChainIsStack /\ FreeIsComplement /\ UsedIsCount
=============================================================================
