---------------------------- MODULE SlotPoolProofs ----------------------------
(***************************************************************************)
(* For a pool of any size: the chain through free_nexts is exactly the     *)
(* stack of the slots nobody holds, and used counts the ones held.         *)
(***************************************************************************)
EXTENDS SlotPool, SequenceTheorems, FiniteSetTheorems, TLAPS

\* What has to hold together for any of it to be inductive: the links are
\* right only for slots that are free, so the chain may not meet a held slot.
PoolInv == TypeOK /\ ChainIsStack /\ FreeIsComplement

\* init() links all slots in index order.
LEMMA InitPoolInv == Init => PoolInv
<1> SUFFICES ASSUME Init PROVE PoolInv
  OBVIOUS
<1> USE PoolAssumption DEF Init, Slots
<1>1. stack \in Seq(Slots) /\ Len(stack) = kMaxOrders /\ stack # <<>>
  OBVIOUS
<1>2. \A k \in 1 .. kMaxOrders : stack[k] = k - 1
  OBVIOUS
<1>3. TypeOK
  BY <1>1 DEF TypeOK
<1>4. ChainIsStack
  BY <1>1, <1>2 DEF ChainIsStack
<1>5. FreeIsComplement
  <2>1. \A s \in Slots : s + 1 \in 1 .. kMaxOrders /\ stack[s + 1] = s
    BY <1>2
  <2>2. {stack[k] : k \in 1 .. kMaxOrders} = Slots
    <3>1. \A k \in 1 .. kMaxOrders : stack[k] \in Slots
      BY <1>2
    <3>2. \A s \in Slots : \E k \in 1 .. kMaxOrders : stack[k] = s
      BY <2>1
    <3> HIDE DEF Init, Slots
    <3> QED BY <3>1, <3>2
  <2>3. \A i, j \in 1 .. kMaxOrders : stack[i] = stack[j] => i = j
    BY <1>2
  <2>4. Slots \ live = Slots
    OBVIOUS
  <2> HIDE DEF Init, Slots
  <2> QED BY <1>1, <2>2, <2>3, <2>4 DEF FreeIsComplement
<1> QED BY <1>3, <1>4, <1>5 DEF PoolInv

\* alloc pops the stack.
LEMMA AllocPoolInv == PoolInv /\ alloc => PoolInv' /\ free_head \in Slots \ live
<1> SUFFICES ASSUME PoolInv, alloc PROVE PoolInv' /\ free_head \in Slots \ live
  OBVIOUS
<1> USE DEF PoolInv
<1>1. stack # <<>> /\ stack \in Seq(Slots) /\ Len(stack) \in Nat /\ Len(stack) >= 1
  BY EmptySeq DEF alloc, ChainIsStack, TypeOK
<1>2. free_head = stack[1] /\ free_head \in Slots \ live
  BY <1>1 DEF ChainIsStack, FreeIsComplement
<1>3. /\ stack' \in Seq(Slots)
      /\ Len(stack') = Len(stack) - 1
      /\ \A k \in 1 .. Len(stack) - 1 : stack'[k] = stack[k + 1]
  BY <1>1, HeadTailProperties DEF alloc
<1>4. TypeOK'
  BY <1>2, <1>3 DEF alloc, TypeOK
<1>5. ChainIsStack'
  <2>1. free_head' = IF Len(stack) = 1 THEN NULL_IDX ELSE stack[2]
    <3>1. 1 \in 1 .. Len(stack) /\ 1 + 1 = 2
      BY <1>1
    <3>2. free_nexts[stack[1]] = IF 1 = Len(stack) THEN NULL_IDX ELSE stack[2]
      BY <3>1 DEF ChainIsStack
    <3> QED BY <1>2, <3>2 DEF alloc
  <2>2. stack' = <<>> <=> Len(stack) = 1
    BY <1>1, <1>3, EmptySeq
  <2>3. \A k \in 1 .. Len(stack') :
           free_nexts'[stack'[k]] = IF k = Len(stack') THEN NULL_IDX ELSE stack'[k + 1]
    <3> TAKE k \in 1 .. Len(stack')
    <3>1. k + 1 \in 1 .. Len(stack) /\ k \in 1 .. Len(stack) - 1
      BY <1>1, <1>3
    <3>2. free_nexts[stack[k + 1]] = IF k + 1 = Len(stack) THEN NULL_IDX ELSE stack[k + 2]
      BY <3>1, <1>1 DEF ChainIsStack
    <3>3. k + 1 # Len(stack) => stack'[k + 1] = stack[k + 2]
      BY <3>1, <1>1, <1>3
    <3>4. stack'[k] = stack[k + 1] /\ free_nexts' = free_nexts
      BY <3>1, <1>3 DEF alloc
    <3>5. k = Len(stack') <=> k + 1 = Len(stack)
      BY <3>1, <1>1, <1>3
    <3> QED BY <3>2, <3>3, <3>4, <3>5
  <2> QED BY <2>1, <2>2, <2>3, <1>1, <1>3 DEF ChainIsStack
<1>6. FreeIsComplement'
  <2>1. \A i, j \in 1 .. Len(stack') : stack'[i] = stack'[j] => i = j
    BY <1>1, <1>3 DEF FreeIsComplement
  <2>2. {stack'[k] : k \in 1 .. Len(stack')} = (Slots \ live) \ {free_head}
    <3>1. ASSUME NEW k \in 1 .. Len(stack')
          PROVE  stack'[k] \in (Slots \ live) \ {free_head}
      <4>1. k + 1 \in 1 .. Len(stack) /\ k + 1 # 1 /\ stack'[k] = stack[k + 1]
        BY <3>1, <1>1, <1>3
      <4> QED BY <4>1, <1>1, <1>2 DEF FreeIsComplement
    <3>2. ASSUME NEW s \in (Slots \ live) \ {free_head}
          PROVE  \E k \in 1 .. Len(stack') : stack'[k] = s
      <4>1. PICK i \in 1 .. Len(stack) : stack[i] = s
        BY <3>2 DEF FreeIsComplement
      <4>2. i # 1 /\ i - 1 \in 1 .. Len(stack') /\ stack'[i - 1] = stack[i]
        BY <4>1, <1>1, <1>2, <1>3
      <4> QED BY <4>1, <4>2
    <3> QED BY <3>1, <3>2
  <2> QED BY <2>1, <2>2, <1>2 DEF FreeIsComplement, alloc
<1> QED BY <1>2, <1>4, <1>5, <1>6

\* free_slot pushes on the stack.
LEMMA FreePoolInv ==
  ASSUME PoolInv, NEW idx \in live, free_slot(idx)
  PROVE  PoolInv'
<1> USE DEF PoolInv
<1>1. idx \in Slots /\ stack \in Seq(Slots) /\ Len(stack) \in Nat
  BY DEF TypeOK
<1>2. /\ stack' \in Seq(Slots)
      /\ Len(stack') = Len(stack) + 1
      /\ stack'[1] = idx
      /\ \A k \in 2 .. Len(stack) + 1 : stack'[k] = stack[k - 1]
  <2>1. <<idx>> \in Seq(Slots) /\ Len(<<idx>>) = 1 /\ <<idx>>[1] = idx
    BY <1>1
  <2>2. /\ stack' \in Seq(Slots) /\ Len(stack') = 1 + Len(stack)
        /\ \A k \in 1 .. 1 + Len(stack) :
              stack'[k] = IF k <= 1 THEN <<idx>>[k] ELSE stack[k - 1]
    BY <1>1, <2>1, ConcatProperties DEF free_slot
  <2> QED BY <1>1, <2>1, <2>2
<1>3. \A k \in 1 .. Len(stack) : stack[k] # idx
  BY DEF FreeIsComplement
<1>4. TypeOK'
  BY <1>1, <1>2 DEF free_slot, TypeOK
<1>5. ChainIsStack'
  <2>1. stack' # <<>> /\ free_head' = stack'[1]
    BY <1>1, <1>2, EmptySeq DEF free_slot
  <2>2. free_nexts'[idx] = IF Len(stack') = 1 THEN NULL_IDX ELSE stack'[2]
    <3>1. stack = <<>> <=> Len(stack) = 0
      BY <1>1, EmptySeq
    <3> QED BY <3>1, <1>1, <1>2 DEF free_slot, ChainIsStack, TypeOK
  <2>3. ASSUME NEW k \in 2 .. Len(stack')
        PROVE  free_nexts'[stack'[k]] = IF k = Len(stack') THEN NULL_IDX ELSE stack'[k + 1]
    <3>1. k - 1 \in 1 .. Len(stack) /\ stack'[k] = stack[k - 1]
      BY <1>1, <1>2, <2>3
    <3>2. free_nexts'[stack'[k]] = free_nexts[stack[k - 1]]
      BY <3>1, <1>1, <1>3 DEF free_slot, TypeOK
    <3>3. k # Len(stack') => stack'[k + 1] = stack[k]
      BY <1>1, <1>2, <2>3
    <3>4. free_nexts[stack[k - 1]] = IF k - 1 = Len(stack) THEN NULL_IDX ELSE stack[k]
      BY <3>1, <1>1 DEF ChainIsStack
    <3> QED BY <3>2, <3>3, <3>4, <1>1, <1>2
  <2> QED BY <2>1, <2>2, <2>3, <1>1, <1>2 DEF ChainIsStack
<1>6. FreeIsComplement'
  <2>1. \A i, j \in 1 .. Len(stack') : stack'[i] = stack'[j] => i = j
    <3>1. \A i, j \in 1 .. Len(stack) : stack[i] = stack[j] => i = j
      BY DEF FreeIsComplement
    <3>2. \A i \in 1 .. Len(stack') :
             i = 1 \/ (i - 1 \in 1 .. Len(stack) /\ stack'[i] = stack[i - 1])
      BY <1>1, <1>2
    <3> TAKE i, j \in 1 .. Len(stack')
    <3> HAVE stack'[i] = stack'[j]
    <3>3. i = 1 <=> j = 1
      BY <1>2, <1>3, <3>2
    <3>4. i # 1 => i - 1 = j - 1
      BY <3>1, <3>2, <3>3
    <3> QED BY <3>3, <3>4, <1>1, <1>2
  <2>2. {stack'[k] : k \in 1 .. Len(stack')} = (Slots \ live) \cup {idx}
    <3>1. ASSUME NEW k \in 1 .. Len(stack')
          PROVE  stack'[k] \in (Slots \ live) \cup {idx}
      <4>1. k = 1 \/ (k - 1 \in 1 .. Len(stack) /\ stack'[k] = stack[k - 1])
        BY <3>1, <1>1, <1>2
      <4> QED BY <4>1, <1>2 DEF FreeIsComplement
    <3>2. ASSUME NEW s \in Slots \ live
          PROVE  \E k \in 1 .. Len(stack') : stack'[k] = s
      <4>1. PICK i \in 1 .. Len(stack) : stack[i] = s
        BY <3>2 DEF FreeIsComplement
      <4>2. i + 1 \in 1 .. Len(stack') /\ stack'[i + 1] = stack[i]
        BY <1>1, <1>2
      <4> QED BY <4>1, <4>2
    <3>3. 1 \in 1 .. Len(stack') /\ stack'[1] = idx
      BY <1>1, <1>2
    <3> QED BY <3>1, <3>2, <3>3
  <2> QED BY <2>1, <2>2, <1>1 DEF FreeIsComplement, free_slot, TypeOK
<1> QED BY <1>4, <1>5, <1>6

\* Whatever the order in which slots are taken and given back, the free list
\* is intact: it ends, meets every free slot once and no held one.  So alloc
\* returns a slot nobody holds, or NULL_IDX when there is none.
THEOREM FreeListIntact == Spec => [](TypeOK /\ ChainIsStack /\ FreeIsComplement)
<1>1. PoolInv /\ [Next]_vars => PoolInv'
  <2>1. PoolInv /\ UNCHANGED vars => PoolInv'
    BY DEF PoolInv, TypeOK, ChainIsStack, FreeIsComplement, vars
  <2> QED BY <2>1, AllocPoolInv, FreePoolInv DEF Next, alloc_fails
<1>2. PoolInv => TypeOK /\ ChainIsStack /\ FreeIsComplement
  BY DEF PoolInv
<1> QED BY InitPoolInv, <1>1, <1>2, PTL DEF Spec

\* A full pool is one with nothing on the stack.
LEMMA UsedAtLimit ==
  ASSUME PoolInv, used = Cardinality(live)
  PROVE  /\ UsedIsCount
         /\ IsFiniteSet(live)
         /\ Cardinality(live) \in Nat
<1>1. IsFiniteSet(Slots) /\ Cardinality(Slots) = kMaxOrders
  BY FS_Interval, PoolAssumption DEF Slots
<1>2. live \subseteq Slots /\ stack \in Seq(Slots)
  BY DEF PoolInv, TypeOK
<1>3. IsFiniteSet(live) /\ Cardinality(live) \in Nat
  BY <1>1, <1>2, FS_Subset, FS_CardinalityType
<1>4. free_head = NULL_IDX <=> stack = <<>>
  <2>1. stack # <<>> => 1 \in 1 .. Len(stack) /\ stack[1] \in Slots
    BY <1>2, EmptySeq
  <2> QED BY <2>1, PoolAssumption DEF PoolInv, ChainIsStack
<1>5. stack = <<>> <=> live = Slots
  <2>1. stack = <<>> <=> {stack[k] : k \in 1 .. Len(stack)} = {}
    <3>1. stack # <<>> => 1 \in 1 .. Len(stack)
      BY <1>2, EmptySeq
    <3>2. stack = <<>> => 1 .. Len(stack) = {}
      BY <1>2, EmptySeq
    <3> QED BY <3>1, <3>2
  <2> QED BY <2>1, <1>2 DEF PoolInv, FreeIsComplement
<1>6. live = Slots <=> Cardinality(live) = kMaxOrders
  BY <1>1, <1>2, FS_Subset
<1> QED BY <1>3, <1>4, <1>5, <1>6 DEF UsedIsCount

\* used is the number of slots handed out, and alloc refuses exactly when
\* every slot is.
THEOREM UsedCounts == Spec => []UsedIsCount
<1> DEFINE CountInv == PoolInv /\ used = Cardinality(live)
<1>1. Init => CountInv
  BY InitPoolInv, FS_EmptySet DEF Init
<1>2. CountInv /\ [Next]_vars => CountInv'
  <2> SUFFICES ASSUME CountInv, [Next]_vars PROVE CountInv'
    OBVIOUS
  <2>1. IsFiniteSet(live) /\ Cardinality(live) \in Nat
    BY UsedAtLimit
  <2>2. CASE alloc
    <3>1. free_head \notin live /\ PoolInv'
      BY <2>2, AllocPoolInv
    <3>2. Cardinality(live \cup {free_head}) = Cardinality(live) + 1
      BY <2>1, <3>1, FS_AddElement
    <3> QED BY <2>2, <3>1, <3>2 DEF alloc
  <2>3. ASSUME NEW idx \in live, free_slot(idx) PROVE CountInv'
    <3>1. Cardinality(live \ {idx}) = Cardinality(live) - 1
      BY <2>1, FS_RemoveElement
    <3> QED BY <2>3, <3>1, FreePoolInv DEF free_slot
  <2>4. CASE UNCHANGED vars
    BY <2>4 DEF PoolInv, TypeOK, ChainIsStack, FreeIsComplement, vars
  <2> QED BY <2>2, <2>3, <2>4 DEF Next, alloc_fails
<1>3. CountInv => UsedIsCount
  BY UsedAtLimit
<1> QED BY <1>1, <1>2, <1>3, PTL DEF Spec

\* For a pool of any size the free list is exact.
THEOREM FreeList == Spec => []FreeListExact
<1>1. TypeOK /\ ChainIsStack /\ FreeIsComplement /\ UsedIsCount => FreeListExact
  BY DEF FreeListExact
<1> QED BY <1>1, FreeListIntact, UsedCounts, PTL
=============================================================================
