------------------------------- MODULE BookStore -------------------------------
(***************************************************************************)
(* The storage of one OrderBook (src/core/order_book.cpp): the slot pool,  *)
(* the order index and the ids kept in the slots, called the way           *)
(* add_order, cancel_order and try_match call them.  OrderBook uses the    *)
(* pool as "some free slot" and the index as a map; here both are the code *)
(* behind that, together.  Callers may reuse the id of a resting order.    *)
(***************************************************************************)
EXTENDS SlotPool, OrderIndex

VARIABLE ids    \* SlotPool::ids, the order in each slot

storeVars == <<vars, indexVars, ids>>

ASSUME StoreAssumption == kMaxOrders < kTableSize /\ Values = Slots

-----------------------------------------------------------------------------
\* The end of add_order: a slot, and an entry that leads to it.
RestOrder(id) ==
    /\ pc = "idle"
    /\ alloc
    /\ ids' = [ids EXCEPT ![free_head] = id]
    /\ insert(id, free_head)

RejectNoSlot == pc = "idle" /\ alloc_fails /\ UNCHANGED <<indexVars, ids>>

\* Mutant: the entry stays.
cancel_orderKeepsEntry(id) ==
    /\ pc = "idle"
    /\ lookup(id) # kEmpty
    /\ free_slot(lookup(id))
    /\ UNCHANGED <<indexVars, ids>>

\* cancel_order, and modify_order to quantity 0: remove_order_from_level frees
\* the slot and the entry is removed.
cancel_order(id) ==
    /\ pc = "idle"
    /\ lookup(id) # kEmpty
    /\ free_slot(lookup(id))
    /\ remove(id)
    /\ UNCHANGED ids

\* try_match has filled the order in slot s: the entry goes by the id found in
\* the slot, whichever order that entry leads to.
Dequeue(s) ==
    /\ pc = "idle"
    /\ remove(ids[s])
    /\ free_slot(s)
    /\ UNCHANGED ids

ShiftEntries == Shift /\ UNCHANGED <<vars, ids>>

-----------------------------------------------------------------------------
StoreInit == Init /\ IndexInit /\ ids = [s \in Slots |-> kEmpty]

StoreNext ==
    \/ \E id \in Keys : RestOrder(id) \/ cancel_order(id)
    \/ RejectNoSlot
    \/ \E s \in live : Dequeue(s)
    \/ ShiftEntries

\* The loop of remove runs on.
StoreSpec == StoreInit /\ [][StoreNext]_storeVars /\ WF_storeVars(ShiftEntries)

-----------------------------------------------------------------------------
(* Properties *)

\* An entry leads to a slot that is in use and holds the order with that id,
\* however slots and ids are reused: cancel_order and modify_order act on the
\* slot they find without looking at the id in it.
EntriesLive ==
    pc = "idle" => \A id \in Keys : lookup(id) # kEmpty =>
                       lookup(id) \in live /\ ids[lookup(id)] = id
=============================================================================
