------------------------------ MODULE OrderIndex ------------------------------
(***************************************************************************)
(* OrderBook::OrderIndex (src/core/order_book.cpp): order id -> slot and   *)
(* side, an open-addressed table with linear probing.  remove() closes the *)
(* hole it makes by taking every following entry out and probing for its   *)
(* place again, one entry per step here.                                   *)
(*                                                                         *)
(* The hash function is chosen at the start and kept, so that one run      *)
(* covers every way the keys can collide.  BookStore is the caller.        *)
(***************************************************************************)
EXTENDS Integers, FiniteSets, FiniteSetsExt

CONSTANTS
    Keys,         \* order ids
    Values,       \* slot and side of an entry
    kTableSize,   \* cells of the table, kMaxOrders * 2
    Hashes,       \* hash functions to consider
    kEmpty        \* an empty cell

Cells == 0 .. kTableSize - 1
Entry == [key : Keys, value : Values]

ASSUME IndexAssumption ==
    /\ kTableSize \in Nat \ {0}
    /\ Hashes \subseteq [Keys -> Cells]
    /\ kEmpty \notin Entry \cup Values

VARIABLES
    hash,    \* the hash function
    table,   \* the cells
    pc, j,   \* inside remove's loop, and its cursor
    map      \* history: the value each key should have

indexVars == <<hash, table, pc, j, map>>

\* The cells of a key in probing order, and where probing stops.
At(id, d) == (hash[id] + d) % kTableSize

Stops(t, id, d) == t[At(id, d)] = kEmpty \/ t[At(id, d)].key = id

ProbeLength(t, id) ==
    CHOOSE d \in Cells : Stops(t, id, d) /\ \A e \in 0 .. d - 1 : ~Stops(t, id, e)

probe(t, id) == At(id, ProbeLength(t, id))

lookup(id) == LET c == table[probe(table, id)]
              IN  IF c = kEmpty THEN kEmpty ELSE c.value

Known == {id \in Keys : map[id] # kEmpty}

-----------------------------------------------------------------------------
\* insert overwrites the entry of a key that is there.
insert(id, v) ==
    /\ pc = "idle"
    /\ table' = [table EXCEPT ![probe(table, id)] = [key |-> id, value |-> v]]
    /\ map' = [map EXCEPT ![id] = v]
    /\ UNCHANGED <<hash, pc, j>>

\* Mutant: the hole is left open.
removeLeavesHole(id) ==
    /\ pc = "idle"
    /\ table' = [table EXCEPT ![probe(table, id)] = kEmpty]
    /\ map' = [map EXCEPT ![id] = kEmpty]
    /\ UNCHANGED <<hash, pc, j>>

remove(id) ==
    LET h == probe(table, id)
    IN  /\ pc = "idle"
        /\ IF table[h] = kEmpty
           THEN UNCHANGED <<table, pc, j, map>>
           ELSE /\ table' = [table EXCEPT ![h] = kEmpty]
                /\ map' = [map EXCEPT ![id] = kEmpty]
                /\ j' = (h + 1) % kTableSize
                /\ pc' = "shift"
        /\ UNCHANGED hash

\* Mutants of the loop: the entry stays where it is; the cursor does not
\* advance.
ReinsertSkips ==
    /\ pc = "shift" /\ table[j] # kEmpty
    /\ j' = (j + 1) % kTableSize
    /\ UNCHANGED <<hash, table, pc, map>>

ReinsertStuck ==
    LET t == [table EXCEPT ![j] = kEmpty]
    IN  /\ pc = "shift" /\ table[j] # kEmpty
        /\ table' = [t EXCEPT ![probe(t, table[j].key)] = table[j]]
        /\ UNCHANGED <<hash, pc, j, map>>

\* One pass of remove's loop.
Reinsert ==
    LET entry == table[j]
        t == [table EXCEPT ![j] = kEmpty]
    IN  /\ pc = "shift"
        /\ table[j] # kEmpty
        /\ table' = [t EXCEPT ![probe(t, entry.key)] = entry]
        /\ j' = (j + 1) % kTableSize
        /\ UNCHANGED <<hash, pc, map>>

RemoveReturns ==
    /\ pc = "shift"
    /\ table[j] = kEmpty
    /\ pc' = "idle"
    /\ j' = 0
    /\ UNCHANGED <<hash, table, map>>

-----------------------------------------------------------------------------
IndexInit ==
    /\ hash \in Hashes
    /\ table = [c \in Cells |-> kEmpty]
    /\ pc = "idle"
    /\ j = 0
    /\ map = [id \in Keys |-> kEmpty]

\* The loop of remove.
Shift == Reinsert \/ RemoveReturns

-----------------------------------------------------------------------------
(* Properties *)

IndexTypeOK ==
    /\ hash \in Hashes
    /\ table \in [Cells -> Entry \cup {kEmpty}]
    /\ pc \in {"idle", "shift"}
    /\ j \in Cells
    /\ map \in [Keys -> Values \cup {kEmpty}]

\* The table is the map: after any sequence of colliding insertions and
\* removals lookup finds the last value inserted for every key, and nothing
\* for a key that was removed.
LookupMatches == pc = "idle" => \A id \in Keys : lookup(id) = map[id]

\* "every key is as close as possible to its natural hash slot"
\* (docs/design.md): no empty cell lies between a key's hash cell and its
\* entry, and each key has one entry.  Also in the middle of a removal probing
\* has a cell to stop at: the while loop of probe has no other exit.
Compact ==
    /\ IndexTypeOK
    /\ \A id \in Keys : \E d \in Cells : Stops(table, id, d)
    /\ pc = "idle" =>
          /\ \A c \in Cells : table[c] # kEmpty =>
                \E d \in Cells : /\ At(table[c].key, d) = c
                                 /\ \A e \in 0 .. d : table[At(table[c].key, e)] # kEmpty
          /\ Cardinality({c \in Cells : table[c] # kEmpty}) = Cardinality(Known)

\* remove's loop comes to an empty cell.
RemoveTerminates == (pc = "shift") ~> (pc = "idle")
=============================================================================
