-------------------------------- MODULE Levels --------------------------------
(***************************************************************************)
(* OrderBook::Side (include/core/order_book.hpp, src/core/order_book.cpp): *)
(* one side's array of price levels, best price first, and the slots the   *)
(* levels' lists run through.                                              *)
(***************************************************************************)
EXTENDS BookTypes, SequencesExt

\* 0 stands for the code's -1; positions count from 1.
find_level(lv, p) ==
    IF \E i \in 1 .. Len(lv) : lv[i].price = p
    THEN CHOOSE i \in 1 .. Len(lv) : /\ lv[i].price = p
                                     /\ \A j \in 1 .. i - 1 : lv[j].price # p
    ELSE 0

\* Mutant: the new level goes behind all others.
InsertPosLast(sd, lv, p) == Len(lv) + 1

\* Where insert_level's while loop stops.
InsertPos(sd, lv, p) ==
    CHOOSE i \in 1 .. Len(lv) + 1 :
        /\ \A j \in 1 .. i - 1 : Better(sd, lv[j].price, p)
        /\ i <= Len(lv) => ~Better(sd, lv[i].price, p)

NewLevel(p) == [price |-> p, qty |-> 0, count |-> 0, head |-> NULL_IDX, tail |-> NULL_IDX]

insert_level(sd, lv, p) == InsertAt(lv, InsertPos(sd, lv, p), NewLevel(p))

remove_level(lv, i) == RemoveAt(lv, i)
=============================================================================
