------------------------------ MODULE MCBookStore ------------------------------
EXTENDS BookStore

\* Turning the whole table changes nothing, so one key's hash can be fixed.
AllHashes == LET k == CHOOSE k \in Keys : TRUE
             IN  {h \in [Keys -> Cells] : h[k] = kTableSize - 1}
=============================================================================
