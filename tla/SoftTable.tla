------------------------------ MODULE SoftTable ------------------------------
(***************************************************************************)
(* What the tables with soft deletes promise (users and virtual_machines   *)
(* of backend/migrations/001_create_tables.sql, with the repositories over *)
(* them): a row is found by its unique key; a key is given away once, for  *)
(* ever; a live row may be written; a deleted row never changes again.     *)
(***************************************************************************)
CONSTANTS
    Keys,       \* values of the unique column
    Columns,    \* values of the other columns
    NoRow       \* no row has the key

VARIABLE table  \* per key its row: is it live, and its columns

Row(live, c) == [live |-> live, columns |-> c]
Live(k)      == table[k] # NoRow /\ table[k].live

Init == table = [k \in Keys |-> NoRow]

Insert(k, c) ==
    /\ table[k] = NoRow
    /\ table' = [table EXCEPT ![k] = Row(TRUE, c)]

Write(k, c) ==
    /\ Live(k)
    /\ table' = [table EXCEPT ![k] = Row(TRUE, c)]

Delete(k) ==
    /\ Live(k)
    /\ table' = [table EXCEPT ![k] = Row(FALSE, table[k].columns)]

Next == \E k \in Keys : \/ \E c \in Columns : Insert(k, c) \/ Write(k, c)
                        \/ Delete(k)

Spec == Init /\ [][Next]_table
=============================================================================
