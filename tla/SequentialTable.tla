-------------------------- MODULE SequentialTable --------------------------
(***************************************************************************)
(* The table of src/hash_table.c used by one thread at a time: every call  *)
(* is a step.                                                              *)
(***************************************************************************)
EXTENDS HashTable, FiniteSets

CONSTANTS
  Keys,    \* addresses: records with a port and an ip
  Values,  \* the clients
  MaxSize  \* bound on the capacity

\* A port is a number, and a null pointer points to no client and no item.
ASSUME TableAssumption ==
  /\ \A k \in Keys : k.port \in Nat
  /\ NULL \notin Values
  /\ NULL \notin [key : Keys, value : Values]

VARIABLE table

Init == table = allocate_ht

\* The code's callers never put NULL; ht_remove does.
Put(k, v) ==
  /\ HalfFull(table) => 2 * table.size <= MaxSize
  /\ table' = ht_put(table, k, v)

Remove(k) ==
  /\ HalfFull(table) => 2 * table.size <= MaxSize
  /\ table' = ht_remove(table, k)

Next == \E k \in Keys : Remove(k) \/ \E v \in Values : Put(k, v)

Spec == Init /\ [][Next]_table

-----------------------------------------------------------------------------
(* Properties *)

Items == {i \in 0..(table.size - 1) : table.items[i] # NULL}

\* Every loop over the items ends: at least one item is unused.
ProbesEnd == \E i \in 0..(table.size - 1) : table.items[i] = NULL

\* An address occurs once, and an item is where its own probe finds it: no
\* hole separates it from its hash.
ItemsAreReachable == \A i \in Items : Probe(table, table.items[i].key) = i

D == INSTANCE Dictionary WITH entries <- [k \in Keys |-> ht_get(table, k)]

\* ht_put, ht_remove and ht_get behave like a map from addresses to clients,
\* whatever collides and however often the table is rehashed.
ImplementsDictionary == D!Spec
=============================================================================
