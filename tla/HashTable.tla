----------------------------- MODULE HashTable -----------------------------
(***************************************************************************)
(* The linear-probing table of src/hash_table.c, as operators on a table.  *)
(*                                                                         *)
(* A key is a record with the client's port and ip.  The fields of an item *)
(* are only read when `used` is set, and `used` is set exactly when the    *)
(* value is not NULL, so that an unused item is NULL here.                 *)
(***************************************************************************)
EXTENDS FiniteSetsExt

CONSTANTS
  INITIAL_SIZE,  \* 16 in headers/hash_table.h
  NULL

ASSUME HashTableAssumption == INITIAL_SIZE \in Nat /\ INITIAL_SIZE >= 3

\* calloc(size, sizeof(item_t))
Empty(size) ==
  [size |-> size, length |-> 0, items |-> [i \in 0..(size - 1) |-> NULL]]

allocate_ht == Empty(INITIAL_SIZE)

ht_hash(table, key) == key.port % table.size

\* Mutant: the port alone identifies a client.
SamePort(item, key) == item.key.port = key.port

SameKey(item, key) == item.key = key

\* The steps after which the loop of ht_get and ht_put_nolock may stop.  The
\* loop does not end when there is none.
Stops(table, key) ==
  {d \in 0..(table.size - 1) :
     LET item == table.items[(ht_hash(table, key) + d) % table.size]
     IN  item = NULL \/ SameKey(item, key)}

Probe(table, key) ==
  (ht_hash(table, key) + Min(Stops(table, key))) % table.size

ht_get(table, key) ==
  LET item == table.items[Probe(table, key)]
  IN  IF item = NULL THEN NULL ELSE item.value

ht_put_nolock(table, key, value) ==
  LET old == ht_get(table, key)
  IN  [table EXCEPT
         !.items[Probe(table, key)] = IF value = NULL THEN NULL
                                      ELSE [key |-> key, value |-> value],
         !.length = IF old = NULL /\ value # NULL THEN @ + 1
                    ELSE IF old # NULL /\ value = NULL THEN @ - 1 ELSE @]

\* One round of the loop of ht_resize: item i of the old array moves.
Move(old, i, table) ==
  IF old[i] = NULL THEN table
  ELSE ht_put_nolock(table, old[i].key, old[i].value)

ht_resize(table, new_size) ==
  LET moved[i \in 0..table.size] ==
        IF i = 0 THEN Empty(new_size) ELSE Move(table.items, i - 1, moved[i - 1])
  IN  moved[table.size]

\* Mutant: the table grows only when it is full.
FullWhenAll(table) == table.length >= table.size

HalfFull(table) == table.length > table.size \div 2

ht_put(table, key, value) ==
  ht_put_nolock(IF HalfFull(table) THEN ht_resize(table, 2 * table.size) ELSE table,
                key, value)

\* Mutant: the hole is left in the chain.
RemoveKeepsHole(table, key) == ht_put(table, key, NULL)

ht_remove(table, key) ==
  LET t == ht_put(table, key, NULL)
  IN  IF ht_get(table, key) = NULL THEN t ELSE ht_resize(t, t.size)
=============================================================================
