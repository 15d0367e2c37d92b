-------------------------- MODULE ConcurrentTable --------------------------
(***************************************************************************)
(* The table of src/hash_table.c used by several threads: the receivers    *)
(* call ht_get and ht_put, the loop of main calls ht_remove.  A call is    *)
(* several steps, so that what it does without the lock is seen: ht_get    *)
(* reads the value after it gave the lock back, and ht_remove rehashes     *)
(* without it.                                                             *)
(*                                                                         *)
(* The client of an address is represented by the address: each address    *)
(* has one client, and NULL stands for none.                               *)
(***************************************************************************)
EXTENDS HashTable, FiniteSets

CONSTANTS
  Keys,         \* addresses
  Receivers,    \* threads that call ht_get and ht_put
  Main,         \* the thread that calls ht_remove
  Modes,        \* the values of config.sequential
  Removals,     \* bound on the calls of ht_remove
  ResizeFails,  \* whether the calloc of ht_resize may fail
  MaxSize       \* bound on the capacity

Threads == Receivers \cup {Main}

VARIABLES
  sequential,  \* whether main makes all the calls
  table,
  lock,        \* the thread that holds ht_t.lock, or NULL
  calls,       \* the call of each thread
  registered,  \* the addresses put and not removed
  removals,    \* calls of ht_remove so far
  stale        \* ghost: threads whose index was found before the last change

vars == <<sequential, table, lock, calls, registered, removals, stale>>

\* The threads that call ht_get and ht_put.
Callers == IF sequential THEN {Main} ELSE Receivers

NoCall == [pc |-> "none"]

Init ==
  /\ sequential \in Modes
  /\ table = allocate_ht
  /\ lock = NULL
  /\ calls = [t \in Threads |-> NoCall]
  /\ registered = {}
  /\ removals = 0
  /\ stale = {}

\* A mutant: the lock is not taken.
NoAcquire(t) == UNCHANGED lock

\* The array is there.  A thread that uses it after a failed calloc follows
\* the null pointer, which ends the program.
Allocated == table.items # <<>>

\* The loop over the items ends.  It does not when a rehash that is disturbed
\* has filled the array: the thread then loops for good.
LoopEnds(k) == Allocated /\ Stops(table, k) # {}

\* An array is replaced or an item removed while a value is yet to be read.
Change == stale' = stale \cup {t \in Threads : calls[t].pc = "read"}

Acquire(t) == lock = NULL /\ lock' = t
Release(t) == lock' = IF lock = t THEN NULL ELSE lock
Goto(t, pc) == calls' = [calls EXCEPT ![t].pc = pc]
-----------------------------------------------------------------------------
(* ht_get *)

GetStart(t, k) ==
  /\ calls[t].pc = "none"
  /\ Acquire(t)
  /\ calls' = [calls EXCEPT ![t] = [pc |-> "probe", key |-> k]]
  /\ UNCHANGED <<table, registered, removals, stale>>

\* The loop, and the release of the lock.
GetProbe(t) ==
  /\ calls[t].pc = "probe"
  /\ LoopEnds(calls[t].key)
  /\ LET k == calls[t].key
         index == Probe(table, k)
     IN calls' = [calls EXCEPT ![t] =
                    IF table.items[index] = NULL
                    THEN [pc |-> "got", key |-> k, value |-> NULL, fresh |-> FALSE]
                    ELSE [pc |-> "read", key |-> k, index |-> index]]
  /\ Release(t)
  /\ UNCHANGED <<table, registered, removals, stale>>


\* return table->items[index].value, by now of another array perhaps.
GetRead(t) ==
  /\ calls[t].pc = "read"
  /\ Allocated
  /\ LET item == table.items[calls[t].index]
     IN calls' = [calls EXCEPT ![t] =
                    [pc |-> "got", key |-> calls[t].key,
                     value |-> IF item = NULL THEN NULL ELSE item.value,
                     fresh |-> t \notin stale]]
  /\ stale' = stale \ {t}
  /\ UNCHANGED <<table, lock, registered, removals>>

GetEnd(t) ==
  /\ calls[t].pc = "got"
  /\ calls' = [calls EXCEPT ![t] = NoCall]
  /\ UNCHANGED <<table, lock, registered, removals, stale>>
-----------------------------------------------------------------------------
(* ht_put, with NULL for a removal *)

PutStart(t, k, value) ==
  /\ calls[t].pc = "none"
  /\ Acquire(t)
  /\ calls' = [calls EXCEPT ![t] = [pc |-> "grow", key |-> k,
                                    value |-> value]]
  /\ UNCHANGED <<table, registered, removals, stale>>

Grow(t) ==
  /\ calls[t].pc = "grow"
  /\ \/ ~HalfFull(table) /\ UNCHANGED <<table, stale>>
     \/ /\ HalfFull(table)
        /\ Allocated
        /\ 2 * table.size <= MaxSize
        /\ table' = ht_resize(table, 2 * table.size)
        /\ Change
  /\ Goto(t, "find")
  /\ UNCHANGED <<lock, registered, removals>>

\* calloc fails: the old array is forgotten and ht_put returns with the lock.
GrowFails(t) ==
  /\ ResizeFails
  /\ calls[t].pc = "grow"
  /\ HalfFull(table)
  /\ table' = [size |-> 2 * table.size, length |-> 0, items |-> <<>>]
  /\ Change
  /\ calls' = [calls EXCEPT ![t] = NoCall]
  /\ UNCHANGED <<lock, registered, removals>>

\* The loop of ht_put_nolock.
Find(t) ==
  /\ calls[t].pc = "find"
  /\ LoopEnds(calls[t].key)
  /\ LET k == calls[t].key
         index == Probe(table, k)
     IN calls' = [calls EXCEPT ![t] =
                    [pc |-> "store", key |-> k, value |-> calls[t].value,
                     index |-> index,
                     old |-> table.items[index] # NULL]]
  /\ UNCHANGED <<table, lock, registered, removals, stale>>

\* The stores of ht_put_nolock, and the release of the lock.
Store(t) ==
  /\ calls[t].pc = "store"
  /\ Allocated
  /\ LET call == calls[t]
         puts == call.value # NULL
     IN /\ table' = [table EXCEPT
                       !.items[call.index] =
                         IF puts THEN [key |-> call.key, value |-> call.value]
                         ELSE NULL,
                       !.length = IF ~call.old /\ puts THEN @ + 1
                                  ELSE IF call.old /\ ~puts THEN @ - 1 ELSE @]
        /\ registered' = IF puts THEN registered \cup {call.key}
                         ELSE registered \ {call.key}
        /\ calls' = [calls EXCEPT ![t] = IF call.old /\ ~puts
                                         THEN [pc |-> "rehash"] ELSE NoCall]
        /\ IF puts THEN UNCHANGED stale ELSE Change
  /\ Release(t)
  /\ UNCHANGED removals
-----------------------------------------------------------------------------
(* ht_remove *)

RemoveStart(k) ==
  /\ removals < Removals
  /\ calls[Main].pc = "none"
  /\ Acquire(Main)
  /\ calls' = [calls EXCEPT ![Main] = [pc |-> "grow", key |-> k,
                                       value |-> NULL]]
  /\ removals' = removals + 1
  /\ UNCHANGED <<table, registered, stale>>

\* ht_resize without the lock: an empty array takes the place of the old one.
RehashStart(t) ==
  /\ calls[t].pc = "rehash"
  /\ Allocated
  /\ calls' = [calls EXCEPT ![t] = [pc |-> "move", old |-> table.items,
                                    i |-> 0]]
  /\ table' = Empty(table.size)
  /\ Change
  /\ UNCHANGED <<lock, registered, removals>>

\* calloc fails: the table is left without an array.
RehashFails(t) ==
  /\ ResizeFails
  /\ calls[t].pc = "rehash"
  /\ table' = [size |-> table.size, length |-> 0, items |-> <<>>]
  /\ Change
  /\ calls' = [calls EXCEPT ![t] = NoCall]
  /\ UNCHANGED <<lock, registered, removals>>

\* One item of the old array moves to the new one.
RehashMove(t) ==
  /\ calls[t].pc = "move"
  /\ Allocated
  /\ calls[t].i \in DOMAIN calls[t].old
  /\ LET item == calls[t].old[calls[t].i] IN item # NULL => LoopEnds(item.key)
  /\ table' = Move(calls[t].old, calls[t].i, table)
  /\ calls' = [calls EXCEPT ![t].i = @ + 1]
  /\ UNCHANGED <<lock, registered, removals, stale>>

RehashEnd(t) ==
  /\ calls[t].pc = "move"
  /\ calls[t].i \notin DOMAIN calls[t].old
  /\ calls' = [calls EXCEPT ![t] = NoCall]
  /\ UNCHANGED <<table, lock, registered, removals, stale>>
-----------------------------------------------------------------------------
CallStep(t) ==
  \/ GetProbe(t) \/ GetRead(t) \/ GetEnd(t)
  \/ Grow(t) \/ GrowFails(t) \/ Find(t) \/ Store(t)
  \/ RehashStart(t) \/ RehashFails(t) \/ RehashMove(t) \/ RehashEnd(t)

\* A receiver puts an address that it did not find, and that another may have
\* put since.
Next ==
  /\ \/ \E t \in Callers, k \in Keys :
          GetStart(t, k) \/ PutStart(t, k, k)
     \/ \E k \in Keys : RemoveStart(k)
     \/ \E t \in Threads : CallStep(t)
  /\ UNCHANGED sequential

Spec == Init /\ [][Next]_vars
-----------------------------------------------------------------------------
(* Properties *)

\* Between two critical sections the table holds the addresses that were put
\* and not removed, each where its own probe finds it, and counts them: always
\* when one thread makes all the calls, and with several threads until the
\* first ht_remove, which rehashes without the lock.
PutsKept ==
  /\ sequential \/ removals = 0
  /\ lock = NULL /\ Allocated
  /\ \A t \in Threads : calls[t].pc \notin {"rehash", "move"}
  => /\ \A k \in Keys : ht_get(table, k) = IF k \in registered THEN k ELSE NULL
     /\ table.length = Cardinality(registered)

=============================================================================
