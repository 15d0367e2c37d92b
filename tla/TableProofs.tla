---------------------------- MODULE TableProofs ----------------------------
(***************************************************************************)
(* Theorems about the table of src/hash_table.c used by one thread at a    *)
(* time, for every set of addresses, every initial capacity and however    *)
(* often the table grows.                                                  *)
(***************************************************************************)
EXTENDS SequentialTable, Facts, FiniteSetTheorems

-----------------------------------------------------------------------------
(* Induction, as the search for a least counterexample. *)

\* A set of natural numbers that is not empty has a least element.
LEMMA LeastNat ==
  ASSUME NEW S \in SUBSET Nat, S # {}
  PROVE  \E x \in S : \A y \in S : x <= y
<1> DEFINE R == {p \in Nat \X Nat : p[1] < p[2]}
<1>1. IsWellFoundedOn(R, Nat)
  BY NatLessThanWellFounded, Zenon DEF OpToRel
<1>2. PICK x \in S : \A y \in S : ~(<<y, x>> \in R)
  BY <1>1, WFMin, Zenon
<1>3. ASSUME NEW y \in S
      PROVE  x <= y
  <2>1. x \in Nat /\ y \in Nat
    OBVIOUS
  <2>2. y < x => <<y, x>> \in R
    BY <2>1
  <2>3. ~(y < x)
    BY <1>2, <2>2
  <2> QED
    BY <2>1, <2>3
<1> QED
  BY <1>3

\* Hence Min() of the library is one.
LEMMA MinLeast ==
  ASSUME NEW S \in SUBSET Nat, S # {}
  PROVE  Min(S) \in S /\ \A y \in S : Min(S) <= y
<1>1. \E x \in S : \A y \in S : x <= y
  BY LeastNat
<1> QED
  BY <1>1, Zenon DEF Min

\* It is the only one.
LEMMA MinIs ==
  ASSUME NEW S \in SUBSET Nat, NEW x \in S, \A y \in S : x <= y
  PROVE  Min(S) = x
<1>1. Min(S) \in S /\ Min(S) <= x
  BY MinLeast
<1>2. x <= Min(S) /\ x \in Nat /\ Min(S) \in Nat
  BY <1>1, Zenon
<1> QED
  BY <1>1, <1>2

-----------------------------------------------------------------------------
(* Tables *)

Entries == [key : Keys, value : Values]
Indexes(t) == 0..(t.size - 1)

\* An array of t.size items, each unused or holding an address and a client.
IsTable(t) ==
  /\ t.size \in Nat \ {0}
  /\ t.length \in Nat
  /\ t.items \in [Indexes(t) -> Entries \cup {NULL}]
  /\ t = [size |-> t.size, length |-> t.length, items |-> t.items]

Used(t) == {i \in Indexes(t) : t.items[i] # NULL}

\* The loops over the array end.
Room(t) == \E i \in Indexes(t) : t.items[i] = NULL

\* No address occurs twice.
Distinct(t) == \A i, j \in Used(t) : t.items[i].key = t.items[j].key => i = j

\* An item is where the probe for its address ends.
Reachable(t) == \A i \in Used(t) : Probe(t, t.items[i].key) = i

Counted(t) == t.length = Cardinality(Used(t))

\* The table maps k to v.
Holds(t, k, v) == \E i \in Used(t) : t.items[i] = [key |-> k, value |-> v]

\* The item that the probe for k looks at in round d.
Slot(t, k, d) == (ht_hash(t, k) + d) % t.size

\* The hash of an address is an index.
LEMMA HashType ==
  ASSUME NEW t, IsTable(t), NEW k \in Keys
  PROVE  ht_hash(t, k) \in Indexes(t) /\ ht_hash(t, k) \in Int
<1>1. k.port \in Int /\ t.size \in Nat \ {0}
  BY TableAssumption DEF IsTable
<1>2. k.port % t.size \in 0..(t.size - 1)
  BY <1>1, DivMod, Zenon
<1> QED
  BY <1>1, <1>2 DEF ht_hash, Indexes

\* So is every place a probe looks at.
LEMMA SlotType ==
  ASSUME NEW t, IsTable(t), NEW k \in Keys, NEW d \in Int
  PROVE  Slot(t, k, d) \in Indexes(t)
<1>1. ht_hash(t, k) \in Int
  BY HashType
<1>2. ht_hash(t, k) + d \in Int /\ t.size \in Nat \ {0}
  BY <1>1 DEF IsTable
<1> QED
  BY <1>2, DivMod, Zenon DEF Slot, Indexes

\* A probe looks at every item in t.size rounds.
LEMMA SlotReaches ==
  ASSUME NEW t, IsTable(t), NEW k \in Keys, NEW j \in Indexes(t)
  PROVE  \E d \in Indexes(t) : Slot(t, k, d) = j
<1> DEFINE n == t.size
           h == ht_hash(t, k)
           d == (j - h) % n
<1>1. n \in Nat \ {0} /\ h \in Int /\ j \in Int /\ j - h \in Int
  BY HashType DEF IsTable, Indexes
<1>2. d \in 0..(n - 1)
  BY <1>1, DivMod, Zenon
<1>3. (d + h) % n = ((j - h) + h) % n
  BY <1>1, ModSum, Zenon
<1> HIDE DEF h
<1>4. (j - h) + h = (n * 0) + j /\ j \in 0..(n - 1)
  BY <1>1 DEF Indexes
<1>5. j % n = j
  <2>1. j = (n * 0) + j
    BY <1>1
  <2> QED
    BY <1>1, <1>4, <2>1, ModUnique
<1>6. (j - h) + h = j
  BY <1>1
<1>7. d \in Int
  BY <1>1, <1>2
<1> HIDE DEF d
<1>8. h + d = d + h
  BY <1>1, <1>7
<1>9. Slot(t, k, d) = j
  BY <1>3, <1>5, <1>6, <1>8, Zenon DEF Slot, h, n, d
<1> QED
  BY <1>2, <1>9 DEF Indexes, n

\* May the probe for k stop at item i?
StopsAt(t, k, i) == t.items[i] = NULL \/ t.items[i].key = k

\* The rounds after which the loop may stop.
LEMMA StopsAre ==
  ASSUME NEW t, NEW k
  PROVE  Stops(t, k) = {d \in Indexes(t) : StopsAt(t, k, Slot(t, k, d))}
BY Zenon DEF Stops, SameKey, StopsAt, Slot, Indexes

\* A probe that ends has looked only at items of other addresses before.
LEMMA ProbeEnds ==
  ASSUME NEW t, IsTable(t), Room(t), NEW k \in Keys
  PROVE  \E m \in Indexes(t) :
           /\ Probe(t, k) = Slot(t, k, m)
           /\ StopsAt(t, k, Slot(t, k, m))
           /\ \A e \in Indexes(t) : e < m => ~StopsAt(t, k, Slot(t, k, e))
<1> DEFINE S == Stops(t, k)
           m == Min(S)
<1>1. S \in SUBSET Nat /\ S \subseteq Indexes(t)
  BY StopsAre DEF Indexes, IsTable
<1>2. S # {}
  <2>1. PICK j \in Indexes(t) : t.items[j] = NULL
    BY DEF Room
  <2>2. PICK d \in Indexes(t) : Slot(t, k, d) = j
    BY SlotReaches
  <2> QED
    BY <2>1, <2>2, StopsAre DEF StopsAt
<1>3. m \in S /\ \A y \in S : m <= y
  BY <1>1, <1>2, MinLeast
<1>4. Probe(t, k) = Slot(t, k, m)
  BY DEF Probe, Slot
<1> HIDE DEF m
<1>5. m \in Indexes(t) /\ StopsAt(t, k, Slot(t, k, m))
  BY <1>3, StopsAre
<1>6. \A e \in Indexes(t) : e < m => ~StopsAt(t, k, Slot(t, k, e))
  <2> SUFFICES ASSUME NEW e \in Indexes(t), e < m, StopsAt(t, k, Slot(t, k, e))
               PROVE  FALSE
    OBVIOUS
  <2>1. m <= e
    BY <1>3, StopsAre
  <2>2. m \in Nat /\ e \in Nat
    BY <1>1, <1>3 DEF Indexes
  <2> QED
    BY <2>1, <2>2
<1> QED
  BY <1>4, <1>5, <1>6

\* Conversely, such a place is the one the probe ends at.
LEMMA ProbeIs ==
  ASSUME NEW t, IsTable(t), NEW k \in Keys, NEW m \in Indexes(t),
         StopsAt(t, k, Slot(t, k, m)),
         \A e \in Indexes(t) : e < m => ~StopsAt(t, k, Slot(t, k, e))
  PROVE  Probe(t, k) = Slot(t, k, m)
<1> DEFINE S == Stops(t, k)
<1>1. S \in SUBSET Nat /\ m \in S
  BY StopsAre DEF Indexes, IsTable
<1>2. \A y \in S : m <= y
  <2> SUFFICES ASSUME NEW y \in S PROVE m <= y
    OBVIOUS
  <2>1. y \in Indexes(t) /\ StopsAt(t, k, Slot(t, k, y)) /\ y \in Nat
    BY <1>1, StopsAre
  <2>2. ~(y < m)
    BY <2>1
  <2> QED
    BY <1>1, <2>1, <2>2
<1>3. Min(S) = m
  BY <1>1, <1>2, MinIs
<1> QED
  BY <1>3 DEF Probe, Slot

-----------------------------------------------------------------------------
(* Looking up, and storing at the place the probe found. *)

\* An item in use has an address and a client.
LEMMA UsedEntry ==
  ASSUME NEW t, IsTable(t), NEW i \in Used(t)
  PROVE  /\ i \in Indexes(t) /\ t.items[i] \in Entries
         /\ t.items[i].key \in Keys /\ t.items[i].value \in Values
         /\ t.items[i] = [key |-> t.items[i].key, value |-> t.items[i].value]
<1>1. i \in Indexes(t) /\ t.items[i] \in Entries
  BY DEF Used, IsTable
<1> QED
  BY <1>1 DEF Entries

\* The probe ends at an unused item, or at the one of its address.
LEMMA ProbeItem ==
  ASSUME NEW t, IsTable(t), Room(t), NEW k \in Keys
  PROVE  /\ Probe(t, k) \in Indexes(t)
         /\ StopsAt(t, k, Probe(t, k))
BY ProbeEnds, SlotType DEF Indexes

\* ht_get returns the client of an address that is in the table, else NULL.
LEMMA GetHolds ==
  ASSUME NEW t, IsTable(t), Room(t), Reachable(t), NEW k \in Keys
  PROVE  /\ ht_get(t, k) \in Values \cup {NULL}
         /\ \A v \in Values : ht_get(t, k) = v <=> Holds(t, k, v)
         /\ t.items[Probe(t, k)] = NULL <=> ht_get(t, k) = NULL
<1> DEFINE p == Probe(t, k)
<1>1. p \in Indexes(t) /\ StopsAt(t, k, p)
  BY ProbeItem
<1>2. \A i \in Used(t) : t.items[i].key = k => i = p
  BY DEF Reachable
<1> HIDE DEF p
<1>3. CASE t.items[p] = NULL
  <2>1. ht_get(t, k) = NULL
    BY <1>3 DEF ht_get, p
  <2>2. \A v \in Values : ~Holds(t, k, v)
    BY <1>2, <1>3 DEF Holds, Used
  <2>3. \A v \in Values : v # NULL
    BY TableAssumption
  <2> QED
    BY <1>3, <2>1, <2>2, <2>3 DEF p
<1>4. CASE t.items[p] # NULL
  <2>1. p \in Used(t) /\ t.items[p].key = k
    BY <1>1, <1>4 DEF Used, StopsAt
  <2>2. t.items[p] = [key |-> k, value |-> t.items[p].value] /\ t.items[p].value \in Values
    BY <2>1, UsedEntry
  <2>3. ht_get(t, k) = t.items[p].value
    BY <1>4 DEF ht_get, p
  <2>4. \A v \in Values : Holds(t, k, v) <=> v = t.items[p].value
    <3>1. ASSUME NEW v \in Values, Holds(t, k, v) PROVE v = t.items[p].value
      <4>1. PICK i \in Used(t) : t.items[i] = [key |-> k, value |-> v]
        BY <3>1 DEF Holds
      <4>2. i = p
        BY <1>2, <4>1
      <4> QED
        BY <4>1, <4>2
    <3>2. Holds(t, k, t.items[p].value)
      BY <2>1, <2>2 DEF Holds
    <3> QED
      BY <3>1, <3>2
  <2>5. ht_get(t, k) # NULL
    BY <2>2, <2>3, TableAssumption
  <2> QED
    BY <1>4, <2>2, <2>3, <2>4, <2>5 DEF p
<1> QED
  BY <1>3, <1>4

\* An address occurs once when every item is where its probe ends.
LEMMA ReachableDistinct ==
  ASSUME NEW t, Reachable(t)
  PROVE  Distinct(t)
BY Zenon DEF Reachable, Distinct

\* A table of which not all items count as used has room.
LEMMA CountedRoom ==
  ASSUME NEW t, IsTable(t), Counted(t), t.length < t.size
  PROVE  Room(t)
<1>1. SUFFICES ASSUME ~Room(t) PROVE FALSE
  OBVIOUS
<1>2. Used(t) = 0..(t.size - 1)
  BY <1>1 DEF Room, Used, Indexes
<1>3. t.size \in Nat \ {0} /\ 0 \in Int /\ t.size - 1 \in Int
  BY DEF IsTable
<1>4. Cardinality(0..(t.size - 1)) = IF 0 > t.size - 1 THEN 0 ELSE (t.size - 1) - 0 + 1
  BY <1>3, FS_Interval, Zenon
<1>5. Cardinality(0..(t.size - 1)) = t.size
  BY <1>3, <1>4
<1> QED
  BY <1>2, <1>3, <1>5 DEF Counted

\* The items in use can be counted.
LEMMA UsedFinite ==
  ASSUME NEW t, IsTable(t)
  PROVE  IsFiniteSet(Used(t)) /\ Cardinality(Used(t)) \in Nat
<1>1. IsFiniteSet(0..(t.size - 1))
  <2>1. 0 \in Int /\ t.size - 1 \in Int
    BY DEF IsTable
  <2> QED
    BY <2>1, FS_Interval
<1>2. Used(t) \in SUBSET (0..(t.size - 1))
  BY DEF Used, Indexes
<1>3. IsFiniteSet(Used(t))
  BY <1>1, <1>2, FS_Subset, Zenon
<1> QED
  BY <1>3, FS_CardinalityType

\* What ht_put_nolock stores, and the length it leaves.
Item(k, v) == IF v = NULL THEN NULL ELSE [key |-> k, value |-> v]

Adjusted(t, k, v) ==
  IF ht_get(t, k) = NULL /\ v # NULL THEN t.length + 1
  ELSE IF ht_get(t, k) # NULL /\ v = NULL THEN t.length - 1 ELSE t.length

\* What ht_put_nolock does to the fields of the table.
LEMMA PutFields ==
  ASSUME NEW t, IsTable(t), Room(t), NEW k \in Keys, NEW v \in Values \cup {NULL},
         NEW r, r = ht_put_nolock(t, k, v)
  PROVE  /\ Probe(t, k) \in Indexes(t)
         /\ r = [size |-> r.size, length |-> r.length, items |-> r.items]
         /\ r.size = t.size /\ Indexes(r) = Indexes(t)
         /\ r.items = [t.items EXCEPT ![Probe(t, k)] = Item(k, v)]
         /\ r.items \in [Indexes(r) -> Entries \cup {NULL}]
         /\ r.length = Adjusted(t, k, v)
<1> DEFINE p == Probe(t, k)
           item == Item(k, v)
           l == Adjusted(t, k, v)
<1>1. p \in Indexes(t)
  BY ProbeItem
<1>2. r = [t EXCEPT !.items[p] = item, !.length = l]
  BY Zenon DEF ht_put_nolock, Item, Adjusted
<1>3. t.items \in [Indexes(t) -> Entries \cup {NULL}]
      /\ t = [size |-> t.size, length |-> t.length, items |-> t.items]
  BY DEF IsTable
<1>4. item \in Entries \cup {NULL}
  BY DEF Entries, Item
<1> HIDE DEF p, item, l
<1>5. r = [size |-> t.size, length |-> l, items |-> [t.items EXCEPT ![p] = item]]
  BY <1>2, <1>3, Zenon
<1>6. [t.items EXCEPT ![p] = item] \in [Indexes(t) -> Entries \cup {NULL}]
  BY <1>1, <1>3, <1>4
<1>7. r.size = t.size /\ r.length = l /\ r.items = [t.items EXCEPT ![p] = item]
  BY <1>5
<1>8. Indexes(r) = Indexes(t)
  BY <1>7, Zenon DEF Indexes
<1> QED
  BY <1>1, <1>5, <1>6, <1>7, <1>8, Zenon DEF p, item, l

\* In particular, its size stays.
LEMMA PutSize ==
  ASSUME NEW t, IsTable(t), Room(t), NEW k \in Keys, NEW v \in Values,
         NEW r, r = ht_put_nolock(t, k, v)
  PROVE  r.size = t.size
<1>1. v \in Values \cup {NULL}
  OBVIOUS
<1>2. /\ Probe(t, k) \in Indexes(t)
      /\ r = [size |-> r.size, length |-> r.length, items |-> r.items]
      /\ r.size = t.size /\ Indexes(r) = Indexes(t)
      /\ r.items = [t.items EXCEPT ![Probe(t, k)] = Item(k, v)]
      /\ r.items \in [Indexes(r) -> Entries \cup {NULL}]
      /\ r.length = Adjusted(t, k, v)
  BY <1>1, PutFields
<1> QED
  BY <1>2

\* Storing a client keeps every item where its probe ends: an unused item is
\* on the way of no probe, and an item in use keeps its address.
LEMMA PutReachable ==
  ASSUME NEW t, IsTable(t), Room(t), Reachable(t), NEW k \in Keys, NEW v \in Values,
         NEW r, r = ht_put_nolock(t, k, v), IsTable(r)
  PROVE  Reachable(r)
<1> DEFINE p == Probe(t, k)
<1>0. Item(k, v) = [key |-> k, value |-> v]
  BY TableAssumption DEF Item
<1>1. /\ p \in Indexes(t) /\ r.size = t.size /\ Indexes(r) = Indexes(t)
      /\ r.items = [t.items EXCEPT ![p] = [key |-> k, value |-> v]]
  BY <1>0, PutFields
<1>2. DOMAIN t.items = Indexes(t)
  BY DEF IsTable
<1>3. [key |-> k, value |-> v] # NULL
  BY TableAssumption
<1>4. r.items[p] = [key |-> k, value |-> v] /\ r.items[p] # NULL /\ r.items[p].key = k
  BY <1>1, <1>2, <1>3
<1>5. \A i \in Indexes(t) : i # p => r.items[i] = t.items[i]
  BY <1>1, <1>2
<1>6. \A x \in Keys, d \in Indexes(t) : Slot(r, x, d) = Slot(t, x, d)
  BY <1>1, Zenon DEF Slot, ht_hash
<1>7. StopsAt(t, k, p)
  BY ProbeItem
<1> HIDE DEF p
<1> SUFFICES ASSUME NEW i \in Used(r)
             PROVE  Probe(r, r.items[i].key) = i
  BY DEF Reachable
<1>8. i \in Indexes(t) /\ r.items[i].key \in Keys
  BY <1>1, UsedEntry, Zenon
<1>9. CASE i = p
  <2>1. PICK m \in Indexes(t) :
          /\ p = Slot(t, k, m)
          /\ \A e \in Indexes(t) : e < m => ~StopsAt(t, k, Slot(t, k, e))
    BY ProbeEnds DEF p
  <2>2. StopsAt(r, k, Slot(r, k, m))
    BY <1>4, <1>6, <2>1 DEF StopsAt
  <2>3. ASSUME NEW e \in Indexes(t), e < m
        PROVE  ~StopsAt(r, k, Slot(r, k, e))
    <3>1. ~StopsAt(t, k, Slot(t, k, e)) /\ Slot(t, k, e) \in Indexes(t)
      BY <2>1, <2>3, SlotType DEF Indexes
    <3>2. Slot(t, k, e) # p
      BY <1>7, <3>1
    <3> QED
      BY <1>5, <1>6, <3>1, <3>2 DEF StopsAt
  <2>4. Probe(r, k) = Slot(r, k, m)
    BY <1>1, <2>2, <2>3, ProbeIs
  <2> QED
    BY <1>4, <1>6, <1>9, <2>1, <2>4
<1>10. CASE i # p
  <2> DEFINE x == t.items[i].key
  <2>1. i \in Used(t) /\ r.items[i] = t.items[i] /\ x \in Keys
    BY <1>5, <1>8, <1>10 DEF Used
  <2>2. Probe(t, x) = i
    BY <2>1 DEF Reachable
  <2>3. x # k
    BY <1>10, <2>2 DEF p
  <2>4. PICK m \in Indexes(t) :
          /\ i = Slot(t, x, m)
          /\ \A e \in Indexes(t) : e < m => ~StopsAt(t, x, Slot(t, x, e))
    BY <2>1, <2>2, ProbeEnds, SMTT(30)
  <2>5. StopsAt(r, x, Slot(r, x, m))
    BY <1>6, <2>1, <2>4 DEF StopsAt
  <2>6. ASSUME NEW e \in Indexes(t), e < m
        PROVE  ~StopsAt(r, x, Slot(r, x, e))
    <3>1. ~StopsAt(t, x, Slot(t, x, e)) /\ Slot(t, x, e) \in Indexes(t)
      BY <2>1, <2>4, <2>6, SlotType, SMTT(30) DEF Indexes
    <3>2. CASE Slot(t, x, e) = p
      BY <1>4, <1>6, <2>1, <2>3, <3>2, SMTT(30) DEF StopsAt
    <3>3. CASE Slot(t, x, e) # p
      BY <1>5, <1>6, <2>1, <3>1, <3>3, SMTT(30) DEF StopsAt
    <3> QED
      BY <3>2, <3>3
  <2>7. Probe(r, x) = Slot(r, x, m)
    BY <1>1, <2>1, <2>5, <2>6, ProbeIs
  <2> QED
    BY <1>6, <2>1, <2>4, <2>7
<1> QED
  BY <1>9, <1>10

\* Storing a client counts it once.
LEMMA PutCounted ==
  ASSUME NEW t, IsTable(t), Room(t), Reachable(t), Counted(t),
         NEW k \in Keys, NEW v \in Values, NEW r, r = ht_put_nolock(t, k, v)
  PROVE  /\ IsTable(r) /\ Counted(r)
         /\ r.length = IF ht_get(t, k) = NULL THEN t.length + 1 ELSE t.length
<1> DEFINE p == Probe(t, k)
           old == ht_get(t, k)
<1>1. /\ p \in Indexes(t) /\ r.size = t.size /\ Indexes(r) = Indexes(t)
      /\ r.items = [t.items EXCEPT ![p] = Item(k, v)]
      /\ r.length = Adjusted(t, k, v)
      /\ r = [size |-> r.size, length |-> r.length, items |-> r.items]
      /\ r.items \in [Indexes(r) -> Entries \cup {NULL}]
  BY PutFields
<1>2. Item(k, v) # NULL /\ v # NULL
  BY TableAssumption DEF Item
<1>3. r.length = IF old = NULL THEN t.length + 1 ELSE t.length
  BY <1>1, <1>2 DEF Adjusted
<1>4. t.length \in Nat /\ t.size \in Nat \ {0} /\ DOMAIN t.items = Indexes(t)
  BY DEF IsTable
<1>5. IsTable(r)
  <2>1. r.length \in Nat
    BY <1>3, <1>4
  <2> QED
    BY <1>1, <1>4, <2>1 DEF IsTable
<1>6. t.items[p] = NULL <=> old = NULL
  BY GetHolds
<1>7. Used(r) = Used(t) \cup {p}
  BY <1>1, <1>2, <1>4 DEF Used
<1>8. p \in Used(t) <=> old # NULL
  BY <1>1, <1>6 DEF Used
<1>9. IsFiniteSet(Used(t)) /\ t.length = Cardinality(Used(t))
  BY UsedFinite DEF Counted
<1>10. Cardinality(Used(t) \cup {p}) =
         IF p \in Used(t) THEN Cardinality(Used(t)) ELSE Cardinality(Used(t)) + 1
  BY <1>9, FS_AddElement, Zenon
<1> HIDE DEF p, old
<1>11. Counted(r)
  BY <1>3, <1>7, <1>8, <1>9, <1>10, Zenon DEF Counted
<1> QED
  BY <1>3, <1>5, <1>11 DEF old

\* Storing a client changes what is stored for its address, and only that.
LEMMA PutHolds ==
  ASSUME NEW t, IsTable(t), Room(t), Reachable(t),
         NEW k \in Keys, NEW v \in Values, NEW r, r = ht_put_nolock(t, k, v),
         NEW x \in Keys, NEW y \in Values
  PROVE  Holds(r, x, y) <=> IF x = k THEN y = v ELSE Holds(t, x, y)
<1> DEFINE p == Probe(t, k)
<1>1. Item(k, v) = [key |-> k, value |-> v] /\ Item(k, v) # NULL
  BY TableAssumption DEF Item
<1>2. /\ p \in Indexes(t) /\ Indexes(r) = Indexes(t) /\ DOMAIN t.items = Indexes(t)
      /\ r.items = [t.items EXCEPT ![p] = Item(k, v)]
  BY PutFields, SMTT(30) DEF IsTable
<1>3. /\ p \in Used(r) /\ r.items[p] = [key |-> k, value |-> v]
      /\ \A i \in Indexes(t) \ {p} : r.items[i] = t.items[i] /\ (i \in Used(r) <=> i \in Used(t))
  BY <1>1, <1>2 DEF Used
<1>4. \A i \in Used(t) : t.items[i].key = k => i = p
  BY DEF Reachable
<1>5. t.items[p] # NULL => t.items[p].key = k
  BY ProbeItem DEF StopsAt
<1>6. Used(r) \subseteq Indexes(t) /\ Used(t) \subseteq Indexes(t)
  BY <1>2 DEF Used
<1> HIDE DEF p
<1>7. CASE x = k
  <2>1. ASSUME Holds(r, k, y) PROVE y = v
    <3>1. PICK i \in Used(r) : r.items[i] = [key |-> k, value |-> y]
      BY <2>1 DEF Holds
    <3>2. i = p
      <4>1. SUFFICES ASSUME i # p PROVE FALSE
        OBVIOUS
      <4>2. i \in Used(t) /\ t.items[i].key = k
        BY <1>3, <1>6, <3>1, <4>1, SMTT(30)
      <4> QED
        BY <1>4, <4>1, <4>2
    <3>3. [key |-> k, value |-> y] = [key |-> k, value |-> v]
      BY <1>3, <3>1, <3>2
    <3> QED
      BY <3>3
  <2>2. Holds(r, k, v)
    BY <1>3 DEF Holds
  <2> QED
    BY <1>7, <2>1, <2>2
<1>8. CASE x # k
  <2>1. ASSUME Holds(r, x, y) PROVE Holds(t, x, y)
    <3>1. PICK i \in Used(r) : r.items[i] = [key |-> x, value |-> y]
      BY <2>1 DEF Holds
    <3>2. i # p
      <4>1. SUFFICES ASSUME i = p PROVE FALSE
        OBVIOUS
      <4>2. [key |-> x, value |-> y].key = [key |-> k, value |-> v].key
        BY <1>3, <3>1, <4>1, Zenon
      <4> QED
        BY <1>8, <4>2
    <3> QED
      BY <1>3, <1>6, <3>1, <3>2, SMTT(30) DEF Holds
  <2>2. ASSUME Holds(t, x, y) PROVE Holds(r, x, y)
    <3>1. PICK i \in Used(t) : t.items[i] = [key |-> x, value |-> y]
      BY <2>2 DEF Holds
    <3>2. i # p
      <4>1. t.items[i].key = x /\ t.items[i] # NULL
        BY <3>1 DEF Used
      <4> QED
        BY <1>5, <1>8, <4>1
    <3> QED
      BY <1>3, <1>6, <3>1, <3>2, SMTT(30) DEF Holds
  <2> QED
    BY <1>8, <2>1, <2>2, SMTT(30)
<1> QED
  BY <1>7, <1>8

-----------------------------------------------------------------------------
(* ht_resize *)

\* The tables of the first n rounds of the loop of ht_resize.
Rounds(f, old, size, n) ==
  f = [i \in 0..n |-> IF i = 0 THEN Empty(size) ELSE Move(old, i - 1, f[i - 1])]

\* They exist: each round builds on the one before.
LEMMA MovedExists ==
  ASSUME NEW old, NEW size, NEW n \in Nat
  PROVE  \E f : Rounds(f, old, size, n)
<1> USE DEF Rounds
<1> DEFINE Is(f, m) == Rounds(f, old, size, m)
           Bad == {m \in Nat : ~\E f : Is(f, m)}
<1>1. SUFFICES ASSUME Bad # {} PROVE FALSE
  BY SMTT(30)
<1>2. PICK m \in Bad : \A y \in Bad : m <= y
  BY <1>1, LeastNat, Zenon
<1>3. CASE m = 0
  <2>1. Is([i \in 0..0 |-> Empty(size)], 0)
    OBVIOUS
  <2> QED
    BY <1>3, <2>1, Zenon
<1>4. CASE m # 0
  <2>1. m - 1 \in Nat /\ m \in Nat
    BY <1>4
  <2>2. PICK f : Is(f, m - 1)
    <3>1. ~(m <= m - 1)
      BY <2>1
    <3> QED
      BY <1>2, <2>1, <3>1, Zenon
  <2> DEFINE g == [i \in 0..m |-> IF i = m THEN Move(old, m - 1, f[m - 1]) ELSE f[i]]
  <2>3. ASSUME NEW i \in 0..m
        PROVE  g[i] = IF i = 0 THEN Empty(size) ELSE Move(old, i - 1, g[i - 1])
    <3>1. CASE i = 0
      BY <1>4, <2>1, <2>2, <3>1
    <3>2. CASE i # 0 /\ i # m
      <4>1. i \in 0..(m - 1) /\ i - 1 \in 0..m /\ i - 1 # m
        BY <2>1, <3>2
      <4>2. g[i] = f[i] /\ g[i - 1] = f[i - 1]
        BY <3>2, <4>1
      <4> HIDE DEF g
      <4> QED
        BY <2>2, <3>2, <4>1, <4>2
    <3>3. CASE i # 0 /\ i = m
      <4>1. i - 1 \in 0..m /\ i - 1 # m
        BY <2>1, <3>3
      <4>2. g[i - 1] = f[m - 1] /\ g[i] = Move(old, m - 1, f[m - 1])
        BY <3>3, <4>1
      <4> QED
        BY <3>3, <4>2
    <3> QED
      BY <3>1, <3>2, <3>3
  <2>4. DOMAIN g = 0..m
    OBVIOUS
  <2>5. g = [i \in 0..m |-> g[i]]
    OBVIOUS
  <2> HIDE DEF g
  <2>6. Is(g, m)
    BY <2>3, <2>5, Zenon
  <2> QED
    BY <2>6
<1> QED
  BY <1>3, <1>4

\* The rounds of ht_resize, one after the other.
LEMMA ResizeRounds ==
  ASSUME NEW t, IsTable(t), NEW size
  PROVE  \E f : /\ f[0] = Empty(size)
                /\ \A i \in 0..(t.size - 1) : f[i + 1] = Move(t.items, i, f[i])
                /\ ht_resize(t, size) = f[t.size]
<1> DEFINE Is(f) == Rounds(f, t.items, size, t.size)
           moved == CHOOSE f : Is(f)
<1>1. t.size \in Nat \ {0}
  BY DEF IsTable
<1>2. \E f : Is(f)
  <2>1. t.size \in Nat
    BY <1>1
  <2> QED
    BY <2>1, MovedExists
<1>3. Is(moved)
  BY <1>2, Zenon
<1>4. ht_resize(t, size) = moved[t.size]
  BY Zenon DEF ht_resize, Rounds
<1> HIDE DEF moved
<1>5. 0 \in 0..t.size /\ \A i \in 0..(t.size - 1) : i + 1 \in 0..t.size /\ i + 1 # 0 /\ (i + 1) - 1 = i
  BY <1>1
<1>6. moved[0] = Empty(size)
  BY <1>3, <1>5 DEF Rounds
<1>7. \A i \in 0..(t.size - 1) : moved[i + 1] = Move(t.items, i, moved[i])
  BY <1>3, <1>5, Zenon DEF Rounds
<1> QED
  BY <1>4, <1>6, <1>7

\* A table without items.
LEMMA EmptyTable ==
  ASSUME NEW size \in Nat \ {0}
  PROVE  /\ IsTable(Empty(size)) /\ Empty(size).size = size /\ Empty(size).length = 0
         /\ Used(Empty(size)) = {} /\ Counted(Empty(size)) /\ Reachable(Empty(size))
         /\ \A k, v : ~Holds(Empty(size), k, v)
<1> DEFINE t == Empty(size)
<1>1. t.size = size /\ t.length = 0 /\ t.items = [i \in 0..(size - 1) |-> NULL]
      /\ t = [size |-> t.size, length |-> t.length, items |-> t.items]
  BY DEF Empty
<1> HIDE DEF t
<1>2. IsTable(t)
  BY <1>1 DEF IsTable, Indexes
<1>3. Used(t) = {}
  BY <1>1 DEF Used, Indexes
<1>4. Counted(t)
  BY <1>1, <1>3, FS_EmptySet DEF Counted
<1> QED
  BY <1>1, <1>2, <1>3, <1>4 DEF Reachable, Holds, t

\* The items of the old array that were moved in the first i rounds.
Moved(t, i) == {j \in 0..(i - 1) : t.items[j] # NULL}

\* The table after i rounds holds just those.
AfterRounds(t, i, r, size) ==
  /\ IsTable(r) /\ r.size = size /\ Counted(r) /\ Reachable(r)
  /\ r.length = Cardinality(Moved(t, i))
  /\ \A k \in Keys, v \in Values :
       Holds(r, k, v) <=> \E j \in Moved(t, i) : t.items[j] = [key |-> k, value |-> v]

\* One round moves one item.
LEMMA Round ==
  ASSUME NEW t, IsTable(t), Distinct(t), NEW size \in Nat \ {0},
         Cardinality(Used(t)) < size,
         NEW i \in Indexes(t), NEW r, AfterRounds(t, i, r, size)
  PROVE  AfterRounds(t, i + 1, Move(t.items, i, r), size)
<1>1. i \in Nat /\ i + 1 - 1 = i
  BY DEF Indexes, IsTable
<1>2. CASE t.items[i] = NULL
  <2>1. Moved(t, i + 1) = Moved(t, i)
    BY <1>1, <1>2 DEF Moved
  <2>2. Move(t.items, i, r) = r
    BY <1>2 DEF Move
  <2> QED
    BY <2>1, <2>2 DEF AfterRounds
<1>3. CASE t.items[i] # NULL
  <2> DEFINE k == t.items[i].key
             v == t.items[i].value
             q == ht_put_nolock(r, k, v)
  <2>1. /\ IsTable(r) /\ r.size = size /\ Counted(r) /\ Reachable(r)
        /\ r.length = Cardinality(Moved(t, i))
    BY DEF AfterRounds
  <2>2. i \in Used(t) /\ k \in Keys /\ v \in Values /\ t.items[i] = [key |-> k, value |-> v]
    <3>1. i \in Used(t)
      BY <1>3 DEF Used
    <3> QED
      BY <3>1, UsedEntry
  <2>3. /\ Moved(t, i + 1) = Moved(t, i) \cup {i} /\ i \notin Moved(t, i)
        /\ Moved(t, i) \in SUBSET Used(t)
    <3>1. \A j \in Nat : j \in 0..((i + 1) - 1) <=> j \in 0..(i - 1) \/ j = i
      BY <1>1
    <3>2. i \notin 0..(i - 1) /\ 0..(i - 1) \subseteq 0..(t.size - 1)
      BY <1>1 DEF Indexes, IsTable
    <3>3. Moved(t, i + 1) = Moved(t, i) \cup {i}
      BY <1>1, <1>3, <3>1 DEF Moved
    <3> QED
      BY <3>2, <3>3 DEF Moved, Used, Indexes
  <2>4. /\ IsFiniteSet(Moved(t, i)) /\ Cardinality(Moved(t, i)) <= Cardinality(Used(t))
        /\ Cardinality(Moved(t, i)) \in Nat /\ Cardinality(Used(t)) \in Nat
        /\ Cardinality(Moved(t, i + 1)) = Cardinality(Moved(t, i)) + 1
    <3>1. IsFiniteSet(Used(t)) /\ Cardinality(Used(t)) \in Nat
      BY UsedFinite
    <3>2. IsFiniteSet(Moved(t, i)) /\ Cardinality(Moved(t, i)) <= Cardinality(Used(t))
      BY <2>3, <3>1, FS_Subset
    <3>3. Cardinality(Moved(t, i)) \in Nat
      BY <3>2, FS_CardinalityType
    <3>4. Cardinality(Moved(t, i) \cup {i}) = Cardinality(Moved(t, i)) + 1
      BY <2>3, <3>2, FS_AddElement, Zenon
    <3> QED
      BY <2>3, <3>1, <3>2, <3>3, <3>4, SMTT(30)
  <2>5. Room(r)
    <3>1. r.length < r.size
      BY <2>1, <2>4, SMTT(30)
    <3> QED
      BY <2>1, <3>1, CountedRoom
  <2>6. \A y \in Values : ~Holds(r, k, y)
    <3> SUFFICES ASSUME NEW y \in Values, Holds(r, k, y) PROVE FALSE
      BY SMTT(30)
    <3>1. PICK j \in Moved(t, i) : t.items[j] = [key |-> k, value |-> y]
      BY <2>2 DEF AfterRounds
    <3>2. j \in Used(t) /\ t.items[j].key = k
      BY <2>3, <3>1, SMTT(30)
    <3>3. j = i
      BY <2>2, <3>2, SMTT(30) DEF Distinct
    <3> QED
      BY <2>3, <3>3
  <2>7. ht_get(r, k) = NULL
    BY <2>1, <2>2, <2>5, <2>6, GetHolds, SMTT(30)
  <2>8. Move(t.items, i, r) = q
    BY <1>3, SMTT(30) DEF Move
  <2> HIDE DEF k, v, q
  <2>9. IsTable(q) /\ Counted(q) /\ q.length = r.length + 1
    BY <2>1, <2>2, <2>5, <2>7, PutCounted, SMTT(30) DEF q
  <2>10. q.size = size /\ Reachable(q)
    <3>1. q.size = r.size
      BY <2>1, <2>2, <2>5, PutSize, SMTT(30) DEF q
    <3>2. Reachable(q)
      BY <2>1, <2>2, <2>5, <2>9, PutReachable, SMTT(30) DEF q
    <3> QED
      BY <2>1, <3>1, <3>2, SMTT(30)
  <2>11. ASSUME NEW x \in Keys, NEW y \in Values
         PROVE  Holds(q, x, y) <=>
                  \E j \in Moved(t, i + 1) : t.items[j] = [key |-> x, value |-> y]
    <3>1. Holds(q, x, y) <=> IF x = k THEN y = v ELSE Holds(r, x, y)
      BY <2>1, <2>2, <2>5, PutHolds, SMTT(30) DEF q
    <3>2. Holds(r, x, y) <=> \E j \in Moved(t, i) : t.items[j] = [key |-> x, value |-> y]
      BY DEF AfterRounds
    <3>3. t.items[i] = [key |-> x, value |-> y] <=> x = k /\ y = v
      BY <2>2
    <3>4. x = k => ~Holds(r, x, y)
      BY <2>6
    <3> QED
      BY <2>3, <3>1, <3>2, <3>3, <3>4, SMTT(30)
  <2> QED
    BY <2>1, <2>4, <2>8, <2>9, <2>10, <2>11, ZenonT(30) DEF AfterRounds
<1> QED
  BY <1>2, <1>3

\* ht_resize keeps the content of a table, puts every item where its probe
\* ends and counts the items again, whatever holes the old array had.
LEMMA Resized ==
  ASSUME NEW t, IsTable(t), Distinct(t), NEW size \in Nat \ {0},
         Cardinality(Used(t)) < size, NEW r, r = ht_resize(t, size)
  PROVE  /\ IsTable(r) /\ r.size = size /\ Counted(r) /\ Reachable(r)
         /\ r.length = Cardinality(Used(t))
         /\ \A k \in Keys, v \in Values : Holds(r, k, v) <=> Holds(t, k, v)
<1>1. t.size \in Nat \ {0}
  BY DEF IsTable
<1>2. PICK f : /\ f[0] = Empty(size)
               /\ \A i \in 0..(t.size - 1) : f[i + 1] = Move(t.items, i, f[i])
               /\ r = f[t.size]
  BY ResizeRounds
<1> DEFINE Bad == {i \in 0..t.size : ~AfterRounds(t, i, f[i], size)}
<1>3. AfterRounds(t, 0, f[0], size)
  <2>1. Moved(t, 0) = {}
    BY DEF Moved
  <2>2. Cardinality(Moved(t, 0)) = 0
    BY <2>1, FS_EmptySet
  <2> QED
    BY <1>2, <2>1, <2>2, EmptyTable, SMTT(30) DEF AfterRounds
<1>4. Bad = {}
  <2>1. SUFFICES ASSUME Bad # {} PROVE FALSE
    OBVIOUS
  <2>2. Bad \in SUBSET Nat
    BY <1>1
  <2>3. PICK m \in Bad : \A y \in Bad : m <= y
    BY <2>1, <2>2, LeastNat, Zenon
  <2>4. m \in 0..t.size /\ m # 0 /\ ~AfterRounds(t, m, f[m], size)
    BY <1>3, <2>3
  <2>5. m - 1 \in 0..(t.size - 1) /\ m - 1 \in 0..t.size /\ (m - 1) + 1 = m /\ ~(m <= m - 1)
    BY <1>1, <2>4
  <2>6. AfterRounds(t, m - 1, f[m - 1], size)
    BY <2>3, <2>5
  <2>7. f[m] = Move(t.items, m - 1, f[m - 1])
    BY <1>2, <2>5
  <2> HIDE DEF Bad
  <2>8. AfterRounds(t, (m - 1) + 1, Move(t.items, m - 1, f[m - 1]), size)
    BY <2>5, <2>6, Round DEF Indexes
  <2> QED
    BY <2>4, <2>5, <2>7, <2>8
<1>5. AfterRounds(t, t.size, r, size)
  BY <1>1, <1>2, <1>4, SMTT(30)
<1>6. Moved(t, t.size) = Used(t)
  BY DEF Moved, Used, Indexes
<1>7. \A k, v : Holds(t, k, v) <=> \E j \in Used(t) : t.items[j] = [key |-> k, value |-> v]
  BY SMTT(30) DEF Holds
<1>8. /\ IsTable(r) /\ r.size = size /\ Counted(r) /\ Reachable(r)
      /\ r.length = Cardinality(Used(t))
  BY <1>5, <1>6 DEF AfterRounds
<1>9. \A k \in Keys, v \in Values :
        Holds(r, k, v) <=> \E j \in Used(t) : t.items[j] = [key |-> k, value |-> v]
  BY <1>5, <1>6, ZenonT(30) DEF AfterRounds
<1> QED
  BY <1>7, <1>8, <1>9, ZenonT(30)

-----------------------------------------------------------------------------
(* The calls of the table. *)

\* What holds of the table between two calls.  ht_put grows a table of which
\* more than half is in use before it stores, so one more than half may be.
Good(t) ==
  /\ IsTable(t) /\ t.size >= 3
  /\ Counted(t)
  /\ Reachable(t)
  /\ t.length <= (t.size \div 2) + 1

\* The length of a good table leaves an item unused.
LEMMA GoodRoom ==
  ASSUME NEW t, Good(t)
  PROVE  t.length < t.size /\ Room(t)
<1>1. t.size \in Nat /\ t.size >= 3 /\ t.length \in Nat /\ t.length <= (t.size \div 2) + 1
  BY DEF Good, IsTable
<1>2. t.length < t.size
  BY <1>1
<1> QED
  BY <1>2, CountedRoom DEF Good

\* The table that ht_put stores into.
Grown(t) == IF HalfFull(t) THEN ht_resize(t, 2 * t.size) ELSE t

\* It has the content of the one before and is at most half full.
LEMMA GrownGood ==
  ASSUME NEW t, Good(t), NEW g, g = Grown(t)
  PROVE  /\ Good(g) /\ g.length = t.length /\ g.length <= g.size \div 2
         /\ \A k \in Keys, v \in Values : Holds(g, k, v) <=> Holds(t, k, v)
<1>1. /\ t.size \in Nat /\ t.size >= 3 /\ t.length \in Nat
      /\ t.length <= (t.size \div 2) + 1 /\ IsTable(t) /\ t.length = Cardinality(Used(t))
  BY DEF Good, IsTable, Counted
<1>2. CASE ~HalfFull(t)
  <2>1. g = t
    BY <1>2 DEF Grown
  <2>2. t.length <= t.size \div 2
    BY <1>1, <1>2 DEF HalfFull
  <2> QED
    BY <2>1, <2>2
<1>3. CASE HalfFull(t)
  <2> DEFINE n == 2 * t.size
  <2>1. g = ht_resize(t, n)
    BY <1>3 DEF Grown
  <2>2. /\ n \in Nat \ {0} /\ n >= 3 /\ n \div 2 = t.size
        /\ t.length < n /\ t.length <= n \div 2
    BY <1>1
  <2> HIDE DEF n
  <2>3. Distinct(t)
    BY ReachableDistinct DEF Good
  <2>4. Cardinality(Used(t)) < n
    BY <1>1, <2>2
  <2>5. /\ IsTable(g) /\ g.size = n /\ Counted(g) /\ Reachable(g)
        /\ g.length = Cardinality(Used(t))
        /\ \A k \in Keys, v \in Values : Holds(g, k, v) <=> Holds(t, k, v)
    BY <1>1, <2>1, <2>2, <2>3, <2>4, Resized, SMTT(30)
  <2>6. g.length = t.length /\ g.length <= (g.size \div 2) + 1 /\ g.length <= g.size \div 2
    BY <1>1, <2>2, <2>5
  <2> QED
    BY <2>2, <2>5, <2>6 DEF Good
<1> QED
  BY <1>2, <1>3

\* Equal contents mean equal answers.
LEMMA SameAnswers ==
  ASSUME NEW t, NEW r, Good(t), Good(r), NEW k \in Keys,
         \A v \in Values : Holds(r, k, v) <=> Holds(t, k, v)
  PROVE  ht_get(r, k) = ht_get(t, k)
<1>1. /\ ht_get(t, k) \in Values \cup {NULL}
      /\ \A v \in Values : ht_get(t, k) = v <=> Holds(t, k, v)
  BY GoodRoom, GetHolds DEF Good
<1>2. /\ ht_get(r, k) \in Values \cup {NULL}
      /\ \A v \in Values : ht_get(r, k) = v <=> Holds(r, k, v)
  BY GoodRoom, GetHolds DEF Good
<1> QED
  BY <1>1, <1>2

\* ht_put with a client.
LEMMA PutGood ==
  ASSUME NEW t, Good(t), NEW k \in Keys, NEW v \in Values, NEW r, r = ht_put(t, k, v)
  PROVE  /\ Good(r)
         /\ \A x \in Keys : ht_get(r, x) = IF x = k THEN v ELSE ht_get(t, x)
<1> DEFINE g == Grown(t)
<1>1. /\ Good(g) /\ g.length <= g.size \div 2
      /\ \A x \in Keys, y \in Values : Holds(g, x, y) <=> Holds(t, x, y)
  BY GrownGood
<1>2. r = ht_put_nolock(g, k, v)
  BY DEF ht_put, Grown
<1> HIDE DEF g
<1>3. IsTable(g) /\ Room(g) /\ Reachable(g) /\ Counted(g) /\ g.size >= 3
  BY <1>1, GoodRoom DEF Good
<1>4. /\ IsTable(r) /\ Counted(r)
      /\ r.length = IF ht_get(g, k) = NULL THEN g.length + 1 ELSE g.length
  BY <1>2, <1>3, PutCounted
<1>5. Reachable(r)
  BY <1>2, <1>3, <1>4, PutReachable
<1>6. r.size = g.size
  BY <1>2, <1>3, PutSize, SMTT(30)
<1>7. Good(r)
  <2>1. g.length \in Nat /\ g.size \in Nat /\ g.size \div 2 \in Nat
    BY <1>3 DEF IsTable
  <2>2. r.length <= (r.size \div 2) + 1
    BY <1>1, <1>4, <1>6, <2>1, SMTT(30)
  <2> QED
    BY <1>3, <1>4, <1>5, <1>6, <2>2, SMTT(30) DEF Good
<1>8. ASSUME NEW x \in Keys
      PROVE  ht_get(r, x) = IF x = k THEN v ELSE ht_get(t, x)
  <2>1. \A y \in Values : Holds(r, x, y) <=> IF x = k THEN y = v ELSE Holds(g, x, y)
    BY <1>2, <1>3, PutHolds, SMTT(30)
  <2>2. CASE x = k
    <3>1. Holds(r, k, v)
      BY <2>1, <2>2
    <3> QED
      BY <1>4, <1>5, <1>7, <2>2, <3>1, GoodRoom, GetHolds, SMTT(30)
  <2>3. CASE x # k
    <3>1. \A y \in Values : Holds(r, x, y) <=> Holds(t, x, y)
      BY <1>1, <2>1, <2>3
    <3> QED
      BY <1>7, <2>3, <3>1, SameAnswers, SMTT(30)
  <2> QED
    BY <2>2, <2>3
<1> QED
  BY <1>7, <1>8

\* Removing an address that is not in the table changes nothing.
LEMMA ClearNothing ==
  ASSUME NEW t, Good(t), NEW k \in Keys, ht_get(t, k) = NULL,
         NEW u, u = ht_put_nolock(t, k, NULL)
  PROVE  u = t
<1> DEFINE p == Probe(t, k)
<1>1. IsTable(t) /\ Room(t) /\ Reachable(t) /\ NULL \in Values \cup {NULL}
  BY GoodRoom DEF Good
<1>2. t.items[p] = NULL
  BY <1>1, GetHolds, SMTT(30)
<1>3. /\ p \in Indexes(t)
      /\ u = [size |-> u.size, length |-> u.length, items |-> u.items]
      /\ u.size = t.size /\ Indexes(u) = Indexes(t)
      /\ u.items = [t.items EXCEPT ![p] = Item(k, NULL)]
      /\ u.items \in [Indexes(u) -> Entries \cup {NULL}]
      /\ u.length = Adjusted(t, k, NULL)
  BY <1>1, PutFields
<1>4. Item(k, NULL) = NULL /\ Adjusted(t, k, NULL) = t.length
  BY DEF Item, Adjusted
<1>5. DOMAIN t.items = Indexes(t) /\ t.items = [i \in Indexes(t) |-> t.items[i]]
      /\ t = [size |-> t.size, length |-> t.length, items |-> t.items]
  BY <1>1 DEF IsTable
<1> HIDE DEF p
<1>6. u.items = t.items
  BY <1>2, <1>3, <1>4, <1>5, SMTT(30)
<1> QED
  BY <1>3, <1>4, <1>5, <1>6, Zenon

\* Removing an address that is there leaves a hole in its place.
LEMMA ClearItem ==
  ASSUME NEW t, Good(t), NEW k \in Keys, ht_get(t, k) # NULL,
         NEW u, u = ht_put_nolock(t, k, NULL)
  PROVE  /\ IsTable(u) /\ Distinct(u) /\ u.size = t.size
         /\ Cardinality(Used(u)) \in Nat /\ Cardinality(Used(u)) < t.length
         /\ \A x \in Keys, y \in Values : Holds(u, x, y) <=> x # k /\ Holds(t, x, y)
<1> DEFINE p == Probe(t, k)
<1>1. IsTable(t) /\ Room(t) /\ Reachable(t) /\ Counted(t) /\ NULL \in Values \cup {NULL}
  BY GoodRoom DEF Good
<1>2. t.items[p] # NULL /\ StopsAt(t, k, p) /\ p \in Indexes(t)
  BY <1>1, GetHolds, ProbeItem, SMTT(30)
<1>3. /\ p \in Indexes(t)
      /\ u = [size |-> u.size, length |-> u.length, items |-> u.items]
      /\ u.size = t.size /\ Indexes(u) = Indexes(t)
      /\ u.items = [t.items EXCEPT ![p] = Item(k, NULL)]
      /\ u.items \in [Indexes(u) -> Entries \cup {NULL}]
      /\ u.length = Adjusted(t, k, NULL)
  BY <1>1, PutFields
<1>4. Item(k, NULL) = NULL /\ Adjusted(t, k, NULL) = t.length - 1
  BY DEF Item, Adjusted
<1>5. DOMAIN t.items = Indexes(t) /\ t.size \in Nat \ {0} /\ t.length \in Nat
  BY <1>1 DEF IsTable
<1> HIDE DEF p
<1>6. p \in Used(t) /\ t.items[p].key = k
  BY <1>2 DEF Used, StopsAt
<1>7. /\ Used(u) = Used(t) \ {p}
      /\ \A i \in Used(u) : u.items[i] = t.items[i] /\ i \in Used(t) /\ i # p
  BY <1>3, <1>4, <1>5 DEF Used
<1>8. IsFiniteSet(Used(t)) /\ Cardinality(Used(t)) \in Nat /\ t.length = Cardinality(Used(t))
  BY <1>1, UsedFinite, SMTT(30) DEF Counted
<1>9. Cardinality(Used(u)) = t.length - 1 /\ IsFiniteSet(Used(u))
  BY <1>6, <1>7, <1>8, FS_RemoveElement, SMTT(30)
<1>10. Cardinality(Used(u)) \in Nat
  BY <1>9, FS_CardinalityType, SMTT(30)
<1>11. IsTable(u)
  <2>1. u.length \in Nat
    BY <1>3, <1>4, <1>9, <1>10, SMTT(30)
  <2> QED
    BY <1>3, <1>5, <2>1, SMTT(30) DEF IsTable
<1>12. Distinct(u)
  <2>1. Distinct(t)
    BY <1>1, ReachableDistinct
  <2> QED
    BY <1>7, <2>1 DEF Distinct
<1>13. ASSUME NEW x \in Keys, NEW y \in Values
       PROVE  Holds(u, x, y) <=> x # k /\ Holds(t, x, y)
  <2>1. ASSUME Holds(u, x, y) PROVE x # k /\ Holds(t, x, y)
    <3>1. PICK i \in Used(u) : u.items[i] = [key |-> x, value |-> y]
      BY <2>1, SMTT(30) DEF Holds
    <3>2. i \in Used(t) /\ i # p /\ t.items[i] = [key |-> x, value |-> y]
      BY <1>7, <3>1, SMTT(30)
    <3>3. t.items[i].key = x
      BY <3>2, SMTT(30)
    <3>4. x # k
      BY <1>1, <1>6, <3>2, <3>3, SMTT(30) DEF Reachable
    <3> QED
      BY <3>2, <3>4, SMTT(30) DEF Holds
  <2>2. ASSUME x # k, Holds(t, x, y) PROVE Holds(u, x, y)
    <3>1. PICK i \in Used(t) : t.items[i] = [key |-> x, value |-> y]
      BY <2>2 DEF Holds
    <3>2. i # p
      BY <1>6, <2>2, <3>1, SMTT(30)
    <3>3. i \in Used(u) /\ u.items[i] = [key |-> x, value |-> y]
      BY <1>7, <3>1, <3>2
    <3> QED
      BY <3>3, SMTT(30) DEF Holds
  <2> QED
    BY <2>1, <2>2, SMTT(30)
<1>14. Cardinality(Used(u)) < t.length
  BY <1>5, <1>9
<1> QED
  BY <1>3, <1>10, <1>11, <1>12, <1>13, <1>14, SMTT(30)

\* ht_remove
LEMMA RemoveGood ==
  ASSUME NEW t, Good(t), NEW k \in Keys, NEW r, r = ht_remove(t, k)
  PROVE  /\ Good(r)
         /\ \A x \in Keys : ht_get(r, x) = IF x = k THEN NULL ELSE ht_get(t, x)
<1> DEFINE g == Grown(t)
           u == ht_put_nolock(g, k, NULL)
<1>1. /\ Good(g) /\ g.length <= g.size \div 2
      /\ \A x \in Keys, y \in Values : Holds(g, x, y) <=> Holds(t, x, y)
  BY GrownGood
<1>2. r = IF ht_get(t, k) = NULL THEN u ELSE ht_resize(u, u.size)
  BY Zenon DEF ht_remove, ht_put, Grown
<1> HIDE DEF g
<1>3. \A x \in Keys : ht_get(g, x) = ht_get(t, x)
  BY <1>1, SameAnswers
<1>4. CASE ht_get(t, k) = NULL
  <2>1. r = g
    BY <1>1, <1>2, <1>3, <1>4, ClearNothing, SMTT(30)
  <2> QED
    BY <1>1, <1>3, <1>4, <2>1, SMTT(30)
<1>5. CASE ht_get(t, k) # NULL
  <2>1. ht_get(g, k) # NULL
    BY <1>3, <1>5, SMTT(30)
  <2>2. /\ IsTable(u) /\ Distinct(u) /\ u.size = g.size
        /\ Cardinality(Used(u)) \in Nat /\ Cardinality(Used(u)) < g.length
        /\ \A x \in Keys, y \in Values : Holds(u, x, y) <=> x # k /\ Holds(g, x, y)
    BY <1>1, <2>1, ClearItem, SMTT(30)
  <2> HIDE DEF u
  <2>3. g.length \in Nat /\ g.size \in Nat \ {0} /\ g.size >= 3 /\ g.length < g.size
    BY <1>1, GoodRoom DEF Good, IsTable
  <2>4. Cardinality(Used(u)) < u.size /\ u.size \in Nat \ {0}
    BY <2>2, <2>3
  <2>5. r = ht_resize(u, u.size)
    BY <1>2, <1>5, SMTT(30)
  <2>6. /\ IsTable(r) /\ r.size = u.size /\ Counted(r) /\ Reachable(r)
        /\ r.length = Cardinality(Used(u))
        /\ \A x \in Keys, y \in Values : Holds(r, x, y) <=> Holds(u, x, y)
    BY <2>2, <2>4, <2>5, Resized, SMTT(30)
  <2>7. r.size >= 3 /\ r.length <= (r.size \div 2) + 1
    BY <1>1, <2>2, <2>3, <2>6, SMTT(30)
  <2>8. Good(r)
    BY <2>6, <2>7 DEF Good
  <2>9. ASSUME NEW x \in Keys
        PROVE  ht_get(r, x) = IF x = k THEN NULL ELSE ht_get(t, x)
    <3>1. CASE x = k
      <4>1. \A y \in Values : ~Holds(r, k, y)
        BY <2>2, <2>6
      <4> QED
        BY <2>6, <2>8, <3>1, <4>1, GoodRoom, GetHolds, SMTT(30)
    <3>2. CASE x # k
      <4>1. \A y \in Values : Holds(r, x, y) <=> Holds(t, x, y)
        BY <1>1, <2>2, <2>6, <3>2, SMTT(30)
      <4> QED
        BY <2>8, <3>2, <4>1, SameAnswers, SMTT(30)
    <3> QED
      BY <3>1, <3>2, SMTT(30)
  <2> QED
    BY <2>8, <2>9
<1> QED
  BY <1>4, <1>5

\* A new table.
LEMMA InitGood ==
  ASSUME Init
  PROVE  Good(table) /\ \A k \in Keys : ht_get(table, k) = NULL
<1>1. table = Empty(INITIAL_SIZE) /\ INITIAL_SIZE \in Nat \ {0} /\ INITIAL_SIZE >= 3
  BY HashTableAssumption DEF Init, allocate_ht
<1>2. /\ IsTable(table) /\ table.size = INITIAL_SIZE /\ table.length = 0
      /\ Counted(table) /\ Reachable(table) /\ \A k, v : ~Holds(table, k, v)
  BY <1>1, EmptyTable
<1>3. table.length <= (table.size \div 2) + 1
  BY <1>1, <1>2
<1>4. Good(table)
  BY <1>1, <1>2, <1>3, SMTT(30) DEF Good
<1>5. \A k \in Keys : ht_get(table, k) = NULL
  BY <1>2, <1>4, GoodRoom, GetHolds, SMTT(30)
<1> QED
  BY <1>4, <1>5

-----------------------------------------------------------------------------
(* The theorems. *)

\* Every call leaves a good table, for every sequence of calls.
THEOREM Invariant == Spec => []Good(table)
<1>1. Init => Good(table)
  BY InitGood
<1>2. Good(table) /\ [Next]_table => Good(table)'
  <2> SUFFICES ASSUME Good(table), [Next]_table PROVE Good(table)'
    OBVIOUS
  <2>1. CASE UNCHANGED table
    BY <2>1
  <2>2. ASSUME NEW k \in Keys, NEW v \in Values, Put(k, v) PROVE Good(table')
    BY <2>2, PutGood DEF Put
  <2>3. ASSUME NEW k \in Keys, Remove(k) PROVE Good(table')
    BY <2>3, RemoveGood DEF Remove
  <2> QED
    BY <2>1, <2>2, <2>3 DEF Next
<1> QED
  BY <1>1, <1>2, PTL DEF Spec

\* Every loop of ht_get and ht_put_nolock ends, however many addresses
\* collide: growing a table that is more than half full leaves an item unused.
THEOREM LoopsEnd == Spec => []ProbesEnd
<1>1. Good(table) => ProbesEnd
  BY GoodRoom, SMTT(30) DEF Room, ProbesEnd, Indexes
<1> QED
  BY <1>1, Invariant, PTL

\* No removal and no growth separates an item from its hash: the rehash after
\* a removal closes the hole, so every item is found by its own probe, and no
\* address occurs twice.
THEOREM ProbesFind == Spec => []ItemsAreReachable
<1>1. Good(table) => ItemsAreReachable
  BY DEF Good, Reachable, Used, Indexes, ItemsAreReachable, Items
<1> QED
  BY <1>1, Invariant, PTL

\* ht_put, ht_remove and ht_get implement a map from addresses to clients, for
\* every capacity and every pattern of collisions.
THEOREM TableIsDictionary == Spec => ImplementsDictionary
<1> DEFINE entries == [k \in Keys |-> ht_get(table, k)]
<1>1. Init => D!Init
  BY InitGood DEF D!Init
<1>2. Good(table) /\ [Next]_table => [D!Next]_entries
  <2> SUFFICES ASSUME Good(table), [Next]_table PROVE [D!Next]_entries
    OBVIOUS
  <2>1. CASE UNCHANGED table
    BY <2>1
  <2>2. ASSUME NEW k \in Keys, NEW v \in Values, Put(k, v) PROVE D!Put(k, v)
    <3>1. \A x \in Keys : ht_get(table', x) = IF x = k THEN v ELSE ht_get(table, x)
      BY <2>2, PutGood DEF Put
    <3> QED
      BY <3>1, Zenon DEF D!Put
  <2>3. ASSUME NEW k \in Keys, Remove(k) PROVE D!Remove(k)
    <3>1. \A x \in Keys : ht_get(table', x) = IF x = k THEN NULL ELSE ht_get(table, x)
      BY <2>3, RemoveGood DEF Remove
    <3> QED
      BY <3>1, Zenon DEF D!Remove
  <2> QED
    BY <2>1, <2>2, <2>3, SMTT(30) DEF Next, D!Next
<1> QED
  BY <1>1, <1>2, Invariant, PTL DEF Spec, D!Spec, ImplementsDictionary
=============================================================================
