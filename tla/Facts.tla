------------------------------- MODULE Facts -------------------------------
(***************************************************************************)
(* Facts about finite sequences and about remainders that the proofs cite: *)
(* stating each one once keeps the leaves of the other proofs small.       *)
(***************************************************************************)
EXTENDS Integers, Sequences, TLAPS

\* The length and the elements of a sequence have their types.
LEMMA SeqType ==
  ASSUME NEW S, NEW s \in Seq(S)
  PROVE  /\ Len(s) \in Nat
         /\ \A i \in 1..Len(s) : s[i] \in S
OBVIOUS

\* The empty sequence.
LEMMA SeqEmpty ==
  ASSUME NEW S
  PROVE  <<>> \in Seq(S) /\ Len(<<>>) = 0
OBVIOUS

\* It is the only sequence without elements.
LEMMA SeqNothing ==
  ASSUME NEW S, NEW s \in Seq(S), Len(s) = 0
  PROVE  s = <<>>
OBVIOUS

\* Append adds one element at the end.
LEMMA SeqAppend ==
  ASSUME NEW S, NEW s \in Seq(S), NEW e \in S
  PROVE  /\ Append(s, e) \in Seq(S)
         /\ Len(Append(s, e)) = Len(s) + 1
         /\ \A i \in 1..Len(s) : Append(s, e)[i] = s[i]
         /\ Append(s, e)[Len(s) + 1] = e
OBVIOUS

\* Head and Tail take a sequence apart.
LEMMA SeqHeadTail ==
  ASSUME NEW S, NEW s \in Seq(S), s # <<>>
  PROVE  /\ Head(s) \in S /\ Head(s) = s[1] /\ Len(s) >= 1
         /\ Tail(s) \in Seq(S) /\ Len(Tail(s)) = Len(s) - 1
         /\ \A i \in 1..(Len(s) - 1) : Tail(s)[i] = s[i + 1]
OBVIOUS

\* Concatenation puts the second sequence after the first.
LEMMA SeqConcat ==
  ASSUME NEW S, NEW s \in Seq(S), NEW t \in Seq(S)
  PROVE  /\ s \o t \in Seq(S)
         /\ Len(s \o t) = Len(s) + Len(t)
         /\ \A i \in 1..(Len(s) + Len(t)) :
              (s \o t)[i] = IF i <= Len(s) THEN s[i] ELSE t[i - Len(s)]
OBVIOUS

\* Nothing is added by the empty sequence.
LEMMA SeqConcatEmpty ==
  ASSUME NEW S, NEW s \in Seq(S)
  PROVE  s \o <<>> = s
OBVIOUS

\* The first n elements.
LEMMA SeqPrefix ==
  ASSUME NEW S, NEW s \in Seq(S), NEW n \in 0..Len(s)
  PROVE  /\ SubSeq(s, 1, n) \in Seq(S)
         /\ Len(SubSeq(s, 1, n)) = n
         /\ \A i \in 1..n : SubSeq(s, 1, n)[i] = s[i]
OBVIOUS

\* All of a sequence.
LEMMA SeqWhole ==
  ASSUME NEW S, NEW s \in Seq(S)
  PROVE  SubSeq(s, 1, Len(s)) = s
OBVIOUS

\* What is left after the first m - 1 elements.
LEMMA SeqSuffix ==
  ASSUME NEW S, NEW s \in Seq(S), NEW m \in Nat \ {0}
  PROVE  /\ SubSeq(s, m, Len(s)) \in Seq(S)
         /\ m > Len(s) => SubSeq(s, m, Len(s)) = <<>>
<1>1. CASE m \in 1..Len(s)
  BY <1>1
<1>2. CASE m > Len(s)
  BY <1>2
<1> QED
  BY <1>1, <1>2

-----------------------------------------------------------------------------
(* Remainders *)

\* Division with remainder: the shape in which the proofs use a % m.
LEMMA DivMod ==
  ASSUME NEW a \in Int, NEW m \in Nat \ {0}
  PROVE  /\ a % m \in 0..(m - 1)
         /\ a \div m \in Int
         /\ a = (m * (a \div m)) + (a % m)
OBVIOUS

\* A remainder is determined by its range.
LEMMA ModUnique ==
  ASSUME NEW a \in Int, NEW m \in Nat \ {0}, NEW k \in Int,
         NEW r \in 0..(m - 1), a = (m * k) + r
  PROVE  a % m = r
<1> DEFINE q == a \div m
           s == a % m
<1>1. q \in Int /\ s \in 0..(m - 1) /\ a = (m * q) + s
  BY DivMod
<1> HIDE DEF q, s
<1>2. (m * q) - (m * k) = m * (q - k)
  BY <1>1
<1>3. m * (q - k) = r - s
  BY <1>1, <1>2
<1>4. q - k >= 1 => m * (q - k) >= m
  BY <1>1
<1>5. q - k <= -1 => m * (q - k) <= -m
  BY <1>1
<1>6. q - k = 0
  BY <1>1, <1>3, <1>4, <1>5
<1>7. m * (q - k) = 0
  BY <1>6
<1> QED
  BY <1>1, <1>3, <1>7 DEF s

\* Linear combinations of multiples of m are multiples of m.
LEMMA Multiples ==
  ASSUME NEW m \in Nat, NEW k \in Int, NEW l \in Int
  PROVE  /\ (m * k) - (m * l) = m * (k - l)
         /\ (m * k) + (m * l) = m * (k + l)
OBVIOUS

\* A number and its remainder differ by a multiple of m.
LEMMA ModShift ==
  ASSUME NEW a \in Int, NEW m \in Nat \ {0}, NEW k \in Int
  PROVE  (a + (m * k)) % m = a % m
<1> DEFINE q == a \div m
           r == a % m
<1>1. q \in Int /\ r \in 0..(m - 1) /\ a = (m * q) + r
  BY DivMod
<1> HIDE DEF q, r
<1>2. a + (m * k) = (m * (q + k)) + r
  BY <1>1, Multiples
<1>3. a + (m * k) \in Int /\ q + k \in Int
  BY <1>1
<1> QED
  BY <1>1, <1>2, <1>3, ModUnique, Zenon DEF r

\* Adding to a remainder first or last makes no difference.
LEMMA ModSum ==
  ASSUME NEW a \in Int, NEW b \in Int, NEW m \in Nat \ {0}
  PROVE  ((a % m) + b) % m = (a + b) % m
<1> DEFINE q == a \div m
           r == a % m
<1>1. q \in Int /\ r \in Int /\ a = (m * q) + r
  BY DivMod
<1> HIDE DEF q, r
<1>2. a + b = (r + b) + (m * q) /\ r + b \in Int
  BY <1>1
<1>3. ((r + b) + (m * q)) % m = (r + b) % m
  BY <1>1, <1>2, ModShift, Zenon
<1> QED
  BY <1>2, <1>3 DEF r

\* Remainders are compatible with subtraction.
LEMMA ModDifference ==
  ASSUME NEW a \in Int, NEW b \in Int, NEW m \in Nat \ {0}
  PROVE  ((a % m) - (b % m)) % m = (a - b) % m
<1> DEFINE q == b \div m
           r == b % m
<1>1. q \in Int /\ r \in Int /\ b = (m * q) + r
  BY DivMod
<1> HIDE DEF q, r
<1>2. ((a % m) + (-r)) % m = (a + (-r)) % m
  <2>1. -r \in Int
    BY <1>1
  <2> QED
    BY <2>1, ModSum, Zenon
<1>3. a + (-r) = (a - b) + (m * q) /\ a - b \in Int
  BY <1>1
<1>4. ((a - b) + (m * q)) % m = (a - b) % m
  BY <1>1, <1>3, ModShift, Zenon
<1>5. a % m \in Int
  BY DivMod
<1>6. (a % m) + (-r) = (a % m) - r
  BY <1>1, <1>5
<1> QED
  BY <1>2, <1>3, <1>4, <1>6 DEF r

\* Numbers less than m apart with the same remainder are equal.
LEMMA ModInjective ==
  ASSUME NEW a \in Int, NEW b \in Int, NEW m \in Nat \ {0},
         a - b < m, b - a < m, a % m = b % m
  PROVE  a = b
<1> DEFINE k == (a \div m) - (b \div m)
<1>1. k \in Int /\ a - b = m * k
  <2>1. /\ a \div m \in Int /\ b \div m \in Int
        /\ a = (m * (a \div m)) + (a % m)
        /\ b = (m * (b \div m)) + (b % m)
        /\ a % m \in Int
    BY DivMod
  <2>2. m * k = (m * (a \div m)) - (m * (b \div m))
    BY <2>1
  <2> QED
    BY <2>1, <2>2
<1> HIDE DEF k
<1>2. k >= 1 => m * k >= m
  BY <1>1
<1>3. k <= -1 => m * k <= -m
  BY <1>1
<1>4. k = 0
  BY <1>1, <1>2, <1>3
<1> QED
  BY <1>1, <1>4

=============================================================================
