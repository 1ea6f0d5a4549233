---- MODULE DataLemmas ----
(* What the proofs of several components rest on.  Induction over the natural  *)
(* numbers, in a form without an operator as parameter, with the two facts it  *)
(* is needed for: a set of numbers has a least one, and what is computed step  *)
(* by step exists.  The digits of a number.  And what the operations of the    *)
(* intrusive list do to a ring: the links that are a ring through the entries  *)
(* of a sequence become a ring through the sequence with the entry added or    *)
(* removed.                                                                    *)
EXTENDS ListHead, SequencesExt, FiniteSetTheorems, SequenceTheorems, TLAPS

\* A set of numbers with 0 and with the successor of each of its members has them
\* all: a number N outside would leave n |-> n + 1 an injection of the members up
\* to N into the same ones without 0.
LEMMA Induction ==
    ASSUME NEW T \in SUBSET Nat, 0 \in T, \A n \in T : n + 1 \in T
    PROVE  \A n \in Nat : n \in T
<1> SUFFICES ASSUME NEW N \in Nat, N \notin T PROVE FALSE
  OBVIOUS
<1>1. PICK A : A = T \cap (0..N)
  OBVIOUS
<1>2. IsFiniteSet(A) /\ Cardinality(A) \in Nat
  <2>1. IsFiniteSet(0..N)
    BY FS_Interval
  <2>2. A \in SUBSET (0..N)
    BY <1>1
  <2>3. QED
    BY <2>1, <2>2, FS_Subset, FS_CardinalityType
<1>3. 0 \in A
  BY <1>1
<1>4. IsFiniteSet(A \ {0}) /\ Cardinality(A \ {0}) < Cardinality(A)
  <2>1. IsFiniteSet(A \ {0}) /\ Cardinality(A \ {0}) = Cardinality(A) - 1
    BY <1>2, <1>3, FS_RemoveElement
  <2>2. QED
    BY <2>1, <1>2
<1>5. \A n \in A : n \in Nat /\ n + 1 \in A \ {0}
  BY <1>1
<1>6. PICK f : f = [n \in A |-> n + 1]
  OBVIOUS
<1>7. f \in [A -> A \ {0}]
  BY <1>5, <1>6
<1>8. \E x, y \in A : x # y /\ f[x] = f[y]
  BY <1>2, <1>4, <1>7, FS_PigeonHole
<1>9. QED
  BY <1>5, <1>6, <1>8

\* A set of numbers that is not empty has a least one.
LEMMA LeastNumber ==
    ASSUME NEW S \in SUBSET Nat, S # {}
    PROVE  \E n \in S : \A k \in S : n <= k
<1> SUFFICES ASSUME \A n \in S : \E k \in S : k < n PROVE FALSE
  OBVIOUS
<1> DEFINE T == {n \in Nat : \A k \in S : n < k}
<1>1. 0 \in T
  OBVIOUS
<1>2. \A n \in T : n + 1 \in T
  OBVIOUS
<1>3. \A n \in Nat : n \in T
  <2> HIDE DEF T
  <2>1. T \in SUBSET Nat
    BY DEF T
  <2>2. QED
    BY <1>1, <1>2, <2>1, Induction
<1>4. PICK n \in S : TRUE
  OBVIOUS
<1>5. n < n
  BY <1>3
<1>6. QED
  BY <1>5

\* What starts with a and goes on by step.
Computed(f, a, step, N) == f[0] = a /\ \A k \in 1..N : f[k] = step[<<k, f[k - 1]>>]

\* It exists up to any number.
LEMMA StepByStep ==
    ASSUME NEW S, NEW a \in S, NEW step \in [Nat \X S -> S], NEW N \in Nat
    PROVE  \E f \in [0..N -> S] : Computed(f, a, step, N)
<1> DEFINE Good(n, f) == /\ f \in [0..n -> S]
                         /\ f[0] = a
                         /\ \A k \in 1..n : f[k] = step[<<k, f[k - 1]>>]
           T == {n \in Nat : \E f : Good(n, f)}
<1>1. 0 \in T
  <2>1. Good(0, [k \in 0..0 |-> a])
    OBVIOUS
  <2>2. QED
    BY <2>1
<1>2. ASSUME NEW n \in T PROVE n + 1 \in T
  <2>1. PICK f : Good(n, f)
    OBVIOUS
  <2>2. PICK g : g = [k \in 0..(n + 1) |-> IF k <= n THEN f[k] ELSE step[<<n + 1, f[n]>>]]
    OBVIOUS
  <2>3. f[n] \in S /\ step[<<n + 1, f[n]>>] \in S
    BY <2>1
  <2>4. g \in [0..(n + 1) -> S] /\ g[0] = a
    BY <2>1, <2>2, <2>3
  <2>5. ASSUME NEW k \in 1..(n + 1) PROVE g[k] = step[<<k, g[k - 1]>>]
    <3>1. CASE k <= n
      <4>1. k \in 1..n /\ g[k] = f[k] /\ g[k - 1] = f[k - 1]
        BY <2>2, <3>1
      <4>2. QED
        BY <2>1, <4>1
    <3>2. CASE k = n + 1
      <4>1. g[k] = step[<<n + 1, f[n]>>] /\ g[k - 1] = f[n]
        BY <2>2, <3>2
      <4>2. QED
        BY <3>2, <4>1
    <3>3. QED
      BY <3>1, <3>2
  <2>6. Good(n + 1, g)
    BY <2>4, <2>5
  <2>7. QED
    BY <2>6
<1>3. \A n \in Nat : n \in T
  <2> HIDE DEF T
  <2>1. T \in SUBSET Nat
    BY DEF T
  <2>2. QED
    BY <1>1, <1>2, <2>1, Induction
<1>4. PICK f : Good(N, f)
  BY <1>3
<1>5. QED
  BY <1>4 DEF Computed

------------------------------------------------------------------------------
(* Remainders.                                                                 *)

\* Division leaves a remainder.
LEMMA DivMod ==
    ASSUME NEW x \in Int, NEW m \in Nat \ {0}
    PROVE  x \div m \in Int /\ x % m \in 0..(m - 1) /\ x = m * (x \div m) + (x % m)
<1>1. x \div m \in Int
  OBVIOUS
<1>2. x % m \in 0..(m - 1)
  OBVIOUS
<1>3. x = m * (x \div m) + (x % m)
  OBVIOUS
<1>4. QED
  BY <1>1, <1>2, <1>3

\* Products of a sum and of a difference.
LEMMA Distribute ==
    ASSUME NEW a \in Int, NEW b \in Int, NEW c \in Int
    PROVE  a * (b - c) = a * b - a * c /\ a * (b + c) = a * b + a * c
  OBVIOUS

\* Products in any order.
LEMMA Assoc ==
    ASSUME NEW a \in Int, NEW b \in Int, NEW c \in Int
    PROVE  a * (b * c) = (a * b) * c /\ a * b = b * a
  OBVIOUS

\* A product by one or more is as large as its other factor.
LEMMA TimesBound ==
    ASSUME NEW m \in Nat, NEW t \in Int
    PROVE  /\ t >= 1 => m * t >= m
           /\ t <= -1 => m * t <= -m
           /\ m * t \in Int
  OBVIOUS

\* A number has one remainder.
LEMMA ModUnique ==
    ASSUME NEW m \in Nat \ {0}, NEW q \in Int, NEW r \in 0..(m - 1)
    PROVE  (m * q + r) % m = r
<1>1. PICK x \in Int : x = m * q + r
  <2>1. m * q \in Int
    BY TimesBound
  <2>2. QED
    BY <2>1
<1>2. x = m * (x \div m) + (x % m) /\ x % m \in 0..(m - 1) /\ x \div m \in Int
  BY DivMod
<1>3. m * (q - (x \div m)) = m * q - m * (x \div m)
  BY <1>2, Distribute
<1>4. m * (q - (x \div m)) = (x % m) - r
  <2>1. m * q \in Int /\ m * (x \div m) \in Int
    BY <1>2, TimesBound
  <2>2. QED
    BY <1>1, <1>2, <1>3, <2>1
<1>5. q - (x \div m) = 0
  <2>1. q - (x \div m) \in Int
    BY <1>2
  <2>2. ~(q - (x \div m) >= 1) /\ ~(q - (x \div m) <= -1)
    BY <1>2, <1>4, <2>1, TimesBound
  <2>3. QED
    BY <2>1, <2>2
<1>6. q = x \div m
  BY <1>2, <1>5
<1>7. QED
  BY <1>1, <1>2, <1>6, TimesBound

\* The digits of a number: the remainder by d * b is the one by d and the next digit
\* to base b.
LEMMA ModProduct ==
    ASSUME NEW v \in Int, NEW d \in Nat \ {0}, NEW b \in Nat \ {0}
    PROVE  v % (d * b) = (v % d) + ((v \div d) % b) * d
<1>1. PICK q \in Int, r \in 0..(d - 1) : q = v \div d /\ r = v % d /\ v = d * q + r
  BY DivMod
<1>2. PICK p \in Int, s \in 0..(b - 1) : s = q % b /\ q = b * p + s
  BY DivMod
<1>3. d * b \in Nat \ {0}
  OBVIOUS
<1>4. v = (d * b) * p + (s * d + r)
  <2>1. d * q = d * (b * p) + d * s
    BY <1>2, Distribute
  <2>2. d * (b * p) = (d * b) * p /\ d * s = s * d
    BY Assoc
  <2>3. (d * b) * p \in Int /\ s * d \in Int
    OBVIOUS
  <2>4. QED
    BY <1>1, <2>1, <2>2, <2>3
<1>5. s * d + r \in 0..((d * b) - 1)
  <2>1. (b - 1) - s \in Nat /\ d * ((b - 1) - s) \in Nat
    OBVIOUS
  <2>2. d * ((b - 1) - s) = d * (b - 1) - d * s /\ d * (b - 1) = d * b - d * 1
    BY Distribute
  <2>3. d * 1 = d /\ d * s = s * d /\ s * d \in Nat /\ d * b \in Nat /\ d * (b - 1) \in Int
    OBVIOUS
  <2>4. QED
    BY <1>1, <2>1, <2>2, <2>3
<1>6. PICK w \in 0..((d * b) - 1) : w = s * d + r
  BY <1>5
<1>7. ((d * b) * p + w) % (d * b) = w
  BY <1>3, ModUnique
<1>8. v = (d * b) * p + w
  BY <1>4, <1>6
<1>9. v % (d * b) = w
  BY <1>7, <1>8, Zenon
<1>10. w = (v % d) + s * d
  BY <1>1, <1>2, <1>6
<1>11. s = (v \div d) % b
  BY <1>1, <1>2, Zenon
<1>12. QED
  BY <1>9, <1>10, <1>11, Zenon

------------------------------------------------------------------------------
(* Sequences of anything.                                                      *)

Typed(s) == \E S : s \in Seq(S)

\* A sequence of anything keeps being one.
LEMMA AppendAny ==
    ASSUME NEW s, Typed(s), NEW e
    PROVE  /\ Typed(Append(s, e))
           /\ Len(s) \in Nat /\ Len(Append(s, e)) = Len(s) + 1
           /\ Append(s, e)[Len(s) + 1] = e
           /\ \A k \in 1..Len(s) : Append(s, e)[k] = s[k]
<1>1. PICK S : s \in Seq(S)
  BY DEF Typed
<1> DEFINE T == S \cup {e}
<1>2. s \in Seq(T)
  BY <1>1, SeqMonotonic
<1>3. e \in T
  OBVIOUS
<1> HIDE DEF T
<1>4. Append(s, e) \in Seq(T)
  BY <1>2, <1>3
<1>5. /\ Len(s) \in Nat /\ Len(Append(s, e)) = Len(s) + 1
      /\ Append(s, e)[Len(s) + 1] = e
      /\ \A k \in 1..Len(s) : Append(s, e)[k] = s[k]
  BY <1>2, <1>3, AppendProperties
<1>6. QED
  BY <1>4, <1>5 DEF Typed

\* Updating a function at a place that it may not have.
LEMMA ExceptAny ==
    ASSUME NEW s, Typed(s), NEW k \in 1..Len(s), NEW e
    PROVE  Typed([s EXCEPT ![k] = e]) /\ Len([s EXCEPT ![k] = e]) = Len(s)
<1>1. PICK S : s \in Seq(S)
  BY DEF Typed
<1> DEFINE T == S \cup {e}
<1>2. s \in Seq(T) /\ e \in T
  BY <1>1, SeqMonotonic
<1> HIDE DEF T
<1>3. [s EXCEPT ![k] = e] \in Seq(T) /\ Len([s EXCEPT ![k] = e]) = Len(s)
  BY <1>2, ExceptSeq
<1>4. QED
  BY <1>3 DEF Typed

------------------------------------------------------------------------------
(* Rings.                                                                      *)

\* Links between the list_heads of A.
Links(A) == [next : [A -> A \cup {Null}], prev : [A -> A \cup {Null}]]

\* A list of A: its entries are list_heads other than the head, each once.
ListOf(A, h, s) ==
    /\ h \in A
    /\ s \in Seq(A)
    /\ \A k \in 1..Len(s) : s[k] # h
    /\ \A j, k \in 1..Len(s) : s[j] = s[k] => j = k

\* A list_head that was taken out, and the ones an operation did not touch.
Cleared(l, e) == l.next[e] = Null /\ l.prev[e] = Null

SameOutside(A, l, ll, h, s) ==
    \A n \in A : (n # h /\ \A k \in 1..Len(s) : s[k] # n) =>
        ll.next[n] = l.next[n] /\ ll.prev[n] = l.prev[n]

\* A function on the two field names is a record.
LEMMA RecordOf ==
    ASSUME NEW S, NEW T, NEW l, l = [x \in {"next", "prev"} |-> l[x]],
           l.next \in S, l.prev \in T
    PROVE  l \in [next : S, prev : T]
  OBVIOUS

\* What RemoveAt leaves: the other elements, in their order.
LEMMA RemovedSeq ==
    ASSUME NEW S, NEW s \in Seq(S), NEW c \in 1..Len(s)
    PROVE  /\ RemoveAt(s, c) \in Seq(S)
           /\ Len(RemoveAt(s, c)) = Len(s) - 1
           /\ \A j \in 1..(Len(s) - 1) :
                RemoveAt(s, c)[j] = IF j < c THEN s[j] ELSE s[j + 1]
<1> DEFINE before == SubSeq(s, 1, c - 1)
           after  == SubSeq(s, c + 1, Len(s))
<1>1. before \in Seq(S) /\ Len(before) = c - 1 /\ \A j \in 1..(c - 1) : before[j] = s[j]
  OBVIOUS
<1>2. /\ after \in Seq(S) /\ Len(after) = Len(s) - c
      /\ \A j \in 1..(Len(s) - c) : after[j] = s[c + j]
  OBVIOUS
<1>3. RemoveAt(s, c) = before \o after
  BY DEF RemoveAt
<1> HIDE DEF before, after
<1>4. /\ before \o after \in Seq(S)
      /\ Len(before \o after) = Len(before) + Len(after)
      /\ \A j \in 1..(Len(before) + Len(after)) :
           (before \o after)[j] =
             IF j <= Len(before) THEN before[j] ELSE after[j - Len(before)]
  BY <1>1, <1>2, ConcatProperties
<1>5. Len(s) \in Nat
  OBVIOUS
<1>6. ASSUME NEW j \in 1..(Len(s) - 1)
      PROVE  RemoveAt(s, c)[j] = IF j < c THEN s[j] ELSE s[j + 1]
  <2>1. CASE j < c
    BY <2>1, <1>1, <1>2, <1>3, <1>4, <1>5
  <2>2. CASE ~(j < c)
    <3>1. j - Len(before) \in 1..(Len(s) - c) /\ ~(j <= Len(before))
      BY <2>2, <1>1, <1>5
    <3>2. after[j - Len(before)] = s[c + (j - Len(before))] /\ c + (j - Len(before)) = j + 1
      BY <3>1, <1>1, <1>2, <1>5
    <3>3. QED
      BY <2>2, <3>1, <3>2, <1>1, <1>2, <1>3, <1>4, <1>5
  <2>3. QED
    BY <2>1, <2>2
<1>7. QED
  BY <1>1, <1>2, <1>3, <1>4, <1>5, <1>6

\* The head counts once: as the entry before the first or after the last.
LEMMA EntriesDistinct ==
    ASSUME NEW A, NEW h, NEW s, ListOf(A, h, s)
    PROVE  /\ Len(s) \in Nat
           /\ \A k \in Int : RingEntry(h, s, k) \in A
           /\ \A j, k \in 0..Len(s) : RingEntry(h, s, j) = RingEntry(h, s, k) => j = k
           /\ \A j, k \in 1..(Len(s) + 1) : RingEntry(h, s, j) = RingEntry(h, s, k) => j = k
<1>1. Len(s) \in Nat /\ \A k \in 1..Len(s) : s[k] \in A
  BY ElementOfSeq DEF ListOf
<1>2. \A k \in Int : RingEntry(h, s, k) \in A
  BY <1>1 DEF ListOf, RingEntry
<1>3. \A j, k \in 0..Len(s) : RingEntry(h, s, j) = RingEntry(h, s, k) => j = k
  BY <1>1 DEF ListOf, RingEntry
<1>4. \A j, k \in 1..(Len(s) + 1) : RingEntry(h, s, j) = RingEntry(h, s, k) => j = k
  BY <1>1 DEF ListOf, RingEntry
<1>5. QED
  BY <1>1, <1>2, <1>3, <1>4

\* INIT_LIST_HEAD makes an empty list.
LEMMA InitRing ==
    ASSUME NEW A, NEW l \in Links(A), NEW h \in A
    PROVE  /\ INIT_LIST_HEAD(l, h) \in Links(A)
           /\ Ring(INIT_LIST_HEAD(l, h), h, <<>>)
           /\ \A n \in A : n # h => /\ INIT_LIST_HEAD(l, h).next[n] = l.next[n]
                                    /\ INIT_LIST_HEAD(l, h).prev[n] = l.prev[n]
<1>1. /\ INIT_LIST_HEAD(l, h).next = [l.next EXCEPT ![h] = h]
      /\ INIT_LIST_HEAD(l, h).prev = [l.prev EXCEPT ![h] = h]
      /\ INIT_LIST_HEAD(l, h) \in Links(A)
  BY DEF INIT_LIST_HEAD, Links
<1>2. Len(<<>>) = 0 /\ 0..0 = {0}
  OBVIOUS
<1>3. RingEntry(h, <<>>, 0) = h /\ RingEntry(h, <<>>, 1) = h
  BY <1>2 DEF RingEntry
<1>4. l.next \in [A -> A \cup {Null}] /\ l.prev \in [A -> A \cup {Null}]
  BY DEF Links
<1>5. QED
  BY <1>1, <1>2, <1>3, <1>4 DEF Ring

\* list_empty tells whether the list is empty.
LEMMA EmptyRing ==
    ASSUME NEW A, NEW l, NEW h, NEW s, ListOf(A, h, s), Ring(l, h, s)
    PROVE  list_empty(l, h) <=> s = <<>>
<1>1. Len(s) \in Nat /\ s \in Seq(A)
  BY EntriesDistinct DEF ListOf
<1>2. l.next[h] = RingEntry(h, s, 1)
  <2>1. 0 \in 0..Len(s) /\ RingEntry(h, s, 0) = h /\ 0 + 1 = 1
    BY <1>1 DEF RingEntry
  <2>2. QED
    BY <2>1 DEF Ring
<1>3. CASE s = <<>>
  BY <1>2, <1>3 DEF RingEntry, list_empty
<1>4. CASE s # <<>>
  <2>1. 1 \in 1..Len(s)
    BY <1>1, <1>4, EmptySeq
  <2>2. RingEntry(h, s, 1) = s[1] /\ s[1] # h
    BY <2>1 DEF RingEntry, ListOf
  <2>3. QED
    BY <1>2, <1>4, <2>2 DEF list_empty
<1>5. QED
  BY <1>3, <1>4

\* list_add_tail appends the entry and touches no list_head outside the list.
LEMMA AddTailRing ==
    ASSUME NEW A, NEW l \in Links(A), NEW h, NEW s, NEW e \in A,
           ListOf(A, h, s), Ring(l, h, s), e # h, \A k \in 1..Len(s) : s[k] # e
    PROVE  /\ list_add_tail(l, e, h) \in Links(A)
           /\ ListOf(A, h, Append(s, e))
           /\ Ring(list_add_tail(l, e, h), h, Append(s, e))
           /\ SameOutside(A, l, list_add_tail(l, e, h), h, Append(s, e))
<1> DEFINE t == Append(s, e)
           p == l.prev[h]
           ll == list_add_tail(l, e, h)
           E(k) == RingEntry(h, s, k)
           F(k) == RingEntry(h, t, k)
<1>1. Len(s) \in Nat /\ s \in Seq(A) /\ h \in A
  BY EntriesDistinct DEF ListOf
<1>2. /\ t \in Seq(A) /\ Len(t) = Len(s) + 1
      /\ \A k \in 1..Len(s) : t[k] = s[k]
      /\ t[Len(s) + 1] = e
  BY <1>1, AppendProperties
<1>3. ListOf(A, h, t)
  <2>1. \A k \in 1..Len(t) : t[k] # h
    BY <1>1, <1>2 DEF ListOf
  <2>2. \A j, k \in 1..Len(t) : t[j] = t[k] => j = k
    BY <1>1, <1>2 DEF ListOf
  <2>3. QED
    BY <1>1, <1>2, <2>1, <2>2 DEF ListOf
<1>4. /\ \A k \in 0..Len(s) : E(k) \in A /\ E(k) # e
      /\ \A j, k \in 0..Len(s) : E(j) = E(k) => j = k
      /\ \A j, k \in 1..(Len(s) + 1) : E(j) = E(k) => j = k
  BY <1>1, EntriesDistinct DEF RingEntry
<1>5. \A k \in 0..Len(s) : l.next[E(k)] = E(k + 1) /\ l.prev[E(k + 1)] = E(k)
  BY DEF Ring
<1>6. E(Len(s) + 1) = h /\ F(Len(s) + 1) = e /\ F(Len(s) + 2) = h /\ E(0) = h
  BY <1>1, <1>2 DEF RingEntry
<1>7. \A k \in 0..Len(s) : F(k) = E(k)
  BY <1>1, <1>2 DEF RingEntry
<1>8. p = E(Len(s))
  BY <1>1, <1>5, <1>6
<1>9. l.next \in [A -> A \cup {Null}] /\ l.prev \in [A -> A \cup {Null}]
  BY DEF Links
<1>10. /\ ll.next = [[l.next EXCEPT ![e] = h] EXCEPT ![p] = e]
       /\ ll.prev = [[l.prev EXCEPT ![h] = e] EXCEPT ![e] = p]
       /\ ll = [x \in {"next", "prev"} |-> ll[x]]
  <2>1. ll.next = [[l.next EXCEPT ![e] = h] EXCEPT ![p] = e]
    BY DEF list_add_tail, list_add_between, Links
  <2>2. ll.prev = [[l.prev EXCEPT ![h] = e] EXCEPT ![e] = p]
    BY DEF list_add_tail, list_add_between, Links
  <2>3. ll = [x \in {"next", "prev"} |-> ll[x]]
    BY Zenon DEF list_add_tail, list_add_between, Links
  <2>4. QED
    BY <2>1, <2>2, <2>3
<1>11. p \in A /\ p # e
  BY <1>1, <1>4, <1>8
<1>12. ll \in Links(A)
  <2>1. ll.next \in [A -> A \cup {Null}] /\ ll.prev \in [A -> A \cup {Null}]
    BY <1>1, <1>9, <1>10, <1>11
  <2>2. QED
    BY <2>1, <1>10, RecordOf DEF Links
<1>13. /\ \A n \in A : ll.next[n] = IF n = p THEN e ELSE IF n = e THEN h ELSE l.next[n]
       /\ \A n \in A : ll.prev[n] = IF n = e THEN p ELSE IF n = h THEN e ELSE l.prev[n]
  BY <1>1, <1>9, <1>10, <1>11
<1> HIDE DEF t, p, ll, E, F
<1>14. ASSUME NEW k \in 0..(Len(s) + 1)
       PROVE  ll.next[F(k)] = F(k + 1) /\ ll.prev[F(k + 1)] = F(k)
  <2>1. CASE k = Len(s) + 1
    BY <2>1, <1>1, <1>6, <1>11, <1>13
  <2>2. CASE k = Len(s)
    BY <2>2, <1>1, <1>6, <1>7, <1>8, <1>11, <1>13
  <2>3. CASE k < Len(s)
    <3>1. k \in 0..Len(s) /\ k + 1 \in 0..Len(s) /\ k + 1 \in 1..(Len(s) + 1)
          /\ Len(s) \in 0..Len(s) /\ Len(s) + 1 \in 1..(Len(s) + 1)
      BY <2>3, <1>1
    <3>2. F(k) = E(k) /\ F(k + 1) = E(k + 1)
      BY <3>1, <1>7
    <3>3. E(k) \in A /\ E(k) # e /\ E(k) # p
      BY <2>3, <3>1, <1>4, <1>8
    <3>4. E(k + 1) \in A /\ E(k + 1) # e /\ E(k + 1) # h
      <4>1. E(k + 1) \in A /\ E(k + 1) # e
        BY <3>1, <1>4
      <4>2. k + 1 # Len(s) + 1
        BY <2>3, <1>1
      <4>3. E(k + 1) # E(Len(s) + 1)
        BY <3>1, <4>2, <1>4
      <4>4. QED
        BY <4>1, <4>3, <1>6
    <3>5. l.next[E(k)] = E(k + 1) /\ l.prev[E(k + 1)] = E(k)
      BY <3>1, <1>5
    <3>6. QED
      BY <3>2, <3>3, <3>4, <3>5, <1>13
  <2>4. QED
    BY <2>1, <2>2, <2>3, <1>1
<1>15. Ring(ll, h, t)
  BY <1>2, <1>14 DEF Ring, F
<1>16. ASSUME NEW n \in A, n # h, \A k \in 1..Len(t) : t[k] # n
       PROVE  ll.next[n] = l.next[n] /\ ll.prev[n] = l.prev[n]
  <2>1. n # e /\ \A k \in 1..Len(s) : s[k] # n
    <3>1. Len(t) = Len(s) + 1 /\ t[Len(s) + 1] = e /\ \A k \in 1..Len(s) : t[k] = s[k]
      BY <1>2 DEF t
    <3>2. QED
      BY <1>1, <1>16, <3>1
  <2>2. n # p
    BY <1>1, <1>8, <1>16, <2>1 DEF E, RingEntry
  <2>3. QED
    BY <2>1, <2>2, <1>13, <1>16
<1>17. SameOutside(A, l, ll, h, t)
  BY <1>16 DEF SameOutside
<1>18. QED
  BY <1>3, <1>12, <1>15, <1>17 DEF t, ll

\* list_del takes entry c out, clears its links and touches nothing outside.
LEMMA DelRing ==
    ASSUME NEW A, NEW l \in Links(A), NEW h, NEW s, NEW c \in 1..Len(s),
           ListOf(A, h, s), Ring(l, h, s), Null \notin A
    PROVE  /\ list_del(l, s[c]) \in Links(A)
           /\ ListOf(A, h, RemoveAt(s, c))
           /\ Ring(list_del(l, s[c]), h, RemoveAt(s, c))
           /\ Cleared(list_del(l, s[c]), s[c])
           /\ SameOutside(A, l, list_del(l, s[c]), h, s)
<1> DEFINE t == RemoveAt(s, c)
           e == s[c]
           ll == list_del(l, s[c])
           E(k) == RingEntry(h, s, k)
           F(k) == RingEntry(h, t, k)
           a == E(c - 1)
           b == E(c + 1)
<1>1. Len(s) \in Nat /\ s \in Seq(A) /\ h \in A
  BY EntriesDistinct DEF ListOf
<1>2. /\ t \in Seq(A) /\ Len(t) = Len(s) - 1
      /\ \A k \in 1..(Len(s) - 1) : t[k] = IF k < c THEN s[k] ELSE s[k + 1]
  BY <1>1, RemovedSeq
<1>3. ListOf(A, h, t)
  <2>1. \A k \in 1..Len(t) : t[k] # h
    BY <1>1, <1>2 DEF ListOf
  <2>2. \A j, k \in 1..Len(t) : t[j] = t[k] => j = k
    BY <1>1, <1>2 DEF ListOf
  <2>3. QED
    BY <1>1, <1>2, <2>1, <2>2 DEF ListOf
<1>4. /\ \A k \in Int : E(k) \in A
      /\ \A j, k \in 0..Len(s) : E(j) = E(k) => j = k
      /\ \A j, k \in 1..(Len(s) + 1) : E(j) = E(k) => j = k
  BY EntriesDistinct
<1>5. \A k \in 0..Len(s) : l.next[E(k)] = E(k + 1) /\ l.prev[E(k + 1)] = E(k)
  BY DEF Ring
<1>6. E(c) = e /\ e \in A
  BY <1>1, <1>4 DEF RingEntry
<1>7. \A k \in 0..Len(s) : F(k) = IF k < c THEN E(k) ELSE E(k + 1)
  BY <1>1, <1>2 DEF RingEntry
<1>8. l.next[e] = b /\ l.prev[e] = a
  BY <1>1, <1>5, <1>6
<1>9. a \in A /\ b \in A /\ a # e /\ b # e
  BY <1>1, <1>4, <1>6
<1>10. l.next \in [A -> A \cup {Null}] /\ l.prev \in [A -> A \cup {Null}]
  BY DEF Links
<1>11. /\ ll.next = [[l.next EXCEPT ![l.prev[e]] = l.next[e]] EXCEPT ![e] = Null]
       /\ ll.prev = [[l.prev EXCEPT ![l.next[e]] = l.prev[e]] EXCEPT ![e] = Null]
       /\ ll = [x \in {"next", "prev"} |-> ll[x]]
  <2>1. ll.next = [[l.next EXCEPT ![l.prev[e]] = l.next[e]] EXCEPT ![e] = Null]
    BY DEF list_del, Links
  <2>2. ll.prev = [[l.prev EXCEPT ![l.next[e]] = l.prev[e]] EXCEPT ![e] = Null]
    BY DEF list_del, Links
  <2>3. ll = [x \in {"next", "prev"} |-> ll[x]]
    BY Zenon DEF list_del, Links
  <2>4. QED
    BY <2>1, <2>2, <2>3
<1>12. ll \in Links(A)
  <2>1. ll.next \in [A -> A \cup {Null}] /\ ll.prev \in [A -> A \cup {Null}]
    BY <1>6, <1>8, <1>9, <1>10, <1>11
  <2>2. QED
    BY <2>1, <1>11, RecordOf DEF Links
<1>13. /\ \A n \in A : ll.next[n] = IF n = e THEN Null ELSE IF n = a THEN b ELSE l.next[n]
       /\ \A n \in A : ll.prev[n] = IF n = e THEN Null ELSE IF n = b THEN a ELSE l.prev[n]
  BY <1>6, <1>8, <1>9, <1>10, <1>11
<1> HIDE DEF t, e, ll, E, F, a, b
<1>14. ASSUME NEW k \in 0..(Len(s) - 1) PROVE ll.next[F(k)] = F(k + 1)
  <2>1. CASE k = c - 1
    BY <2>1, <1>1, <1>7, <1>9, <1>13 DEF a, b
  <2>2. CASE k # c - 1
    <3> DEFINE x == IF k < c THEN k ELSE k + 1
    <3>1. x \in 0..Len(s) /\ x # c /\ x # c - 1
      BY <2>2, <1>1
    <3>2. F(k) = E(x) /\ F(k + 1) = E(x + 1)
      BY <2>2, <1>1, <1>7
    <3> HIDE DEF x
    <3>3. E(x) \in A /\ E(x) # e /\ E(x) # a
      <4>1. c \in 0..Len(s) /\ c - 1 \in 0..Len(s)
        BY <1>1
      <4>2. E(x) # E(c) /\ E(x) # E(c - 1)
        BY <3>1, <4>1, <1>4
      <4>3. QED
        BY <3>1, <4>2, <1>4, <1>6 DEF a
    <3>4. l.next[E(x)] = E(x + 1)
      BY <3>1, <1>5
    <3>5. QED
      BY <3>2, <3>3, <3>4, <1>13
  <2>3. QED
    BY <2>1, <2>2
<1>15. ASSUME NEW k \in 0..(Len(s) - 1) PROVE ll.prev[F(k + 1)] = F(k)
  <2>1. CASE k = c - 1
    BY <2>1, <1>1, <1>7, <1>9, <1>13 DEF a, b
  <2>2. CASE k # c - 1
    <3> DEFINE x == IF k < c THEN k ELSE k + 1
    <3>1. x \in 0..Len(s) /\ x # c /\ x # c - 1
      BY <2>2, <1>1
    <3>2. F(k) = E(x) /\ F(k + 1) = E(x + 1)
      BY <2>2, <1>1, <1>7
    <3> HIDE DEF x
    <3>3. E(x + 1) \in A /\ E(x + 1) # e /\ E(x + 1) # b
      <4>1. c \in 1..(Len(s) + 1) /\ c + 1 \in 1..(Len(s) + 1) /\ x + 1 \in 1..(Len(s) + 1)
        BY <1>1, <3>1
      <4>2. x + 1 # c /\ x + 1 # c + 1
        BY <3>1
      <4>3. E(x + 1) # E(c) /\ E(x + 1) # E(c + 1)
        BY <4>1, <4>2, <1>4
      <4>4. QED
        BY <4>1, <4>3, <1>4, <1>6 DEF b
    <3>4. l.prev[E(x + 1)] = E(x)
      BY <3>1, <1>5
    <3>5. QED
      BY <3>2, <3>3, <3>4, <1>13
  <2>3. QED
    BY <2>1, <2>2
<1>16. Ring(ll, h, t)
  BY <1>2, <1>14, <1>15 DEF Ring, F
<1>17. ASSUME NEW n \in A, n # h, \A k \in 1..Len(s) : s[k] # n
       PROVE  ll.next[n] = l.next[n] /\ ll.prev[n] = l.prev[n]
  <2>1. n # e /\ n # a /\ n # b
    BY <1>1, <1>17 DEF e, a, b, E, RingEntry
  <2>2. QED
    BY <2>1, <1>13, <1>17
<1>18. Cleared(ll, e)
  BY <1>6, <1>13 DEF Cleared
<1>19. SameOutside(A, l, ll, h, s)
  BY <1>17 DEF SameOutside
<1>20. QED
  BY <1>3, <1>12, <1>16, <1>18, <1>19 DEF t, ll, e
====
