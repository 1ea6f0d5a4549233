---- MODULE AsyncListProofs ----
(* The links and the loop pointers of the transmitter, for chunks of any sizes *)
(* and any number of them: the ring is never broken, the running pass never    *)
(* stands on a dead entry, and the transmitter as it is written implements the *)
(* one of AsyncTx (and so, by AsyncTxProofs, the stream of ChunkStream).       *)
EXTENDS AsyncList, DataLemmas

\* The history the links are compared with: chunks in order of arrival.
Contents ==
    /\ accepted \in Seq(Sizes) /\ Len(accepted) <= MaxChunks
    /\ m \in Links(Addresses)
    /\ contents \in Seq(1..Len(accepted))
    /\ \A j, k \in 1..Len(contents) : j < k => contents[j] < contents[k]

ListInv == Contents /\ ListIntact /\ CursorOnRing

\* Chunks in order of arrival are a list in the sense of DataLemmas.
LEMMA ContentsListed ==
    ASSUME Contents
    PROVE  /\ ListOf(Addresses, Head0, contents)
           /\ Len(contents) \in Nat /\ Len(accepted) \in Nat
           /\ \A k \in 1..Len(contents) : contents[k] \in 1..Len(accepted)
           /\ 1..Len(accepted) \subseteq Nodes /\ Nodes \subseteq Addresses
           /\ Null \notin Addresses
<1>1. Len(contents) \in Nat /\ Len(accepted) \in Nat
  BY DEF Contents
<1>2. \A k \in 1..Len(contents) : contents[k] \in 1..Len(accepted)
  BY ElementOfSeq DEF Contents
<1>3. 1..Len(accepted) \subseteq Nodes /\ Nodes \subseteq Addresses /\ Null \notin Addresses
  BY <1>1, ListBoundAssumption, NullAssumption DEF Contents, Nodes, Addresses
<1>4. contents \in Seq(Addresses)
  BY <1>3 DEF Contents
<1>5. Head0 \in Addresses /\ \A k \in 1..Len(contents) : contents[k] # Head0
  BY <1>2, ListBoundAssumption DEF Head0, Addresses
<1>6. \A j, k \in 1..Len(contents) : contents[j] = contents[k] => j = k
  <2> SUFFICES ASSUME NEW j \in 1..Len(contents), NEW k \in 1..Len(contents),
                      contents[j] = contents[k], j # k
               PROVE  FALSE
    OBVIOUS
  <2>1. contents[j] \in Int
    BY <1>1, <1>2
  <2>2. CASE j < k
    BY <2>1, <2>2 DEF Contents
  <2>3. CASE k < j
    BY <2>1, <2>3 DEF Contents
  <2>4. QED
    BY <1>1, <2>2, <2>3
<1>7. QED
  BY <1>1, <1>2, <1>3, <1>4, <1>5, <1>6 DEF ListOf

\* A pointer to entry c of a list has index c.
LEMMA PlaceOfEntry ==
    ASSUME NEW s, ListOf(Addresses, Head0, s), NEW c \in 1..(Len(s) + 1)
    PROVE  PlaceOf(RingEntry(Head0, s, c), s) = c
<1>1. Len(s) \in Nat /\ \A k \in 1..Len(s) : s[k] \in Addresses /\ s[k] # Head0
  BY EntriesDistinct, ElementOfSeq DEF ListOf
<1>2. Null \notin Addresses /\ Null # Head0
  BY NullAssumption, ListBoundAssumption DEF Addresses, Head0
<1>3. CASE c = Len(s) + 1
  BY <1>1, <1>2, <1>3 DEF PlaceOf, RingEntry
<1>4. CASE c \in 1..Len(s)
  <2>1. RingEntry(Head0, s, c) = s[c] /\ s[c] # Null /\ s[c] # Head0
    BY <1>1, <1>2, <1>4 DEF RingEntry
  <2>2. \A k \in 1..Len(s) : s[k] = s[c] => k = c
    BY <1>4 DEF ListOf
  <2>3. (CHOOSE k \in 1..Len(s) : s[k] = s[c]) = c
    BY <1>4, <2>2
  <2>4. QED
    BY <2>1, <2>3 DEF PlaceOf
<1>5. QED
  BY <1>1, <1>3, <1>4

\* Where a running pass stands.
LEMMA PassPlace ==
    ASSUME ListInv, i # Null
    PROVE  /\ Place \in 1..(Len(contents) + 1)
           /\ i = RingEntry(Head0, contents, Place)
           /\ i # Head0 => Place \in 1..Len(contents) /\ contents[Place] = i
           /\ i = Head0 => Place = Len(contents) + 1
           /\ i # Head0 => tmp = RingEntry(Head0, contents, Place + 1)
<1>1. /\ ListOf(Addresses, Head0, contents) /\ Len(contents) \in Nat
      /\ Ring(m, Head0, contents)
  BY ContentsListed DEF ListInv, ListIntact
<1>2. CASE i = Head0
  <2>1. Place = Len(contents) + 1
    BY <1>2, NullAssumption, ListBoundAssumption DEF Place, PlaceOf, Head0
  <2>2. QED
    BY <1>1, <1>2, <2>1 DEF RingEntry
<1>3. CASE i # Head0
  <2>1. PICK k \in 1..Len(contents) : i = contents[k]
    BY <1>3 DEF ListInv, CursorOnRing
  <2>2. i = RingEntry(Head0, contents, k) /\ k \in 1..(Len(contents) + 1)
    BY <1>1, <2>1 DEF RingEntry
  <2>3. Place = k
    BY <1>1, <2>2, PlaceOfEntry DEF Place
  <2>4. tmp = m.next[i]
    BY DEF ListInv, CursorOnRing
  <2>5. m.next[i] = RingEntry(Head0, contents, k + 1)
    BY <1>1, <2>1, <2>2 DEF Ring
  <2>6. QED
    BY <1>3, <2>1, <2>2, <2>3, <2>4, <2>5
<1>4. QED
  BY <1>2, <1>3

\* Entries of a ring are the head or in the list, and links lead to entries.
LEMMA EntryOnRing ==
    ASSUME NEW l, NEW s, Len(s) \in Nat, Ring(l, Head0, s), NEW c \in 0..Len(s)
    PROVE  /\ l.next[RingEntry(Head0, s, c)] = RingEntry(Head0, s, c + 1)
           /\ RingEntry(Head0, s, c + 1) \in {Head0} \cup {s[k] : k \in 1..Len(s)}
  BY DEF Ring, RingEntry

------------------------------------------------------------------------------
(* The invariant.                                                              *)

\* The list starts empty, with the loop outside it.
LEMMA InvInit == Init => ListInv
<1> SUFFICES ASSUME Init PROVE ListInv
  OBVIOUS
<1> DEFINE nowhere == [next |-> [a \in Addresses |-> Null], prev |-> [a \in Addresses |-> Null]]
<1>1. nowhere \in Links(Addresses)
  BY DEF Links
<1>2. Head0 \in Addresses
  BY ListBoundAssumption DEF Head0, Addresses
<1>3. m = INIT_LIST_HEAD(nowhere, Head0)
  BY DEF Init
<1>4. \A n \in Nodes : n \in Addresses /\ n # Head0
  BY ListBoundAssumption DEF Nodes, Addresses, Head0
<1>5. \A n \in Addresses : nowhere.next[n] = Null /\ nowhere.prev[n] = Null
  OBVIOUS
<1> HIDE DEF nowhere
<1>6. m \in Links(Addresses) /\ Ring(m, Head0, <<>>)
  BY <1>1, <1>2, <1>3, InitRing
<1>7. \A n \in Nodes : m.next[n] = Null /\ m.prev[n] = Null
  BY <1>1, <1>2, <1>3, <1>4, <1>5, InitRing
<1>8. contents = <<>> /\ accepted = <<>> /\ i = Null
  BY DEF Init
<1>9. Contents
  BY <1>6, <1>8, ListBoundAssumption DEF Contents
<1>10. ListIntact /\ CursorOnRing
  BY <1>6, <1>7, <1>8 DEF ListIntact, CursorOnRing
<1>11. QED
  BY <1>9, <1>10 DEF ListInv

\* list_add_tail of a new chunk.
LEMMA InvEnqueue ==
    ASSUME ListInv, NEW sz \in Sizes, Enqueue(sz)
    PROVE  ListInv'
<1> DEFINE c == Len(accepted) + 1
<1>1. /\ ListOf(Addresses, Head0, contents) /\ Ring(m, Head0, contents) /\ m \in Links(Addresses)
      /\ Len(contents) \in Nat /\ Len(accepted) \in Nat
      /\ \A k \in 1..Len(contents) : contents[k] \in 1..Len(accepted)
      /\ Nodes \subseteq Addresses
  BY ContentsListed DEF ListInv, ListIntact, Contents
<1>2. /\ Len(accepted) < MaxChunks
      /\ accepted' = Append(accepted, sz)
      /\ m' = list_add_tail(m, c, Head0)
      /\ contents' = Append(contents, c)
      /\ i' = Null
  BY DEF Enqueue
<1>3. c \in Nodes /\ c # Head0 /\ \A k \in 1..Len(contents) : contents[k] # c
  BY <1>1, <1>2, ListBoundAssumption DEF Nodes, Head0
<1>4. accepted' \in Seq(Sizes) /\ Len(accepted') = c
  BY <1>2 DEF ListInv, Contents
<1>5. /\ contents' \in Seq(1..c) /\ Len(contents') = Len(contents) + 1
      /\ \A k \in 1..Len(contents) : contents'[k] = contents[k]
      /\ contents'[Len(contents) + 1] = c
  <2>1. contents \in Seq(1..Len(accepted)) /\ 1..Len(accepted) \subseteq 1..c
    BY <1>1 DEF ListInv, Contents
  <2>2. contents \in Seq(1..c) /\ c \in 1..c
    BY <1>1, <2>1
  <2>3. QED
    BY <1>2, <2>2, AppendProperties
<1> HIDE DEF c
<1>6. /\ m' \in Links(Addresses) /\ Ring(m', Head0, contents')
      /\ SameOutside(Addresses, m, m', Head0, contents')
  BY <1>1, <1>2, <1>3, AddTailRing
<1>7. Contents'
  <2>1. c <= MaxChunks /\ c \in Nat
    BY <1>1, <1>2, ListBoundAssumption DEF c
  <2>2. \A j, k \in 1..Len(contents') : j < k => contents'[j] < contents'[k]
    <3> SUFFICES ASSUME NEW j \in 1..Len(contents'), NEW k \in 1..Len(contents'), j < k
                 PROVE  contents'[j] < contents'[k]
      OBVIOUS
    <3>1. j \in 1..Len(contents) /\ contents'[j] = contents[j] /\ contents[j] \in 1..Len(accepted)
      BY <1>1, <1>5
    <3>2. CASE k \in 1..Len(contents)
      BY <3>1, <3>2, <1>5 DEF ListInv, Contents
    <3>3. CASE k = Len(contents) + 1
      BY <3>1, <3>3, <1>1, <1>5 DEF c
    <3>4. QED
      BY <1>1, <1>5, <3>2, <3>3
  <2>3. QED
    BY <1>4, <1>5, <1>6, <2>1, <2>2 DEF Contents, Links, Addresses
<1>8. \A n \in Nodes : (\A k \in 1..Len(contents') : contents'[k] # n) =>
          m'.next[n] = Null /\ m'.prev[n] = Null
  <2> SUFFICES ASSUME NEW n \in Nodes, \A k \in 1..Len(contents') : contents'[k] # n
               PROVE  m'.next[n] = Null /\ m'.prev[n] = Null
    OBVIOUS
  <2>1. n # c /\ \A k \in 1..Len(contents) : contents[k] # n
    BY <1>1, <1>5
  <2>2. n \in Addresses /\ n # Head0
    BY <1>1, ListBoundAssumption DEF Nodes, Head0
  <2>3. m.next[n] = Null /\ m.prev[n] = Null
    BY <2>1 DEF ListInv, ListIntact
  <2>4. m'.next[n] = m.next[n] /\ m'.prev[n] = m.prev[n]
    BY <1>6, <2>2 DEF SameOutside
  <2>5. QED
    BY <2>3, <2>4
<1>9. QED
  BY <1>2, <1>6, <1>7, <1>8 DEF ListInv, ListIntact, CursorOnRing, Head0, Nodes

\* A step of the loop that leaves the list alone.
LEMMA InvMove ==
    ASSUME ListInv, UNCHANGED <<m, contents, accepted>>,
           \/ i' = Null
           \/ i = Null /\ ForEachBegin
           \/ InPass /\ ForEachNext
    PROVE  ListInv'
<1>1. Ring(m, Head0, contents) /\ Len(contents) \in Nat
  BY ContentsListed DEF ListInv, ListIntact
<1>2. Contents' /\ ListIntact'
  BY DEF ListInv, Contents, ListIntact, Head0, Nodes, Addresses, Links
<1>3. CursorOnRing'
  <2>1. CASE i' = Null
    BY <2>1 DEF CursorOnRing
  <2>2. CASE i = Null /\ ForEachBegin
    <3>1. i' = m.next[Head0] /\ tmp' = m'.next[i']
      BY <2>2 DEF ForEachBegin
    <3>2. RingEntry(Head0, contents, 0) = Head0 /\ 0 \in 0..Len(contents)
      BY <1>1 DEF RingEntry
    <3>3. i' \in {Head0} \cup {contents[k] : k \in 1..Len(contents)}
      BY <1>1, <3>1, <3>2, EntryOnRing
    <3>4. QED
      BY <3>1, <3>3 DEF CursorOnRing, Head0
  <2>3. CASE InPass /\ ForEachNext
    <3>1. i' = tmp /\ tmp' = m'.next[i'] /\ i # Null /\ i # Head0
      BY <2>3 DEF InPass, ForEachNext
    <3>2. Place \in 1..Len(contents) /\ tmp = RingEntry(Head0, contents, Place + 1)
      BY <3>1, PassPlace
    <3>3. i' \in {Head0} \cup {contents[k] : k \in 1..Len(contents)}
      BY <1>1, <3>1, <3>2, EntryOnRing
    <3>4. QED
      BY <3>1, <3>3 DEF CursorOnRing, Head0
  <2>4. QED
    BY <2>1, <2>2, <2>3
<1>4. QED
  BY <1>2, <1>3 DEF ListInv

\* The current chunk leaves the list; the next one takes its place.
LEMMA InvWriteAll ==
    ASSUME ListInv, WriteAll
    PROVE  /\ ListInv'
           /\ i' = RingEntry(Head0, contents', Place)
           /\ Place \in 1..(Len(contents') + 1)
<1> DEFINE p == Place
<1>1. /\ ListOf(Addresses, Head0, contents) /\ Ring(m, Head0, contents) /\ m \in Links(Addresses)
      /\ Len(contents) \in Nat
      /\ contents \in Seq(1..Len(accepted))
      /\ \A k \in 1..Len(contents) : contents[k] \in 1..Len(accepted)
      /\ Nodes \subseteq Addresses /\ Null \notin Addresses
  BY ContentsListed DEF ListInv, ListIntact, Contents
<1>2. /\ i # Null /\ i # Head0
      /\ m' = list_del(m, i)
      /\ contents' = RemoveAt(contents, p)
      /\ i' = tmp /\ tmp' = m'.next[i']
      /\ accepted' = accepted
  BY DEF WriteAll, InPass, ForEachNext
<1>3. /\ p \in 1..Len(contents) /\ contents[p] = i
      /\ tmp = RingEntry(Head0, contents, p + 1)
  BY <1>2, PassPlace
<1> HIDE DEF p
<1>4. /\ m' \in Links(Addresses) /\ Ring(m', Head0, contents')
      /\ m'.next[i] = Null /\ m'.prev[i] = Null
      /\ \A n \in Addresses : (n # Head0 /\ \A k \in 1..Len(contents) : contents[k] # n) =>
             m'.next[n] = m.next[n] /\ m'.prev[n] = m.prev[n]
  <2>1. m' = list_del(m, contents[p])
    BY <1>2, <1>3
  <2>2. /\ m' \in Links(Addresses) /\ Ring(m', Head0, contents')
        /\ Cleared(m', i) /\ SameOutside(Addresses, m, m', Head0, contents)
    BY <1>1, <1>2, <1>3, <2>1, DelRing
  <2>3. QED
    BY <2>2 DEF Cleared, SameOutside
<1>5. /\ contents' \in Seq(1..Len(accepted))
      /\ Len(contents') = Len(contents) - 1
      /\ \A j \in 1..(Len(contents) - 1) :
             contents'[j] = IF j < p THEN contents[j] ELSE contents[j + 1]
  BY <1>1, <1>2, <1>3, RemovedSeq
<1>6. Contents'
  <2>1. \A j, k \in 1..Len(contents') : j < k => contents'[j] < contents'[k]
    <3> SUFFICES ASSUME NEW j \in 1..Len(contents'), NEW k \in 1..Len(contents'), j < k
                 PROVE  contents'[j] < contents'[k]
      OBVIOUS
    <3> DEFINE x == IF j < p THEN j ELSE j + 1
               y == IF k < p THEN k ELSE k + 1
    <3>1. x \in 1..Len(contents) /\ y \in 1..Len(contents) /\ x < y
      <4>1. j \in 1..(Len(contents) - 1) /\ k \in 1..(Len(contents) - 1) /\ p \in Int
        BY <1>1, <1>3, <1>5
      <4>2. x \in 1..Len(contents)
        BY <1>1, <4>1
      <4>3. y \in 1..Len(contents)
        BY <1>1, <4>1
      <4>4. x < y
        BY <1>1, <4>1
      <4>5. QED
        BY <4>2, <4>3, <4>4
    <3>2. contents'[j] = contents[x] /\ contents'[k] = contents[y]
      BY <1>1, <1>5
    <3> HIDE DEF x, y
    <3>3. QED
      BY <3>1, <3>2 DEF ListInv, Contents
  <2>2. QED
    BY <1>2, <1>4, <1>5, <2>1 DEF ListInv, Contents, Links, Addresses
<1>7. \A n \in Nodes : (\A k \in 1..Len(contents') : contents'[k] # n) =>
          m'.next[n] = Null /\ m'.prev[n] = Null
  <2> SUFFICES ASSUME NEW n \in Nodes, \A k \in 1..Len(contents') : contents'[k] # n
               PROVE  m'.next[n] = Null /\ m'.prev[n] = Null
    OBVIOUS
  <2>1. n \in Addresses /\ n # Head0
    BY <1>1, ListBoundAssumption DEF Nodes, Head0
  <2>2. CASE n = i
    BY <2>2, <1>4
  <2>3. CASE n # i
    <3>1. ASSUME NEW k \in 1..Len(contents) PROVE contents[k] # n
      <4>1. CASE k = p
        BY <4>1, <1>3, <2>3
      <4>2. CASE k < p
        <5>1. k \in 1..(Len(contents) - 1) /\ k < p
          BY <4>2, <1>1, <1>3
        <5>2. contents'[k] = contents[k]
          BY <5>1, <1>5
        <5>3. QED
          BY <5>1, <5>2, <1>5
      <4>3. CASE k > p
        <5>1. k - 1 \in 1..(Len(contents) - 1) /\ ~(k - 1 < p) /\ (k - 1) + 1 = k
          BY <4>3, <1>1, <1>3
        <5>2. contents'[k - 1] = contents[k]
          BY <5>1, <1>5
        <5>3. QED
          BY <5>1, <5>2, <1>5
      <4>4. QED
        BY <4>1, <4>2, <4>3, <1>1, <1>3
    <3>2. m.next[n] = Null /\ m.prev[n] = Null
      BY <3>1 DEF ListInv, ListIntact
    <3>3. QED
      BY <3>1, <3>2, <2>1, <1>4
  <2>4. QED
    BY <2>2, <2>3
<1>8. i' = RingEntry(Head0, contents', p) /\ p \in 1..(Len(contents') + 1)
  BY <1>1, <1>2, <1>3, <1>5 DEF RingEntry
<1>9. i' \in {Head0} \cup {contents'[k] : k \in 1..Len(contents')}
  BY <1>1, <1>5, <1>8 DEF RingEntry
<1>10. QED
  BY <1>2, <1>4, <1>6, <1>7, <1>8, <1>9 DEF ListInv, ListIntact, CursorOnRing, Head0, Nodes, p

\* Every step keeps the ring and the place of the loop.
LEMMA InvStep == ListInv /\ [Next]_vars => ListInv'
<1> SUFFICES ASSUME ListInv, [Next]_vars PROVE ListInv'
  OBVIOUS
<1>1. ASSUME NEW sz \in Sizes, Enqueue(sz) PROVE ListInv'
  BY <1>1, InvEnqueue
<1>2. CASE EnqueueCtlFails
  BY <1>2, InvMove DEF EnqueueCtlFails
<1>3. CASE EnqueueNoMem
  BY <1>3, InvMove DEF EnqueueNoMem
<1>4. CASE BeginOut
  BY <1>4, InvMove DEF BeginOut, txVars
<1>5. CASE WriteAll
  BY <1>5, InvWriteAll
<1>6. CASE WriteSome
  BY <1>6, InvMove DEF WriteSome
<1>7. CASE WriteAgain
  BY <1>7, InvMove DEF WriteAgain, txVars
<1>8. CASE WriteError
  BY <1>8, InvMove DEF WriteError, txVars
<1>9. CASE EndPass
  BY <1>9, InvMove DEF EndPass, txVars
<1>10. CASE UNCHANGED vars
  BY <1>10 DEF vars, txVars, ListInv, Contents, ListIntact, CursorOnRing, Head0, Nodes, Addresses, Links
<1>11. QED
  BY <1>1, <1>2, <1>3, <1>4, <1>5, <1>6, <1>7, <1>8, <1>9, <1>10 DEF Next

\* The transfer list (asyncio.c, list.h) is intact in every behaviour.
THEOREM ListIntactCorrect == Spec => []ListIntact
<1>1. ListInv => ListIntact
  BY DEF ListInv
<1>2. QED
  BY <1>1, InvInit, InvStep, PTL DEF Spec

\* The pass over it (list_for_each_safe) always stands on the list.
THEOREM CursorCorrect == Spec => []CursorOnRing
<1>1. ListInv => CursorOnRing
  BY DEF ListInv
<1>2. QED
  BY <1>1, InvInit, InvStep, PTL DEF Spec
------------------------------------------------------------------------------
(* The refinement: each step of the pointers is the step of the same name of   *)
(* AsyncTx.                                                                    *)

\* What AsyncTx sees of a state.
LEMMA Seen ==
    ASSUME ListInv
    PROVE  /\ i = Null <=> Place = 0
           /\ list_empty(m, Head0) <=> contents = <<>>
           /\ Place \in 0..(Len(contents) + 1) /\ Len(contents) \in Nat
           /\ InPass <=> Tx!InPass
           /\ InPass => i = Tx!q /\ left = Tx!left
           /\ InPass => (i # m.next[Head0] <=> Place # 1)
<1>1. /\ ListOf(Addresses, Head0, contents) /\ Ring(m, Head0, contents)
      /\ Len(contents) \in Nat
  BY ContentsListed DEF ListInv, ListIntact
<1>2. list_empty(m, Head0) <=> contents = <<>>
  BY <1>1, EmptyRing
<1>3. i = Null => Place = 0
  BY DEF Place, PlaceOf
<1>4. i # Null => Place \in 1..(Len(contents) + 1)
  BY PassPlace
<1>5. InPass => Place \in 1..Len(contents) /\ contents[Place] = i
  BY PassPlace DEF InPass
<1>6. i = Head0 => Place = Len(contents) + 1
  BY PassPlace, NullAssumption, ListBoundAssumption DEF Head0
<1>7. InPass <=> Tx!InPass
  BY <1>1, <1>3, <1>5, <1>6 DEF InPass, Tx!InPass
<1>8. InPass => (i # m.next[Head0] <=> Place # 1)
  <2> SUFFICES ASSUME InPass PROVE i # m.next[Head0] <=> Place # 1
    OBVIOUS
  <2>1. 0 \in 0..Len(contents) /\ RingEntry(Head0, contents, 0) = Head0 /\ 0 + 1 = 1
    BY <1>1 DEF RingEntry
  <2>2. m.next[Head0] = RingEntry(Head0, contents, 1)
    BY <1>1, <2>1 DEF Ring
  <2>3. RingEntry(Head0, contents, 1) = contents[1] /\ 1 \in 1..Len(contents)
    BY <1>1, <1>5 DEF RingEntry
  <2>4. contents[Place] = contents[1] => Place = 1
    BY <1>1, <1>5, <2>3 DEF ListOf
  <2>5. QED
    BY <1>5, <2>2, <2>3, <2>4
<1>9. QED
  BY <1>1, <1>2, <1>3, <1>4, <1>5, <1>7, <1>8 DEF Tx!q, Tx!left, left

\* A step of the loop that leaves the list alone is one place further.
LEMMA MoveOn ==
    ASSUME ListInv, InPass, ForEachNext, UNCHANGED contents
    PROVE  Place' = Place + 1
<1>1. /\ ListOf(Addresses, Head0, contents) /\ Len(contents) \in Nat
  BY ContentsListed DEF ListInv
<1>2. /\ Place \in 1..Len(contents)
      /\ i' = RingEntry(Head0, contents, Place + 1)
  BY PassPlace DEF InPass, ForEachNext
<1>3. Place + 1 \in 1..(Len(contents) + 1)
  BY <1>1, <1>2
<1>4. PlaceOf(RingEntry(Head0, contents, Place + 1), contents) = Place + 1
  BY <1>1, <1>3, PlaceOfEntry
<1>5. QED
  BY <1>2, <1>4 DEF Place

\* The initial states are initial states of the sequence.
LEMMA RefInit == Init => Tx!Init
  BY DEF Init, Tx!Init, Place, PlaceOf

\* A step on the pointers is a step on the sequence, or none.
LEMMA RefStep == ListInv /\ ListInv' /\ [Next]_vars => [Tx!Next]_(Tx!vars)
<1> SUFFICES ASSUME ListInv, ListInv', [Next]_vars PROVE [Tx!Next]_(Tx!vars)
  OBVIOUS
<1>1. /\ i = Null <=> Place = 0
      /\ list_empty(m, Head0) <=> contents = <<>>
      /\ Place \in 0..(Len(contents) + 1) /\ Len(contents) \in Nat
      /\ InPass <=> Tx!InPass
      /\ InPass => i = Tx!q /\ left = Tx!left
      /\ InPass => (i # m.next[Head0] <=> Place # 1)
  BY Seen
<1>2. i' = Null => Place' = 0
  BY DEF Place, PlaceOf
<1>3. ListOf(Addresses, Head0, contents) /\ Ring(m, Head0, contents)
  BY ContentsListed DEF ListInv, ListIntact
<1>4. ASSUME NEW sz \in Sizes, Enqueue(sz) PROVE Tx!Enqueue(sz)
  BY <1>4, <1>1, <1>2 DEF Enqueue, Arm, Tx!Enqueue, Tx!Arm, Tx!armVars
<1>5. CASE EnqueueCtlFails
  <2>1. Tx!EnqueueCtlFails
    BY <1>5, <1>1, <1>2 DEF EnqueueCtlFails, Arm, Tx!EnqueueCtlFails, Tx!Arm, Tx!armVars, Place
  <2>2. QED
    BY <2>1 DEF Tx!Next
<1>6. CASE EnqueueNoMem
  <2>1. Tx!EnqueueNoMem
    BY <1>6, <1>1, <1>2 DEF EnqueueNoMem, Tx!EnqueueNoMem, Tx!armVars
  <2>2. QED
    BY <2>1 DEF Tx!Next
<1>7. CASE BeginOut
  <2>1. 0 \in 0..Len(contents) /\ RingEntry(Head0, contents, 0) = Head0
        /\ 1 \in 1..(Len(contents) + 1)
    BY <1>1 DEF RingEntry
  <2>2. i' = RingEntry(Head0, contents, 1) /\ contents' = contents
    BY <1>3, <1>7, <2>1, EntryOnRing, <1>1 DEF BeginOut, ForEachBegin
  <2>3. Place' = 1
    BY <1>3, <2>1, <2>2, PlaceOfEntry DEF Place
  <2>4. Tx!BeginOut
    BY <1>7, <1>1, <2>2, <2>3 DEF BeginOut, txVars, Tx!BeginOut, Tx!armVars
  <2>5. QED
    BY <2>4 DEF Tx!Next
<1>8. CASE WriteAll
  <2>1. i' = RingEntry(Head0, contents', Place) /\ Place \in 1..(Len(contents') + 1)
    BY <1>8, InvWriteAll
  <2>2. contents' = RemoveAt(contents, Place) /\ InPass
    BY <1>8 DEF WriteAll
  <2>3. ListOf(Addresses, Head0, contents')
    <3>1. Place \in 1..Len(contents) /\ Null \notin Addresses /\ m \in Links(Addresses)
      BY <2>2, PassPlace, ContentsListed DEF InPass, ListInv, Contents
    <3>2. QED
      BY <1>3, <2>2, <3>1, DelRing
  <2>4. Place' = Place
    BY <2>1, <2>3, PlaceOfEntry DEF Place
  <2>5. list_empty(m', Head0) <=> contents' = <<>>
    <3>1. Ring(m', Head0, contents')
      BY DEF ListInv, ListIntact, Head0
    <3>2. QED
      BY <2>3, <3>1, EmptyRing
  <2>6. Tx!Log(left)
    BY <1>8, <1>1, <2>2 DEF WriteAll, Log, Tx!Log
  <2>7. Tx!WriteAll
    <3>1. contents' = Tx!RemoveAt(contents, Place)
      BY <2>2 DEF RemoveAt, Tx!RemoveAt
    <3>2. IF contents' = <<>> THEN \E ok \in Tx!CtlOutcomes : Tx!EpollOut(FALSE, ok)
          ELSE UNCHANGED <<Tx!armVars, failed>>
      BY <1>8, <2>5 DEF WriteAll, Tx!armVars
    <3>3. Tx!InPass /\ Tx!left >= 0 /\ freed' = freed \cup {Tx!q} /\ Tx!Log(Tx!left)
      BY <1>8, <1>1, <2>2, <2>6 DEF WriteAll
    <3>4. QED
      BY <1>8, <2>4, <3>1, <3>2, <3>3 DEF WriteAll, Tx!WriteAll
  <2>8. QED
    BY <2>7 DEF Tx!Next, Tx!Pass
<1>9. CASE WriteSome
  <2>1. InPass /\ Place' = Place + 1
    BY <1>9, MoveOn DEF WriteSome
  <2>2. \A n : Log(n) => Tx!Log(n)
    BY <1>1, <2>1 DEF Log, Tx!Log
  <2>3. Tx!WriteSome
    BY <1>9, <1>1, <2>1, <2>2 DEF WriteSome, Tx!WriteSome, Tx!armVars
  <2>4. QED
    BY <2>3 DEF Tx!Next, Tx!Pass
<1>10. CASE WriteAgain
  <2>1. Tx!WriteAgain
    BY <1>10, <1>1, <1>2 DEF WriteAgain, txVars, Tx!WriteAgain, Tx!armVars
  <2>2. QED
    BY <2>1 DEF Tx!Next, Tx!Pass
<1>11. CASE WriteError
  <2>1. InPass /\ Place' = Place + 1
    BY <1>11, MoveOn DEF WriteError
  <2>2. Tx!WriteError
    BY <1>11, <1>1, <2>1 DEF WriteError, txVars, Tx!WriteError, Tx!armVars
  <2>3. QED
    BY <2>2 DEF Tx!Next, Tx!Pass
<1>12. CASE EndPass
  <2>1. Place = Len(contents) + 1
    BY <1>12, PassPlace, NullAssumption, ListBoundAssumption DEF EndPass, Head0
  <2>2. Tx!EndPass
    BY <1>12, <1>1, <1>2, <2>1 DEF EndPass, txVars, Tx!EndPass, Tx!armVars
  <2>3. QED
    BY <2>2 DEF Tx!Next, Tx!Pass
<1>13. CASE UNCHANGED vars
  <2>1. UNCHANGED Tx!vars
    BY <1>13 DEF vars, txVars, Tx!vars, Place
  <2>2. QED
    BY <2>1
<1>14. QED
  <2>1. ASSUME NEW sz \in Sizes, Enqueue(sz) PROVE Tx!Next
    BY <2>1, <1>4 DEF Tx!Next
  <2>2. QED
    BY <2>1, <1>5, <1>6, <1>7, <1>8, <1>9, <1>10, <1>11, <1>12, <1>13 DEF Next

\* The links and the pointers implement the sequence and the index of AsyncTx:
\* whatever AsyncTxProofs shows of the transmitter holds of the code over list.h.
THEOREM ImplementsTx == Spec => TxSpec
<1>1. Spec => []ListInv
  BY InvInit, InvStep, PTL DEF Spec
<1>2. QED
  BY <1>1, RefInit, RefStep, PTL DEF Spec, TxSpec, Tx!Spec

------------------------------------------------------------------------------
(* What AsyncTxProofs shows, of the pointers.                                  *)

TxProofs == INSTANCE AsyncTxProofs WITH queue <- contents, cur <- Place

\* The constants of the list are constants AsyncTx allows, and a behaviour of
\* AsyncTx is one of the specification its proofs are about.
LEMMA TxOfProofs ==
    /\ TxProofs!SizesAssumption /\ TxProofs!MaxChunksAssumption
    /\ TxProofs!FaultsAssumption
    /\ TxSpec => TxProofs!Spec
<1>1. TxProofs!SizesAssumption /\ TxProofs!MaxChunksAssumption /\ TxProofs!FaultsAssumption
  BY ListSizesAssumption, ListBoundAssumption, ListFaultsAssumption
     DEF TxProofs!FaultKinds, Tx!FaultKinds
<1>2. Tx!Init => TxProofs!Init
  BY Zenon DEF Tx!Init, TxProofs!Init
<1>3. Tx!Next => TxProofs!Next
  BY Zenon DEF Tx!Next, Tx!Enqueue, Tx!EnqueueCtlFails, Tx!EnqueueNoMem, Tx!BeginOut, Tx!Pass,
     Tx!WriteAll, Tx!WriteSome, Tx!WriteAgain, Tx!WriteError, Tx!EndPass, Tx!Arm,
     Tx!EpollOut, Tx!CtlOutcomes, Tx!Log, Tx!left, Tx!q, Tx!InPass, Tx!armVars, Tx!RemoveAt,
     TxProofs!Next, TxProofs!Enqueue, TxProofs!EnqueueCtlFails, TxProofs!EnqueueNoMem,
     TxProofs!BeginOut, TxProofs!Pass, TxProofs!WriteAll, TxProofs!WriteSome,
     TxProofs!WriteAgain, TxProofs!WriteError, TxProofs!EndPass, TxProofs!Arm,
     TxProofs!EpollOut, TxProofs!CtlOutcomes, TxProofs!Log, TxProofs!left, TxProofs!q,
     TxProofs!InPass, TxProofs!armVars, TxProofs!RemoveAt
<1>4. Tx!vars = TxProofs!vars /\ Tx!vars' = TxProofs!vars'
  BY Zenon DEF Tx!vars, TxProofs!vars
<1>5. [Tx!Next]_(Tx!vars) => [TxProofs!Next]_(TxProofs!vars)
  BY <1>3, <1>4
<1>6. QED
  BY <1>1, <1>2, <1>5, PTL DEF TxSpec, Tx!Spec, TxProofs!Spec

\* The pointers implement the abstract stream: the bytes leave in the order of
\* the calls of aura_async_enqueue_chunk, each once, and a chunk is put when its
\* last byte is out, until a pass tears the stream; and then what is written
\* still comes from a node that is on the list (asyncio.c 76-104, 112-129).
THEOREM ImplementsStream == Spec => Tx!StreamSpec
<1>1. TxProofs!Spec => TxProofs!StreamSpec
  BY TxOfProofs, TxProofs!ImplementsStream
<1>2. TxProofs!Stream!Init => Tx!Stream!Init
  BY Zenon DEF Tx!Stream!Init, TxProofs!Stream!Init
<1>3. TxProofs!Stream!Next => Tx!Stream!Next
  BY Zenon DEF Tx!Stream!Next, Tx!Stream!Accept, Tx!Stream!Emit, Tx!Stream!Tear, Tx!Stream!After,
     TxProofs!Stream!Next, TxProofs!Stream!Accept, TxProofs!Stream!Emit,
     TxProofs!Stream!Tear, TxProofs!Stream!After
<1>4. TxProofs!Stream!vars = Tx!Stream!vars /\ TxProofs!Stream!vars' = Tx!Stream!vars'
  BY Zenon DEF Tx!Stream!vars, TxProofs!Stream!vars
<1>5. [TxProofs!Stream!Next]_(TxProofs!Stream!vars) => [Tx!Stream!Next]_(Tx!Stream!vars)
  BY <1>3, <1>4
<1>6. TxProofs!StreamSpec => Tx!StreamSpec
  BY <1>2, <1>5, PTL
     DEF Tx!StreamSpec, Tx!Stream!Spec, TxProofs!StreamSpec, TxProofs!Stream!Spec
<1>7. QED
  BY <1>1, <1>6, ImplementsTx, TxOfProofs, PTL

\* Of the list as it is linked: every chunk accepted is on the ring, once and in
\* order, or was put; data on the ring is armed in the kernel, whatever fails;
\* and x->pos lies inside a chunk that is on the ring.
THEOREM ListKeepsPromises ==
    Spec => [](Tx!Conserved /\ Tx!ArmedWhilePending /\ Tx!PosOwned)
<1>1. TxProofs!Spec => [](TxProofs!Conserved /\ TxProofs!ArmedWhilePending /\ TxProofs!PosOwned)
  <2>1. TxProofs!Spec => []TxProofs!Conserved
    BY TxOfProofs, TxProofs!ConservedCorrect
  <2>2. TxProofs!Spec => []TxProofs!ArmedWhilePending
    BY TxOfProofs, TxProofs!ArmedCorrect
  <2>3. TxProofs!Spec => []TxProofs!PosOwned
    BY TxOfProofs, TxProofs!PosOwnedCorrect
  <2>4. QED
    BY <2>1, <2>2, <2>3, PTL
<1>2. TxProofs!Conserved /\ TxProofs!ArmedWhilePending /\ TxProofs!PosOwned
      => Tx!Conserved /\ Tx!ArmedWhilePending /\ Tx!PosOwned
  BY Zenon DEF Tx!Conserved, Tx!ArmedWhilePending, Tx!PosOwned,
     TxProofs!Conserved, TxProofs!ArmedWhilePending, TxProofs!PosOwned
<1>3. QED
  BY <1>1, <1>2, ImplementsTx, TxOfProofs, PTL
====
