---- MODULE AsyncTxProofs ----
(* What TLC checks of the transmitter on a small instance, for chunks of any   *)
(* sizes, any number of them and any subset of the faults.                     *)
EXTENDS AsyncTx, SequenceTheorems, TLAPS

\* What list_del leaves behind: the other elements, in their order.
LEMMA RemoveAtProperties ==
    ASSUME NEW S, NEW s \in Seq(S), NEW i \in 1..Len(s)
    PROVE  /\ RemoveAt(s, i) \in Seq(S)
           /\ Len(RemoveAt(s, i)) = Len(s) - 1
           /\ \A j \in 1..(Len(s) - 1) :
                RemoveAt(s, i)[j] = IF j < i THEN s[j] ELSE s[j + 1]
<1> DEFINE before == SubSeq(s, 1, i - 1)
           after  == SubSeq(s, i + 1, Len(s))
<1>1. /\ before \in Seq(S)
      /\ Len(before) = i - 1
      /\ \A j \in 1..(i - 1) : before[j] = s[j]
  OBVIOUS
<1>2. /\ after \in Seq(S)
      /\ Len(after) = Len(s) - i
      /\ \A j \in 1..(Len(s) - i) : after[j] = s[i + j]
  OBVIOUS
<1>3. RemoveAt(s, i) = before \o after
  BY DEF RemoveAt
<1> HIDE DEF before, after
<1>4. /\ before \o after \in Seq(S)
      /\ Len(before \o after) = Len(before) + Len(after)
      /\ \A j \in 1..(Len(before) + Len(after)) :
           (before \o after)[j] =
             IF j <= Len(before) THEN before[j] ELSE after[j - Len(before)]
  BY <1>1, <1>2, ConcatProperties
<1>5. Len(s) \in Nat
  OBVIOUS
<1>6. ASSUME NEW j \in 1..(Len(s) - 1)
      PROVE  RemoveAt(s, i)[j] = IF j < i THEN s[j] ELSE s[j + 1]
  <2>1. CASE j < i
    BY <2>1, <1>1, <1>2, <1>3, <1>4, <1>5
  <2>2. CASE ~(j < i)
    <3>1. j - Len(before) \in 1..(Len(s) - i) /\ ~(j <= Len(before))
      BY <2>2, <1>1, <1>5
    <3>2. after[j - Len(before)] = s[i + (j - Len(before))] /\ i + (j - Len(before)) = j + 1
      BY <3>1, <1>1, <1>2, <1>5
    <3>3. QED
      BY <2>2, <3>1, <3>2, <1>1, <1>2, <1>3, <1>4, <1>5
  <2>3. QED
    BY <2>1, <2>2
<1>7. QED
  BY <1>1, <1>2, <1>3, <1>4, <1>5, <1>6

\* A sequence over a set is a sequence over any larger one.
LEMMA SeqMonotone ==
    ASSUME NEW S, NEW T, S \subseteq T, NEW s \in Seq(S)
    PROVE  s \in Seq(T)
  OBVIOUS

------------------------------------------------------------------------------
(* Types.                                                                      *)

\* Chunks are not empty.
LEMMA ChunkSize ==
    ASSUME TypeOK, NEW c \in 1..Len(accepted)
    PROVE  accepted[c] \in Nat /\ accepted[c] > 0
<1>1. accepted[c] \in Sizes
  BY ElementOfSeq DEF TypeOK
<1>2. \A n \in Sizes : n \in Nat /\ n > 0
  BY SizesAssumption
<1>3. QED
  BY <1>1, <1>2

\* The type invariant of the transmitter (asyncio.c).
THEOREM TypeCorrect == Spec => []TypeOK
<1>1. Init => TypeOK
  <2> SUFFICES ASSUME Init PROVE TypeOK
    OBVIOUS
  <2>1. /\ <<>> \in Seq(Sizes)
        /\ <<>> \in Seq(1..Len(accepted))
        /\ <<>> \in Seq([id : 1..Len(accepted), from : Nat, to : Nat])
    BY EmptySeq
  <2>2. QED
    BY <2>1 DEF Init, TypeOK
<1>2. TypeOK /\ [Next]_vars => TypeOK'
  <2> SUFFICES ASSUME TypeOK, [Next]_vars PROVE TypeOK'
    OBVIOUS
  <2> USE DEF TypeOK
  <2>1. ASSUME NEW sz \in Sizes, Enqueue(sz) PROVE TypeOK'
    <3>1. accepted' \in Seq(Sizes) /\ Len(accepted') = Len(accepted) + 1
      BY <2>1 DEF Enqueue
    <3>2. 1..Len(accepted) \subseteq 1..Len(accepted') /\ Len(accepted) + 1 \in 1..Len(accepted')
      BY <3>1
    <3>3. queue' \in Seq(1..Len(accepted'))
      <4>1. queue \in Seq(1..Len(accepted'))
        BY <3>2, SeqMonotone
      <4>2. QED
        BY <2>1, <3>2, <4>1 DEF Enqueue
    <3>4. wire \in Seq([id : 1..Len(accepted'), from : Nat, to : Nat])
      <4>1. [id : 1..Len(accepted), from : Nat, to : Nat]
               \subseteq [id : 1..Len(accepted'), from : Nat, to : Nat]
        BY <3>2
      <4>2. QED
        BY <4>1, SeqMonotone
    <3>5. QED
      BY <2>1, <3>1, <3>2, <3>3, <3>4 DEF Enqueue, Arm, EpollOut, armVars
  <2>2. CASE EnqueueCtlFails
    BY <2>2 DEF EnqueueCtlFails, Arm, EpollOut, armVars
  <2>3. CASE EnqueueNoMem
    BY <2>3 DEF EnqueueNoMem, armVars
  <2>4. CASE BeginOut
    BY <2>4 DEF BeginOut, armVars
  <2>5. CASE WriteAll
    <3>1. cur \in 1..Len(queue) /\ q \in 1..Len(accepted) /\ left \in Nat
      <4>1. cur \in 1..Len(queue)
        BY <2>5 DEF WriteAll, InPass
      <4>2. q \in 1..Len(accepted)
        BY <4>1 DEF q
      <4>3. accepted[q] \in Nat
        BY <4>2, ChunkSize
      <4>4. QED
        BY <2>5, <4>1, <4>2, <4>3 DEF WriteAll, left
    <3>2. queue' \in Seq(1..Len(accepted))
      BY <2>5, <3>1, RemoveAtProperties DEF WriteAll
    <3>3. wire' \in Seq([id : 1..Len(accepted), from : Nat, to : Nat]) /\ torn' \in BOOLEAN
      BY <2>5, <3>1 DEF WriteAll, Log
    <3>4. evOut' \in BOOLEAN /\ kOut' \in BOOLEAN /\ failed' \in BOOLEAN
      BY <2>5 DEF WriteAll, EpollOut, CtlOutcomes, armVars
    <3>5. QED
      BY <2>5, <3>1, <3>2, <3>3, <3>4 DEF WriteAll
  <2>6. CASE WriteSome
    <3>1. cur \in 1..Len(queue) /\ q \in 1..Len(accepted) /\ left \in Int
      <4>1. cur \in 1..Len(queue)
        BY <2>6 DEF WriteSome, InPass
      <4>2. q \in 1..Len(accepted)
        BY <4>1 DEF q
      <4>3. accepted[q] \in Nat
        BY <4>2, ChunkSize
      <4>4. QED
        BY <4>1, <4>2, <4>3 DEF left
    <3>2. PICK n \in 1..(left - 1) : Log(n) /\ pos' = pos + n
      BY <2>6 DEF WriteSome
    <3>3. wire' \in Seq([id : 1..Len(accepted), from : Nat, to : Nat]) /\ torn' \in BOOLEAN
      BY <3>1, <3>2 DEF Log
    <3>4. QED
      BY <2>6, <3>1, <3>2, <3>3 DEF WriteSome, armVars
  <2>7. CASE WriteAgain
    BY <2>7 DEF WriteAgain, armVars
  <2>8. CASE WriteError
    BY <2>8 DEF WriteError, armVars
  <2>9. CASE EndPass
    BY <2>9 DEF EndPass, armVars
  <2>10. CASE UNCHANGED vars
    BY <2>10 DEF vars
  <2>11. QED
    BY <2>1, <2>2, <2>3, <2>4, <2>5, <2>6, <2>7, <2>8, <2>9, <2>10 DEF Next, Pass
<1>3. QED
  BY <1>1, <1>2, PTL DEF Spec

------------------------------------------------------------------------------
(* What a step does to the list.                                               *)

\* list_add_tail: the new chunk is the last, the others stay as they are.
LEMMA EnqueueStep ==
    ASSUME TypeOK, NEW sz \in Sizes, Enqueue(sz)
    PROVE  /\ Len(accepted') = Len(accepted) + 1
           /\ \A c \in 1..Len(accepted) : accepted'[c] = accepted[c]
           /\ accepted'[Len(accepted) + 1] = sz
           /\ Len(queue') = Len(queue) + 1
           /\ \A i \in 1..Len(queue) : queue'[i] = queue[i]
           /\ queue'[Len(queue) + 1] = Len(accepted) + 1
  BY DEF TypeOK, Enqueue

\* A retired chunk leaves the list, everything after it moves up.
LEMMA WriteAllStep ==
    ASSUME TypeOK, WriteAll
    PROVE  /\ cur \in 1..Len(queue)
           /\ q \in 1..Len(accepted)
           /\ Len(queue') = Len(queue) - 1
           /\ \A i \in 1..(Len(queue) - 1) :
                queue'[i] = IF i < cur THEN queue[i] ELSE queue[i + 1]
<1>1. cur \in 1..Len(queue)
  BY DEF TypeOK, WriteAll, InPass
<1>2. q \in 1..Len(accepted)
  BY <1>1 DEF TypeOK, q
<1>3. QED
  BY <1>1, <1>2, RemoveAtProperties DEF TypeOK, WriteAll

\* A short write moves the position further into the chunk the pass is at.
LEMMA WriteSomeStep ==
    ASSUME TypeOK, WriteSome
    PROVE  /\ cur \in 1..Len(queue)
           /\ q \in 1..Len(accepted)
           /\ \E n \in Nat \ {0} : pos' = pos + n /\ pos + n < accepted[q] /\ Log(n)
<1>1. cur \in 1..Len(queue)
  BY DEF TypeOK, WriteSome, InPass
<1>2. q \in 1..Len(accepted)
  BY <1>1 DEF TypeOK, q
<1>3. accepted[q] \in Nat
  BY <1>2, ChunkSize
<1>4. PICK n \in 1..(left - 1) : Log(n) /\ pos' = pos + n
  BY DEF WriteSome
<1>5. n \in Nat \ {0} /\ pos + n < accepted[q]
  BY <1>3, <1>4 DEF left, TypeOK
<1>6. QED
  BY <1>1, <1>2, <1>4, <1>5

------------------------------------------------------------------------------
(* EPOLLOUT and the list.                                                      *)

\* Pending chunks keep EPOLLOUT armed and an empty list disarms it
\* (aura_epollout, aura_async_enqueue_chunk, aura_async_xfer_handler).
THEOREM ArmedCorrect == Spec => []ArmedWhilePending
<1>1. Init => ArmedWhilePending
  BY DEF Init, ArmedWhilePending
<1>2. TypeOK /\ ArmedWhilePending /\ [Next]_vars => ArmedWhilePending'
  <2> SUFFICES ASSUME TypeOK, ArmedWhilePending, [Next]_vars PROVE ArmedWhilePending'
    OBVIOUS
  <2> USE DEF ArmedWhilePending
  <2>1. ASSUME NEW sz \in Sizes, Enqueue(sz) PROVE ArmedWhilePending'
    <3>1. queue' # <<>>
      BY <2>1, EnqueueStep DEF TypeOK
    <3>2. QED
      BY <2>1, <3>1 DEF Enqueue, Arm, EpollOut, armVars, TypeOK
  <2>2. CASE EnqueueCtlFails
    BY <2>2 DEF EnqueueCtlFails, Arm, EpollOut, TypeOK
  <2>3. CASE EnqueueNoMem
    BY <2>3 DEF EnqueueNoMem, armVars
  <2>4. CASE BeginOut
    BY <2>4 DEF BeginOut, armVars
  <2>5. CASE WriteAll
    <3>1. queue # <<>>
      BY <2>5, WriteAllStep DEF TypeOK
    <3>2. CASE queue' = <<>>
      BY <2>5, <3>2 DEF WriteAll, EpollOut, CtlOutcomes, TypeOK
    <3>3. CASE queue' # <<>>
      BY <2>5, <3>1, <3>3 DEF WriteAll, armVars
    <3>4. QED
      BY <3>2, <3>3
  <2>6. CASE WriteSome
    BY <2>6 DEF WriteSome, armVars
  <2>7. CASE WriteAgain
    BY <2>7 DEF WriteAgain, armVars
  <2>8. CASE WriteError
    BY <2>8 DEF WriteError, armVars
  <2>9. CASE EndPass
    BY <2>9 DEF EndPass, armVars
  <2>10. CASE UNCHANGED vars
    BY <2>10 DEF vars
  <2>11. QED
    BY <2>1, <2>2, <2>3, <2>4, <2>5, <2>6, <2>7, <2>8, <2>9, <2>10 DEF Next, Pass
<1>3. QED
  BY <1>1, <1>2, TypeCorrect, PTL DEF Spec

------------------------------------------------------------------------------
(* Chunks are conserved.                                                       *)

\* Every accepted chunk is queued once, in order of arrival, or released
\* (aura_async_enqueue_chunk, aura_chunk_put and list_del in the handler).
THEOREM ConservedCorrect == Spec => []Conserved
<1>1. Init => Conserved
  BY DEF Init, Conserved
<1>2. TypeOK /\ Conserved /\ [Next]_vars => Conserved'
  <2> SUFFICES ASSUME TypeOK, Conserved, [Next]_vars PROVE Conserved'
    OBVIOUS
  <2>1. ASSUME NEW sz \in Sizes, Enqueue(sz) PROVE Conserved'
    <3>1. /\ Len(accepted) \in Nat /\ Len(queue) \in Nat
          /\ \A i \in 1..Len(queue) : queue[i] \in 1..Len(accepted)
          /\ freed' = freed /\ freed \subseteq 1..Len(accepted)
      BY <2>1 DEF TypeOK, Enqueue
    <3>2. \A i, j \in 1..Len(queue') : i < j => queue'[i] < queue'[j]
      BY <2>1, <3>1, EnqueueStep DEF Conserved
    <3>3. ASSUME NEW c \in 1..Len(accepted')
          PROVE  c \in freed' <=> \A i \in 1..Len(queue') : queue'[i] # c
      <4>1. CASE c = Len(accepted) + 1
        BY <2>1, <3>1, <4>1, EnqueueStep
      <4>2. CASE c \in 1..Len(accepted)
        <5>1. \A i \in 1..Len(queue') :
                \/ i \in 1..Len(queue) /\ queue'[i] = queue[i]
                \/ queue'[i] # c
          BY <2>1, <3>1, <4>2, EnqueueStep
        <5>2. \A i \in 1..Len(queue) : i \in 1..Len(queue') /\ queue'[i] = queue[i]
          BY <2>1, <3>1, EnqueueStep
        <5>3. QED
          BY <3>1, <4>2, <5>1, <5>2 DEF Conserved
      <4>3. QED
        BY <2>1, <3>1, <4>1, <4>2, EnqueueStep
    <3>4. QED
      BY <3>2, <3>3 DEF Conserved
  <2>2. CASE WriteAll
    <3>0. /\ cur \in 1..Len(queue)
          /\ Len(queue') = Len(queue) - 1
          /\ \A i \in 1..(Len(queue) - 1) :
               queue'[i] = IF i < cur THEN queue[i] ELSE queue[i + 1]
      BY <2>2, WriteAllStep
    <3>1. /\ Len(accepted) \in Nat /\ Len(queue) \in Nat
          /\ \A i \in 1..Len(queue) : queue[i] \in 1..Len(accepted)
          /\ accepted' = accepted /\ freed' = freed \cup {queue[cur]}
      BY <2>2 DEF TypeOK, WriteAll, q
    <3>5. ASSUME NEW i \in 1..Len(queue')
          PROVE  \E a \in 1..Len(queue) : /\ queue'[i] = queue[a] /\ a # cur
                                          /\ a = IF i < cur THEN i ELSE i + 1
      <4>1. i \in 1..(Len(queue) - 1) /\ i + 1 \in 1..Len(queue) /\ i \in 1..Len(queue)
        BY <3>0, <3>1
      <4>2. queue'[i] = IF i < cur THEN queue[i] ELSE queue[i + 1]
        BY <3>0, <4>1
      <4>3. CASE i < cur
        BY <4>1, <4>2, <4>3
      <4>4. CASE ~(i < cur)
        BY <3>0, <4>1, <4>2, <4>4
      <4>5. QED
        BY <4>3, <4>4
    <3>2. ASSUME NEW i \in 1..Len(queue'), NEW j \in 1..Len(queue'), i < j
          PROVE  queue'[i] < queue'[j]
      <4>1. PICK a \in 1..Len(queue) : queue'[i] = queue[a] /\ a = IF i < cur THEN i ELSE i + 1
        BY <3>5
      <4>2. PICK b \in 1..Len(queue) : queue'[j] = queue[b] /\ b = IF j < cur THEN j ELSE j + 1
        BY <3>5
      <4>3. a < b
        BY <3>0, <3>2, <4>1, <4>2
      <4>4. QED
        BY <4>1, <4>2, <4>3 DEF Conserved
    <3>3. ASSUME NEW c \in 1..Len(accepted)
          PROVE  c \in freed' <=> \A i \in 1..Len(queue') : queue'[i] # c
      <4>1. CASE c = queue[cur]
        <5>1. ASSUME NEW i \in 1..Len(queue') PROVE queue'[i] # queue[cur]
          <6>1. PICK a \in 1..Len(queue) : queue'[i] = queue[a] /\ a # cur
            BY <3>5
          <6>2. a < cur \/ cur < a
            BY <3>0, <6>1
          <6>3. queue[a] \in Nat /\ queue[cur] \in Nat
            BY <3>0, <3>1
          <6>4. queue[a] < queue[cur] \/ queue[cur] < queue[a]
            BY <3>0, <6>2 DEF Conserved
          <6>5. QED
            BY <6>1, <6>3, <6>4
        <5>2. QED
          BY <3>1, <4>1, <5>1
      <4>2. CASE c # queue[cur]
        <5>1. (\E i \in 1..Len(queue) : queue[i] = c) => \E i \in 1..Len(queue') : queue'[i] = c
          <6> SUFFICES ASSUME NEW i \in 1..Len(queue), queue[i] = c
                       PROVE  \E k \in 1..Len(queue') : queue'[k] = c
            OBVIOUS
          <6>1. CASE i < cur
            <7>1. i \in 1..Len(queue') /\ i \in 1..(Len(queue) - 1)
              BY <3>0, <3>1, <6>1
            <7>2. queue'[i] = queue[i]
              BY <3>0, <3>1, <6>1, <7>1
            <7>3. QED
              BY <7>1, <7>2
          <6>2. CASE i > cur
            <7>1. i - 1 \in 1..Len(queue') /\ ~(i - 1 < cur) /\ (i - 1) + 1 = i
              BY <3>0, <3>1, <6>2
            <7>2. queue'[i - 1] = queue[i]
              BY <3>0, <3>1, <7>1
            <7>3. QED
              BY <7>1, <7>2
          <6>3. QED
            BY <4>2, <6>1, <6>2, <3>0
        <5>2. (\E i \in 1..Len(queue') : queue'[i] = c) => \E i \in 1..Len(queue) : queue[i] = c
          BY <3>0, <3>1
        <5>3. QED
          BY <3>1, <4>2, <5>1, <5>2 DEF Conserved
      <4>3. QED
        BY <4>1, <4>2
    <3>4. QED
      BY <3>1, <3>2, <3>3 DEF Conserved
  <2>3. CASE UNCHANGED <<accepted, queue, freed>>
    BY <2>3 DEF Conserved
  <2>4. QED
    BY <2>1, <2>2, <2>3 DEF Next, Pass, EnqueueCtlFails, EnqueueNoMem, BeginOut,
       WriteSome, WriteAgain, WriteError, EndPass, vars
<1>3. QED
  BY <1>1, <1>2, TypeCorrect, PTL DEF Spec

------------------------------------------------------------------------------
(* The shared position.                                                        *)

\* x->pos never leaves the queued chunks: it is advanced only within a chunk
\* that stays queued and reset whenever one is retired.
THEOREM PosOwnedCorrect == Spec => []PosOwned
<1>1. Init => PosOwned
  BY DEF Init, PosOwned
<1>2. TypeOK /\ PosOwned /\ [Next]_vars => PosOwned'
  <2> SUFFICES ASSUME TypeOK, PosOwned, [Next]_vars PROVE PosOwned'
    OBVIOUS
  <2>1. ASSUME NEW sz \in Sizes, Enqueue(sz) PROVE PosOwned'
    <3>1. /\ pos' = pos /\ Len(queue) \in Nat
          /\ \A i \in 1..Len(queue) : queue[i] \in 1..Len(accepted)
      BY <2>1 DEF TypeOK, Enqueue
    <3>2. QED
      BY <2>1, <3>1, EnqueueStep DEF PosOwned
  <2>2. CASE WriteAll
    BY <2>2 DEF WriteAll, PosOwned
  <2>3. CASE WriteSome
    <3>1. queue' = queue /\ accepted' = accepted
      BY <2>3 DEF WriteSome
    <3>2. QED
      BY <2>3, <3>1, WriteSomeStep DEF PosOwned, q
  <2>4. CASE UNCHANGED <<accepted, queue, pos>>
    BY <2>4 DEF PosOwned
  <2>5. QED
    BY <2>1, <2>2, <2>3, <2>4 DEF Next, Pass, EnqueueCtlFails, EnqueueNoMem, BeginOut,
       WriteAgain, WriteError, EndPass, vars
<1>3. QED
  BY <1>1, <1>2, TypeCorrect, PTL DEF Spec

------------------------------------------------------------------------------
(* The order of the bytes.                                                     *)

\* A segment that starts where the stream stands keeps the log in order.
LEMMA InOrderAppend ==
    ASSUME TypeOK, InOrder, accepted' = accepted,
           NEW id \in 1..Len(accepted), NEW from, NEW to,
           wire' = Append(wire, [id |-> id, from |-> from, to |-> to]),
           <<id, from>> = AfterSegments(Len(wire))
    PROVE  /\ InOrder'
           /\ AfterSegments(Len(wire))' =
                IF to = accepted[id] THEN <<id + 1, 0>> ELSE <<id, to>>
<1>1. /\ Len(wire) \in Nat
      /\ Len(wire') = Len(wire) + 1
      /\ \A k \in 1..Len(wire) : wire'[k] = wire[k]
      /\ wire'[Len(wire) + 1] = [id |-> id, from |-> from, to |-> to]
  BY DEF TypeOK
<1>2. \A k \in 0..Len(wire) : AfterSegments(k)' = AfterSegments(k)
  <2> TAKE k \in 0..Len(wire)
  <2>1. CASE k = 0
    BY <2>1 DEF AfterSegments
  <2>2. CASE k \in 1..Len(wire)
    <3>1. wire'[k] = wire[k] /\ k # 0
      BY <1>1, <2>2
    <3>2. QED
      BY <3>1 DEF AfterSegments
  <2>3. QED
    BY <1>1, <2>1, <2>2
<1>3. ASSUME NEW k \in 1..Len(wire')
      PROVE  <<wire'[k].id, wire'[k].from>> = AfterSegments(k - 1)'
  <2>1. CASE k \in 1..Len(wire)
    <3>1. k - 1 \in 0..Len(wire)
      BY <1>1, <2>1
    <3>2. <<wire[k].id, wire[k].from>> = AfterSegments(k - 1)
      BY <2>1 DEF InOrder
    <3>3. QED
      BY <1>1, <1>2, <2>1, <3>1, <3>2
  <2>2. CASE k = Len(wire) + 1
    <3>1. k - 1 = Len(wire) /\ Len(wire) \in 0..Len(wire)
      BY <1>1, <2>2
    <3>2. wire'[k].id = id /\ wire'[k].from = from
      BY <1>1, <2>2
    <3>3. QED
      BY <1>2, <3>1, <3>2
  <2>3. QED
    BY <1>1, <2>1, <2>2
<1>4. InOrder'
  <2>1. InOrder' <=> \A k \in 1..Len(wire') :
                        <<wire'[k].id, wire'[k].from>> = AfterSegments(k - 1)'
    BY DEF InOrder
  <2>2. QED
    BY <1>3, <2>1
<1>5. AfterSegments(Len(wire))' =
        IF to = accepted[id] THEN <<id + 1, 0>> ELSE <<id, to>>
  <2>1. /\ Len(wire') # 0
        /\ wire'[Len(wire')].id = id
        /\ wire'[Len(wire')].to = to
    BY <1>1
  <2>2. QED
    BY <2>1 DEF AfterSegments
<1>6. QED
  BY <1>4, <1>5

\* A new chunk does not change where the stream stands.
LEMMA InOrderEnqueue ==
    ASSUME TypeOK, InOrder, NEW sz \in Sizes, Enqueue(sz)
    PROVE  /\ InOrder'
           /\ AfterSegments(Len(wire))' = AfterSegments(Len(wire))
<1>1. /\ Len(wire) \in Nat
      /\ wire' = wire
      /\ \A k \in 1..Len(wire) : wire[k].id \in 1..Len(accepted)
  <2>1. Len(wire) \in Nat /\ wire' = wire
    BY DEF TypeOK, Enqueue
  <2>2. ASSUME NEW k \in 1..Len(wire) PROVE wire[k].id \in 1..Len(accepted)
    <3>1. wire[k] \in [id : 1..Len(accepted), from : Nat, to : Nat]
      BY ElementOfSeq DEF TypeOK
    <3>2. QED
      BY <3>1
  <2>3. QED
    BY <2>1, <2>2
<1>2. \A c \in 1..Len(accepted) : accepted'[c] = accepted[c]
  BY EnqueueStep
<1>3. \A k \in 0..Len(wire) : AfterSegments(k)' = AfterSegments(k)
  <2> TAKE k \in 0..Len(wire)
  <2>1. CASE k = 0
    BY <2>1 DEF AfterSegments
  <2>2. CASE k \in 1..Len(wire)
    <3>1. accepted'[wire[k].id] = accepted[wire[k].id] /\ wire'[k] = wire[k] /\ k # 0
      BY <1>1, <1>2, <2>2
    <3>2. QED
      BY <3>1 DEF AfterSegments
  <2>3. QED
    BY <1>1, <2>1, <2>2
<1>4. InOrder'
  <2>1. InOrder' <=> \A k \in 1..Len(wire') :
                        <<wire'[k].id, wire'[k].from>> = AfterSegments(k - 1)'
    BY DEF InOrder
  <2>2. ASSUME NEW k \in 1..Len(wire')
        PROVE  <<wire'[k].id, wire'[k].from>> = AfterSegments(k - 1)'
    <3>1. k \in 1..Len(wire) /\ k - 1 \in 0..Len(wire) /\ wire'[k] = wire[k]
      BY <1>1
    <3>2. <<wire[k].id, wire[k].from>> = AfterSegments(k - 1)
      BY <3>1 DEF InOrder
    <3>3. QED
      BY <1>3, <3>1, <3>2
  <2>3. QED
    BY <2>1, <2>2
<1>5. AfterSegments(Len(wire))' = AfterSegments(Len(wire))
  <2>1. CASE wire = <<>>
    BY <1>1, <2>1 DEF AfterSegments
  <2>2. CASE wire # <<>>
    <3>1. Len(wire) \in 1..Len(wire) /\ Len(wire) # 0
      BY <1>1, <2>2 DEF TypeOK
    <3>2. accepted'[wire[Len(wire)].id] = accepted[wire[Len(wire)].id]
      BY <1>1, <1>2, <3>1
    <3>3. QED
      BY <1>1, <3>1, <3>2 DEF AfterSegments
  <2>3. QED
    BY <2>1, <2>2
<1>6. QED
  BY <1>4, <1>5

\* While the stream is intact the handler works on the head of the list, which
\* is the chunk the stream stands in: the bytes leave in order, each once
\* (aura_async_xfer_handler, EPOLLOUT branch; aura_async_enqueue_chunk).
THEOREM OrderCorrect == Spec => [](InTurn /\ InOrderUnlessTorn)
<1> DEFINE Inv == InTurn /\ InOrderUnlessTorn
<1>1. Init => Inv
  <2> SUFFICES ASSUME Init PROVE Inv
    OBVIOUS
  <2>1. InTurn
    BY DEF Init, InTurn
  <2>2. Len(wire) = 0 /\ Len(accepted) = 0 /\ queue = <<>> /\ pos = 0
    BY DEF Init
  <2>3. InOrder
    BY <2>2 DEF InOrder
  <2>4. AfterSegments(Len(wire)) = <<1, 0>>
    BY <2>2 DEF AfterSegments
  <2>5. QED
    BY <2>1, <2>2, <2>3, <2>4 DEF InOrderUnlessTorn
<1>2. TypeOK /\ Inv /\ [Next]_vars => Inv'
  <2> SUFFICES ASSUME TypeOK, Inv, [Next]_vars, ~torn' PROVE Inv'
    BY DEF InTurn, InOrderUnlessTorn
  <2>1. ASSUME NEW sz \in Sizes, Enqueue(sz) PROVE Inv'
    <3>1. ~torn /\ pos' = pos /\ wire' = wire /\ pos \in Nat
      BY <2>1 DEF Enqueue, TypeOK
    <3>2. /\ Len(accepted) \in Nat /\ Len(queue) \in Nat
          /\ \A i \in 1..Len(queue) : queue[i] \in 1..Len(accepted)
      BY DEF TypeOK
    <3>3. \A i \in 1..Len(queue') : queue'[i] = Len(accepted') - Len(queue') + i
      <4> TAKE i \in 1..Len(queue')
      <4>1. Len(accepted') - Len(queue') = Len(accepted) - Len(queue)
        <5>1. Len(accepted') = Len(accepted) + 1 /\ Len(queue') = Len(queue) + 1
          BY <2>1, EnqueueStep
        <5>2. QED
          BY <3>2, <5>1
      <4>2. CASE i \in 1..Len(queue)
        BY <2>1, <3>1, <4>1, <4>2, EnqueueStep DEF InTurn
      <4>3. CASE i = Len(queue) + 1
        BY <2>1, <3>2, <4>1, <4>3, EnqueueStep
      <4>4. QED
        BY <2>1, <3>2, <4>2, <4>3, EnqueueStep
    <3>4. queue' # <<>> /\ queue'[1] = IF queue = <<>> THEN Len(accepted) + 1 ELSE queue[1]
      BY <2>1, <3>2, EnqueueStep DEF TypeOK
    <3>5. pos' < accepted'[queue'[1]]
      <4>1. CASE queue = <<>>
        <5>1. \A n \in Sizes : n \in Nat /\ n > 0
          BY SizesAssumption
        <5>2. QED
          BY <2>1, <3>1, <3>4, <4>1, <5>1, EnqueueStep DEF InTurn
      <4>2. CASE queue # <<>>
        <5>1. queue[1] \in 1..Len(accepted)
          BY <4>2 DEF TypeOK
        <5>2. QED
          BY <2>1, <3>1, <3>4, <4>2, <5>1, EnqueueStep DEF InTurn
      <4>3. QED
        BY <4>1, <4>2
    <3>6. InOrder' /\ AfterSegments(Len(wire))' = AfterSegments(Len(wire))
      BY <2>1, <3>1, InOrderEnqueue DEF InOrderUnlessTorn
    <3>7. QED
      BY <3>1, <3>3, <3>4, <3>5, <3>6 DEF InTurn, InOrderUnlessTorn
  <2>2. CASE WriteAll
    <3>1. /\ ~torn /\ cur = 1 /\ accepted' = accepted /\ pos' = 0
          /\ wire' = Append(wire, [id |-> q, from |-> pos, to |-> pos + left])
      BY <2>2 DEF WriteAll, Log, TypeOK
    <3>2. /\ Len(accepted) \in Nat /\ Len(queue) \in Nat \ {0} /\ pos \in Nat
          /\ queue # <<>> /\ q = queue[1] /\ q \in 1..Len(accepted)
      BY <2>2, <3>1, WriteAllStep DEF TypeOK, q
    <3>3. accepted[q] \in Nat /\ pos + left = accepted[q]
      BY <3>2, ChunkSize DEF left
    <3>4. /\ InOrder'
          /\ AfterSegments(Len(wire))' = <<q + 1, 0>>
      <4>1. InOrder /\ <<q, pos>> = AfterSegments(Len(wire))
        BY <3>1, <3>2 DEF InOrderUnlessTorn
      <4>2. QED
        BY <3>1, <3>2, <3>3, <4>1, InOrderAppend
    <3>5. \A i \in 1..Len(queue') : queue'[i] = Len(accepted) - Len(queue') + i
      BY <2>2, <3>1, <3>2, WriteAllStep DEF InTurn
    <3>6. q = Len(accepted) - Len(queue) + 1
      BY <3>1, <3>2 DEF InTurn
    <3>7. q + 1 = IF queue' = <<>> THEN Len(accepted) + 1 ELSE queue'[1]
      <4>1. CASE queue' = <<>>
        <5>1. Len(queue') = 0
          BY <4>1
        <5>2. Len(queue') = Len(queue) - 1
          BY <2>2, WriteAllStep
        <5>3. Len(queue) = 1
          BY <3>2, <5>1, <5>2
        <5>4. q = Len(accepted)
          BY <3>2, <3>6, <5>3
        <5>5. QED
          BY <4>1, <5>4
      <4>2. CASE queue' # <<>>
        <5>1. 1 \in 1..Len(queue') /\ Len(queue') = Len(queue) - 1
          BY <2>2, <3>2, <4>2, WriteAllStep, RemoveAtProperties DEF WriteAll, TypeOK
        <5>2. QED
          BY <3>2, <3>5, <3>6, <4>2, <5>1
      <4>3. QED
        BY <4>1, <4>2
    <3>8. queue' # <<>> => pos' < accepted'[queue'[1]]
      <4> SUFFICES ASSUME queue' # <<>> PROVE 0 < accepted[queue'[1]]
        BY <3>1
      <4>1. Len(queue') >= 1 /\ Len(queue') = Len(queue) - 1
        BY <2>2, <3>2, WriteAllStep, RemoveAtProperties DEF WriteAll, TypeOK
      <4>2. queue'[1] \in 1..Len(accepted)
        BY <3>2, <3>6, <3>7, <4>1
      <4>3. QED
        BY <4>2, ChunkSize
    <3>9. QED
      BY <3>1, <3>4, <3>5, <3>7, <3>8 DEF InTurn, InOrderUnlessTorn
  <2>3. CASE WriteSome
    <3>1. PICK n \in Nat \ {0} : pos' = pos + n /\ pos + n < accepted[q] /\ Log(n)
      BY <2>3, WriteSomeStep
    <3>2. /\ ~torn /\ cur = 1 /\ accepted' = accepted /\ queue' = queue
          /\ wire' = Append(wire, [id |-> q, from |-> pos, to |-> pos + n])
      BY <2>3, <3>1 DEF WriteSome, Log, TypeOK
    <3>3. /\ queue # <<>> /\ q = queue[1] /\ q \in 1..Len(accepted) /\ pos \in Nat
      BY <2>3, <3>2, WriteSomeStep DEF TypeOK, q
    <3>4. accepted[q] \in Nat /\ pos + n # accepted[q]
      BY <3>1, <3>3, ChunkSize
    <3>5. /\ InOrder'
          /\ AfterSegments(Len(wire))' = <<q, pos + n>>
      <4>1. InOrder /\ <<q, pos>> = AfterSegments(Len(wire))
        BY <3>2, <3>3 DEF InOrderUnlessTorn
      <4>2. QED
        BY <3>2, <3>3, <3>4, <4>1, InOrderAppend
    <3>6. QED
      BY <3>1, <3>2, <3>3, <3>5 DEF InTurn, InOrderUnlessTorn
  <2>4. CASE UNCHANGED <<accepted, queue, pos, wire, torn>>
    BY <2>4 DEF InTurn, InOrderUnlessTorn, InOrder, AfterSegments
  <2>5. QED
    BY <2>1, <2>2, <2>3, <2>4 DEF Next, Pass, EnqueueCtlFails, EnqueueNoMem, BeginOut,
       WriteAgain, WriteError, EndPass, vars
<1>3. QED
  BY <1>1, <1>2, TypeCorrect, PTL DEF Spec

------------------------------------------------------------------------------
(* Refinement.                                                                 *)

\* Where the abstract stream stands is where the log of the transmitter ends.
LEMMA SameFrontier ==
    ASSUME TypeOK
    PROVE  Stream!After(wire) = AfterSegments(Len(wire))
<1>1. wire = <<>> <=> Len(wire) = 0
  BY DEF TypeOK
<1>2. QED
  BY <1>1 DEF Stream!After, AfterSegments

\* The transmitter implements ChunkStream: an intact write emits the next bytes
\* of the stream, any other write comes from a chunk that is still owned, and
\* nothing else is visible (asyncio.c 76-104, 112-129).
THEOREM ImplementsStream == Spec => StreamSpec
<1> DEFINE Inv == TypeOK /\ Conserved /\ InTurn /\ InOrderUnlessTorn
<1>1. Init => Stream!Init
  BY DEF Init, Stream!Init
<1>2. Inv /\ [Next]_vars => [Stream!Next]_(Stream!vars)
  <2> SUFFICES ASSUME Inv, [Next]_vars
               PROVE  Stream!Next \/ UNCHANGED Stream!vars
    OBVIOUS
  <2>1. ASSUME NEW sz \in Sizes, Enqueue(sz) PROVE Stream!Next
    BY <2>1 DEF Enqueue, Stream!Next, Stream!Accept
  <2>2. ASSUME NEW n \in Nat, Log(n), accepted' = accepted,
               cur \in 1..Len(queue), torn \/ cur # 1,
               freed' \in {freed, freed \cup {q}}
        PROVE  Stream!Next
    <3>1. torn' = TRUE
      BY <2>2 DEF Log
    <3>2. q \in (1..Len(accepted)) \ freed
      BY <2>2 DEF q, Conserved, TypeOK
    <3>3. /\ Len(wire') = Len(wire) + 1
          /\ SubSeq(wire', 1, Len(wire)) = wire
          /\ wire'[Len(wire) + 1].id = q
      BY <2>2 DEF Log, TypeOK
    <3>4. Stream!Tear
      BY <2>2, <3>1, <3>2, <3>3 DEF Stream!Tear
    <3>5. QED
      BY <3>4 DEF Stream!Next
  <2>3. ASSUME NEW n \in Nat \ {0}, Log(n), accepted' = accepted,
               queue # <<>>, ~torn, cur = 1, pos + n <= accepted[q],
               freed' = IF pos + n = accepted[q] THEN freed \cup {q} ELSE freed
        PROVE  Stream!Next
    <3>1. q = queue[1] /\ q \in 1..Len(accepted) /\ pos \in Nat
      BY <2>3 DEF q, TypeOK
    <3>2. Stream!After(wire) = <<q, pos>>
      BY <2>3, <3>1, SameFrontier DEF InOrderUnlessTorn
    <3>3. n \in 1..(accepted[q] - pos)
      BY <2>3, <3>1, ChunkSize
    <3>4. /\ wire' = Append(wire, [id |-> q, from |-> pos, to |-> pos + n])
          /\ torn' = torn
      BY <2>3 DEF Log, TypeOK
    <3>5. Stream!Emit
      <4>1. Stream!After(wire)[1] = q /\ Stream!After(wire)[2] = pos
        BY <3>2
      <4>2. \E m \in 1..(accepted[q] - pos) :
              /\ wire' = Append(wire, [id |-> q, from |-> pos, to |-> pos + m])
              /\ freed' = IF pos + m = accepted[q] THEN freed \cup {q} ELSE freed
        BY <2>3, <3>3, <3>4
      <4>3. ~torn /\ q \in 1..Len(accepted) /\ UNCHANGED <<accepted, torn>>
        BY <2>3, <3>1, <3>4
      <4>4. QED
        BY <4>1, <4>2, <4>3 DEF Stream!Emit
    <3>6. QED
      BY <3>5 DEF Stream!Next
  <2>4. CASE WriteAll
    <3>1. cur \in 1..Len(queue) /\ q \in 1..Len(accepted)
      BY <2>4, WriteAllStep
    <3>2. accepted[q] \in Nat /\ left \in Nat /\ pos + left = accepted[q]
      BY <2>4, <3>1, ChunkSize DEF WriteAll, left, TypeOK
    <3>3. Log(left) /\ accepted' = accepted /\ freed' = freed \cup {q}
      BY <2>4 DEF WriteAll
    <3>4. CASE torn \/ cur # 1
      BY <2>2, <3>1, <3>2, <3>3, <3>4
    <3>5. CASE ~torn /\ cur = 1
      <4>1. queue # <<>> /\ q = queue[1]
        BY <3>1, <3>5 DEF q
      <4>2. left # 0
        BY <3>2, <3>5, <4>1 DEF InTurn, TypeOK
      <4>3. QED
        BY <2>3, <3>1, <3>2, <3>3, <3>5, <4>1, <4>2
    <3>6. QED
      BY <3>4, <3>5
  <2>5. CASE WriteSome
    <3>1. cur \in 1..Len(queue) /\ q \in 1..Len(accepted)
      BY <2>5, WriteSomeStep
    <3>2. PICK n \in Nat \ {0} : pos' = pos + n /\ pos + n < accepted[q] /\ Log(n)
      BY <2>5, WriteSomeStep
    <3>3. accepted' = accepted /\ freed' = freed /\ accepted[q] \in Nat /\ pos \in Nat
      BY <2>5, <3>1, ChunkSize DEF WriteSome, TypeOK
    <3>4. CASE torn \/ cur # 1
      BY <2>2, <3>1, <3>2, <3>3, <3>4
    <3>5. CASE ~torn /\ cur = 1
      <4>1. queue # <<>>
        BY <3>1, <3>5
      <4>2. pos + n # accepted[q] /\ pos + n <= accepted[q]
        BY <3>2, <3>3
      <4>3. QED
        BY <2>3, <3>2, <3>3, <3>5, <4>1, <4>2
    <3>6. QED
      BY <3>4, <3>5
  <2>6. CASE UNCHANGED <<accepted, freed, wire, torn>>
    BY <2>6 DEF Stream!vars
  <2>7. QED
    BY <2>1, <2>4, <2>5, <2>6 DEF Next, Pass, EnqueueCtlFails, EnqueueNoMem, BeginOut,
       WriteAgain, WriteError, EndPass, vars
<1>3. Spec => []Inv
  BY TypeCorrect, ConservedCorrect, OrderCorrect, PTL
<1>4. QED
  BY <1>1, <1>2, <1>3, PTL DEF Spec, StreamSpec, Stream!Spec
====
