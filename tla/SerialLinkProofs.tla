---- MODULE SerialLinkProofs ----
(* The composition of the receiver with a device and a line: whatever the      *)
(* device sends, the line loses and an earlier user left behind, the receiver  *)
(* keeps in step with its frames.                                              *)
EXTENDS SerialLink, SerialRxProofs

Requests == {"discover", "call", "post"}

\* What surrounds the receiver.
LineOK ==
    /\ toHost \in Seq(Byte)
    /\ txq \in Seq(Requests)
    /\ toDev \in Seq(Requests)
    /\ devout \in Seq(Seq(Byte))
    /\ table \in Nat /\ used \in Nat
    /\ disturbed \in BOOLEAN

LinkInv == RxInv /\ LineOK

\* A part of a sequence is one over the same set.
LEMMA SubSeqType ==
    ASSUME NEW S, NEW s \in Seq(S), NEW i \in Int, NEW j \in Int, i >= 1, j <= Len(s)
    PROVE  SubSeq(s, i, j) \in Seq(S)
  BY SubSeqProperties

\* A frame is a sequence of bytes.
LEMMA FrameType ==
    ASSUME NEW body \in Seq(Byte), Len(body) \in Byte
    PROVE  Frame(body) \in Seq(Byte)
<1>1. <<Start, Len(body)>> \in Seq(Byte) /\ <<Stop>> \in Seq(Byte)
  BY ByteAssumption, StopAssumption
<1>2. <<Start, Len(body)>> \o body \in Seq(Byte)
  BY <1>1, ConcatProperties
<1>3. QED
  BY <1>1, <1>2, ConcatProperties DEF Frame

\* The objects of the device, and their frames.
LEMMA Objects ==
    ASSUME NEW i \in 1..Len(DevObjects)
    PROVE  /\ DevObjects[i] \in Seq(Byte) /\ IsObject(DevObjects[i])
           /\ Len(DevObjects[i]) >= 5 /\ Len(DevObjects[i]) < MaxByte
           /\ Append(DevObjects[i], Csum) \in Seq(Byte)
           /\ Len(Append(DevObjects[i], Csum)) = Len(DevObjects[i]) + 1
           /\ Len(Append(DevObjects[i], Csum)) \in Byte
<1>1. /\ DevObjects[i] \in Seq(Byte) /\ IsObject(DevObjects[i])
      /\ Len(DevObjects[i]) < MaxByte /\ Csum \in Byte
  BY BodiesAssumption, ElementOfSeq
<1>2. PICK n \in Nat : n = Len(DevObjects[i])
  BY <1>1
<1>3. n >= 5
  BY <1>1, <1>2 DEF IsObject
<1>4. /\ Append(DevObjects[i], Csum) \in Seq(Byte)
      /\ Len(Append(DevObjects[i], Csum)) = n + 1
  BY <1>1, <1>2, AppendProperties
<1>5. n + 1 \in Byte
  BY <1>1, <1>2, ByteAssumption DEF Byte
<1>6. QED
  BY <1>1, <1>2, <1>3, <1>4, <1>5

\* What the device puts on the line for a request.
LEMMA Answers ==
    /\ MaxByte >= 2
       => <<Info>> \o [i \in 1..Len(DevObjects) |-> ObjectFrame(DevObjects[i])] \o <<End>>
             \in Seq(Seq(Byte))
    /\ <<Frame(ReplyBody)>> \in Seq(Seq(Byte))
    /\ \A e \in EventBodies : Frame(e) \in Seq(Byte)
<1>1. MaxByte \in Nat /\ Start \in Byte /\ Stop \in Byte /\ 0 \in Byte
  BY ByteAssumption, StopAssumption DEF Byte
<1>2. MaxByte >= 2 =>
         <<Info>> \o [i \in 1..Len(DevObjects) |-> ObjectFrame(DevObjects[i])] \o <<End>>
             \in Seq(Seq(Byte))
  <2> SUFFICES ASSUME MaxByte >= 2
               PROVE  <<Info>> \o [i \in 1..Len(DevObjects) |-> ObjectFrame(DevObjects[i])] \o <<End>>
                         \in Seq(Seq(Byte))
    OBVIOUS
  <2>1. 1 \in Byte
    BY <1>1 DEF Byte
  <2>2. Info \in Seq(Byte)
    BY <1>1, <2>1 DEF Info
  <2>3. End \in Seq(Byte)
    <3>1. <<Csum>> \in Seq(Byte) /\ Len(<<Csum>>) = 1
      BY BodiesAssumption
    <3>2. QED
      BY <2>1, <3>1, FrameType DEF End
  <2>4. \A i \in 1..Len(DevObjects) : ObjectFrame(DevObjects[i]) \in Seq(Byte)
    BY Objects, FrameType DEF ObjectFrame
  <2>5. Len(DevObjects) \in Nat
    BY BodiesAssumption, LenProperties
  <2>6. [i \in 1..Len(DevObjects) |-> ObjectFrame(DevObjects[i])] \in Seq(Seq(Byte))
    <3> DEFINE F == [i \in 1..Len(DevObjects) |-> ObjectFrame(DevObjects[i])]
    <3>1. F \in [1..Len(DevObjects) -> Seq(Byte)]
      BY <2>4
    <3>2. QED
      BY <2>5, <3>1
  <2>7. <<Info>> \in Seq(Seq(Byte)) /\ <<End>> \in Seq(Seq(Byte))
    BY <2>2, <2>3
  <2>8. <<Info>> \o [i \in 1..Len(DevObjects) |-> ObjectFrame(DevObjects[i])] \in Seq(Seq(Byte))
    BY <2>6, <2>7, ConcatProperties
  <2>9. QED
    BY <2>7, <2>8, ConcatProperties
<1>3. Frame(ReplyBody) \in Seq(Byte)
  BY <1>1, BodiesAssumption, FrameType DEF Byte
<1>4. \A e \in EventBodies : Frame(e) \in Seq(Byte)
  <2> TAKE e \in EventBodies
  <2>1. e \in Seq(Byte) /\ Len(e) \in Byte
    BY <1>1, BodiesAssumption DEF Byte
  <2>2. QED
    BY <2>1, FrameType
<1>5. <<Frame(ReplyBody)>> \in Seq(Seq(Byte))
  BY <1>3
<1>6. QED
  BY <1>2, <1>4, <1>5

\* The body of a reply needs bytes of two and more.
LEMMA Wide == MaxByte >= 2
  BY ByteAssumption, BodiesAssumption

\* The port is open, and bytes may be left over on the line.
LEMMA LinkInitInv == LinkInit => LinkInv
<1> SUFFICES ASSUME LinkInit PROVE LinkInv
  OBVIOUS
<1>1. RxInv
  BY RxInitInv DEF LinkInit
<1>2. toHost \in Seq(Byte) /\ disturbed \in BOOLEAN
  BY BodiesAssumption DEF LinkInit
<1>3. txq \in Seq(Requests) /\ toDev \in Seq(Requests) /\ devout \in Seq(Seq(Byte))
  BY EmptySeq DEF LinkInit
<1>4. table \in Nat /\ used \in Nat
  BY DEF LinkInit
<1>5. QED
  BY <1>1, <1>2, <1>3, <1>4 DEF LinkInv, LineOK

\* A request is queued, or its failure goes unnoticed.
LEMMA EnqueueType ==
    ASSUME LineOK, NEW q \in Requests, Enqueue(q)
    PROVE  txq' \in Seq(Requests) /\ disturbed' \in BOOLEAN
<1>1. Append(txq, q) \in Seq(Requests)
  BY DEF LineOK
<1>2. QED
  BY <1>1 DEF Enqueue, LineOK

\* Every step of the host, the device and the line.
LEMMA LinkStepInv == LinkInv /\ [LinkNext]_linkVars => LinkInv'
<1> SUFFICES ASSUME LinkInv, [LinkNext]_linkVars PROVE LinkInv'
  OBVIOUS
<1>1. RxInv /\ LineOK
  BY DEF LinkInv
<1>2. {"discover", "call", "post"} = Requests
  BY DEF Requests
<1>3. ASSUME UNCHANGED vars PROVE RxInv'
  BY <1>1, <1>3, RxSame
<1>4. CASE LinkDiscover
  <2>1. RxInv'
    BY <1>1, <1>4, DiscoverStep DEF LinkDiscover
  <2>2. txq' \in Seq(Requests) /\ disturbed' \in BOOLEAN
    BY <1>1, <1>2, <1>4, EnqueueType DEF LinkDiscover
  <2>3. UNCHANGED <<toHost, toDev, devout, table, used>>
    BY <1>4 DEF LinkDiscover, tableVars
  <2>4. QED
    BY <1>1, <2>1, <2>2, <2>3 DEF LinkInv, LineOK
<1>5. CASE LinkCallReply
  <2>1. RxInv'
    BY <1>1, <1>5, ScriptStep DEF LinkCallReply
  <2>2. txq' \in Seq(Requests) /\ disturbed' \in BOOLEAN
    BY <1>1, <1>2, <1>5, EnqueueType DEF LinkCallReply
  <2>3. UNCHANGED <<toHost, toDev, devout, table, used>>
    BY <1>5 DEF LinkCallReply, tableVars
  <2>4. QED
    BY <1>1, <2>1, <2>2, <2>3 DEF LinkInv, LineOK
<1>6. CASE CallNoReply
  <2>1. RxInv'
    BY <1>3, <1>6 DEF CallNoReply
  <2>2. txq' \in Seq(Requests) /\ disturbed' \in BOOLEAN
    BY <1>1, <1>2, <1>6, EnqueueType DEF CallNoReply
  <2>3. UNCHANGED <<toHost, toDev, devout, table, used>>
    BY <1>6 DEF CallNoReply, tableVars
  <2>4. QED
    BY <1>1, <2>1, <2>2, <2>3 DEF LinkInv, LineOK
<1>7. CASE LinkReturn
  <2>1. RxInv'
    BY <1>1, <1>7, ScriptStep DEF LinkReturn
  <2>2. objcount \in Nat /\ Len(objlist) \in Nat
    BY <1>1, LenProperties DEF RxInv, TypeOK
  <2>3. table' \in Nat /\ used' \in Nat
    BY <1>1, <1>7, <2>2 DEF LinkReturn, LineOK, tableVars
  <2>4. UNCHANGED <<toHost, txq, toDev, devout, disturbed>>
    BY <1>7 DEF LinkReturn, lineVars
  <2>5. QED
    BY <1>1, <2>1, <2>3, <2>4 DEF LinkInv, LineOK
<1>8. CASE LinkLoopForever
  <2>1. RxInv'
    BY <1>1, <1>8, ScriptStep DEF LinkLoopForever
  <2>2. QED
    BY <1>1, <1>8, <2>1 DEF LinkLoopForever, lineVars, tableVars, LinkInv, LineOK
<1>9. CASE LoopIn
  <2>1. PICK k \in 0..Len(toHost) :
           /\ Receive(SubSeq(toHost, 1, k))
           /\ toHost' = SubSeq(toHost, k + 1, Len(toHost))
    BY <1>9 DEF LoopIn
  <2>2. /\ SubSeq(toHost, 1, k) \in Seq(Byte)
        /\ SubSeq(toHost, k + 1, Len(toHost)) \in Seq(Byte)
    BY <1>1, <2>1, SubSeqType DEF LineOK
  <2>3. RxInv'
    BY <1>1, <2>1, <2>2, ReceiveStep
  <2>4. QED
    BY <1>1, <1>9, <2>1, <2>2, <2>3 DEF LoopIn, tableVars, LinkInv, LineOK
<1>10. CASE LoopOut
  <2>1. RxInv'
    BY <1>3, <1>10 DEF LoopOut
  <2>2. toDev \o txq \in Seq(Requests) /\ <<>> \in Seq(Requests)
    BY <1>1, ConcatProperties, EmptySeq DEF LineOK
  <2>3. QED
    BY <1>1, <1>10, <2>1, <2>2 DEF LoopOut, tableVars, LinkInv, LineOK
<1>11. CASE DevTake
  <2>1. RxInv'
    BY <1>3, <1>11 DEF DevTake
  <2>2. toDev' \in Seq(Requests)
    BY <1>1, <1>11 DEF DevTake, LineOK
  <2>3. <<>> \in Seq(Seq(Byte))
    BY EmptySeq
  <2>4. devout' \in Seq(Seq(Byte))
    BY <1>11, <2>3, Answers, Wide DEF DevTake
  <2>5. QED
    BY <1>1, <1>11, <2>1, <2>2, <2>4 DEF DevTake, tableVars, LinkInv, LineOK
<1>12. CASE DevSend
  <2>1. RxInv'
    BY <1>3, <1>12 DEF DevSend
  <2>2. Head(devout) \in Seq(Byte) /\ Tail(devout) \in Seq(Seq(Byte))
    BY <1>1, <1>12 DEF DevSend, LineOK
  <2>3. toHost \o Head(devout) \in Seq(Byte)
    BY <1>1, <2>2, ConcatProperties DEF LineOK
  <2>4. QED
    BY <1>1, <1>12, <2>1, <2>2, <2>3 DEF DevSend, tableVars, LinkInv, LineOK
<1>13. CASE DevEvent
  <2>1. RxInv'
    BY <1>3, <1>13 DEF DevEvent
  <2>2. PICK e \in EventBodies : toHost' = toHost \o Frame(e)
    BY <1>13 DEF DevEvent
  <2>3. toHost' \in Seq(Byte)
    BY <1>1, <2>2, Answers, ConcatProperties DEF LineOK
  <2>4. disturbed' \in BOOLEAN
    BY <1>1, <1>13 DEF DevEvent, LineOK
  <2>5. QED
    BY <1>1, <1>13, <2>1, <2>3, <2>4 DEF DevEvent, tableVars, LinkInv, LineOK
<1>14. CASE Lose
  <2>1. RxInv'
    BY <1>3, <1>14 DEF Lose
  <2>2. PICK i \in 1..Len(toHost) : toHost' = RemoveAt(toHost, i)
    BY <1>14 DEF Lose
  <2>3. /\ SubSeq(toHost, 1, i - 1) \in Seq(Byte)
        /\ SubSeq(toHost, i + 1, Len(toHost)) \in Seq(Byte)
    BY <1>1, <2>2, SubSeqType DEF LineOK
  <2>4. toHost' \in Seq(Byte)
    BY <2>2, <2>3, ConcatProperties DEF RemoveAt
  <2>5. QED
    BY <1>1, <1>14, <2>1, <2>4 DEF Lose, tableVars, LinkInv, LineOK
<1>15. CASE UNCHANGED linkVars
  BY <1>1, <1>3, <1>15 DEF linkVars, lineVars, tableVars, LinkInv, LineOK
<1>16. QED
  BY <1>4, <1>5, <1>6, <1>7, <1>8, <1>9, <1>10, <1>11, <1>12, <1>13, <1>14, <1>15
  DEF LinkNext

\* Against any device, with any bytes left over, events at any time and bytes
\* lost anywhere, receiver, line and table keep to their types and no handler
\* looks at a byte its frame has not delivered (serial.c 103-308).
THEOREM LinkFramesCorrect == LinkSpec => [](LinkTypeOK /\ FrameShape)
<1>1. LinkInv => LinkTypeOK /\ FrameShape
  BY DEF LinkInv, RxInv, LineOK, LinkTypeOK, Requests
<1>2. QED
  BY <1>1, LinkInitInv, LinkStepInv, PTL DEF LinkSpec

\* The type invariant by itself.
THEOREM LinkTypeCorrect == LinkSpec => []LinkTypeOK
  BY LinkFramesCorrect, PTL

------------------------------------------------------------------------------
(* The first discovery.                                                        *)

\* Nothing on the line that a receiver would take for the start of a frame.
Quiet == \A i \in 1..Len(toHost) : toHost[i] # Start

\* Before the first discovery, and while its request is still queued.
Idle ==
    /\ handler = "none" /\ buf = <<>> /\ objlist = <<>> /\ used = 0
    /\ host \in {"script", "loop"}
    /\ txq = <<>> /\ toDev = <<>> /\ devout = <<>>

Waiting ==
    /\ handler = "init" /\ rxstate = "WAIT_START" /\ buf = <<>> /\ expect = 1
    /\ host = "discovery" /\ state = 0
    /\ txq = <<"discover">> /\ toDev = <<>> /\ devout = <<>>

Pending == \E i \in 1..Len(txq) : txq[i] = "discover"

AskInv ==
    /\ rounds \in Nat
    /\ rounds = 0 => Idle
    /\ rounds = 0 /\ ~disturbed => Quiet
    /\ rounds = 1 /\ ~disturbed /\ Pending => Waiting /\ Quiet

\* Taking bytes off a quiet line leaves it quiet.
LEMMA QuietPart ==
    ASSUME toHost \in Seq(Byte), Quiet, NEW k \in 0..Len(toHost)
    PROVE  /\ \A i \in 1..Len(SubSeq(toHost, 1, k)) : SubSeq(toHost, 1, k)[i] # Start
           /\ \A i \in 1..Len(SubSeq(toHost, k + 1, Len(toHost))) :
                SubSeq(toHost, k + 1, Len(toHost))[i] # Start
<1>1. \A i \in 1..Len(toHost) : toHost[i] \in Byte
  BY ElementOfSeq
<1>2. /\ Len(SubSeq(toHost, 1, k)) = k
      /\ \A i \in 1..k : SubSeq(toHost, 1, k)[i] = toHost[i]
  OBVIOUS
<1>3. /\ Len(SubSeq(toHost, k + 1, Len(toHost))) = Len(toHost) - k
      /\ \A i \in 1..Len(toHost) - k :
            SubSeq(toHost, k + 1, Len(toHost))[i] = toHost[k + i]
  OBVIOUS
<1>4. \A i \in 1..Len(toHost) - k : k + i \in 1..Len(toHost)
  OBVIOUS
<1>5. QED
  BY <1>2, <1>3, <1>4 DEF Quiet

\* Input that holds no '[' does not move a receiver that waits for one.
LEMMA WaitingReceives ==
    ASSUME RxInv, Waiting, NEW bs \in Seq(Byte), Receive(bs),
           \A i \in 1..Len(bs) : bs[i] # Start
    PROVE  /\ handler' = "init" /\ rxstate' = "WAIT_START" /\ buf' = <<>> /\ expect' = 1
           /\ host' = "discovery" /\ state' = 0 /\ UNCHANGED <<objlist, objcount>>
<1>1. /\ bs # <<>> /\ Len(bs) <= 1 /\ buf = <<>> /\ expect = 1
      /\ IF Len(bs) = expect THEN HandleData(buf \o bs)
         ELSE /\ buf' = buf \o bs
              /\ expect' = expect - Len(bs)
              /\ UNCHANGED <<alloc, denied, handler, rxstate, szSz, state, objlist, objcount, cut>>
      /\ host' = host
  BY DEF Waiting, Receive
<1>2. Len(bs) = 1
  <2>1. bs # <<>> /\ Len(bs) <= 1
    BY <1>1
  <2>2. Len(bs) \in Nat \ {0}
    BY <2>1, EmptySeq
  <2>3. QED
    BY <2>1, <2>2
<1>3. buf \o bs = bs
  BY <1>1
<1>4. HandleData(bs) /\ bs[1] # Start
  BY <1>1, <1>2, <1>3
<1>5. InitWaitStart(bs)
  BY <1>4 DEF HandleData, InitDiscovery, PktWaitStart, PktGetLen, PktGetBody, Waiting
<1>6. QED
  BY <1>1, <1>4, <1>5 DEF InitWaitStart, NextFrame, Waiting

\* A step that leaves the queue, the line and the receiver alone.
LEMMA AskSame ==
    ASSUME AskInv, rounds' = rounds, disturbed' = disturbed,
           UNCHANGED <<vars, toHost, txq, toDev, devout, used>>
    PROVE  AskInv'
  BY DEF AskInv, Idle, Waiting, Quiet, Pending, vars, rxVars

\* Every step: a request can be pending only in the first wait.
LEMMA AskStep == LinkInv /\ AskInv /\ [LinkNext]_linkVars => AskInv'
<1> SUFFICES ASSUME LinkInv, AskInv, [LinkNext]_linkVars PROVE AskInv'
  OBVIOUS
<1>1. RxInv /\ LineOK
  BY DEF LinkInv
<1>2. disturbed \in BOOLEAN /\ rounds \in Nat
  BY <1>1 DEF LineOK, AskInv
\* Steps after which the rounds are the same and nothing can be pending.
<1>3. ASSUME rounds # 0, rounds' = rounds,
             rounds' = 1 /\ ~disturbed' => ~Pending'
      PROVE  AskInv'
  BY <1>2, <1>3 DEF AskInv
<1>4. CASE LinkDiscover
  <2>1. /\ Discover /\ Enqueue("discover") /\ rounds' = rounds + 1
        /\ UNCHANGED <<toHost, toDev, devout>>
    BY <1>4 DEF LinkDiscover
  <2>2. rounds' \in Nat /\ rounds' # 0 /\ (rounds' = 1 => rounds = 0)
    BY <1>2, <2>1
  <2>3. ASSUME rounds = 0, ~disturbed' PROVE Waiting' /\ Quiet'
    <3>1. Idle
      BY <2>3 DEF AskInv
    <3>2. txq' = Append(txq, "discover") /\ disturbed' = disturbed
      BY <2>1, <2>3 DEF Enqueue
    <3>3. txq' = <<"discover">>
      BY <3>1, <3>2 DEF Idle
    <3>4. Waiting'
      BY <2>1, <3>1, <3>3 DEF Idle, Waiting, Discover, ExpectBytes
    <3>5. Quiet'
      BY <2>1, <2>3, <3>2 DEF AskInv, Quiet
    <3>6. QED
      BY <3>4, <3>5
  <2>4. QED
    BY <2>2, <2>3 DEF AskInv
<1>5. ASSUME NEW q \in {"call", "post"}, Enqueue(q), host = "script", objlist # <<>> \/ used > 0,
             rounds' = rounds
      PROVE  AskInv'
  <2>1. rounds # 0
    BY <1>5 DEF AskInv, Idle
  <2>2. rounds = 1 /\ ~disturbed => ~Pending
    BY <1>5 DEF AskInv, Waiting
  <2>3. ASSUME rounds = 1, ~disturbed' PROVE ~Pending'
    <3>1. txq' = Append(txq, q) /\ disturbed' = disturbed
      BY <1>5, <2>3 DEF Enqueue
    <3>2. txq \in Seq(Requests) /\ q \in Requests
      BY <1>1, <1>5 DEF LineOK, Requests
    <3>3. /\ Len(txq) \in Nat /\ Len(txq') = Len(txq) + 1 /\ txq'[Len(txq) + 1] = q
          /\ \A i \in 1..Len(txq) : txq'[i] = txq[i]
      BY <3>1, <3>2, AppendProperties
    <3>4. ~Pending
      BY <2>2, <2>3, <3>1
    <3>5. \A i \in 1..Len(txq) + 1 : txq'[i] # "discover"
      BY <1>5, <3>3, <3>4 DEF Pending
    <3>6. QED
      BY <3>3, <3>5 DEF Pending
  <2>4. QED
    BY <1>3, <1>5, <2>1, <2>3
<1>6. CASE LinkCallReply
  BY <1>5, <1>6 DEF LinkCallReply, CallReply
<1>7. CASE CallNoReply
  BY <1>5, <1>7 DEF CallNoReply
<1>8. CASE LinkReturn
  <2>1. /\ host \in {"discovery", "call"} /\ state # 0
        /\ UNCHANGED <<txq, rounds, disturbed>>
    BY <1>8 DEF LinkReturn, Return, lineVars, counters
  <2>2. rounds # 0
    BY <2>1 DEF AskInv, Idle
  <2>3. rounds' = 1 /\ ~disturbed' => ~Pending'
    BY <2>1 DEF AskInv, Waiting, Pending
  <2>4. QED
    BY <1>3, <2>1, <2>2, <2>3
<1>9. CASE LinkLoopForever
  <2>1. /\ host = "script" /\ host' = "loop" /\ UNCHANGED <<rxVars, cut, roamed>>
        /\ UNCHANGED <<toHost, txq, toDev, devout, used, rounds, disturbed>>
    BY <1>9 DEF LinkLoopForever, LoopForever, lineVars, tableVars, counters
  <2>2. QED
    BY <2>1 DEF AskInv, Idle, Waiting, Quiet, Pending, rxVars
<1>10. CASE LoopIn
  <2>1. PICK k \in 0..Len(toHost) :
           /\ Receive(SubSeq(toHost, 1, k))
           /\ toHost' = SubSeq(toHost, k + 1, Len(toHost))
    BY <1>10 DEF LoopIn
  <2>2. UNCHANGED <<txq, toDev, devout, used, rounds, disturbed>>
    BY <1>10 DEF LoopIn, tableVars, counters
  <2>3. rounds # 0
    BY <2>1 DEF AskInv, Idle, Receive, Listening
  <2>4. ASSUME rounds = 1, ~disturbed, Pending PROVE Waiting' /\ Quiet'
    <3>1. Waiting /\ Quiet
      BY <2>4 DEF AskInv
    <3>2. toHost \in Seq(Byte)
      BY <1>1 DEF LineOK
    <3>3. SubSeq(toHost, 1, k) \in Seq(Byte)
      BY <2>1, <3>2, SubSeqType
    <3>4. /\ handler' = "init" /\ rxstate' = "WAIT_START" /\ buf' = <<>> /\ expect' = 1
          /\ host' = "discovery" /\ state' = 0
      BY <1>1, <2>1, <3>1, <3>2, <3>3, QuietPart, WaitingReceives
    <3>5. Quiet'
      BY <2>1, <3>1, <3>2, QuietPart DEF Quiet
    <3>6. QED
      BY <2>2, <3>1, <3>4, <3>5 DEF Waiting
  <2>5. Pending' => Pending
    BY <2>2 DEF Pending
  <2>6. QED
    BY <1>2, <2>2, <2>3, <2>4, <2>5 DEF AskInv
<1>11. CASE LoopOut
  <2>1. txq # <<>> /\ txq' = <<>> /\ rounds' = rounds
    BY <1>11 DEF LoopOut, counters
  <2>2. rounds # 0
    BY <2>1 DEF AskInv, Idle
  <2>3. ~Pending'
    BY <2>1 DEF Pending
  <2>4. QED
    BY <1>3, <2>1, <2>2, <2>3
<1>12. CASE DevTake \/ DevSend
  <2>1. /\ toDev # <<>> \/ devout # <<>>
        /\ UNCHANGED <<txq, rounds, disturbed>>
    BY <1>12 DEF DevTake, DevSend, counters
  <2>2. rounds # 0
    BY <2>1 DEF AskInv, Idle
  <2>3. rounds' = 1 /\ ~disturbed' => ~Pending'
    BY <2>1 DEF AskInv, Waiting, Pending
  <2>4. QED
    BY <1>3, <2>1, <2>2, <2>3
<1>13. CASE DevEvent \/ Lose
  <2>1. UNCHANGED <<vars, txq, toDev, devout, used>> /\ rounds' = rounds
    BY <1>13 DEF DevEvent, Lose, tableVars
  <2>2. ~disturbed' => ~disturbed /\ state # 0 /\ handler # "none"
    <3>1. CASE DevEvent
      BY <3>1, Zenon DEF DevEvent
    <3>2. CASE Lose
      BY <3>2 DEF Lose
    <3>3. QED
      BY <1>13, <3>1, <3>2
  <2>3. /\ rounds' = 0 => disturbed'
        /\ rounds' = 1 /\ ~disturbed' => ~Pending'
    BY <2>1, <2>2 DEF AskInv, Idle, Waiting, Pending
  <2>4. rounds' = 0 => Idle'
    BY <2>1 DEF AskInv, Idle, vars, rxVars
  <2>5. QED
    BY <1>2, <2>1, <2>3, <2>4 DEF AskInv
<1>14. CASE UNCHANGED linkVars
  BY <1>14, AskSame DEF linkVars, lineVars, tableVars, counters
<1>15. QED
  BY <1>4, <1>6, <1>7, <1>8, <1>9, <1>10, <1>11, <1>12, <1>13, <1>14 DEF LinkNext

\* The first discovery is never taken for answered before its request has left,
\* unless an event, a loss, a failed enqueue or a '[' on the line at open is to
\* blame (serial.c 297-308; asyncio.c 62-104, input goes first).
THEOREM AnsweredCorrect == LinkSpec => []AnsweredAfterSent
<1>1. LinkInit => AskInv
  BY DEF LinkInit, Init, AskInv, Idle, Quiet
<1>2. AskInv => AnsweredAfterSent
  BY DEF AskInv, Waiting, Pending, AnsweredAfterSent
<1>3. QED
  BY <1>1, <1>2, LinkInitInv, LinkStepInv, AskStep, PTL DEF LinkSpec

------------------------------------------------------------------------------
(* What the device sends for a discovery, and how far the receiver has got in  *)
(* it: in frame c, behind its first p bytes.                                   *)

Total == Len(DevObjects)
Sent == <<Info>> \o [i \in 1..Total |-> ObjectFrame(DevObjects[i])] \o <<End>>
BodyOf(c) == IF c <= Total + 1 THEN Append(DevObjects[c - 1], Csum) ELSE <<Csum>>

\* A sequence is an object up to its third NUL only.
LEMMA OneObject ==
    ASSUME NEW o \in Seq(Byte), IsObject(o), NEW s \in Seq(Byte), Len(s) = Len(o) + 1,
           \A x \in 1..Len(o) : s[x] = o[x],
           NEW k \in 1..Len(s), IsObject(SubSeq(s, 1, k))
    PROVE  k = Len(o)
<1> DEFINE t == SubSeq(s, 1, k)
<1>1. PICK n \in Nat : n = Len(o)
  OBVIOUS
<1>2. Len(t) = k /\ \A x \in 1..k : t[x] = s[x]
  OBVIOUS
<1>3. PICK i \in 3..(n - 1), j \in 3..(n - 1) : i < j /\ {x \in 3..n : o[x] = 0} = {i, j, n}
  BY <1>1 DEF IsObject
<1>4. PICK a \in 3..(k - 1), b \in 3..(k - 1) : a < b /\ {x \in 3..k : t[x] = 0} = {a, b, k}
  BY <1>2 DEF IsObject, t
<1> HIDE DEF t
<1>5. ASSUME NEW x \in 3..k PROVE s[x] = 0 <=> x \in {a, b, k}
  <2>1. t[x] = 0 <=> x \in {y \in 3..k : t[y] = 0}
    OBVIOUS
  <2>2. t[x] = s[x]
    BY <1>2
  <2>3. QED
    BY <1>4, <2>1, <2>2, Zenon
<1>6. ASSUME NEW x \in 3..n PROVE s[x] = 0 <=> x \in {i, j, n}
  <2>1. o[x] = 0 <=> x \in {y \in 3..n : o[y] = 0}
    OBVIOUS
  <2>2. s[x] = o[x]
    BY <1>1
  <2>3. QED
    BY <1>3, <2>1, <2>2, Zenon
<1>7. k \in 1..n + 1
  BY <1>1
<1>8. CASE k < n
  <2>1. a \in 3..n /\ b \in 3..n /\ k \in 3..n
    BY <1>4, <1>7, <1>8
  <2>2. s[a] = 0 /\ s[b] = 0 /\ s[k] = 0
    BY <1>4, <1>5
  <2>3. a \in {i, j, n} /\ b \in {i, j, n} /\ k \in {i, j, n}
    BY <1>6, <2>1, <2>2
  <2>4. QED
    BY <1>3, <1>4, <1>8, <2>3
<1>9. CASE k = n + 1
  <2>1. i \in 3..k /\ j \in 3..k /\ n \in 3..k
    BY <1>3, <1>9
  <2>2. s[i] = 0 /\ s[j] = 0 /\ s[n] = 0
    BY <1>3, <1>6
  <2>3. i \in {a, b, k} /\ j \in {a, b, k} /\ n \in {a, b, k}
    BY <1>5, <2>1, <2>2
  <2>4. QED
    BY <1>3, <1>4, <1>9, <2>3
<1>10. QED
  BY <1>1, <1>7, <1>8, <1>9

\* An object that is all in its frame is read as it was sent.
LEMMA ParsedObject ==
    ASSUME NEW o \in Seq(Byte), IsObject(o), NEW b \in Seq(Byte), szSz = 1,
           SubSeq(b, 3, Len(b)) = Append(o, Csum), NEW r \in Parsed(b)
    PROVE  r = o
<1> DEFINE body == SubSeq(b, 2 + szSz, Len(b))
<1>1. Csum \in Byte /\ 2 + szSz = 3
  BY BodiesAssumption
<1>2. body = Append(o, Csum)
  BY <1>1
<1>3. /\ body \in Seq(Byte) /\ Len(body) = Len(o) + 1
      /\ \A x \in 1..Len(o) : body[x] = o[x]
  BY <1>1, <1>2, AppendProperties
<1> HIDE DEF body
<1>4. SubSeq(body, 1, Len(o)) = o
  <2>1. PICK n \in Nat : n = Len(o)
    OBVIOUS
  <2> DEFINE s == SubSeq(body, 1, n)
  <2>2. s \in Seq(Byte) /\ Len(s) = n /\ \A x \in 1..n : s[x] = body[x]
    <3>1. \A x \in 1..n : body[x] \in Byte
      BY <1>3, <2>1, ElementOfSeq
    <3>2. QED
      BY <1>3, <2>1, <3>1, SubSeqProperties
  <2> HIDE DEF s
  <2>3. s = o
    BY <1>3, <2>1, <2>2, SeqEqual
  <2>4. QED
    BY <2>1, <2>3 DEF s
<1>5. Len(o) \in 1..Len(body)
  BY <1>3 DEF IsObject
<1>6. \E k \in 1..Len(body) : IsObject(SubSeq(body, 1, k)) /\ r = SubSeq(body, 1, k)
  <2>1. Len(o) \in {k \in 1..Len(body) : IsObject(SubSeq(body, 1, k))}
    BY <1>4, <1>5
  <2>2. r \in {SubSeq(body, 1, k) : k \in {k \in 1..Len(body) : IsObject(SubSeq(body, 1, k))}}
    BY <2>1 DEF Parsed, body
  <2>3. QED
    BY <2>2
<1>7. PICK k \in 1..Len(body) : IsObject(SubSeq(body, 1, k)) /\ r = SubSeq(body, 1, k)
  BY <1>6
<1>8. k = Len(o)
  BY <1>3, <1>7, OneObject
<1>9. QED
  BY <1>4, <1>7, <1>8

\* What stands where in a frame.
LEMMA FrameBytes ==
    ASSUME NEW body \in Seq(Byte), Len(body) \in Byte
    PROVE  /\ Frame(body) \in Seq(Byte)
           /\ Len(Frame(body)) = Len(body) + 3
           /\ Frame(body)[1] = Start /\ Frame(body)[2] = Len(body)
           /\ \A x \in 1..Len(body) : Frame(body)[x + 2] = body[x]
           /\ Frame(body)[Len(body) + 3] = Stop
<1> DEFINE h == <<Start, Len(body)>>
           hb == h \o body
<1>1. /\ h \in Seq(Byte) /\ Len(h) = 2 /\ h[1] = Start /\ h[2] = Len(body)
      /\ <<Stop>> \in Seq(Byte) /\ Len(<<Stop>>) = 1 /\ <<Stop>>[1] = Stop
  BY ByteAssumption, StopAssumption
<1>2. Len(body) \in Nat
  OBVIOUS
<1> HIDE DEF h
<1>3. /\ hb \in Seq(Byte) /\ Len(hb) = 2 + Len(body)
      /\ \A i \in 1..2 + Len(body) : hb[i] = IF i <= 2 THEN h[i] ELSE body[i - 2]
  <2>1. /\ h \o body \in Seq(Byte) /\ Len(h \o body) = Len(h) + Len(body)
        /\ \A i \in 1..Len(h) + Len(body) :
             (h \o body)[i] = IF i <= Len(h) THEN h[i] ELSE body[i - Len(h)]
    BY <1>1, ConcatProperties
  <2>2. QED
    BY <1>1, <2>1
<1>4. Frame(body) = hb \o <<Stop>>
  BY DEF Frame, h
<1> HIDE DEF hb
<1>5. /\ Frame(body) \in Seq(Byte) /\ Len(Frame(body)) = Len(hb) + 1
      /\ \A i \in 1..Len(hb) + 1 :
            Frame(body)[i] = IF i <= Len(hb) THEN hb[i] ELSE <<Stop>>[i - Len(hb)]
  BY <1>1, <1>3, <1>4, ConcatProperties
<1>6. /\ Frame(body)[1] = Start /\ Frame(body)[2] = Len(body)
  BY <1>1, <1>2, <1>3, <1>5
<1>7. ASSUME NEW x \in 1..Len(body) PROVE Frame(body)[x + 2] = body[x]
  <2>1. /\ x + 2 \in 1..Len(hb) + 1 /\ x + 2 <= Len(hb) /\ x + 2 \in 1..2 + Len(body)
        /\ ~(x + 2 <= 2) /\ (x + 2) - 2 = x
    BY <1>2, <1>3
  <2>2. QED
    BY <1>3, <1>5, <2>1
<1>8. Frame(body)[Len(body) + 3] = Stop
  <2>1. /\ Len(hb) + 1 = Len(body) + 3 /\ ~(Len(hb) + 1 <= Len(hb))
        /\ (Len(hb) + 1) - Len(hb) = 1 /\ Len(hb) + 1 \in 1..Len(hb) + 1
    BY <1>2, <1>3
  <2>2. Frame(body)[Len(hb) + 1] = <<Stop>>[1]
    BY <1>5, <2>1
  <2>3. QED
    BY <1>1, <2>1, <2>2
<1>9. QED
  BY <1>2, <1>3, <1>5, <1>6, <1>7, <1>8

\* The bodies, the end among them, fit a length of one byte; only the end has one.
LEMMA Bodies ==
    /\ Total \in Nat
    /\ \A c \in 2..Total + 2 :
        /\ BodyOf(c) \in Seq(Byte) /\ Len(BodyOf(c)) \in Byte /\ Len(BodyOf(c)) >= 1
        /\ Len(BodyOf(c)) = 1 <=> c = Total + 2
<1>1. Total \in Nat
  BY BodiesAssumption, LenProperties DEF Total
<1>2. MaxByte \in Nat /\ MaxByte >= 2
  BY ByteAssumption, Wide
<1>3. ASSUME NEW c \in 2..Total + 2
      PROVE  /\ BodyOf(c) \in Seq(Byte) /\ Len(BodyOf(c)) \in Byte /\ Len(BodyOf(c)) >= 1
             /\ Len(BodyOf(c)) = 1 <=> c = Total + 2
  <2>1. CASE c <= Total + 1
    <3>1. c - 1 \in 1..Len(DevObjects) /\ BodyOf(c) = Append(DevObjects[c - 1], Csum)
      BY <1>1, <1>3, <2>1 DEF BodyOf, Total
    <3>2. PICK i \in 1..Len(DevObjects) : i = c - 1
      BY <3>1
    <3>3. PICK n : n = Len(DevObjects[i])
      OBVIOUS
    <3>4. BodyOf(c) \in Seq(Byte) /\ Len(BodyOf(c)) = n + 1 /\ n + 1 \in Byte /\ n >= 5
      BY <3>1, <3>2, <3>3, Objects
    <3>5. n \in Nat
      BY <3>2, <3>3, Objects
    <3>6. n + 1 >= 1 /\ n + 1 # 1 /\ c # Total + 2
      BY <1>1, <2>1, <3>4, <3>5
    <3>7. QED
      BY <3>4, <3>6
  <2>2. CASE ~(c <= Total + 1)
    <3>1. c = Total + 2 /\ BodyOf(c) = <<Csum>>
      BY <1>1, <1>3, <2>2 DEF BodyOf
    <3>2. <<Csum>> \in Seq(Byte) /\ Len(<<Csum>>) = 1 /\ 1 \in Byte /\ 1 >= 1
      BY <1>2, BodiesAssumption DEF Byte
    <3>3. BodyOf(c) \in Seq(Byte) /\ Len(BodyOf(c)) = 1
      BY <3>1, <3>2
    <3>4. QED
      BY <3>1, <3>2, <3>3
  <2>3. QED
    BY <2>1, <2>2
<1>4. QED
  BY <1>1, <1>3

\* The frames of a discovery, one by one.
LEMMA SentFrames ==
    /\ Sent \in Seq(Seq(Byte)) /\ Len(Sent) = Total + 2
    /\ Sent[1] = Info
    /\ \A c \in 2..Total + 2 : Sent[c] = Frame(BodyOf(c))
<1> DEFINE F == [i \in 1..Total |-> ObjectFrame(DevObjects[i])]
           IF1 == <<Info>> \o F
<1>1. Total \in Nat /\ MaxByte >= 2 /\ Sent = IF1 \o <<End>>
  BY Bodies, Wide DEF Sent
<1>2. Sent \in Seq(Seq(Byte))
  BY <1>1, Answers DEF Sent, Total
<1>3. /\ \A i \in 1..Total : ObjectFrame(DevObjects[i]) \in Seq(Byte)
      /\ Info \in Seq(Byte) /\ End \in Seq(Byte)
  <2>1. ASSUME NEW i \in 1..Total PROVE ObjectFrame(DevObjects[i]) \in Seq(Byte)
    BY Objects, FrameType DEF ObjectFrame, Total
  <2>2. MaxByte \in Nat /\ 0 \in Byte /\ 1 \in Byte /\ Start \in Byte /\ Stop \in Byte
    BY <1>1, ByteAssumption, StopAssumption DEF Byte
  <2>3. Info \in Seq(Byte)
    BY <2>2 DEF Info
  <2>4. <<Csum>> \in Seq(Byte) /\ Len(<<Csum>>) = 1
    BY BodiesAssumption
  <2>5. End \in Seq(Byte)
    BY <2>2, <2>4, FrameType DEF End
  <2>6. QED
    BY <2>1, <2>3, <2>5
<1>4. /\ F \in Seq(Seq(Byte)) /\ Len(F) = Total
      /\ \A i \in 1..Total : F[i] = ObjectFrame(DevObjects[i])
  <2>1. F \in [1..Total -> Seq(Byte)]
    BY <1>3
  <2>2. QED
    BY <1>1, <2>1
<1>5. /\ <<Info>> \in Seq(Seq(Byte)) /\ Len(<<Info>>) = 1 /\ <<Info>>[1] = Info
      /\ <<End>> \in Seq(Seq(Byte)) /\ Len(<<End>>) = 1 /\ <<End>>[1] = End
  BY <1>3
<1> HIDE DEF F
<1>6. /\ IF1 \in Seq(Seq(Byte)) /\ Len(IF1) = 1 + Total
      /\ \A i \in 1..1 + Total : IF1[i] = IF i <= 1 THEN <<Info>>[i] ELSE F[i - 1]
  <2> DEFINE I == <<Info>>
  <2>1. I \in Seq(Seq(Byte)) /\ Len(I) = 1
    BY <1>5
  <2> HIDE DEF I
  <2>2. /\ I \o F \in Seq(Seq(Byte)) /\ Len(I \o F) = Len(I) + Len(F)
        /\ \A i \in 1..Len(I) + Len(F) : (I \o F)[i] = IF i <= Len(I) THEN I[i] ELSE F[i - Len(I)]
    BY <1>4, <2>1, ConcatProperties
  <2>3. /\ I \o F \in Seq(Seq(Byte)) /\ Len(I \o F) = 1 + Total
        /\ \A i \in 1..1 + Total : (I \o F)[i] = IF i <= 1 THEN I[i] ELSE F[i - 1]
    BY <1>4, <2>1, <2>2
  <2>4. QED
    BY <2>3 DEF I
<1> HIDE DEF IF1
<1>7. /\ Len(Sent) = (1 + Total) + 1
      /\ \A i \in 1..(1 + Total) + 1 :
            Sent[i] = IF i <= 1 + Total THEN IF1[i] ELSE <<End>>[i - (1 + Total)]
  <2> DEFINE E == <<End>>
  <2>1. E \in Seq(Seq(Byte)) /\ Len(E) = 1
    BY <1>5
  <2> HIDE DEF E
  <2>2. /\ Len(IF1 \o E) = Len(IF1) + Len(E)
        /\ \A i \in 1..Len(IF1) + Len(E) :
             (IF1 \o E)[i] = IF i <= Len(IF1) THEN IF1[i] ELSE E[i - Len(IF1)]
    BY <1>6, <2>1, ConcatProperties
  <2>3. /\ Len(IF1 \o E) = (1 + Total) + 1
        /\ \A i \in 1..(1 + Total) + 1 :
             (IF1 \o E)[i] = IF i <= 1 + Total THEN IF1[i] ELSE E[i - (1 + Total)]
    BY <1>6, <2>1, <2>2
  <2>4. QED
    BY <1>1, <2>3 DEF E
<1>8. Sent[1] = Info
  <2>1. 1 \in 1..1 + Total /\ 1 \in 1..(1 + Total) + 1 /\ 1 <= 1 + Total /\ 1 <= 1
    BY <1>1
  <2>2. Sent[1] = IF1[1] /\ IF1[1] = <<Info>>[1]
    BY <1>6, <1>7, <2>1
  <2>3. QED
    BY <1>5, <2>2
<1>9. ASSUME NEW c \in 2..Total + 2 PROVE Sent[c] = Frame(BodyOf(c))
  <2>1. CASE c <= Total + 1
    <3>1. /\ c \in 1..1 + Total /\ c \in 1..(1 + Total) + 1 /\ ~(c <= 1) /\ c - 1 \in 1..Total
          /\ c <= 1 + Total
      BY <1>1, <2>1
    <3>2. Sent[c] = F[c - 1]
      BY <1>6, <1>7, <3>1
    <3>3. QED
      BY <1>4, <2>1, <3>1, <3>2 DEF BodyOf, ObjectFrame
  <2>2. CASE ~(c <= Total + 1)
    <3>1. c = Total + 2
      BY <1>1, <2>2
    <3>2. c \in 1..(1 + Total) + 1 /\ ~(c <= 1 + Total) /\ c - (1 + Total) = 1
      BY <1>1, <3>1
    <3>3. Sent[c] = <<End>>[1]
      BY <1>7, <3>2
    <3>4. QED
      BY <1>5, <2>2, <3>3 DEF BodyOf, End
  <2>3. QED
    BY <2>1, <2>2
<1>10. Len(Sent) = Total + 2
  BY <1>1, <1>7
<1>11. QED
  BY <1>2, <1>8, <1>9, <1>10

------------------------------------------------------------------------------
(* The receiver in the stream.                                                 *)

Fresh == rxstate = "WAIT_START" /\ buf = <<>> /\ expect = 1
Partly(c, p) == Len(buf) = p /\ \A x \in 1..p : buf[x] = Sent[c][x]
Listed(n) == objlist = SubSeq(DevObjects, 1, n) /\ objcount = n

AtInfo(p) ==
    /\ handler = "init" /\ Listed(0)
    /\ \/ p = 0 /\ Fresh
       \/ p \in 1..5 /\ rxstate = "DISCOVERY" /\ Partly(1, p) /\ expect = 6 - p

AtFrame(c, p) ==
    /\ c \in 2..Total + 2 /\ handler = "packets" /\ szSz = 1
    /\ \/ p = 0 /\ Fresh /\ Listed(c - 2)
       \/ p = 1 /\ rxstate = "GET_LEN" /\ Partly(c, 1) /\ expect = 1 /\ Listed(c - 2)
       \/ /\ p \in 2..Len(BodyOf(c)) + 1 /\ rxstate = "GET_BODY" /\ Partly(c, p)
          /\ expect = Len(BodyOf(c)) + 2 - p /\ Listed(c - 2)
       \/ c <= Total + 1 /\ p = Len(BodyOf(c)) + 2 /\ Fresh /\ Listed(c - 1)

At(c, p) ==
    /\ host = "discovery" /\ state = 0
    /\ (c = 1 /\ AtInfo(p)) \/ AtFrame(c, p)

Ended ==
    /\ host = "discovery" /\ state # 0 /\ handler = "packets"
    /\ objlist = DevObjects /\ objcount = Total

\* One more byte string in the buffer.
LEMMA PartlyGrows ==
    ASSUME NEW c, NEW p \in Nat, buf \in Seq(Byte), NEW bs \in Seq(Byte), Partly(c, p),
           \A x \in 1..Len(bs) : bs[x] = Sent[c][p + x]
    PROVE  /\ Len(bs) \in Nat /\ Len(buf \o bs) = p + Len(bs) /\ buf \o bs \in Seq(Byte)
           /\ \A x \in 1..p + Len(bs) : (buf \o bs)[x] = Sent[c][x]
<1>1. Len(bs) \in Nat /\ Len(buf) = p
  BY DEF Partly
<1>2. /\ buf \o bs \in Seq(Byte) /\ Len(buf \o bs) = Len(buf) + Len(bs)
      /\ \A x \in 1..Len(buf) + Len(bs) :
            (buf \o bs)[x] = IF x <= Len(buf) THEN buf[x] ELSE bs[x - Len(buf)]
  BY ConcatProperties
<1>3. ASSUME NEW x \in 1..p + Len(bs) PROVE (buf \o bs)[x] = Sent[c][x]
  <2>1. CASE x <= p
    <3>1. x \in 1..p /\ (buf \o bs)[x] = buf[x]
      BY <1>1, <1>2, <2>1
    <3>2. QED
      BY <3>1 DEF Partly
  <2>2. CASE ~(x <= p)
    <3>1. x - p \in 1..Len(bs) /\ p + (x - p) = x
      BY <1>1, <2>2
    <3>2. (buf \o bs)[x] = bs[x - p]
      BY <1>1, <1>2, <2>2
    <3>3. bs[x - p] = Sent[c][p + (x - p)]
      BY <3>1
    <3>4. QED
      BY <3>1, <3>2, <3>3
  <2>3. QED
    BY <2>1, <2>2
<1>4. QED
  BY <1>1, <1>2, <1>3

\* A receiver between frames has read nothing of the next one.
LEMMA FreshPartly == ASSUME NEW c, Fresh PROVE Partly(c, 0)
  BY DEF Fresh, Partly

\* A read of one byte.
LEMMA OneByte ==
    ASSUME NEW n \in Nat, expect = 1, n <= expect, expect > 0 => n > 0
    PROVE  n = 1
  OBVIOUS

\* What one read makes of a receiver in the information packet.
LEMMA InfoStep ==
    ASSUME RxInv, NEW p \in Nat, At(1, p), NEW bs \in Seq(Byte), Receive(bs),
           \A x \in 1..Len(bs) : p + x <= 6 => bs[x] = Info[p + x]
    PROVE  \/ p + Len(bs) < 6 /\ At(1, p + Len(bs))'
           \/ p + Len(bs) = 6 /\ At(2, 0)'
<1>1. /\ host = "discovery" /\ state = 0 /\ AtInfo(p)
  BY DEF At, AtFrame
<1>2. /\ buf \in Seq(Byte) /\ Len(bs) \in Nat /\ Len(bs) <= expect /\ (expect > 0 => Len(bs) > 0)
      /\ host' = host
      /\ Len(bs) = expect => HandleData(buf \o bs)
      /\ Len(bs) # expect => /\ buf' = buf \o bs /\ expect' = expect - Len(bs)
                             /\ UNCHANGED <<handler, rxstate, state, objlist, objcount>>
  <2>1. buf \in Seq(Byte)
    BY DEF RxInv, TypeOK
  <2>2. bs # <<>> => Len(bs) > 0
    BY EmptySeq
  <2>3. QED
    BY <2>1, <2>2 DEF Receive
<1>3. p + Len(bs) <= 6
  BY <1>1, <1>2 DEF AtInfo, Fresh
<1>4. /\ Sent[1] = Info /\ Total \in Nat /\ Info[1] = Start /\ Info[2] = 1
  BY SentFrames, Bodies DEF Info
<1>5. \A x \in 1..Len(bs) : bs[x] = Sent[1][p + x]
  BY <1>2, <1>3, <1>4
<1>6. Partly(1, p)
  BY <1>1, FreshPartly DEF AtInfo
<1> DEFINE b == buf \o bs
<1>7. /\ Len(b) = p + Len(bs) /\ b \in Seq(Byte)
      /\ \A x \in 1..p + Len(bs) : b[x] = Sent[1][x]
  BY <1>2, <1>5, <1>6, PartlyGrows
<1> HIDE DEF b
<1>8. CASE p = 0
  <2>1. Fresh /\ handler = "init" /\ Listed(0)
    BY <1>1, <1>8 DEF AtInfo
  <2>2. expect = 1 /\ Len(bs) = 1
    BY <1>2, <2>1, OneByte DEF Fresh
  <2>3. b[1] = Start /\ Len(b) = 1
    BY <1>4, <1>7, <1>8, <2>2
  <2>4. InitWaitStart(b)
    BY <1>2, <2>1, <2>2 DEF b, Fresh, HandleData, InitWaitStart, InitDiscovery, PktWaitStart,
                            PktGetLen, PktGetBody
  <2>5. /\ buf' = b /\ expect' = 5 /\ rxstate' = "DISCOVERY" /\ handler' = "init"
        /\ UNCHANGED <<state, objlist, objcount>>
    BY <2>1, <2>3, <2>4 DEF InitWaitStart, Store, ExpectBytes
  <2>6. Partly(1, 1)'
    BY <1>7, <1>8, <2>2, <2>3, <2>5 DEF Partly
  <2>7. At(1, 1)'
    BY <1>1, <1>2, <2>1, <2>5, <2>6 DEF At, AtInfo, Listed
  <2>8. QED
    BY <1>8, <2>2, <2>7
<1>9. CASE p # 0
  <2>1. /\ p \in 1..5 /\ rxstate = "DISCOVERY" /\ expect = 6 - p /\ handler = "init" /\ Listed(0)
    BY <1>1, <1>9 DEF AtInfo
  <2>2. CASE Len(bs) = expect
    <3>1. p + Len(bs) = 6 /\ Len(b) = 6
      BY <1>7, <2>1, <2>2
    <3>2. InitDiscovery(b)
      BY <1>2, <2>1, <2>2 DEF b, HandleData, InitWaitStart, InitDiscovery, PktWaitStart,
                              PktGetLen, PktGetBody
    <3>3. b[2] = 1
      BY <1>4, <1>7, <3>1
    <3>4. Signed(1) = 1
      BY ByteAssumption, Wide DEF Signed
    <3>5. /\ szSz' = 1 /\ handler' = "packets" /\ rxstate' = "WAIT_START"
          /\ buf' = <<>> /\ expect' = 1 /\ UNCHANGED <<state, objlist, objcount>>
      BY <3>2, <3>3, <3>4 DEF InitDiscovery, NextFrame
    <3>6. 2 \in 2..Total + 2 /\ 2 - 2 = 0
      BY <1>4
    <3>7. AtFrame(2, 0)'
      BY <2>1, <3>5, <3>6 DEF AtFrame, Fresh, Listed
    <3>8. At(2, 0)'
      BY <1>1, <1>2, <3>5, <3>7 DEF At
    <3>9. QED
      BY <3>1, <3>8
  <2>3. CASE Len(bs) # expect
    <3>1. /\ buf' = b /\ expect' = expect - Len(bs)
          /\ UNCHANGED <<handler, rxstate, state, objlist, objcount>>
      BY <1>2, <2>3 DEF b
    <3>2. p + Len(bs) \in 1..5 /\ expect' = 6 - (p + Len(bs)) /\ p + Len(bs) < 6
      BY <1>2, <2>1, <2>3, <3>1
    <3>3. Partly(1, p + Len(bs))'
      BY <1>7, <3>1 DEF Partly
    <3>4. AtInfo(p + Len(bs))'
      BY <2>1, <3>1, <3>2, <3>3 DEF AtInfo, Listed
    <3>5. At(1, p + Len(bs))'
      BY <1>1, <1>2, <3>1, <3>4 DEF At
    <3>6. QED
      BY <3>2, <3>5
  <2>4. QED
    BY <2>2, <2>3
<1>10. QED
  BY <1>8, <1>9

\* The objects found so far, and one more.
LEMMA ListedGrows ==
    ASSUME NEW n \in 1..Total, Listed(n - 1), objlist' = Append(objlist, DevObjects[n]),
           objcount' = objcount + 1
    PROVE  Listed(n)'
<1>1. /\ DevObjects \in Seq(Seq(Byte)) /\ Total \in Nat /\ Total = Len(DevObjects)
      /\ n - 1 \in Int /\ n \in Nat
  BY BodiesAssumption, Bodies DEF Total
<1>2. \A i \in 1..Total : DevObjects[i] \in Seq(Byte)
  BY <1>1, ElementOfSeq
<1> DEFINE before == SubSeq(DevObjects, 1, n - 1)
           after == SubSeq(DevObjects, 1, n)
<1>3. /\ before \in Seq(Seq(Byte)) /\ Len(before) = n - 1
      /\ \A i \in 1..n - 1 : before[i] = DevObjects[i]
  BY <1>1
<1>4. /\ after \in Seq(Seq(Byte)) /\ Len(after) = n
      /\ \A i \in 1..n : after[i] = DevObjects[i]
  BY <1>1
<1> HIDE DEF before, after
<1>5. /\ Append(before, DevObjects[n]) \in Seq(Seq(Byte))
      /\ Len(Append(before, DevObjects[n])) = n
      /\ \A i \in 1..n - 1 : Append(before, DevObjects[n])[i] = before[i]
      /\ Append(before, DevObjects[n])[n] = DevObjects[n]
  BY <1>2, <1>3, AppendProperties
<1>6. ASSUME NEW i \in 1..n PROVE Append(before, DevObjects[n])[i] = after[i]
  <2>1. CASE i = n
    BY <1>4, <1>5, <2>1
  <2>2. CASE i # n
    <3>1. i \in 1..n - 1
      BY <1>1, <2>2
    <3>2. QED
      BY <1>3, <1>4, <1>5, <3>1
  <2>3. QED
    BY <2>1, <2>2
<1>7. Append(before, DevObjects[n]) = after
  BY <1>4, <1>5, <1>6, SeqEqual
<1>8. objlist' = after
  BY <1>7 DEF Listed, before
<1>9. objcount' = n
  BY <1>1 DEF Listed
<1>10. QED
  BY <1>8, <1>9 DEF Listed, after

\* What one read makes of a receiver in a frame of an object, or of the end.
LEMMA FrameStep ==
    ASSUME RxInv, NEW c \in 2..Total + 2, NEW p \in Nat, At(c, p),
           NEW bs \in Seq(Byte), Receive(bs),
           \A x \in 1..Len(bs) : p + x <= Len(Sent[c]) => bs[x] = Sent[c][p + x]
    PROVE  \/ p + Len(bs) < Len(Sent[c]) /\ At(c, p + Len(bs))'
           \/ p + Len(bs) = Len(Sent[c]) /\ c < Total + 2 /\ At(c + 1, 0)'
           \/ Ended'
<1> DEFINE L == Len(BodyOf(c))
<1>1. /\ Total \in Nat /\ c \in Int
      /\ BodyOf(c) \in Seq(Byte) /\ L \in Byte /\ L \in Nat /\ L >= 1
      /\ L = 1 <=> c = Total + 2
  BY Bodies
<1>2. /\ Sent[c] \in Seq(Byte) /\ Len(Sent[c]) = L + 3
      /\ Sent[c][1] = Start /\ Sent[c][2] = L
      /\ \A x \in 1..L : Sent[c][x + 2] = BodyOf(c)[x]
      /\ Sent[c][L + 3] = Stop
  BY <1>1, SentFrames, FrameBytes
<1> HIDE DEF L
<1>3. host = "discovery" /\ state = 0 /\ handler = "packets" /\ szSz = 1
  BY <1>1 DEF At, AtFrame
<1>4. \/ p = 0 /\ Fresh /\ Listed(c - 2)
      \/ p = 1 /\ rxstate = "GET_LEN" /\ Partly(c, 1) /\ expect = 1 /\ Listed(c - 2)
      \/ p \in 2..L + 1 /\ rxstate = "GET_BODY" /\ Partly(c, p) /\ expect = L + 2 - p /\ Listed(c - 2)
      \/ c <= Total + 1 /\ p = L + 2 /\ Fresh /\ Listed(c - 1)
  BY <1>1 DEF At, AtFrame, L
<1>5. /\ buf \in Seq(Byte) /\ Len(bs) \in Nat /\ Len(bs) <= expect /\ (expect > 0 => Len(bs) > 0)
      /\ host' = host
      /\ Len(bs) = expect => HandleData(buf \o bs)
      /\ Len(bs) # expect => /\ buf' = buf \o bs /\ expect' = expect - Len(bs)
                             /\ UNCHANGED <<handler, rxstate, szSz, state, objlist, objcount>>
  <2>1. buf \in Seq(Byte)
    BY DEF RxInv, TypeOK
  <2>2. bs # <<>> => Len(bs) > 0
    BY EmptySeq
  <2>3. QED
    BY <2>1, <2>2 DEF Receive
<1> DEFINE b == buf \o bs
<1>6. ASSUME Partly(c, p), p + Len(bs) <= L + 3
      PROVE  /\ Len(b) = p + Len(bs) /\ b \in Seq(Byte)
             /\ \A x \in 1..p + Len(bs) : b[x] = Sent[c][x]
  <2>1. \A x \in 1..Len(bs) : p + x <= Len(Sent[c])
    BY <1>2, <1>5, <1>6
  <2>2. \A x \in 1..Len(bs) : bs[x] = Sent[c][p + x]
    BY <2>1
  <2>3. QED
    BY <1>5, <1>6, <2>2, PartlyGrows
\* A handler of packets sees the whole of what was expected.
<1>7. HandleData(b) => PktWaitStart(b) \/ PktGetLen(b) \/ PktGetBody(b)
  BY <1>3 DEF HandleData, InitWaitStart, InitDiscovery
<1>8. CASE p = 0 /\ Fresh /\ Listed(c - 2)
  <2>1. Len(bs) = 1 /\ expect = 1
    BY <1>5, <1>8, OneByte DEF Fresh
  <2>2. b[1] = Start /\ Len(b) = 1 /\ b[1] = Sent[c][1]
    <3>1. Partly(c, 0) /\ 0 + 1 <= L + 3
      BY <1>1, <1>8, FreshPartly
    <3>2. Len(b) = 1 /\ \A x \in 1..1 : b[x] = Sent[c][x]
      BY <1>6, <1>8, <2>1, <3>1
    <3>3. QED
      BY <1>2, <3>2
  <2>3. PktWaitStart(b)
    BY <1>5, <1>7, <1>8, <2>1 DEF Fresh, PktGetLen, PktGetBody
  <2>4. /\ buf' = b /\ expect' = 1 /\ rxstate' = "GET_LEN"
        /\ UNCHANGED <<handler, szSz, state, objlist, objcount>>
    BY <1>3, <2>2, <2>3 DEF PktWaitStart, Store, ExpectBytes
  <2>5. Partly(c, 1)'
    BY <2>2, <2>4 DEF Partly
  <2>6. At(c, 1)'
    BY <1>3, <1>5, <1>8, <2>4, <2>5 DEF At, AtFrame, Listed
  <2>7. p + Len(bs) = 1 /\ 1 < Len(Sent[c])
    BY <1>1, <1>2, <1>8, <2>1
  <2>8. QED
    BY <2>6, <2>7
<1>9. CASE p = 1 /\ rxstate = "GET_LEN" /\ Partly(c, 1) /\ expect = 1 /\ Listed(c - 2)
  <2>1. Len(bs) = 1
    BY <1>5, <1>9, OneByte
  <2>2. Len(b) = 2 /\ b[2] = L /\ \A x \in 1..2 : b[x] = Sent[c][x]
    <3>1. p + Len(bs) = 2 /\ 2 <= L + 3
      BY <1>1, <1>9, <2>1
    <3>2. Len(b) = 2 /\ \A x \in 1..2 : b[x] = Sent[c][x]
      BY <1>6, <1>9, <3>1
    <3>3. QED
      BY <1>2, <3>2
  <2>3. PktGetLen(b)
    BY <1>5, <1>7, <1>9, <2>1 DEF PktWaitStart, PktGetBody
  <2>4. /\ buf' = b /\ expect' = L /\ rxstate' = "GET_BODY"
        /\ UNCHANGED <<handler, szSz, state, objlist, objcount>>
    BY <1>3, <2>2, <2>3 DEF PktGetLen, Store, ExpectBytes, NumberToInt
  <2>5. Partly(c, 2)'
    BY <2>2, <2>4 DEF Partly
  <2>6. 2 \in 2..L + 1 /\ L = L + 2 - 2
    BY <1>1
  <2>7. At(c, 2)'
    BY <1>3, <1>5, <1>9, <2>4, <2>5, <2>6 DEF At, AtFrame, Listed, L
  <2>8. p + Len(bs) = 2 /\ 2 < Len(Sent[c])
    BY <1>1, <1>2, <1>9, <2>1
  <2>9. QED
    BY <2>7, <2>8
<1>10. CASE /\ p \in 2..L + 1 /\ rxstate = "GET_BODY" /\ Partly(c, p)
            /\ expect = L + 2 - p /\ Listed(c - 2)
  <2>1. p + Len(bs) <= L + 2 /\ p + Len(bs) <= L + 3 /\ p + Len(bs) \in Nat /\ p + Len(bs) >= 2
    BY <1>1, <1>5, <1>10
  <2>2. /\ Len(b) = p + Len(bs) /\ b \in Seq(Byte)
        /\ \A x \in 1..p + Len(bs) : b[x] = Sent[c][x]
    BY <1>6, <1>10, <2>1
  <2>3. CASE Len(bs) # expect
    <3>1. /\ buf' = b /\ expect' = expect - Len(bs)
          /\ UNCHANGED <<handler, rxstate, szSz, state, objlist, objcount>>
      BY <1>5, <2>3
    <3>2. p + Len(bs) \in 2..L + 1 /\ expect' = L + 2 - (p + Len(bs)) /\ p + Len(bs) < L + 3
      BY <1>1, <1>5, <1>10, <2>3, <3>1
    <3>3. Partly(c, p + Len(bs))'
      BY <2>2, <3>1 DEF Partly
    <3>4. AtFrame(c, p + Len(bs))'
      BY <1>3, <1>10, <3>1, <3>2, <3>3 DEF AtFrame, Listed, L
    <3>5. At(c, p + Len(bs))'
      BY <1>3, <1>5, <3>1, <3>4 DEF At
    <3>6. QED
      BY <1>2, <3>2, <3>5
  <2>4. CASE Len(bs) = expect
    <3>1. p + Len(bs) = L + 2
      BY <1>1, <1>5, <1>10, <2>4
    <3>2. PktGetBody(b)
      BY <1>5, <1>7, <1>10, <2>4 DEF PktWaitStart, PktGetLen
    <3>3. b[2] = L /\ NumberToInt(b, szSz) = L /\ Len(b) = L + 2
      <4>1. 2 \in 1..p + Len(bs)
        BY <2>1
      <4>2. b[2] = L
        BY <1>2, <2>2, <4>1
      <4>3. QED
        BY <1>3, <2>2, <3>1, <4>2 DEF NumberToInt
    <3>4. Fresh' /\ handler' = "packets" /\ szSz' = 1
      BY <1>3, <3>2 DEF PktGetBody, NextFrame, Fresh
    <3>5. CASE L = 1
      <4>1. state' = state + 1 /\ UNCHANGED <<objlist, objcount>>
        BY <3>2, <3>3, <3>5 DEF PktGetBody
      <4>2. c - 2 = Total /\ DevObjects \in Seq(Seq(Byte))
        BY <1>1, <3>5, BodiesAssumption
      <4>3. SubSeq(DevObjects, 1, Total) = DevObjects
        BY <4>2, SubSeqFull DEF Total
      <4>4. Ended'
        BY <1>3, <1>5, <1>10, <3>4, <4>1, <4>2, <4>3 DEF Ended, Listed
      <4>5. QED
        BY <4>4
    <3>6. CASE L # 1
      <4>1. PICK o \in Parsed(b) : /\ objlist' = Append(objlist, o)
                                    /\ objcount' = objcount + 1 /\ state' = state
        BY <1>3, <3>2, <3>3, <3>6 DEF PktGetBody
      <4>2. /\ c <= Total + 1 /\ c - 1 \in 1..Total /\ (c - 1) - 1 = c - 2
            /\ BodyOf(c) = Append(DevObjects[c - 1], Csum)
        BY <1>1, <3>6 DEF BodyOf
      <4>3. SubSeq(b, 3, Len(b)) = BodyOf(c)
        <5> DEFINE t == SubSeq(b, 3, Len(b))
        <5>1. t \in Seq(Byte) /\ Len(t) = L /\ \A x \in 1..L : t[x] = b[x + 2]
          <6>1. \A i \in 3..Len(b) : b[i] \in Byte
            BY <2>2, ElementOfSeq
          <6>2. /\ t \in Seq(Byte) /\ Len(t) = IF 3 <= Len(b) THEN Len(b) - 3 + 1 ELSE 0
                /\ \A x \in 1..Len(b) - 3 + 1 : t[x] = b[3 + x - 1]
            BY <2>2, <6>1, SubSeqProperties
          <6>3. Len(b) - 3 + 1 = L /\ 3 <= Len(b)
            BY <1>1, <3>3
          <6>4. \A x \in 1..L : 3 + x - 1 = x + 2
            BY <1>1
          <6>5. QED
            BY <6>2, <6>3, <6>4
        <5> HIDE DEF t
        <5>2. ASSUME NEW x \in 1..L PROVE t[x] = BodyOf(c)[x]
          <6>1. x + 2 \in 1..p + Len(bs)
            BY <1>1, <3>1
          <6>2. QED
            BY <1>2, <2>2, <5>1, <6>1
        <5>3. Len(BodyOf(c)) = L
          BY DEF L
        <5>4. t = BodyOf(c)
          BY <1>1, <5>1, <5>2, <5>3, SeqEqual
        <5>5. QED
          BY <5>4 DEF t
      <4>4. Listed(c - 1)'
        <5>1. c - 1 \in 1..Len(DevObjects)
          BY <4>2 DEF Total
        <5>2. DevObjects[c - 1] \in Seq(Byte) /\ IsObject(DevObjects[c - 1])
          BY <5>1, Objects
        <5>3. o = DevObjects[c - 1]
          BY <1>3, <2>2, <4>1, <4>2, <4>3, <5>2, ParsedObject
        <5>4. QED
          BY <1>10, <4>1, <4>2, <5>3, ListedGrows
      <4>5. AtFrame(c, L + 2)'
        BY <3>4, <4>2, <4>4 DEF AtFrame, L
      <4>6. At(c, L + 2)'
        BY <1>3, <1>5, <4>1, <4>5 DEF At
      <4>7. QED
        BY <1>1, <1>2, <3>1, <4>6
    <3>7. QED
      BY <3>5, <3>6
  <2>5. QED
    BY <2>3, <2>4
<1>11. CASE c <= Total + 1 /\ p = L + 2 /\ Fresh /\ Listed(c - 1)
  <2>1. Len(bs) = 1 /\ expect = 1
    BY <1>5, <1>11, OneByte DEF Fresh
  <2>2. b = bs
    BY <1>11 DEF Fresh
  <2>3. bs[1] = Stop
    <3>1. 1 \in 1..Len(bs) /\ p + 1 = L + 3 /\ p + 1 <= Len(Sent[c])
      BY <1>1, <1>2, <1>11, <2>1
    <3>2. bs[1] = Sent[c][p + 1]
      BY <3>1
    <3>3. QED
      BY <1>2, <3>1, <3>2
  <2>4. PktWaitStart(bs)
    BY <1>5, <1>7, <1>11, <2>1, <2>2 DEF Fresh, PktGetLen, PktGetBody
  <2>5. /\ buf' = <<>> /\ expect' = 1 /\ rxstate' = "WAIT_START"
        /\ UNCHANGED <<handler, szSz, state, objlist, objcount>>
    BY <2>3, <2>4, <1>11, StopAssumption DEF PktWaitStart, NextFrame, Fresh
  <2>6. c + 1 \in 2..Total + 2 /\ (c + 1) - 2 = c - 1 /\ c < Total + 2
    BY <1>1, <1>11
  <2>7. AtFrame(c + 1, 0)'
    BY <1>3, <1>11, <2>5, <2>6 DEF AtFrame, Fresh, Listed
  <2>8. At(c + 1, 0)'
    BY <1>3, <1>5, <2>5, <2>7 DEF At
  <2>9. p + Len(bs) = Len(Sent[c])
    BY <1>1, <1>2, <1>11, <2>1
  <2>10. QED
    BY <2>6, <2>8, <2>9
<1>12. QED
  BY <1>4, <1>8, <1>9, <1>10, <1>11

------------------------------------------------------------------------------
(* The stream on the line.  Frames c to s are on it, of frame c perhaps only   *)
(* the rest: frame i begins behind byte O[i] of the line.                      *)

OnLine(line, c, s, O) ==
    /\ c \in 1..s + 1
    /\ O \in [Nat -> Int]
    /\ \A i \in c..s : O[i + 1] = O[i] + Len(Sent[i])
    /\ O[s + 1] = Len(line)
    /\ O[c] <= 0
    /\ \A i \in c..s : \A x \in 1..Len(Sent[i]) :
          O[i] + x >= 1 => O[i] + x <= Len(line) /\ line[O[i] + x] = Sent[i][x]

\* The line without its first k bytes, and with more of them.
Without(line, k, rest) ==
    /\ Len(rest) = Len(line) - k
    /\ \A y \in 1..Len(line) - k : rest[y] = line[k + y]

With(line, bs, rest) ==
    /\ Len(rest) = Len(line) + Len(bs)
    /\ \A y \in 1..Len(line) + Len(bs) :
          rest[y] = IF y <= Len(line) THEN line[y] ELSE bs[y - Len(line)]

\* Bytes taken off the line are those of the frame the receiver is in.
LEMMA LineTaken ==
    ASSUME NEW s \in Nat, NEW c, NEW O, NEW line \in Seq(Byte), OnLine(line, c, s, O),
           line # <<>>, s <= Total + 2, NEW k \in 0..Len(line)
    PROVE  /\ c \in 1..s
           /\ \A x \in 1..k : x - O[c] <= Len(Sent[c]) => line[x] = Sent[c][x - O[c]]
<1>1. Len(line) \in Nat /\ Len(line) > 0
  BY EmptySeq
<1>2. c \in 1..s + 1 /\ O[s + 1] = Len(line) /\ O[c] <= 0
  BY DEF OnLine
<1>3. c # s + 1
  BY <1>1, <1>2
<1>4. c \in 1..s
  BY <1>2, <1>3
<1>5. O[c] \in Int
  BY <1>4 DEF OnLine
<1>6. Len(Sent[c]) \in Nat
  <2>1. c \in 1..Len(Sent)
    BY <1>4, SentFrames, Bodies
  <2>2. Sent[c] \in Seq(Byte)
    BY <2>1, SentFrames, ElementOfSeq
  <2>3. QED
    BY <2>2, LenProperties
<1>7. ASSUME NEW x \in 1..k, x - O[c] <= Len(Sent[c]) PROVE line[x] = Sent[c][x - O[c]]
  <2>1. PICK y \in Int : y = x - O[c]
    BY <1>5
  <2>2. y \in 1..Len(Sent[c]) /\ O[c] + y = x /\ x >= 1
    BY <1>2, <1>5, <1>6, <1>7, <2>1
  <2>3. c \in c..s /\ O[c] + y >= 1
    BY <1>4, <2>2
  <2>4. line[O[c] + y] = Sent[c][y]
    BY <2>2, <2>3 DEF OnLine
  <2>5. QED
    BY <2>1, <2>2, <2>4
<1>8. QED
  BY <1>4, <1>7

\* A byte that is not among the first k ones.
LEMMA Ahead ==
    ASSUME NEW l \in Nat, NEW k \in 0..l, NEW z \in Int, z >= k + 1, z <= l
    PROVE  z - k \in 1..l - k /\ k + (z - k) = z
  OBVIOUS

\* What is left on the line behind them.
LEMMA LineLeft ==
    ASSUME NEW s \in Nat, NEW c \in 1..s, NEW O, NEW line \in Seq(Byte), OnLine(line, c, s, O),
           s <= Total + 2, NEW k \in 0..Len(line),
           NEW rest, Without(line, k, rest)
    PROVE  \E Q \in [Nat -> Int] :
              /\ Q[c] = O[c] - k /\ OnLine(rest, c, s, Q)
              /\ O[c] + Len(Sent[c]) = k => Q[c + 1] = 0 /\ OnLine(rest, c + 1, s, Q)
<1> DEFINE Q == [i \in Nat |-> O[i] - k]
<1>1. /\ O \in [Nat -> Int] /\ O[c] <= 0 /\ O[s + 1] = Len(line)
      /\ \A i \in c..s : O[i + 1] = O[i] + Len(Sent[i])
      /\ \A i \in c..s : \A x \in 1..Len(Sent[i]) :
          O[i] + x >= 1 => O[i] + x <= Len(line) /\ line[O[i] + x] = Sent[i][x]
  BY DEF OnLine
<1>2. Q \in [Nat -> Int] /\ \A i \in Nat : Q[i] = O[i] - k
  BY <1>1
<1> HIDE DEF Q
<1>3. \A i \in 1..s : Len(Sent[i]) \in Nat
  <2> TAKE i \in 1..s
  <2>1. i \in 1..Len(Sent)
    BY SentFrames, Bodies
  <2>2. Sent[i] \in Seq(Byte)
    BY <2>1, SentFrames, ElementOfSeq
  <2>3. QED
    BY <2>2, LenProperties
<1>4. /\ Len(line) \in Nat /\ Len(rest) = Len(line) - k
      /\ \A y \in 1..Len(line) - k : rest[y] = line[k + y]
  BY LenProperties DEF Without
<1>5. ASSUME NEW i \in c..s PROVE Q[i + 1] = Q[i] + Len(Sent[i])
  <2>1. i \in Nat /\ i + 1 \in Nat /\ i \in 1..s
    OBVIOUS
  <2>2. O[i] \in Int /\ O[i + 1] = O[i] + Len(Sent[i]) /\ Len(Sent[i]) \in Nat
    BY <1>1, <1>3, <2>1
  <2>3. Q[i] = O[i] - k /\ Q[i + 1] = O[i + 1] - k
    BY <1>2, <2>1
  <2>4. QED
    BY <2>2, <2>3
<1>6. Q[s + 1] = Len(rest)
  <2>1. s + 1 \in Nat
    OBVIOUS
  <2>2. Q[s + 1] = O[s + 1] - k
    BY <1>2, <2>1
  <2>3. QED
    BY <1>1, <1>4, <2>2
<1>7. Q[c] = O[c] - k /\ Q[c] <= 0 /\ O[c] \in Int
  <2>1. c \in Nat /\ k \in Nat
    BY <1>4
  <2>2. Q[c] = O[c] - k /\ O[c] \in Int /\ O[c] <= 0
    BY <1>1, <1>2, <2>1
  <2>3. QED
    BY <2>1, <2>2
<1>8. ASSUME NEW i \in c..s, NEW x \in 1..Len(Sent[i]), Q[i] + x >= 1
      PROVE  Q[i] + x <= Len(rest) /\ rest[Q[i] + x] = Sent[i][x]
  <2>1. i \in Nat /\ i \in 1..s
    OBVIOUS
  <2>2. O[i] \in Int /\ Q[i] = O[i] - k /\ Len(Sent[i]) \in Nat
    BY <1>1, <1>2, <1>3, <2>1
  <2>3. O[i] + x >= 1 /\ O[i] + x >= k + 1
    BY <1>8, <2>2
  <2>4. O[i] + x <= Len(line) /\ line[O[i] + x] = Sent[i][x]
    BY <1>1, <2>3
  <2>5. PICK y \in Int : y = Q[i] + x
    BY <2>2
  <2>6. y \in 1..Len(line) - k /\ k + y = O[i] + x
    <3>1. PICK z \in Int : z = O[i] + x
      BY <2>2
    <3>2. y = z - k /\ z >= k + 1 /\ z <= Len(line)
      BY <2>2, <2>3, <2>4, <2>5, <3>1
    <3>3. QED
      BY <1>4, <3>1, <3>2, Ahead
  <2>7. rest[y] = Sent[i][x]
    BY <1>4, <2>4, <2>6
  <2>8. QED
    BY <1>4, <2>5, <2>6, <2>7
<1>9. OnLine(rest, c, s, Q)
  BY <1>2, <1>5, <1>6, <1>7, <1>8 DEF OnLine
<1>10. ASSUME O[c] + Len(Sent[c]) = k PROVE Q[c + 1] = 0 /\ OnLine(rest, c + 1, s, Q)
  <2>1. Q[c + 1] = Q[c] + Len(Sent[c]) /\ Len(Sent[c]) \in Nat
    BY <1>3, <1>5
  <2>2. Q[c + 1] = 0
    BY <1>7, <1>10, <2>1
  <2>3. PICK d \in Nat : d = c + 1
    OBVIOUS
  <2>4. d \in 1..s + 1 /\ Q[d] <= 0 /\ \A i \in d..s : i \in c..s
    BY <2>2, <2>3
  <2>5. OnLine(rest, d, s, Q)
    <3>1. \A i \in d..s : Q[i + 1] = Q[i] + Len(Sent[i])
      BY <1>5, <2>4
    <3>2. \A i \in d..s : \A x \in 1..Len(Sent[i]) :
             Q[i] + x >= 1 => Q[i] + x <= Len(rest) /\ rest[Q[i] + x] = Sent[i][x]
      BY <1>8, <2>4
    <3>3. QED
      BY <1>2, <1>6, <2>4, <3>1, <3>2 DEF OnLine
  <2>6. QED
    BY <2>2, <2>3, <2>5
<1>11. QED
  BY <1>2, <1>7, <1>9, <1>10

\* A byte behind the first l ones.
LEMMA Behind ==
    ASSUME NEW l \in Nat, NEW n \in Nat, NEW x \in 1..n, NEW y \in Int, y = l + x
    PROVE  y \in 1..l + n /\ ~(y <= l) /\ y - l = x
  OBVIOUS

\* The next frame follows on the line.
LEMMA LineGrows ==
    ASSUME NEW t \in Nat \ {0}, t <= Total + 2,
           NEW c, NEW O, NEW line \in Seq(Byte), OnLine(line, c, t - 1, O),
           NEW rest, With(line, Sent[t], rest)
    PROVE  \E Q \in [Nat -> Int] : Q[c] = O[c] /\ OnLine(rest, c, t, Q)
<1>0. PICK s \in Nat : s = t - 1 /\ t = s + 1
  OBVIOUS
<1> DEFINE n == Len(Sent[t])
<1>1. Sent[t] \in Seq(Byte) /\ n \in Nat
  <2>1. t \in 1..Len(Sent)
    BY <1>0, SentFrames, Bodies
  <2>2. Sent[t] \in Seq(Byte)
    BY <2>1, SentFrames, ElementOfSeq
  <2>3. QED
    BY <2>2, LenProperties
<1>2. /\ O \in [Nat -> Int] /\ O[c] <= 0 /\ O[t] = Len(line) /\ c \in 1..t
      /\ \A i \in c..s : O[i + 1] = O[i] + Len(Sent[i])
      /\ \A i \in c..s : \A x \in 1..Len(Sent[i]) :
          O[i] + x >= 1 => O[i] + x <= Len(line) /\ line[O[i] + x] = Sent[i][x]
  BY <1>0 DEF OnLine
<1>3. Len(line) \in Nat
  BY LenProperties
<1>4. PICK Q \in [Nat -> Int] : Q[t + 1] = Len(line) + n /\ \A i \in 1..t : Q[i] = O[i]
  <2> DEFINE R == [O EXCEPT ![t + 1] = Len(line) + n]
  <2>1. R \in [Nat -> Int] /\ R[t + 1] = Len(line) + n /\ \A i \in 1..t : R[i] = O[i]
    BY <1>1, <1>2, <1>3
  <2>2. QED
    BY <2>1
<1> HIDE DEF n
<1>5. /\ Len(rest) = Len(line) + n
      /\ \A y \in 1..Len(line) + n :
            rest[y] = IF y <= Len(line) THEN line[y] ELSE Sent[t][y - Len(line)]
  BY DEF n, With
<1>6. ASSUME NEW i \in c..t PROVE Q[i + 1] = Q[i] + Len(Sent[i])
  <2>1. CASE i = t
    <3>1. t \in 1..t
      BY <1>0
    <3>2. Q[t] = Len(line)
      BY <1>2, <1>4, <3>1
    <3>3. QED
      BY <1>4, <2>1, <3>2 DEF n
  <2>2. CASE i # t
    <3>1. i \in c..s /\ i \in 1..t /\ i + 1 \in 1..t
      <4>1. c \in 1..t
        BY <1>2
      <4>2. QED
        BY <1>0, <2>2, <4>1
    <3>2. QED
      BY <1>2, <1>4, <3>1
  <2>3. QED
    BY <2>1, <2>2
<1>7. ASSUME NEW i \in c..t, NEW x \in 1..Len(Sent[i]), Q[i] + x >= 1
      PROVE  Q[i] + x <= Len(rest) /\ rest[Q[i] + x] = Sent[i][x]
  <2>0. i \in 1..t /\ Q[i] = O[i] /\ O[i] \in Int
    <3>1. i \in 1..t
      BY <1>2
    <3>2. i \in Nat
      BY <3>1
    <3>3. QED
      BY <1>2, <1>4, <3>1, <3>2
  <2>1. CASE i = t
    <3>1. x \in 1..n /\ Q[i] = Len(line)
      BY <1>2, <2>0, <2>1 DEF n
    <3>2. PICK y \in Int : y = Q[i] + x
      BY <2>0
    <3>3. y \in 1..Len(line) + n /\ ~(y <= Len(line)) /\ y - Len(line) = x
      <4>1. y = Len(line) + x
        BY <3>1, <3>2
      <4>2. QED
        BY <1>1, <1>3, <3>1, <4>1, Behind
    <3>4. rest[y] = Sent[t][x]
      BY <1>5, <3>3
    <3>5. QED
      BY <1>5, <2>1, <3>2, <3>3, <3>4
  <2>2. CASE i # t
    <3>1. i \in c..s
      <4>1. c \in 1..t
        BY <1>2
      <4>2. QED
        BY <1>0, <2>2, <4>1
    <3>2. O[i] + x >= 1
      BY <1>7, <2>0
    <3>3. O[i] + x <= Len(line) /\ line[O[i] + x] = Sent[i][x]
      BY <1>2, <3>1, <3>2
    <3>4. PICK y \in Int : y = Q[i] + x
      BY <2>0
    <3>5. y \in 1..Len(line) + n /\ y <= Len(line) /\ y = O[i] + x
      <4>1. y = O[i] + x /\ y >= 1 /\ y <= Len(line)
        BY <1>7, <2>0, <3>3, <3>4
      <4>2. QED
        BY <1>1, <1>3, <4>1
    <3>6. rest[y] = Sent[i][x]
      BY <1>5, <3>3, <3>5
    <3>7. QED
      BY <1>1, <1>3, <1>5, <3>4, <3>5, <3>6
  <2>3. QED
    BY <2>1, <2>2
<1>8. Q[c] = O[c] /\ Q[c] <= 0
  BY <1>2, <1>4
<1>9. c \in 1..t + 1
  BY <1>2
<1>10. OnLine(rest, c, t, Q)
  <2>1. Q[t + 1] = Len(rest)
    BY <1>4, <1>5
  <2>2. QED
    BY <2>1, <1>4, <1>5, <1>6, <1>7, <1>8, <1>9 DEF OnLine
<1>11. QED
  BY <1>4, <1>8, <1>10

------------------------------------------------------------------------------
(* The first discovery on an undisturbed line: the request is queued, the      *)
(* device has it, its answer is under way, or the objects are found.           *)

Asking == calls = 0 /\ used = 0 /\ Waiting /\ Quiet /\ Listed(0)

Taken ==
    /\ calls = 0 /\ used = 0
    /\ txq = <<>> /\ toDev = <<"discover">> /\ devout = <<>> /\ toHost = <<>>
    /\ At(1, 0)

\* The device has sent s frames, the receiver is in frame c.
UnderWay(s, c, O) ==
    /\ s \in 0..Total + 2
    /\ Len(devout) = Total + 2 - s /\ \A x \in 1..Total + 2 - s : devout[x] = Sent[s + x]
    /\ OnLine(toHost, c, s, O)
    /\ At(c, 0 - O[c])

Answering ==
    /\ calls = 0 /\ used = 0 /\ txq = <<>> /\ toDev = <<>>
    /\ \E s, c, O : UnderWay(s, c, O)

Found ==
    /\ calls = 0 =>
         /\ state # 0 /\ objlist = DevObjects /\ objcount = Total
         /\ IF host = "discovery" THEN used = 0 ELSE used = Total /\ table = used
    /\ calls > 0 => host # "discovery"

ExactInv ==
    /\ calls \in Nat
    /\ rounds = 0 => calls = 0
    /\ rounds = 1 /\ ~disturbed => Asking \/ Taken \/ Answering \/ Found

\* A receiver in the stream waits in a discovery and has listed what came first.
LEMMA AtWaits ==
    ASSUME NEW c, NEW p, At(c, p)
    PROVE  /\ host = "discovery" /\ state = 0
           /\ \E n \in 0..Total : Listed(n)
<1>1. host = "discovery" /\ state = 0 /\ (AtInfo(p) \/ AtFrame(c, p))
  BY DEF At
<1>2. Total \in Nat
  BY Bodies
<1>3. CASE AtInfo(p)
  <2>1. Listed(0) /\ 0 \in 0..Total
    BY <1>2, <1>3 DEF AtInfo
  <2>2. QED
    BY <1>1, <2>1
<1>4. CASE AtFrame(c, p)
  <2>1. /\ c \in 2..Total + 2
        /\ \/ Listed(c - 2)
           \/ c <= Total + 1 /\ Listed(c - 1)
    BY <1>4, Zenon DEF AtFrame
  <2>2. c - 2 \in 0..Total /\ (c <= Total + 1 => c - 1 \in 0..Total)
    BY <1>2, <2>1
  <2>3. QED
    BY <1>1, <2>1, <2>2
<1>5. QED
  BY <1>1, <1>3, <1>4

\* While the answer is awaited a discovery is, and there are no calls.
LEMMA AwaitedWaits ==
    ASSUME Asking \/ Taken \/ Answering
    PROVE  host = "discovery" /\ state = 0 /\ calls = 0 /\ used = 0
<1>1. CASE Asking
  BY <1>1 DEF Asking, Waiting
<1>2. CASE Taken
  BY <1>2, AtWaits DEF Taken
<1>3. CASE Answering
  BY <1>3, AtWaits DEF Answering, UnderWay
<1>4. QED
  BY <1>1, <1>2, <1>3

\* What the receiver makes of the next bytes of the answer.
LEMMA AnswerStep ==
    ASSUME RxInv, NEW s \in 0..Total + 2, NEW c \in 1..s, NEW p \in Nat, At(c, p),
           NEW bs \in Seq(Byte), Receive(bs),
           \A x \in 1..Len(bs) : p + x <= Len(Sent[c]) => bs[x] = Sent[c][p + x]
    PROVE  \/ At(c, p + Len(bs))'
           \/ p + Len(bs) = Len(Sent[c]) /\ At(c + 1, 0)'
           \/ Ended'
<1>1. CASE c = 1
  <2>1. Sent[1] = Info /\ Len(Info) = 6
    BY SentFrames DEF Info
  <2>2. \A x \in 1..Len(bs) : p + x <= 6 => bs[x] = Info[p + x]
    BY <1>1, <2>1
  <2>3. At(1, p)
    BY <1>1
  <2>4. \/ At(1, p + Len(bs))'
        \/ p + Len(bs) = 6 /\ At(2, 0)'
    BY <2>2, <2>3, InfoStep
  <2>5. c + 1 = 2
    BY <1>1
  <2>6. QED
    BY <1>1, <2>1, <2>4, <2>5
<1>2. CASE c # 1
  <2>1. c \in 2..Total + 2
    BY <1>2, Bodies
  <2>2. QED
    BY <2>1, FrameStep
<1>3. QED
  BY <1>1, <1>2

\* The loop reads a part of the answer.
LEMMA AnswerRead ==
    ASSUME LinkInv, Answering, LoopIn
    PROVE  Answering' \/ Found'
<1>1. PICK k \in 0..Len(toHost) :
         /\ Receive(SubSeq(toHost, 1, k))
         /\ toHost' = SubSeq(toHost, k + 1, Len(toHost))
  BY DEF LoopIn
<1>2. /\ toHost # <<>>
      /\ UNCHANGED <<txq, toDev, devout, table, used, calls>>
  BY DEF LoopIn, tableVars, counters
<1>3. RxInv /\ toHost \in Seq(Byte)
  BY DEF LinkInv, LineOK
<1>4. calls = 0 /\ used = 0 /\ txq = <<>> /\ toDev = <<>>
  BY DEF Answering
<1>5. PICK s, c, O : UnderWay(s, c, O)
  BY DEF Answering
<1>6. /\ s \in 0..Total + 2 /\ s \in Nat /\ s <= Total + 2 /\ OnLine(toHost, c, s, O) /\ At(c, 0 - O[c])
      /\ Len(devout) = Total + 2 - s /\ \A x \in 1..Total + 2 - s : devout[x] = Sent[s + x]
  BY <1>5, Bodies DEF UnderWay
<1>7. c \in 1..s /\ \A x \in 1..k : x - O[c] <= Len(Sent[c]) => toHost[x] = Sent[c][x - O[c]]
  BY <1>2, <1>3, <1>6, LineTaken
<1>8. PICK Q \in [Nat -> Int] :
        /\ Q[c] = O[c] - k /\ OnLine(toHost', c, s, Q)
        /\ O[c] + Len(Sent[c]) = k => Q[c + 1] = 0 /\ OnLine(toHost', c + 1, s, Q)
  <2>1. Without(toHost, k, toHost')
    BY <1>1, <1>3 DEF Without
  <2>2. s \in Nat /\ c \in 1..s /\ s <= Total + 2 /\ OnLine(toHost, c, s, O)
    BY <1>6, <1>7
  <2>3. toHost \in Seq(Byte) /\ k \in 0..Len(toHost)
    BY <1>3
  <2>4. QED
    BY <2>1, <2>2, <2>3, LineLeft
<1>9. O[c] \in Int /\ O[c] <= 0
  <2>1. OnLine(toHost, c, s, O)
    BY <1>6
  <2>2. O \in [Nat -> Int] /\ O[c] <= 0
    BY <2>1 DEF OnLine
  <2>3. s \in Nat /\ c \in 1..s
    BY <1>6, <1>7
  <2>4. c \in Nat
    BY <2>3
  <2>5. QED
    BY <2>2, <2>4
<1>10. PICK p \in Nat : p = 0 - O[c]
  BY <1>9
<1>0. PICK bs : bs = SubSeq(toHost, 1, k)
  OBVIOUS
<1>11. /\ bs \in Seq(Byte) /\ Len(bs) = k /\ k \in Nat
       /\ \A x \in 1..k : bs[x] = toHost[x]
  BY <1>0, <1>1, <1>3
<1>12. ASSUME NEW x \in 1..Len(bs), p + x <= Len(Sent[c]) PROVE bs[x] = Sent[c][p + x]
  <2>1. x \in 1..k /\ p + x = x - O[c]
    BY <1>9, <1>10, <1>11
  <2>2. QED
    BY <1>7, <1>11, <1>12, <2>1
<1>13. At(c, p) /\ Receive(bs)
  BY <1>0, <1>1, <1>6, <1>10
<1>14. \/ At(c, p + Len(bs))'
       \/ p + Len(bs) = Len(Sent[c]) /\ At(c + 1, 0)'
       \/ Ended'
  BY <1>3, <1>6, <1>7, <1>11, <1>12, <1>13, AnswerStep
<1>15. CASE At(c, p + Len(bs))'
  <2>1. PICK q : q = p + Len(bs)
    OBVIOUS
  <2>2. At(c, q)'
    BY <1>15, <2>1
  <2>3. q = 0 - Q[c]
    BY <1>8, <1>9, <1>10, <1>11, <2>1
  <2>4. UnderWay(s, c, Q)'
    BY <1>2, <1>6, <1>8, <2>2, <2>3 DEF UnderWay
  <2>5. QED
    BY <1>2, <1>4, <2>4 DEF Answering
<1>16. CASE p + Len(bs) = Len(Sent[c]) /\ At(c + 1, 0)'
  <2>1. O[c] + Len(Sent[c]) = k
    BY <1>9, <1>10, <1>11, <1>16
  <2>2. PICK d : d = c + 1
    OBVIOUS
  <2>3. Q[d] = 0 /\ OnLine(toHost', d, s, Q) /\ At(d, 0)'
    BY <1>8, <1>16, <2>1, <2>2
  <2>4. 0 = 0 - Q[d]
    BY <2>3
  <2>5. UnderWay(s, d, Q)'
    BY <1>2, <1>6, <2>3, <2>4 DEF UnderWay
  <2>6. QED
    BY <1>2, <1>4, <2>5 DEF Answering
<1>17. CASE Ended'
  BY <1>2, <1>4, <1>17 DEF Ended, Found
<1>18. QED
  BY <1>14, <1>15, <1>16, <1>17

\* The device sends the next frame.
LEMMA AnswerSent ==
    ASSUME LinkInv, Answering, DevSend
    PROVE  Answering'
<1>1. /\ devout # <<>> /\ toHost' = toHost \o Head(devout) /\ devout' = Tail(devout)
      /\ UNCHANGED <<vars, txq, toDev, used, calls>>
  BY DEF DevSend, tableVars, counters
<1>2. toHost \in Seq(Byte) /\ devout \in Seq(Seq(Byte)) /\ Total \in Nat
  BY Bodies DEF LinkInv, LineOK
<1>3. calls = 0 /\ used = 0 /\ txq = <<>> /\ toDev = <<>>
  BY DEF Answering
<1>4. PICK s, c, O : UnderWay(s, c, O)
  BY DEF Answering
<1>5. /\ s \in 0..Total + 2 /\ OnLine(toHost, c, s, O) /\ At(c, 0 - O[c])
      /\ Len(devout) = Total + 2 - s /\ \A x \in 1..Total + 2 - s : devout[x] = Sent[s + x]
  BY <1>4 DEF UnderWay
<1>6. PICK n \in Nat : n = Total + 2 - s
  BY <1>2, <1>5
<1>7. Len(devout) = n /\ n > 0
  <2>1. Len(devout) = n
    BY <1>5, <1>6
  <2>2. Len(devout) # 0
    BY <1>1, <1>2, EmptySeq
  <2>3. QED
    BY <2>1, <2>2
<1>8. PICK t \in Nat : t = s + 1
  BY <1>5
<1>9. s \in Nat /\ t \in 0..Total + 2 /\ t <= Total + 2 /\ n - 1 = Total + 2 - t /\ 1 \in 1..n
  BY <1>2, <1>5, <1>6, <1>7, <1>8
<1>10. Head(devout) = Sent[t]
  <2>1. Head(devout) = devout[1]
    BY <1>1, <1>2
  <2>2. devout[1] = Sent[s + 1]
    BY <1>5, <1>6, <1>9
  <2>3. QED
    BY <1>8, <2>1, <2>2
<1>11. /\ Len(devout') = n - 1
       /\ \A x \in 1..n - 1 : devout'[x] = devout[x + 1]
  BY <1>1, <1>2, <1>7
<1>12. ASSUME NEW x \in 1..n - 1 PROVE devout'[x] = Sent[t + x]
  <2>1. x + 1 \in 1..n /\ s + (x + 1) = t + x
    BY <1>8, <1>9
  <2>2. devout[x + 1] = Sent[s + (x + 1)]
    BY <1>5, <1>6, <2>1
  <2>3. QED
    BY <1>11, <2>1, <2>2
<1>13. toHost' = toHost \o Sent[t]
  BY <1>1, <1>10
<1>14. PICK Q \in [Nat -> Int] : Q[c] = O[c] /\ OnLine(toHost', c, t, Q)
  <2>1. t \in 1..Len(Sent)
    BY <1>2, <1>8, <1>9, SentFrames
  <2>2. Sent[t] \in Seq(Byte)
    BY <2>1, SentFrames, ElementOfSeq
  <2>3. With(toHost, Sent[t], toHost')
    BY <1>2, <1>13, <2>2, ConcatProperties DEF With
  <2>4. QED
    <3>1. /\ s \in Nat /\ t \in Nat /\ t # 0 /\ t <= Total + 2 /\ OnLine(toHost, c, t - 1, O)
          /\ toHost \in Seq(Byte) /\ With(toHost, Sent[t], toHost')
      <4>1. s = t - 1 /\ t # 0
        BY <1>8, <1>9
      <4>2. QED
        BY <1>2, <1>5, <1>8, <1>9, <2>3, <4>1
    <3>2. QED
      BY <3>1, LineGrows
<1>15. At(c, 0 - Q[c])'
  <2>1. At(c, 0 - Q[c])
    BY <1>5, <1>14
  <2>2. UNCHANGED vars
    BY <1>1
  <2>3. QED
    BY <2>1, <2>2 DEF vars, rxVars, At, AtInfo, AtFrame, Fresh, Partly, Listed
<1>16. UnderWay(t, c, Q)'
  BY <1>9, <1>11, <1>12, <1>14, <1>15 DEF UnderWay
<1>17. QED
  BY <1>1, <1>3, <1>16 DEF Answering

\* The device takes the request.
LEMMA RequestTaken ==
    ASSUME Taken, DevTake
    PROVE  Answering'
<1>1. /\ toDev = <<"discover">> /\ toDev' = Tail(toDev) /\ devout' = Sent
      /\ UNCHANGED <<vars, toHost, txq, used, calls>>
  BY DEF Taken, DevTake, Sent, Total, tableVars, counters
<1>2. toDev' = <<>>
  BY <1>1
<1>3. PICK O \in [Nat -> Int] : \A i \in Nat : O[i] = 0
  <2> DEFINE R == [i \in Nat |-> 0]
  <2>1. R \in [Nat -> Int] /\ \A i \in Nat : R[i] = 0
    OBVIOUS
  <2>2. QED
    BY <2>1
<1>4. toHost = <<>> /\ toHost' = <<>> /\ Len(<<>>) = 0
  BY <1>1 DEF Taken
<1>5. OnLine(toHost', 1, 0, O)
  <2>1. O[0 + 1] = 0 /\ O[1] = 0
    BY <1>3
  <2>2. Len(toHost') = 0
    BY <1>4
  <2>3. 1 \in 1..0 + 1 /\ 1..0 = {}
    OBVIOUS
  <2>4. QED
    BY <1>3, <2>1, <2>2, <2>3 DEF OnLine
<1>6. At(1, 0 - O[1])'
  <2>1. At(1, 0) /\ 0 - O[1] = 0
    BY <1>3 DEF Taken
  <2>2. At(1, 0 - O[1])
    BY <2>1
  <2>3. UNCHANGED vars
    BY <1>1
  <2>4. QED
    BY <2>2, <2>3 DEF vars, rxVars, At, AtInfo, AtFrame, Fresh, Partly, Listed
<1>7. UnderWay(0, 1, O)'
  <2>1. 0 \in 0..Total + 2 /\ Total + 2 - 0 = Total + 2 /\ \A x \in 1..Total + 2 : 0 + x = x
    BY Bodies
  <2>2. Len(Sent) = Total + 2
    BY SentFrames
  <2>3. QED
    BY <1>1, <1>5, <1>6, <2>1, <2>2 DEF UnderWay
<1>8. QED
  BY <1>1, <1>2, <1>7 DEF Taken, Answering

\* A step that leaves the line, the receiver and the table alone.
LEMMA ExactSame ==
    ASSUME UNCHANGED <<vars, toHost, txq, toDev, devout, used, calls>>
    PROVE  (Asking => Asking') /\ (Taken => Taken') /\ (Answering => Answering')
<1>0. UNCHANGED <<host, buf, expect, handler, rxstate, szSz, state, objlist, objcount>>
  BY DEF vars, rxVars
<1>1. ASSUME NEW c, NEW p, At(c, p) PROVE At(c, p)'
  BY <1>0, <1>1 DEF At, AtInfo, AtFrame, Fresh, Partly, Listed
<1>2. Asking => Asking'
  BY <1>0 DEF Asking, Waiting, Quiet, Listed
<1>3. Taken => Taken'
  <2> SUFFICES ASSUME Taken PROVE Taken'
    OBVIOUS
  <2>1. At(1, 0)'
    BY <1>1 DEF Taken
  <2>2. QED
    BY <2>1 DEF Taken
<1>4. Answering => Answering'
  <2> SUFFICES ASSUME Answering PROVE Answering'
    OBVIOUS
  <2>1. PICK s, c, O : UnderWay(s, c, O)
    BY DEF Answering
  <2>2. PICK p : p = 0 - O[c]
    OBVIOUS
  <2>3. At(c, p)'
    BY <1>1, <2>1, <2>2 DEF UnderWay
  <2>4. UnderWay(s, c, O)'
    BY <2>1, <2>2, <2>3 DEF UnderWay
  <2>5. QED
    BY <2>4 DEF Answering
<1>5. QED
  BY <1>2, <1>3, <1>4

\* A request that is still queued leaves when the line is empty.
LEMMA RequestSent ==
    ASSUME Asking, LoopOut
    PROVE  Taken'
<1>1. /\ toHost = <<>> /\ toDev' = toDev \o txq /\ txq' = <<>>
      /\ UNCHANGED <<vars, toHost, devout, used, calls>>
  BY DEF LoopOut, tableVars, counters
<1>2. toDev' = <<"discover">> /\ devout' = <<>>
  BY <1>1 DEF Asking, Waiting
<1>3. At(1, 0)'
  BY <1>1 DEF Asking, Waiting, At, AtInfo, Fresh, Listed, vars, rxVars
<1>4. QED
  BY <1>1, <1>2, <1>3 DEF Asking, Taken

\* A receiver that waits for no answer keeps what was found.
LEMMA FoundReads ==
    ASSUME state \in Nat, calls \in Nat, Found, LoopIn
    PROVE  Found'
<1>1. PICK bs : Receive(bs)
  BY DEF LoopIn
<1>2. host' = host /\ UNCHANGED <<table, used, calls>>
  BY <1>1 DEF Receive, LoopIn, tableVars, counters
<1>3. ASSUME calls = 0 PROVE state' # 0 /\ UNCHANGED <<objlist, objcount>>
  <2>1. state # 0
    BY <1>3 DEF Found
  <2>2. CASE Len(bs) = expect
    <3>1. HandleData(buf \o bs)
      BY <1>1, <2>2 DEF Receive
    <3>2. ASSUME NEW b, HandleData(b) PROVE state' # 0 /\ UNCHANGED <<objlist, objcount>>
      <4>1. CASE InitWaitStart(b) \/ InitDiscovery(b) \/ PktWaitStart(b) \/ PktGetLen(b)
        BY <2>1, <4>1 DEF InitWaitStart, InitDiscovery, PktWaitStart, PktGetLen
      <4>2. CASE PktGetBody(b)
        <5>1. state' = state + 1 /\ UNCHANGED <<objlist, objcount>>
          BY <2>1, <4>2 DEF PktGetBody
        <5>2. QED
          BY <5>1
      <4>3. QED
        BY <3>2, <4>1, <4>2 DEF HandleData
    <3>3. QED
      BY <3>1, <3>2
  <2>3. CASE Len(bs) # expect
    BY <1>1, <2>1, <2>3 DEF Receive
  <2>4. QED
    BY <2>2, <2>3
<1>4. QED
  BY <1>2, <1>3 DEF Found

\* While the request is queued the line is quiet and the receiver waits.
LEMMA AskingReads ==
    ASSUME LinkInv, Asking, LoopIn
    PROVE  Asking'
<1>1. PICK k \in 0..Len(toHost) :
         /\ Receive(SubSeq(toHost, 1, k))
         /\ toHost' = SubSeq(toHost, k + 1, Len(toHost))
  BY DEF LoopIn
<1>2. UNCHANGED <<txq, toDev, devout, used, calls>>
  BY DEF LoopIn, tableVars, counters
<1>3. RxInv /\ toHost \in Seq(Byte) /\ Waiting /\ Quiet
  BY DEF LinkInv, LineOK, Asking
<1>4. SubSeq(toHost, 1, k) \in Seq(Byte)
  BY <1>1, <1>3, SubSeqType
<1>5. /\ handler' = "init" /\ rxstate' = "WAIT_START" /\ buf' = <<>> /\ expect' = 1
      /\ host' = "discovery" /\ state' = 0 /\ UNCHANGED <<objlist, objcount>>
  BY <1>1, <1>3, <1>4, QuietPart, WaitingReceives
<1>6. Quiet'
  BY <1>1, <1>3, QuietPart DEF Quiet
<1>7. QED
  BY <1>2, <1>3, <1>5, <1>6 DEF Asking, Waiting, Listed

\* What is found stays found while neither the receiver nor the script moves.
LEMMA FoundSame ==
    ASSUME UNCHANGED <<host, state, objlist, objcount, table, used, calls>>, Found
    PROVE  Found'
  BY DEF Found

\* Every step of an undisturbed first discovery and of what follows it.
LEMMA ExactStep == LinkInv /\ AskInv /\ ExactInv /\ [LinkNext]_linkVars => ExactInv'
<1> SUFFICES ASSUME LinkInv, AskInv, ExactInv, [LinkNext]_linkVars PROVE ExactInv'
  OBVIOUS
<1> DEFINE First == Asking \/ Taken \/ Answering \/ Found
<1>1. /\ RxInv /\ disturbed \in BOOLEAN /\ rounds \in Nat /\ calls \in Nat
      /\ rounds = 0 => calls = 0 /\ Idle
      /\ rounds = 1 /\ ~disturbed => First
  BY DEF LinkInv, LineOK, AskInv, ExactInv
<1>2. state \in Nat
  BY <1>1 DEF RxInv, TypeOK
<1>3. Asking \/ Taken \/ Answering => host = "discovery" /\ state = 0 /\ calls = 0 /\ used = 0
  BY AwaitedWaits
<1> HIDE DEF First
\* Steps that change neither the rounds nor the calls.
<1>4. ASSUME rounds' = rounds, calls' = calls,
             rounds = 1 /\ ~disturbed' => ~disturbed /\ (First => First')
      PROVE  ExactInv'
  BY <1>1, <1>4 DEF ExactInv, First
<1>5. CASE LinkDiscover
  <2>1. /\ Discover /\ Enqueue("discover") /\ rounds' = rounds + 1
        /\ UNCHANGED <<toHost, toDev, devout, table, used, calls>>
    BY <1>5 DEF LinkDiscover, tableVars
  <2>2. rounds' # 0 /\ (rounds' = 1 => rounds = 0)
    BY <1>1, <2>1
  <2>3. ASSUME rounds = 0, ~disturbed' PROVE Asking'
    <3>1. Idle /\ calls = 0
      BY <1>1, <2>3
    <3>2. txq' = Append(txq, "discover") /\ disturbed' = disturbed
      BY <2>1, <2>3 DEF Enqueue
    <3>3. txq' = <<"discover">>
      BY <3>1, <3>2 DEF Idle
    <3>4. Waiting'
      BY <2>1, <3>1, <3>3 DEF Idle, Waiting, Discover, ExpectBytes
    <3>5. Quiet'
      BY <2>1, <2>3, <3>2 DEF AskInv, Quiet
    <3>6. objcount' = 0 /\ objlist' = <<>>
      BY <2>1, <3>1 DEF Idle, Discover
    <3>7. SubSeq(DevObjects, 1, 0) = <<>>
      OBVIOUS
    <3>8. Listed(0)'
      BY <3>6, <3>7 DEF Listed
    <3>9. QED
      BY <2>1, <3>1, <3>4, <3>5, <3>8 DEF Asking, Idle
  <2>4. QED
    BY <1>1, <2>1, <2>2, <2>3 DEF ExactInv
<1>6. ASSUME host = "script", host' \in {"script", "call"}, objlist # <<>> \/ used > 0,
             rounds' = rounds, calls' = calls + 1, ~disturbed' => ~disturbed
      PROVE  ExactInv'
  <2>1. rounds # 0
    BY <1>1, <1>6 DEF Idle
  <2>2. calls' \in Nat /\ calls' # 0
    BY <1>1, <1>6
  <2>3. Found'
    BY <1>6, <2>2 DEF Found
  <2>4. QED
    BY <1>6, <2>1, <2>2, <2>3 DEF ExactInv
<1>7. ASSUME NEW q, Enqueue(q) PROVE ~disturbed' => ~disturbed
  BY <1>7 DEF Enqueue
<1>8. CASE LinkCallReply
  BY <1>6, <1>7, <1>8 DEF LinkCallReply, CallReply
<1>9. CASE CallNoReply
  BY <1>6, <1>7, <1>9 DEF CallNoReply, vars
<1>10. CASE LinkReturn
  <2>1. /\ host \in {"discovery", "call"} /\ state # 0 /\ host' = "script"
        /\ UNCHANGED <<state, objlist, objcount, calls, rounds, disturbed>>
        /\ IF host = "discovery" THEN table' = objcount /\ used' = Len(objlist)
           ELSE UNCHANGED <<table, used>>
    BY <1>10 DEF LinkReturn, Return, rxVars, tableVars, lineVars, counters
  <2>2. Found => Found'
    BY <2>1 DEF Found, Total
  <2>3. First => First'
    BY <1>3, <2>1, <2>2 DEF First
  <2>4. QED
    BY <1>4, <2>1, <2>3
<1>11. CASE LinkLoopForever
  <2>1. /\ host = "script" /\ host' = "loop"
        /\ UNCHANGED <<state, objlist, objcount, calls, rounds, disturbed, table, used>>
    BY <1>11 DEF LinkLoopForever, LoopForever, rxVars, tableVars, lineVars, counters
  <2>2. Found => Found'
    BY <2>1 DEF Found
  <2>3. First => First'
    BY <1>3, <2>1, <2>2 DEF First
  <2>4. QED
    BY <1>4, <2>1, <2>3
<1>12. CASE LoopIn
  <2>1. UNCHANGED <<rounds, calls, disturbed>>
    BY <1>12 DEF LoopIn, counters
  <2>2. ~Taken
    BY <1>12 DEF Taken, LoopIn
  <2>3. First => First'
    BY <1>1, <1>2, <1>12, <2>2, AskingReads, AnswerRead, FoundReads DEF First
  <2>4. QED
    BY <1>4, <2>1, <2>3
<1>13. CASE LoopOut
  <2>1. /\ txq # <<>> /\ UNCHANGED <<vars, rounds, calls, disturbed, table, used>>
    BY <1>13 DEF LoopOut, tableVars, counters
  <2>2. ~Taken /\ ~Answering
    BY <2>1 DEF Taken, Answering
  <2>3. Found => Found'
    BY <2>1, FoundSame DEF vars, rxVars
  <2>4. First => First'
    BY <1>13, <2>2, <2>3, RequestSent DEF First
  <2>5. QED
    BY <1>4, <2>1, <2>4
<1>14. CASE DevTake
  <2>1. /\ toDev # <<>> /\ UNCHANGED <<vars, rounds, calls, disturbed, table, used>>
    BY <1>14 DEF DevTake, tableVars, counters
  <2>2. ~Asking /\ ~Answering
    BY <2>1 DEF Asking, Waiting, Answering
  <2>3. Found => Found'
    BY <2>1, FoundSame DEF vars, rxVars
  <2>4. First => First'
    BY <1>14, <2>2, <2>3, RequestTaken DEF First
  <2>5. QED
    BY <1>4, <2>1, <2>4
<1>15. CASE DevSend
  <2>1. /\ devout # <<>> /\ UNCHANGED <<vars, rounds, calls, disturbed, table, used>>
    BY <1>15 DEF DevSend, tableVars, counters
  <2>2. ~Asking /\ ~Taken
    BY <2>1 DEF Asking, Waiting, Taken
  <2>3. Found => Found'
    BY <2>1, FoundSame DEF vars, rxVars
  <2>4. First => First'
    BY <1>15, <2>2, <2>3, AnswerSent DEF First
  <2>5. QED
    BY <1>4, <2>1, <2>4
<1>16. CASE DevEvent \/ Lose
  <2>1. UNCHANGED vars /\ UNCHANGED <<rounds, calls, table, used>>
    BY <1>16 DEF DevEvent, Lose, tableVars
  <2>2. ~disturbed' => ~disturbed /\ state # 0
    <3>1. CASE DevEvent
      BY <3>1, Zenon DEF DevEvent
    <3>2. CASE Lose
      BY <3>2 DEF Lose
    <3>3. QED
      BY <1>16, <3>1, <3>2
  <2>3. Found => Found'
    BY <2>1, FoundSame DEF vars, rxVars
  <2>4. ~disturbed' => ~disturbed /\ (First => First')
    BY <1>3, <2>2, <2>3 DEF First
  <2>5. QED
    BY <1>4, <2>1, <2>4
<1>17. CASE UNCHANGED linkVars
  <2>1. UNCHANGED <<vars, toHost, txq, toDev, devout, used, table, calls, rounds, disturbed>>
    BY <1>17 DEF linkVars, lineVars, tableVars, counters
  <2>2. Found => Found'
    BY <2>1, FoundSame DEF vars, rxVars
  <2>3. First => First'
    BY <2>1, <2>2, ExactSame DEF First
  <2>4. QED
    BY <1>4, <2>1, <2>3
<1>18. QED
  BY <1>5, <1>8, <1>9, <1>10, <1>11, <1>12, <1>13, <1>14, <1>15, <1>16, <1>17 DEF LinkNext

\* What has been listed is a prefix of the objects.
LEMMA ListedPrefix ==
    ASSUME NEW n \in 0..Total, Listed(n)
    PROVE  IsPrefix(objlist, DevObjects)
<1>1. /\ DevObjects \in Seq(Seq(Byte)) /\ n <= Len(DevObjects) /\ n \in Nat
      /\ objlist = SubSeq(DevObjects, 1, n)
  BY BodiesAssumption, Bodies DEF Total, Listed
<1>2. Len(objlist) = n
  BY <1>1
<1>3. SubSeq(objlist, 1, n) = objlist
  <2>1. objlist \in Seq(Seq(Byte))
    BY <1>1
  <2>2. QED
    BY <1>2, <2>1, SubSeqFull
<1>4. QED
  BY <1>1, <1>2, <1>3 DEF IsPrefix

\* On a line that no event, loss, failed enqueue or '[' from before disturbs,
\* the first discovery returns the device's objects, in order and no others,
\* for every device and every split of its answer into reads
\* (serial.c 103-209, 282-308; urpc.c 44-76).
THEOREM DiscoveryCorrect == LinkSpec => []DiscoveryExact
<1>1. LinkInit => AskInv /\ ExactInv
  BY DEF LinkInit, Init, AskInv, Idle, Quiet, ExactInv
<1>2. AskInv /\ ExactInv => DiscoveryExact
  <2> SUFFICES ASSUME ExactInv, ~disturbed, rounds = 1
               PROVE  /\ host = "discovery" => IsPrefix(objlist, DevObjects)
                      /\ host # "discovery" /\ calls = 0 =>
                           objlist = DevObjects /\ used = Len(DevObjects) /\ table = used
    BY DEF DiscoveryExact
  <2>1. calls \in Nat /\ (Asking \/ Taken \/ Answering \/ Found)
    BY DEF ExactInv
  <2>2. CASE Asking \/ Taken \/ Answering
    <3>1. host = "discovery"
      BY <2>2, AwaitedWaits
    <3>2. \E n \in 0..Total : Listed(n)
      <4>1. CASE Asking
        <5>1. 0 \in 0..Total /\ Listed(0)
          BY <4>1, Bodies DEF Asking
        <5>2. QED
          BY <5>1
      <4>2. CASE Taken
        BY <4>2, AtWaits DEF Taken
      <4>3. CASE Answering
        BY <4>3, AtWaits DEF Answering, UnderWay
      <4>4. QED
        BY <2>2, <4>1, <4>2, <4>3
    <3>3. QED
      BY <3>1, <3>2, ListedPrefix
  <2>3. CASE Found
    <3>1. ASSUME calls = 0, host # "discovery"
          PROVE  objlist = DevObjects /\ used = Len(DevObjects) /\ table = used
      BY <2>3, <3>1 DEF Found, Total
    <3>2. ASSUME host = "discovery" PROVE IsPrefix(objlist, DevObjects)
      <4>1. objlist = DevObjects /\ objcount = Total
        BY <2>1, <2>3, <3>2 DEF Found
      <4>2. Total \in 0..Total /\ SubSeq(DevObjects, 1, Total) = DevObjects
        BY BodiesAssumption, Bodies, SubSeqFull DEF Total
      <4>3. Listed(Total)
        BY <4>1, <4>2 DEF Listed
      <4>4. QED
        BY <4>2, <4>3, ListedPrefix
    <3>3. QED
      BY <3>1, <3>2
  <2>4. QED
    BY <2>1, <2>2, <2>3
<1>3. QED
  BY <1>1, <1>2, LinkInitInv, LinkStepInv, AskStep, ExactStep, PTL DEF LinkSpec
====
