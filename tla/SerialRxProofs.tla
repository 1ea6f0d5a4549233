---- MODULE SerialRxProofs ----
(* The receiver keeps in step with the frames for every byte width, buffer     *)
(* size and way in which the line cuts the bytes into reads.                   *)
EXTENDS SerialRx, SequenceTheorems, TLAPS

\* Whatever a read delivers is a sequence of bytes.
LEMMA DeliveriesAreBytes ==
    ASSUME NEW bs \in Deliveries
    PROVE  bs \in Seq(Byte)
<1>1. CASE expect = 0
  BY <1>1, EmptySeq DEF Deliveries
<1>2. CASE expect # 0
  <2>1. PICK k \in 1..(IF expect < MaxRead THEN expect ELSE MaxRead) : bs \in [1..k -> Byte]
    BY <1>2 DEF Deliveries
  <2>2. k \in Nat
    BY <2>1
  <2>3. QED
    BY <2>1, <2>2
<1>3. QED
  BY <1>1, <1>2

\* A length is an integer when its bytes are in the buffer.
LEMMA NumberToIntType ==
    ASSUME NEW b \in Seq(Byte), NEW n \in Int, Len(b) >= 1 + n
    PROVE  NumberToInt(b, n) \in Int
<1>1. Base \in Int /\ \A x \in Byte : x \in Int
  BY ByteAssumption DEF Base, Byte
<1>2. \A i \in 1..Len(b) : b[i] \in Int
  BY <1>1, ElementOfSeq
<1>3. CASE n = 1
  BY <1>2, <1>3 DEF NumberToInt
<1>4. CASE n = 2
  <2>1. b[2] \in Int /\ b[3] \in Int
    BY <1>2, <1>4
  <2>2. Base * b[3] \in Int
    BY <1>1, <2>1
  <2>3. QED
    BY <1>4, <2>1, <2>2 DEF NumberToInt
<1>5. CASE n = 4
  <2> DEFINE u == b[2] + Base * (b[3] + Base * (b[4] + Base * b[5]))
             w == Base * Base * Base * Base
  <2>1. b[2] \in Int /\ b[3] \in Int /\ b[4] \in Int /\ b[5] \in Int
    BY <1>2, <1>5
  <2>2. u \in Int /\ w \in Int
    <3>1. Base * b[5] \in Int
      BY <1>1, <2>1
    <3>2. b[4] + Base * b[5] \in Int
      BY <2>1, <3>1
    <3>3. Base * (b[4] + Base * b[5]) \in Int
      BY <1>1, <3>2
    <3>4. b[3] + Base * (b[4] + Base * b[5]) \in Int
      BY <2>1, <3>3
    <3>5. Base * (b[3] + Base * (b[4] + Base * b[5])) \in Int
      BY <1>1, <3>4
    <3>6. Base * Base \in Int /\ Base * Base * Base \in Int
      BY <1>1
    <3>7. u \in Int
      BY <2>1, <3>5
    <3>8. w \in Int
      BY <1>1, <3>6
    <3>9. QED
      BY <3>7, <3>8
  <2>3. NumberToInt(b, n) = IF b[5] > MaxByte \div 2 THEN u - w ELSE u
    BY <1>5 DEF NumberToInt
  <2> HIDE DEF u, w
  <2>4. QED
    BY <2>2, <2>3
<1>6. CASE n # 1 /\ n # 2 /\ n # 4
  BY <1>6 DEF NumberToInt
<1>7. QED
  BY <1>3, <1>4, <1>5, <1>6

\* A size of sizes is an integer.
LEMMA SignedType ==
    ASSUME NEW x \in Byte
    PROVE  Signed(x) \in Int
  BY ByteAssumption DEF Signed, Base, Byte

\* The chunk stays a natural size and never shrinks, and holds what is asked for
\* unless that was refused; a refusal is not forgotten.
LEMMA ExpectBytesStep ==
    ASSUME alloc \in Nat, denied \in BOOLEAN, NEW n \in Int, ExpectBytes(n)
    PROVE  /\ expect' = n /\ denied' \in BOOLEAN
           /\ alloc' \in Nat /\ alloc' >= alloc /\ (~denied' => alloc' >= n)
           /\ ~denied' => ~denied
           /\ n <= alloc => denied' = denied
<1>1. /\ expect' = n /\ alloc' \in Nat /\ alloc' >= alloc
      /\ alloc' >= n \/ denied' = TRUE
  BY DEF ExpectBytes, Realloc
<1>2. denied' = TRUE \/ denied' = denied
  BY Zenon DEF ExpectBytes, Realloc
<1>3. ~denied' => alloc' >= n
  BY Zenon, <1>1
<1>4. denied' \in BOOLEAN /\ (~denied' => ~denied)
  BY <1>2
<1>5. ASSUME n <= alloc PROVE denied' = denied
  <2>1. ~(alloc - n < 0)
    BY <1>5
  <2>2. QED
    BY Zenon, <2>1 DEF ExpectBytes
<1>6. QED
  BY Zenon, <1>1, <1>3, <1>4, <1>5

\* What is read as an object is a sequence of bytes.
LEMMA ParsedType ==
    ASSUME NEW b \in Seq(Byte), szSz \in Int, szSz >= 0, NEW o \in Parsed(b)
    PROVE  o \in Seq(Byte)
<1> DEFINE body == SubSeq(b, 2 + szSz, Len(b))
<1>1. body \in Seq(Byte)
  <2>1. \A i \in (2 + szSz)..Len(b) : b[i] \in Byte
    BY ElementOfSeq
  <2>2. QED
    BY <2>1, SubSeqProperties
<1>2. \/ \E k \in 1..Len(body) : o = SubSeq(body, 1, k)
      \/ \E m \in Beyond : o = body \o m
  BY Zenon DEF Parsed
<1> HIDE DEF body
<1>3. CASE \E k \in 1..Len(body) : o = SubSeq(body, 1, k)
  <2>1. PICK k \in 1..Len(body) : o = SubSeq(body, 1, k)
    BY <1>3
  <2>2. \A i \in 1..k : body[i] \in Byte
    BY <1>1, ElementOfSeq
  <2>3. QED
    BY <1>1, <2>1, <2>2, SubSeqProperties
<1>4. CASE \E m \in Beyond : o = body \o m
  BY <1>1, <1>4, BeyondAssumption, ConcatProperties
<1>5. QED
  BY <1>2, <1>3, <1>4

------------------------------------------------------------------------------
(* Types and frames.  They are proved together: that a length is a number rests *)
(* on its bytes being in the buffer, which the shape of the frame tells.        *)

RxInv == TypeOK /\ FrameShape

\* A read that completes what was expected: one step per handler state.
LEMMA HandleDataStep ==
    ASSUME RxInv, NEW b \in Seq(Byte), Len(b) = Len(buf) + expect, expect >= 0,
           b # <<>>, buf # <<>> => b[1] = buf[1],
           rxstate = "GET_BODY" => NumberToInt(b, szSz) \in Int,
           HandleData(b), host' = host, roamed' = roamed
    PROVE  RxInv'
<1> USE DEF RxInv
<1>1. b[1] \in Byte /\ Len(b) \in Nat /\ Len(b) >= 1
  BY ElementOfSeq
<1>2. <<>> \in Seq(Byte)
  BY EmptySeq
<1>3. CASE InitWaitStart(b)
  <2>1. CASE b[1] # Start
    BY <1>2, <1>3, <2>1 DEF InitWaitStart, NextFrame, TypeOK, FrameShape, WholeFrame, CutFrame
  <2>2. CASE b[1] = Start
    <3>1. /\ buf' = b /\ cut' = cut /\ rxstate' = "DISCOVERY" /\ ExpectBytes(5)
          /\ UNCHANGED <<handler, szSz, state, objlist, objcount>>
          /\ handler = "init" /\ rxstate = "WAIT_START"
      BY <1>3, <2>2 DEF InitWaitStart, Store
    <3>2. expect' = 5 /\ alloc' \in Nat /\ denied' \in BOOLEAN
      BY <3>1, ExpectBytesStep DEF TypeOK
    <3>3. TypeOK'
      BY <3>1, <3>2 DEF TypeOK, RxStates
    <3>4. CASE cut
      <4>1. Len(b) + 5 > 6 /\ b # <<>>
        BY <3>1, <3>4 DEF FrameShape, CutFrame, TypeOK
      <4>2. QED
        BY <2>2, <3>1, <3>2, <3>3, <3>4, <4>1 DEF FrameShape, CutFrame
    <3>5. CASE ~cut
      <4>1. Len(b) = 1
        BY <3>1, <3>5 DEF FrameShape, WholeFrame, TypeOK
      <4>2. QED
        <5>1. buf' # <<>> /\ buf'[1] = Start /\ Len(buf') + expect' = 6 /\ expect' > 0
          <6>1. buf' = b /\ expect' = 5
            BY <3>1, <3>2
          <6>2. buf' # <<>> /\ buf'[1] = Start
            BY <2>2, <6>1
          <6>3. Len(buf') = 1
            BY <4>1, <6>1
          <6>4. Len(buf') + expect' = 6
            <7>1. Len(buf') + expect' = 1 + 5
              BY <6>1, <6>3, Zenon
            <7>2. QED
              BY <7>1
          <6>5. expect' > 0
            BY <6>1
          <6>6. QED
            BY <6>2, <6>4, <6>5
        <5>2. rxstate' = "DISCOVERY" /\ handler' = "init" /\ ~cut'
          BY <3>1, <3>5
        <5>3. WholeFrame'
          BY <5>1, <5>2 DEF WholeFrame
        <5>4. QED
          BY <3>3, <5>2, <5>3 DEF FrameShape
    <3>6. QED
      BY <3>4, <3>5 DEF TypeOK
  <2>3. QED
    BY <2>1, <2>2
<1>4. CASE InitDiscovery(b)
  <2>1. Len(b) >= 6
    BY <1>4 DEF InitDiscovery, FrameShape, WholeFrame, CutFrame, TypeOK
  <2>2. b[2] \in Byte
    BY <2>1, ElementOfSeq
  <2>3. szSz' \in Int
    BY <1>4, <2>2, SignedType DEF InitDiscovery
  <2>4. /\ buf' = <<>> /\ expect' = 1 /\ cut' = FALSE /\ rxstate' = "WAIT_START"
        /\ handler' = "packets" /\ UNCHANGED <<alloc, state, objlist, objcount>> /\ denied' = FALSE
    BY <1>4 DEF InitDiscovery, NextFrame
  <2>5. TypeOK'
    <3>1. buf' \in Seq(Byte) /\ handler' \in Handlers /\ rxstate' \in RxStates
      BY <1>2, <2>4 DEF Handlers, RxStates
    <3>2. alloc' \in Nat /\ expect' \in Int /\ state' \in Nat /\ objcount' \in Nat
      BY <2>4 DEF TypeOK
    <3>3. objlist' \in Seq(Seq(Byte)) /\ host' \in Hosts
      BY <2>4 DEF TypeOK
    <3>4. cut' \in BOOLEAN /\ denied' \in BOOLEAN /\ roamed' \in BOOLEAN
      BY <2>4 DEF TypeOK
    <3>5. QED
      BY <2>3, <3>1, <3>2, <3>3, <3>4 DEF TypeOK
  <2>6. WholeFrame'
    BY <2>4 DEF WholeFrame
  <2>7. QED
    BY <2>4, <2>5, <2>6 DEF FrameShape
<1>5. CASE PktWaitStart(b)
  <2>1. ~cut /\ handler = "packets" /\ rxstate = "WAIT_START" /\ Len(b) = 1
    BY <1>5 DEF PktWaitStart, FrameShape, WholeFrame, CutFrame, TypeOK
  <2>2. CASE b[1] # Start
    BY <1>2, <1>5, <2>1, <2>2 DEF PktWaitStart, NextFrame, TypeOK, FrameShape, WholeFrame
  <2>3. CASE b[1] = Start
    <3>1. /\ buf' = b /\ cut' = cut /\ rxstate' = "GET_LEN" /\ ExpectBytes(szSz)
          /\ UNCHANGED <<handler, szSz, state, objlist, objcount>>
      BY <1>5, <2>3 DEF PktWaitStart, Store
    <3>2. expect' = szSz /\ alloc' \in Nat /\ denied' \in BOOLEAN /\ szSz \in Int
      BY <3>1, ExpectBytesStep DEF TypeOK
    <3>3. TypeOK'
      BY <3>1, <3>2 DEF TypeOK, RxStates
    <3>4. QED
      BY <2>1, <2>3, <3>1, <3>2, <3>3 DEF FrameShape, WholeFrame
  <2>4. QED
    BY <2>2, <2>3
<1>6. CASE PktGetLen(b)
  <2>1. ~cut /\ handler = "packets" /\ buf # <<>> /\ buf[1] = Start /\ Len(b) = 1 + szSz
        /\ szSz \in Int
    BY <1>6 DEF PktGetLen, FrameShape, WholeFrame, CutFrame, TypeOK
  <2> DEFINE n == NumberToInt(b, szSz)
  <2>2. n \in Int
    BY <2>1, NumberToIntType
  <2> HIDE DEF n
  <2>3. /\ buf' = b /\ cut' = cut /\ rxstate' = "GET_BODY" /\ ExpectBytes(n)
        /\ UNCHANGED <<handler, szSz, state, objlist, objcount>>
    BY <1>6 DEF PktGetLen, Store, n
  <2>4. expect' = n /\ alloc' \in Nat /\ denied' \in BOOLEAN
    BY <2>2, <2>3, ExpectBytesStep DEF TypeOK
  <2>5. TypeOK'
    BY <2>2, <2>3, <2>4 DEF TypeOK, RxStates
  <2>6. Len(buf') + expect' = 1 + szSz' + NumberToInt(buf', szSz')
    BY <2>1, <2>3, <2>4 DEF n
  <2>7. QED
    BY <1>1, <2>1, <2>3, <2>5, <2>6 DEF FrameShape, WholeFrame
<1>7. CASE PktGetBody(b)
  <2>1. ~cut /\ szSz \in Int /\ szSz >= 0 /\ handler = "packets"
    BY <1>7 DEF PktGetBody, FrameShape, WholeFrame, CutFrame, TypeOK
  <2>2. \A o \in Parsed(b) : o \in Seq(Byte)
    BY <2>1, ParsedType
  <2>3. state' \in Nat /\ objcount' \in Nat /\ objlist' \in Seq(Seq(Byte))
    <3>1. CASE state # 0 \/ NumberToInt(b, szSz) = 1
      BY <1>7, <3>1 DEF PktGetBody, TypeOK
    <3>2. CASE ~(state # 0 \/ NumberToInt(b, szSz) = 1)
      <4>1. PICK o \in Parsed(b) : /\ objlist' = Append(objlist, o)
                                    /\ objcount' = objcount + 1 /\ state' = state
        BY <1>7, <3>2 DEF PktGetBody
      <4>2. objlist' \in Seq(Seq(Byte))
        BY <2>2, <4>1, AppendProperties DEF TypeOK
      <4>3. QED
        BY <4>1, <4>2 DEF TypeOK
    <3>3. QED
      BY <3>1, <3>2
  <2>4. /\ buf' = <<>> /\ expect' = 1 /\ cut' = FALSE /\ rxstate' = "WAIT_START"
        /\ UNCHANGED <<alloc, handler, szSz>> /\ denied' = FALSE
    BY <1>7 DEF PktGetBody, NextFrame
  <2>5. TypeOK'
    <3>1. buf' \in Seq(Byte) /\ handler' \in Handlers /\ rxstate' \in RxStates
      BY <1>2, <2>4 DEF TypeOK, RxStates
    <3>2. alloc' \in Nat /\ expect' \in Int /\ szSz' \in Int /\ host' \in Hosts
      BY <2>4 DEF TypeOK
    <3>3. cut' \in BOOLEAN /\ denied' \in BOOLEAN /\ roamed' \in BOOLEAN
      BY <2>4 DEF TypeOK
    <3>4. QED
      BY <2>3, <3>1, <3>2, <3>3 DEF TypeOK
  <2>6. WholeFrame'
    BY <2>4 DEF WholeFrame
  <2>7. QED
    BY <2>4, <2>5, <2>6 DEF FrameShape
<1>8. QED
  BY <1>3, <1>4, <1>5, <1>6, <1>7 DEF HandleData

\* A length depends on the header only, which later bytes do not change.
LEMMA NumberToIntPrefix ==
    ASSUME NEW b \in Seq(Byte), NEW c \in Seq(Byte), NEW n \in Int, Len(b) >= 1 + n,
           \A i \in 1..Len(b) : c[i] = b[i]
    PROVE  NumberToInt(c, n) = NumberToInt(b, n)
<1>1. CASE n = 1
  BY <1>1 DEF NumberToInt
<1>2. CASE n = 2
  BY <1>2 DEF NumberToInt
<1>3. CASE n = 4
  <2>1. c[2] = b[2] /\ c[3] = b[3] /\ c[4] = b[4] /\ c[5] = b[5]
    BY <1>3
  <2>2. QED
    BY <1>3, <2>1 DEF NumberToInt
<1>4. CASE n # 1 /\ n # 2 /\ n # 4
  BY <1>4 DEF NumberToInt
<1>5. QED
  BY <1>1, <1>2, <1>3, <1>4

\* What a read does to the bytes in the buffer.
LEMMA ReceiveBytes ==
    ASSUME RxInv, NEW bs \in Seq(Byte), Receive(bs)
    PROVE  /\ buf \o bs \in Seq(Byte)
           /\ Len(buf \o bs) = Len(buf) + Len(bs)
           /\ Len(buf) \in Nat /\ Len(bs) \in Nat /\ expect >= Len(bs)
           /\ \A i \in 1..Len(buf) : (buf \o bs)[i] = buf[i]
           /\ buf \o bs # <<>>
           /\ buf # <<>> => (buf \o bs)[1] = buf[1]
<1>1. buf \in Seq(Byte) /\ expect \in Int
  BY DEF RxInv, TypeOK
<1>2. Len(buf) \in Nat /\ Len(bs) \in Nat
  BY <1>1
<1>3. expect >= Len(bs)
  BY <1>1, <1>2 DEF Receive
<1>4. /\ buf \o bs \in Seq(Byte)
      /\ Len(buf \o bs) = Len(buf) + Len(bs)
      /\ \A i \in 1..Len(buf) : (buf \o bs)[i] = buf[i]
  BY <1>1, <1>2, ConcatProperties
<1>5. buf # <<>> => Len(buf) >= 1
  BY <1>1
<1>6. buf = <<>> => Len(bs) >= 1
  <2> SUFFICES ASSUME buf = <<>> PROVE Len(bs) >= 1
    OBVIOUS
  <2>1. expect > 0
    <3>1. handler # "none"
      BY DEF Receive, Listening
    <3>2. rxstate = "WAIT_START"
      BY DEF RxInv, FrameShape, WholeFrame, CutFrame
    <3>3. expect = 1
      BY <3>1, <3>2 DEF RxInv, FrameShape, WholeFrame, CutFrame
    <3>4. QED
      BY <3>3
  <2>2. bs # <<>>
    BY <2>1 DEF Receive
  <2>3. QED
    BY <2>2
<1>7. buf \o bs # <<>>
  BY <1>2, <1>4, <1>5, <1>6
<1>8. buf # <<>> => (buf \o bs)[1] = buf[1]
  BY <1>2, <1>4, <1>5
<1>9. QED
  BY <1>2, <1>3, <1>4, <1>7, <1>8

\* One call of the handler: the frame stays in shape.
LEMMA ReceiveStep ==
    ASSUME RxInv, NEW bs \in Seq(Byte), Receive(bs)
    PROVE  RxInv'
<1> DEFINE b == buf \o bs
<1>1. /\ b \in Seq(Byte) /\ Len(b) = Len(buf) + Len(bs)
      /\ Len(buf) \in Nat /\ Len(bs) \in Nat /\ expect >= Len(bs)
      /\ \A i \in 1..Len(buf) : b[i] = buf[i]
      /\ b # <<>> /\ (buf # <<>> => b[1] = buf[1])
  BY ReceiveBytes
<1>2. expect \in Int /\ szSz \in Int /\ buf \in Seq(Byte)
  BY DEF RxInv, TypeOK
<1>3. CASE Len(bs) = expect
  <2>1. HandleData(b) /\ host' = host /\ roamed' = roamed
    BY <1>3 DEF Receive
  <2>2. rxstate = "GET_BODY" => NumberToInt(b, szSz) \in Int
    <3> SUFFICES ASSUME rxstate = "GET_BODY" PROVE NumberToInt(b, szSz) \in Int
      OBVIOUS
    <3>1. Len(buf) >= 1 + szSz
      BY DEF RxInv, FrameShape, WholeFrame, CutFrame
    <3>2. Len(b) >= 1 + szSz
      BY <1>1, <1>2, <3>1
    <3>3. QED
      BY <1>1, <1>2, <3>2, NumberToIntType
  <2>3. Len(b) = Len(buf) + expect /\ expect >= 0
    BY <1>1, <1>3
  <2> HIDE DEF b
  <2>4. QED
    BY <1>1, <2>1, <2>2, <2>3, HandleDataStep
<1>4. CASE Len(bs) # expect
  <2>1. /\ buf' = b /\ expect' = expect - Len(bs)
        /\ UNCHANGED <<alloc, denied, handler, rxstate, szSz, state, objlist, objcount, cut>>
        /\ host' = host /\ roamed' = roamed
    BY <1>4 DEF Receive
  <2>2. expect' \in Int /\ expect' > 0 /\ Len(buf') + expect' = Len(buf) + expect
    BY <1>1, <1>2, <1>4, <2>1
  <2>3. TypeOK'
    BY <1>1, <2>1, <2>2 DEF RxInv, TypeOK
  <2>4. rxstate # "WAIT_START"
    <3>1. expect > 1
      <4>1. expect > 0
        BY <1>1, <1>2, <1>4
      <4>2. bs # <<>>
        BY <4>1 DEF Receive
      <4>3. Len(bs) >= 1
        BY <4>2
      <4>4. QED
        BY <1>1, <1>2, <1>4, <4>3
    <3>2. handler # "none"
      BY DEF Receive, Listening
    <3>3. QED
      BY <3>1, <3>2 DEF RxInv, FrameShape, WholeFrame, CutFrame
  <2>5. CASE cut
    <3>1. CutFrame
      BY <2>5 DEF RxInv, FrameShape
    <3>2. /\ handler' = "init" /\ buf' # <<>> /\ buf'[1] = Start /\ rxstate' = "DISCOVERY"
          /\ cut'
      BY <1>1, <2>1, <2>4, <2>5, <3>1 DEF CutFrame
    <3>3. Len(buf') + expect' > 6
      BY <2>2, <2>4, <3>1 DEF CutFrame
    <3>4. CutFrame'
      BY <2>2, <3>2, <3>3 DEF CutFrame
    <3>5. QED
      BY <2>3, <3>2, <3>4 DEF RxInv, FrameShape
  <2>6. CASE ~cut
    <3>1. WholeFrame
      BY <2>6 DEF RxInv, FrameShape
    <3>2. /\ buf' # <<>> /\ buf'[1] = Start /\ rxstate' # "WAIT_START"
          /\ rxstate' = rxstate /\ handler' = handler /\ szSz' = szSz /\ ~cut'
      BY <1>1, <2>1, <2>4, <2>6, <3>1 DEF WholeFrame
    <3>3. rxstate = "DISCOVERY" =>
             handler' = "init" /\ Len(buf') + expect' = 6 /\ expect' > 0
      BY <2>2, <3>1, <3>2 DEF WholeFrame
    <3>4. rxstate = "GET_LEN" =>
             handler' = "packets" /\ Len(buf') + expect' = 1 + szSz' /\ ~(expect' < 0)
      BY <2>2, <3>1, <3>2 DEF WholeFrame
    <3>5. rxstate = "GET_BODY" =>
             /\ handler' = "packets" /\ szSz' >= 0
             /\ Len(buf') >= 1 + szSz'
             /\ Len(buf') + expect' = 1 + szSz' + NumberToInt(buf', szSz')
      <4> SUFFICES ASSUME rxstate = "GET_BODY"
                   PROVE  /\ handler' = "packets" /\ szSz' >= 0
                          /\ Len(buf') >= 1 + szSz'
                          /\ Len(buf') + expect' = 1 + szSz' + NumberToInt(buf', szSz')
        OBVIOUS
      <4>1. /\ handler = "packets" /\ szSz >= 0 /\ Len(buf) >= 1 + szSz
            /\ Len(buf) + expect = 1 + szSz + NumberToInt(buf, szSz)
        BY <3>1 DEF WholeFrame
      <4> HIDE DEF b
      <4>2. NumberToInt(b, szSz) = NumberToInt(buf, szSz)
        BY <1>1, <1>2, <4>1, NumberToIntPrefix
      <4>3. NumberToInt(buf', szSz') = NumberToInt(buf, szSz)
        BY <2>1, <4>2
      <4>4. Len(buf') >= 1 + szSz'
        BY <1>1, <1>2, <2>1, <4>1
      <4>5. Len(buf') + expect' = 1 + szSz' + NumberToInt(buf', szSz')
        BY <2>2, <3>2, <4>1, <4>3
      <4>6. QED
        BY <3>2, <4>1, <4>4, <4>5
    <3>6. WholeFrame'
      BY <3>2, <3>3, <3>4, <3>5 DEF WholeFrame
    <3>7. QED
      BY <2>3, <3>2, <3>6 DEF RxInv, FrameShape
  <2>7. QED
    BY <2>5, <2>6
<1>5. QED
  BY <1>3, <1>4

\* The script's operations leave the receiver alone, except for discovery.
LEMMA DiscoverStep ==
    ASSUME RxInv, Discover
    PROVE  RxInv'
<1>1. /\ host' = "discovery" /\ objcount' = 0 /\ ExpectBytes(1) /\ handler' = "init"
      /\ rxstate' = "WAIT_START" /\ state' = 0 /\ cut' = (buf # <<>>)
      /\ UNCHANGED <<buf, szSz, objlist, roamed>>
  BY DEF Discover
<1>2. expect' = 1 /\ alloc' \in Nat /\ denied' \in BOOLEAN
  BY <1>1, ExpectBytesStep DEF RxInv, TypeOK
<1>3. TypeOK'
  <2>1. /\ host' \in Hosts /\ handler' \in Handlers /\ rxstate' \in RxStates
        /\ cut' \in BOOLEAN /\ denied' \in BOOLEAN /\ roamed' \in BOOLEAN
    BY <1>1, <1>2 DEF RxInv, TypeOK, Hosts, Handlers, RxStates
  <2>2. /\ buf' \in Seq(Byte) /\ szSz' \in Int /\ objlist' \in Seq(Seq(Byte))
        /\ objcount' \in Nat /\ state' \in Nat
    BY <1>1 DEF RxInv, TypeOK
  <2>3. QED
    BY <1>2, <2>1, <2>2 DEF TypeOK
<1>4. CASE buf = <<>>
  <2>1. buf' = <<>> /\ ~cut'
    BY <1>1, <1>4
  <2>2. WholeFrame'
    BY <1>1, <1>2, <2>1 DEF WholeFrame
  <2>3. QED
    BY <1>3, <2>1, <2>2 DEF RxInv, FrameShape
<1>5. CASE buf # <<>>
  <2>1. buf[1] = Start
    BY <1>5 DEF RxInv, FrameShape, WholeFrame, CutFrame
  <2>2. buf' # <<>> /\ buf'[1] = Start /\ cut'
    BY <1>1, <1>5, <2>1
  <2>3. CutFrame'
    BY <1>1, <1>2, <2>2 DEF CutFrame
  <2>4. QED
    BY <1>3, <2>2, <2>3 DEF RxInv, FrameShape
<1>6. QED
  BY <1>4, <1>5

\* At open the receiver is between frames.
LEMMA RxInitInv == Init => RxInv
<1> SUFFICES ASSUME Init PROVE RxInv
  OBVIOUS
<1>1. TypeOK
  <2>1. <<>> \in Seq(Byte) /\ <<>> \in Seq(Seq(Byte))
    BY EmptySeq
  <2>2. alloc \in Nat /\ expect \in Int /\ szSz \in Int /\ state \in Nat /\ objcount \in Nat
    BY AllocAssumption DEF Init
  <2>3. host \in Hosts /\ handler \in Handlers /\ rxstate \in RxStates
    BY DEF Init, Hosts, Handlers, RxStates
  <2>4. buf \in Seq(Byte) /\ objlist \in Seq(Seq(Byte))
    BY <2>1 DEF Init
  <2>5. cut \in BOOLEAN /\ denied \in BOOLEAN /\ roamed \in BOOLEAN
    BY DEF Init
  <2>6. QED
    BY <2>2, <2>3, <2>4, <2>5 DEF TypeOK
<1>2. WholeFrame /\ ~cut
  BY DEF Init, WholeFrame
<1>3. QED
  BY <1>1, <1>2 DEF RxInv, FrameShape

\* What does not touch the buffer or the parser keeps the frame.
LEMMA ParserSame ==
    ASSUME RxInv,
           UNCHANGED <<buf, alloc, denied, expect, handler, rxstate, szSz, objlist, objcount, cut>>,
           state' \in Nat, host' \in Hosts, roamed' \in BOOLEAN
    PROVE  RxInv'
<1>1. TypeOK'
  BY DEF RxInv, TypeOK
<1>2. FrameShape'
  BY DEF RxInv, FrameShape, WholeFrame, CutFrame
<1>3. QED
  BY <1>1, <1>2 DEF RxInv

\* A step that leaves the receiver alone.
LEMMA RxSame ==
    ASSUME RxInv, UNCHANGED vars
    PROVE  RxInv'
  BY ParserSame DEF vars, rxVars, RxInv, TypeOK

\* The script's other operations leave the parser alone.
LEMMA ScriptStep ==
    ASSUME RxInv, CallReply \/ Return \/ GoElsewhere \/ ComeBack \/ LoopForever
    PROVE  RxInv'
<1>1. CASE CallReply
  BY <1>1, ParserSame DEF CallReply, RxInv, TypeOK, Hosts
<1>2. CASE Return
  BY <1>2, ParserSame DEF Return, rxVars, RxInv, TypeOK, Hosts
<1>3. CASE GoElsewhere
  BY <1>3, ParserSame DEF GoElsewhere, rxVars, RxInv, TypeOK, Hosts
<1>4. CASE ComeBack
  BY <1>4, ParserSame DEF ComeBack, rxVars, RxInv, TypeOK, Hosts
<1>5. CASE LoopForever
  BY <1>5, ParserSame DEF LoopForever, rxVars, RxInv, TypeOK, Hosts
<1>6. QED
  BY <1>1, <1>2, <1>3, <1>4, <1>5

\* The parser, the buffer and the bytes expected always describe one frame
\* (asyncio.c 62-75 and 140-150, serial.c 103-212 and 288-308).
THEOREM FramesCorrect == Spec => [](TypeOK /\ FrameShape)
<1>1. RxInv /\ [Next]_vars => RxInv'
  <2> SUFFICES ASSUME RxInv, [Next]_vars PROVE RxInv'
    OBVIOUS
  <2>1. CASE Discover
    BY <2>1, DiscoverStep
  <2>2. CASE CallReply \/ Return \/ GoElsewhere \/ ComeBack \/ LoopForever
    BY <2>2, ScriptStep
  <2>3. ASSUME NEW bs \in Deliveries, Receive(bs) PROVE RxInv'
    BY <2>3, DeliveriesAreBytes, ReceiveStep
  <2>4. CASE UNCHANGED vars
    BY <2>4, RxSame
  <2>5. QED
    BY <2>1, <2>2, <2>3, <2>4 DEF Next, Script
<1>2. QED
  BY <1>1, RxInitInv, PTL DEF Spec, RxInv

\* The receiver keeps to its types, whatever the line delivers.
THEOREM TypeCorrect == Spec => []TypeOK
  BY FramesCorrect, PTL

------------------------------------------------------------------------------
(* The script and the receiver.                                                *)

\* Besides the boundary itself: a wait ends only right after a whole frame.
BoundaryInv ==
    ~roamed =>
      /\ ~cut
      /\ host # "elsewhere"
      /\ host = "script" \/ (host \in {"discovery", "call"} /\ state # 0) =>
           rxstate = "WAIT_START" /\ buf = <<>>

\* Discovery finds the receiver between frames, so that it may leave what is in
\* the buffer alone, unless the script has waited on another instance
\* (serial.c 297-302, which resets the parser but not recv->size).
THEOREM BoundaryCorrect == Spec => []BoundaryAtScript
<1>1. Init => BoundaryInv
  BY DEF Init, BoundaryInv
<1>2. BoundaryInv /\ [Next]_vars => BoundaryInv'
  <2> SUFFICES ASSUME BoundaryInv, [Next]_vars, ~roamed' PROVE BoundaryInv'
    BY DEF BoundaryInv
  <2> USE DEF BoundaryInv
  <2>1. CASE Discover
    <3>1. ~roamed /\ host = "script" /\ host' = "discovery" /\ state' = 0 /\ cut' = (buf # <<>>)
      BY <2>1 DEF Discover
    <3>2. QED
      BY <3>1
  <2>2. CASE CallReply
    BY <2>2 DEF CallReply
  <2>3. CASE Return
    BY <2>3 DEF Return, rxVars
  <2>4. CASE GoElsewhere
    BY <2>4 DEF GoElsewhere
  <2>5. CASE ComeBack
    BY <2>5 DEF ComeBack
  <2>6. CASE LoopForever
    BY <2>6 DEF LoopForever, rxVars
  <2>7. ASSUME NEW bs \in Deliveries, Receive(bs) PROVE BoundaryInv'
    <3>1. ~roamed /\ host' = host /\ ~cut
      BY <2>7 DEF Receive
    <3>2. host = "loop" \/ (host \in {"discovery", "call"} /\ state = 0)
      BY <2>7, <3>1 DEF Receive, Listening
    <3>3. CASE Len(bs) # expect
      BY <2>7, <3>1, <3>2, <3>3 DEF Receive
    <3>4. CASE Len(bs) = expect
      <4>1. HandleData(buf \o bs)
        BY <2>7, <3>4 DEF Receive
      <4>2. CASE PktGetBody(buf \o bs)
        BY <3>1, <3>2, <4>2 DEF PktGetBody, NextFrame
      <4>3. CASE InitWaitStart(buf \o bs) \/ InitDiscovery(buf \o bs)
                 \/ PktWaitStart(buf \o bs) \/ PktGetLen(buf \o bs)
        <5>1. state' = state /\ ~cut'
          BY <3>1, <4>3 DEF InitWaitStart, InitDiscovery, PktWaitStart, PktGetLen,
             NextFrame, Store
        <5>2. QED
          BY <3>1, <3>2, <5>1
      <4>4. QED
        BY <4>1, <4>2, <4>3 DEF HandleData
    <3>5. QED
      BY <3>3, <3>4
  <2>8. CASE UNCHANGED vars
    BY <2>8 DEF vars, rxVars
  <2>9. QED
    BY <2>1, <2>2, <2>3, <2>4, <2>5, <2>6, <2>7, <2>8 DEF Next, Script
<1>3. BoundaryInv => BoundaryAtScript
  BY DEF BoundaryInv, BoundaryAtScript
<1>4. QED
  BY <1>1, <1>2, <1>3, PTL DEF Spec

\* Only a script that waits leaves nl->state at 0.
WaitInv == state = 0 /\ handler # "none" => host \in {"discovery", "call"}

\* A read never takes nl->state back to 0.
LEMMA ReceiveState ==
    ASSUME TypeOK, NEW bs, Receive(bs)
    PROVE  /\ state' # 0 \/ state' = state
           /\ objlist' # objlist => state = 0
<1>1. CASE Len(bs) # expect
  BY <1>1 DEF Receive
<1>2. CASE Len(bs) = expect
  <2> DEFINE b == buf \o bs
  <2>1. HandleData(b)
    BY <1>2 DEF Receive
  <2> HIDE DEF b
  <2>2. CASE PktGetBody(b)
    <3>1. \/ state' = state + 1 /\ objlist' = objlist
          \/ state' = state /\ state = 0
      BY <2>2 DEF PktGetBody
    <3>2. QED
      BY <3>1 DEF TypeOK
  <2>3. CASE InitWaitStart(b) \/ InitDiscovery(b) \/ PktWaitStart(b) \/ PktGetLen(b)
    BY <2>3 DEF InitWaitStart, InitDiscovery, PktWaitStart, PktGetLen
  <2>4. QED
    BY <2>1, <2>2, <2>3 DEF HandleData
<1>3. QED
  BY <1>1, <1>2

\* Events and answers that arrive while the script runs, waits elsewhere or has
\* ended never touch the objects it knows (serial.c 128-161, 273-275, 302-305).
THEOREM ObjectsFrozenCorrect == Spec => ObjectsFrozen
<1>1. Init => WaitInv
  BY DEF Init, WaitInv
<1>2. TypeOK /\ WaitInv /\ [Next]_vars => WaitInv'
  <2> SUFFICES ASSUME TypeOK, WaitInv, [Next]_vars PROVE WaitInv'
    OBVIOUS
  <2> USE DEF WaitInv
  <2>1. CASE Discover
    BY <2>1 DEF Discover
  <2>2. CASE CallReply
    BY <2>2 DEF CallReply
  <2>3. CASE Return
    BY <2>3 DEF Return, rxVars
  <2>4. CASE GoElsewhere
    BY <2>4 DEF GoElsewhere, rxVars
  <2>5. CASE ComeBack
    BY <2>5 DEF ComeBack, rxVars
  <2>6. CASE LoopForever
    BY <2>6 DEF LoopForever, rxVars
  <2>7. ASSUME NEW bs \in Deliveries, Receive(bs) PROVE WaitInv'
    <3>1. handler # "none" /\ host' = host
      BY <2>7 DEF Receive, Listening
    <3>2. QED
      BY <2>7, <3>1, ReceiveState
  <2>8. CASE UNCHANGED vars
    BY <2>8 DEF vars, rxVars
  <2>9. QED
    BY <2>1, <2>2, <2>3, <2>4, <2>5, <2>6, <2>7, <2>8 DEF Next, Script
<1>3. TypeOK /\ WaitInv /\ [Next]_vars =>
        [objlist' # objlist => host \in {"discovery", "call"}]_vars
  <2> SUFFICES ASSUME TypeOK, WaitInv, Next, objlist' # objlist
               PROVE  host \in {"discovery", "call"}
    BY DEF vars, rxVars
  <2>1. PICK bs \in Deliveries : Receive(bs)
    BY DEF Next, Script, Discover, CallReply, Return, GoElsewhere, ComeBack, LoopForever, rxVars
  <2>2. state = 0 /\ handler # "none"
    BY <2>1, ReceiveState DEF Receive, Listening
  <2>3. QED
    BY <2>2 DEF WaitInv
<1>4. QED
  BY <1>1, <1>2, <1>3, FramesCorrect, PTL DEF Spec, ObjectsFrozen

------------------------------------------------------------------------------
(* The size of the chunk.                                                      *)

\* How much further an information packet may run that is read over a cut frame.
Slack(c, r) == IF c /\ r = "DISCOVERY" THEN 5 ELSE 0

\* Where the bytes of a frame, come and to come, stand to the chunk.  Only in a
\* discovery, and before its information packet is complete, is the first handler
\* installed: a discovery never cuts the packet of another.
RoomInv ==
    /\ alloc >= Alloc0
    /\ handler = "init" => host = "discovery" /\ state = 0
    /\ handler = "none" => expect = 0
    /\ ~cut /\ rxstate \in {"WAIT_START", "DISCOVERY"} => ~denied
    /\ rxstate = "GET_BODY" /\ expect <= 0 => Len(buf) = 1 + szSz
    /\ ~denied => Len(buf) + expect <= alloc + Header(szSz) + Slack(cut, rxstate)

\* The size of a header.
LEMMA HeaderType ==
    ASSUME NEW n \in Int
    PROVE  Header(n) \in Nat /\ Header(n) >= 1 /\ Header(n) >= 1 + n
  BY DEF Header

\* A receiver that was reset.
LEMMA ResetRoom ==
    ASSUME RxInv, RoomInv,
           buf' = <<>>, expect' = 1, alloc' = alloc, ~denied', ~cut',
           rxstate' = "WAIT_START", szSz' \in Int, handler' # "none",
           handler' = "init" => host' = "discovery" /\ state' = 0
    PROVE  RoomInv'
<1>1. alloc \in Nat /\ Alloc0 \in Nat /\ alloc' >= Alloc0
  BY AllocAssumption DEF RxInv, TypeOK, RoomInv
<1>2. Header(szSz') \in Nat /\ Header(szSz') >= 1
  BY HeaderType
<1>3. Slack(cut', rxstate') = 0
  BY Zenon DEF Slack
<1>4. Len(buf') + expect' <= alloc' + Header(szSz') + Slack(cut', rxstate')
  <2>1. Len(buf') = 0
    BY EmptySeq
  <2>2. alloc' \in Nat /\ expect' = 1
    BY <1>1
  <2>3. QED
    BY <1>2, <1>3, <2>1, <2>2
<1>5. QED
  BY <1>1, <1>4 DEF RoomInv

\* A frame that goes on, with what is expected of it.
LEMMA GoOnRoom ==
    ASSUME RxInv, RoomInv, NEW b \in Seq(Byte), NEW n \in Int, buf' = b, ExpectBytes(n),
           UNCHANGED <<host, cut, handler, szSz, state>>, handler # "none",
           rxstate' = "GET_BODY" => Len(b) = 1 + szSz,
           ~cut /\ rxstate' = "DISCOVERY" => ~denied',
           rxstate' # "WAIT_START",
           ~denied' => Len(b) + n <= alloc' + Header(szSz') + Slack(cut', rxstate')
    PROVE  RoomInv'
<1>1. /\ alloc \in Nat /\ denied \in BOOLEAN /\ Alloc0 \in Nat /\ szSz \in Int
      /\ alloc >= Alloc0
  BY AllocAssumption DEF RxInv, TypeOK, RoomInv
<1>2. expect' = n /\ alloc' \in Nat /\ alloc' >= alloc
  BY <1>1, ExpectBytesStep
<1>3. alloc' >= Alloc0
  BY <1>1, <1>2
<1>4. handler' = "init" => host' = "discovery" /\ state' = 0
  BY DEF RoomInv
<1>5. ~denied' => Len(buf') + expect' <= alloc' + Header(szSz') + Slack(cut', rxstate')
  BY <1>2
<1>6. rxstate' = "GET_BODY" => Len(buf') = 1 + szSz'
  OBVIOUS
<1>7. QED
  BY <1>3, <1>4, <1>5, <1>6 DEF RoomInv

\* What a read changes of the room for the frame it belongs to.
LEMMA ReceiveRoom ==
    ASSUME RxInv, RoomInv, NEW bs \in Seq(Byte), Receive(bs)
    PROVE  RoomInv'
<1> DEFINE b == buf \o bs
<1>1. /\ b \in Seq(Byte) /\ Len(b) = Len(buf) + Len(bs)
      /\ Len(buf) \in Nat /\ Len(bs) \in Nat /\ expect >= Len(bs)
      /\ handler # "none" /\ host' = host
  BY ReceiveBytes DEF Receive, Listening
<1>0. denied \in BOOLEAN /\ cut \in BOOLEAN
  BY DEF RxInv, TypeOK
<1>2. /\ szSz \in Int /\ alloc \in Nat /\ Alloc0 \in Nat /\ Alloc0 >= 6 /\ expect \in Int
      /\ alloc >= 6
  BY AllocAssumption DEF RxInv, TypeOK, RoomInv
<1>3. Header(szSz) \in Nat /\ Header(szSz) >= 1 /\ Header(szSz) >= 1 + szSz
  BY <1>2, HeaderType
<1>4. CASE Len(bs) # expect
  <2>1. /\ buf' = b /\ expect' = expect - Len(bs)
        /\ UNCHANGED <<host, alloc, denied, handler, rxstate, szSz, state, cut>>
    BY <1>4 DEF Receive
  <2>2. Len(buf') + expect' = Len(buf) + expect /\ expect' > 0
    BY <1>1, <1>2, <1>4, <2>1
  <2>3. Header(szSz') = Header(szSz) /\ Slack(cut', rxstate') = Slack(cut, rxstate)
    BY <2>1
  <2>4. ~denied' => Len(buf') + expect' <= alloc' + Header(szSz') + Slack(cut', rxstate')
    BY <2>1, <2>2, <2>3 DEF RoomInv
  <2>5. ~(expect' <= 0)
    BY <1>1, <1>2, <2>1, <2>2
  <2>6. QED
    BY <1>1, <2>1, <2>4, <2>5 DEF RoomInv
<1>5. CASE Len(bs) = expect
  <2>1. HandleData(b)
    BY <1>5 DEF Receive
  <2>2. Len(b) = Len(buf) + expect
    BY <1>1, <1>5
  <2> HIDE DEF b
  <2>3. CASE InitWaitStart(b)
    <3>1. handler = "init" /\ rxstate = "WAIT_START" /\ UNCHANGED <<handler, szSz, state>>
      BY <2>3 DEF InitWaitStart
    <3>2. CASE b[1] # Start
      BY <1>1, <1>2, <2>3, <3>1, <3>2, ResetRoom DEF InitWaitStart, NextFrame, RoomInv
    <3>3. CASE b[1] = Start
      <4>1. buf' = b /\ cut' = cut /\ rxstate' = "DISCOVERY" /\ ExpectBytes(5)
        BY <2>3, <3>3 DEF InitWaitStart, Store
      <4>2. 5 <= alloc
        BY <1>2
      <4>3. denied' = denied /\ alloc' \in Nat /\ alloc' >= alloc
        BY <1>0, <1>2, <4>1, <4>2, ExpectBytesStep
      <4>4. Header(szSz') = Header(szSz)
        BY <3>1
      <4>5. ~cut => ~denied
        BY <3>1 DEF RoomInv
      <4>6. ASSUME ~denied PROVE Len(b) + 5 <= alloc' + Header(szSz') + Slack(cut', rxstate')
        <5>1. CASE cut
          <6>1. expect = 1
            BY <3>1, <5>1 DEF RxInv, FrameShape, CutFrame
          <6>2. Slack(cut, rxstate) = 0 /\ Slack(cut', rxstate') = 5
            BY <3>1, <4>1, <5>1 DEF Slack
          <6>3. Len(buf) + expect <= alloc + Header(szSz) + Slack(cut, rxstate)
            BY <4>6 DEF RoomInv
          <6>4. QED
            BY <1>1, <1>2, <1>3, <2>2, <4>3, <4>4, <6>1, <6>2, <6>3
        <5>2. CASE ~cut
          <6>1. buf = <<>> /\ expect = 1
            BY <3>1, <5>2 DEF RxInv, FrameShape, WholeFrame
          <6>2. Slack(cut', rxstate') = 0
            BY <4>1, <5>2 DEF Slack
          <6>3. Len(b) = 1
            BY <2>2, <6>1, EmptySeq
          <6>4. alloc' \in Nat /\ alloc' >= 6
            BY <1>2, <4>3
          <6>5. QED
            BY <1>3, <4>4, <6>2, <6>3, <6>4
        <5>3. QED
          BY <5>1, <5>2
      <4>7. QED
        BY <1>1, <3>1, <4>1, <4>3, <4>5, <4>6, GoOnRoom
    <3>4. QED
      BY <3>2, <3>3
  <2>4. CASE InitDiscovery(b)
    <3>1. /\ buf' = <<>> /\ expect' = 1 /\ alloc' = alloc /\ ~denied' /\ ~cut'
          /\ rxstate' = "WAIT_START" /\ handler' = "packets"
      BY <2>4 DEF InitDiscovery, NextFrame
    <3>2. RxInv'
      BY ReceiveStep
    <3>3. szSz' \in Int
      BY <3>2 DEF RxInv, TypeOK
    <3>4. QED
      BY <3>1, <3>3, ResetRoom
  <2>5. CASE PktWaitStart(b)
    <3>1. /\ handler = "packets" /\ rxstate = "WAIT_START" /\ UNCHANGED <<handler, szSz, state>>
      BY <2>5 DEF PktWaitStart
    <3>2. CASE b[1] # Start
      BY <1>2, <2>5, <3>1, <3>2, ResetRoom DEF PktWaitStart, NextFrame
    <3>3. CASE b[1] = Start
      <4>1. buf' = b /\ cut' = cut /\ rxstate' = "GET_LEN" /\ ExpectBytes(szSz)
        BY <2>5, <3>3 DEF PktWaitStart, Store
      <4>2. alloc' \in Nat /\ (~denied' => alloc' >= szSz)
        BY <1>0, <1>2, <4>1, ExpectBytesStep
      <4>3. Header(szSz') = Header(szSz) /\ Slack(cut', rxstate') = 0
        BY <3>1, <4>1 DEF Slack
      <4>4. buf = <<>> /\ expect = 1
        BY <3>1 DEF RxInv, FrameShape, WholeFrame, CutFrame
      <4>5. Len(b) = 1
        BY <2>2, <4>4, EmptySeq
      <4>6. ASSUME ~denied' PROVE Len(b) + szSz <= alloc' + Header(szSz') + Slack(cut', rxstate')
        <5>1. alloc' >= szSz /\ alloc' \in Nat
          BY <4>2, <4>6
        <5>2. QED
          BY <1>2, <1>3, <4>3, <4>5, <5>1
      <4>7. QED
        BY <1>1, <1>2, <3>1, <4>1, <4>6, GoOnRoom
    <3>4. QED
      BY <3>2, <3>3
  <2>6. CASE PktGetLen(b)
    <3> DEFINE n == NumberToInt(b, szSz)
    <3>1. /\ rxstate = "GET_LEN" /\ buf' = b /\ cut' = cut /\ rxstate' = "GET_BODY"
          /\ ExpectBytes(n) /\ UNCHANGED <<handler, szSz, state>>
      BY <2>6 DEF PktGetLen, Store
    <3>2. Len(b) = 1 + szSz
      BY <2>2, <3>1 DEF RxInv, FrameShape, WholeFrame, CutFrame
    <3>3. Len(b) >= 1 + szSz
      BY <1>2, <3>2
    <3>4. n \in Int
      BY <1>1, <1>2, <3>3, NumberToIntType
    <3> HIDE DEF n
    <3>5. alloc' \in Nat /\ (~denied' => alloc' >= n)
      BY <1>0, <1>2, <3>1, <3>4, ExpectBytesStep
    <3>6. Header(szSz') = Header(szSz) /\ Slack(cut', rxstate') = 0
      BY <3>1 DEF Slack
    <3>7. ASSUME ~denied' PROVE Len(b) + n <= alloc' + Header(szSz') + Slack(cut', rxstate')
      <4>1. alloc' >= n /\ alloc' \in Nat
        BY <3>5, <3>7
      <4>2. QED
        BY <1>2, <1>3, <3>2, <3>4, <3>6, <4>1
    <3>8. QED
      BY <1>1, <3>1, <3>2, <3>4, <3>7, GoOnRoom
  <2>7. CASE PktGetBody(b)
    <3>1. /\ buf' = <<>> /\ expect' = 1 /\ alloc' = alloc /\ ~denied' /\ ~cut'
          /\ rxstate' = "WAIT_START" /\ handler' = "packets" /\ szSz' = szSz
      BY <2>7 DEF PktGetBody, NextFrame
    <3>2. QED
      BY <1>2, <3>1, ResetRoom
  <2>8. QED
    BY <2>1, <2>3, <2>4, <2>5, <2>6, <2>7 DEF HandleData
<1>6. QED
  BY <1>4, <1>5

\* A discovery started over the rest of a frame: one byte more is read behind it.
LEMMA DiscoverRoom ==
    ASSUME RxInv, RoomInv, Discover
    PROVE  RoomInv'
<1>1. /\ host = "script" /\ host' = "discovery" /\ ExpectBytes(1) /\ handler' = "init"
      /\ rxstate' = "WAIT_START" /\ state' = 0 /\ cut' = (buf # <<>>)
      /\ UNCHANGED <<buf, szSz>>
  BY DEF Discover
<1>0. denied \in BOOLEAN
  BY DEF RxInv, TypeOK
<1>2. /\ szSz \in Int /\ alloc \in Nat /\ Alloc0 \in Nat /\ expect \in Int
      /\ alloc >= Alloc0 /\ alloc >= 6 /\ buf \in Seq(Byte)
  BY AllocAssumption DEF RxInv, TypeOK, RoomInv
<1>3. Header(szSz) \in Nat /\ Header(szSz) >= 1 /\ Header(szSz) >= 1 + szSz
  BY <1>2, HeaderType
<1>4. 1 <= alloc
  BY <1>2
<1>5. expect' = 1 /\ denied' = denied /\ alloc' \in Nat /\ alloc' >= alloc
  BY <1>0, <1>1, <1>2, <1>4, ExpectBytesStep
<1>6. Header(szSz') = Header(szSz) /\ Slack(cut', rxstate') = 0
  BY <1>1 DEF Slack
<1>7. handler # "init"
  BY <1>1 DEF RoomInv
<1>8. ~cut /\ WholeFrame
  BY <1>7 DEF RxInv, FrameShape, CutFrame
<1>9. alloc' >= Alloc0
  BY <1>2, <1>5
<1>10. CASE buf = <<>>
  <2>1. rxstate \in {"WAIT_START", "DISCOVERY"}
    BY <1>8, <1>10 DEF WholeFrame, RxInv, TypeOK, RxStates
  <2>2. ~denied /\ ~cut'
    BY <1>1, <1>8, <1>10, <2>1 DEF RoomInv
  <2>3. Len(buf') = 0
    BY <1>1, <1>10, EmptySeq
  <2>4. Len(buf') + expect' <= alloc' + Header(szSz') + Slack(cut', rxstate')
    <3>1. expect' = 1 /\ alloc' \in Nat
      BY <1>5
    <3>2. QED
      BY <1>3, <1>6, <2>3, <3>1
  <2>5. QED
    BY <1>1, <1>5, <1>9, <2>2, <2>4 DEF RoomInv
<1>11. CASE buf # <<>>
  <2>1. cut'
    BY <1>1, <1>11
  <2>2. rxstate \in {"GET_LEN", "GET_BODY"} /\ Slack(cut, rxstate) = 0
    BY <1>7, <1>8, <1>11 DEF WholeFrame, RxInv, TypeOK, RxStates, Slack
  <2>3. PICK m \in Nat : m = Len(buf)
    BY <1>2
  <2>4. ASSUME ~denied PROVE m + 1 <= alloc + Header(szSz)
    <3>1. m + expect <= alloc + Header(szSz)
      <4>1. Len(buf) + expect <= alloc + Header(szSz) + Slack(cut, rxstate)
        BY <2>4 DEF RoomInv
      <4>2. QED
        BY <1>2, <1>3, <2>2, <2>3, <4>1
    <3>2. CASE expect > 0
      BY <1>2, <1>3, <3>1, <3>2
    <3>3. CASE expect = 0
      <4>1. m = 1 + szSz
        BY <1>2, <1>8, <2>2, <2>3, <3>3 DEF WholeFrame, RoomInv
      <4>2. QED
        BY <1>2, <1>3, <4>1
    <3>4. CASE expect < 0
      <4>1. m = 1 \/ m = 1 + szSz
        BY <1>2, <1>8, <2>2, <2>3, <3>4 DEF WholeFrame, RoomInv
      <4>2. QED
        BY <1>2, <1>3, <4>1
    <3>5. QED
      BY <1>2, <3>2, <3>3, <3>4
  <2>5. ASSUME ~denied' PROVE Len(buf') + expect' <= alloc' + Header(szSz') + Slack(cut', rxstate')
    <3>1. m + 1 <= alloc + Header(szSz)
      BY <1>5, <2>4, <2>5
    <3>2. QED
      BY <1>1, <1>2, <1>3, <1>5, <1>6, <2>3, <3>1
  <2>6. QED
    BY <1>1, <1>5, <1>9, <2>1, <2>5 DEF RoomInv
<1>12. QED
  BY <1>10, <1>11

\* A frame can run past the end of the receive chunk, but by no more than its
\* own header, and five bytes further where an information packet is read over the
\* rest of a frame; what was refused its room is excepted, until the receiver is
\* reset (asyncio.c 140-150, chunk.c 26-37, serial.c 297-302).
THEOREM OverrunCorrect == Spec => []OverrunBounded
<1>1. Init => RoomInv
  <2> SUFFICES ASSUME Init PROVE RoomInv
    OBVIOUS
  <2>1. alloc = Alloc0 /\ Alloc0 \in Nat /\ Len(buf) = 0 /\ expect = 0 /\ szSz = 0
    BY AllocAssumption, EmptySeq DEF Init
  <2>2. Header(szSz) \in Nat /\ Slack(cut, rxstate) = 0
    BY <2>1, HeaderType DEF Init, Slack
  <2>3. Len(buf) + expect <= alloc + Header(szSz) + Slack(cut, rxstate) /\ alloc >= Alloc0
    BY <2>1, <2>2
  <2>4. QED
    BY <2>3 DEF Init, RoomInv
<1>2. RxInv /\ RoomInv /\ [Next]_vars => RoomInv'
  <2> SUFFICES ASSUME RxInv, RoomInv, [Next]_vars PROVE RoomInv'
    OBVIOUS
  <2>1. CASE Discover
    BY <2>1, DiscoverRoom
  <2>2. ASSUME UNCHANGED <<buf, alloc, denied, expect, handler, rxstate, szSz, cut>>,
               handler = "init" => host' = host /\ state' = state
        PROVE  RoomInv'
    BY <2>2 DEF RoomInv
  <2>3. CASE CallReply \/ Return \/ GoElsewhere \/ ComeBack \/ LoopForever \/ UNCHANGED vars
    <3>1. UNCHANGED <<buf, alloc, denied, expect, handler, rxstate, szSz, cut>>
      BY <2>3 DEF CallReply, Return, GoElsewhere, ComeBack, LoopForever, vars, rxVars
    <3>2. handler = "init" => host = "discovery" /\ state = 0
      BY DEF RoomInv
    <3>3. handler = "init" => host' = host /\ state' = state
      BY <2>3, <3>2 DEF CallReply, Return, GoElsewhere, ComeBack, LoopForever, vars, rxVars
    <3>4. QED
      BY <2>2, <3>1, <3>3
  <2>4. ASSUME NEW bs \in Deliveries, Receive(bs) PROVE RoomInv'
    BY <2>4, DeliveriesAreBytes, ReceiveRoom
  <2>5. QED
    BY <2>1, <2>3, <2>4 DEF Next, Script
<1>3. RxInv /\ RoomInv => OverrunBounded
  <2> SUFFICES ASSUME RxInv, RoomInv PROVE OverrunBounded
    OBVIOUS
  <2>1. alloc \in Nat /\ alloc >= 6 /\ alloc >= Alloc0
    BY AllocAssumption DEF RxInv, TypeOK, RoomInv
  <2>2. ASSUME ~cut, rxstate \in {"WAIT_START", "DISCOVERY"} PROVE Len(buf) + expect <= alloc
    <3>1. WholeFrame
      BY <2>2 DEF RxInv, FrameShape
    <3>2. CASE rxstate = "WAIT_START"
      <4>1. Len(buf) = 0 /\ expect \in {0, 1}
        BY <3>1, <3>2, EmptySeq DEF WholeFrame, RoomInv
      <4>2. QED
        BY <2>1, <4>1
    <3>3. CASE rxstate = "DISCOVERY"
      BY <2>1, <3>1, <3>3 DEF WholeFrame
    <3>4. QED
      BY <2>2, <3>2, <3>3
  <2>3. QED
    BY <2>1, <2>2 DEF OverrunBounded, RoomInv, Slack
<1>4. Spec => []RxInv
  BY FramesCorrect, PTL DEF RxInv
<1>5. QED
  BY <1>1, <1>2, <1>3, <1>4, PTL DEF Spec
====
