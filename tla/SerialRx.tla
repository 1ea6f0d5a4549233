---- MODULE SerialRx ----
(* The receive half of the asynchronous I/O layer (src/ioserver/asyncio.c)     *)
(* together with the two handlers the uRPC serial transport installs in it     *)
(* (src/plugins/urpc-serial/serial.c) and the operations of the transport that *)
(* set them up: discovery and a call that waits for its reply.                 *)
(*                                                                             *)
(* One step is one call of aura_async_xfer_handler with EPOLLIN (a read and,   *)
(* when the expected bytes are complete, handle_data), or one operation of the *)
(* script that owns the instance.  The bytes are whatever the line delivers.   *)
EXTENDS Integers, Sequences

CONSTANTS
    MaxByte,   \* largest byte, 255
    Start,     \* MAGIC_START
    Alloc0,    \* size of the receive chunk at open, 256
    Payload,   \* bytes tried in bodies
    Beyond,    \* what the memory behind a frame may hold
    MaxRead,   \* bound: bytes one read(2) delivers
    MaxState,  \* bound on nl->state
    MaxObjs,   \* bound on discovered objects
    MaxAlloc,  \* bound on the receive chunk
    MaxRefused \* bound: sizes a realloc may fail for; 0, none fails

Byte == 0..MaxByte
Base == MaxByte + 1

ASSUME ByteAssumption == MaxByte \in Nat /\ Start \in Byte /\ Payload \subseteq Byte
\* There is a NUL behind every frame somewhere: a parse that runs out of its frame
\* comes to an end.  (Where it meets an unmapped page first the program is gone.)
ASSUME BeyondAssumption ==
    Beyond \subseteq Seq(Byte) /\ \A n \in 1..5 : [i \in 1..n |-> 0] \in Beyond
ASSUME AllocAssumption == Alloc0 \in Nat /\ Alloc0 >= 6
ASSUME BoundAssumption == MaxRead \in Nat /\ MaxState \in Nat /\ MaxObjs \in Nat
                          /\ MaxAlloc \in Nat /\ MaxRefused \in Nat

VARIABLES
    host,      \* what the thread does: the script runs, or it sits in a loop
    buf,       \* recv->data[0 .. recv->size - 1]; data[i] is buf[i + 1]
    alloc,     \* recv->alloc
    denied,    \* history: the bytes in buf were refused the room asked for them
    expect,    \* x->expect_bytes
    handler,   \* x->handle_data
    rxstate,   \* nl->rxstate
    szSz,      \* nl->sz_sz
    state,     \* nl->state, 0 while discovery or a reply is awaited
    objlist,   \* inst->objlist, an object is the bytes it was read from
    objcount,  \* nl->objcount
    cut,       \* history: buf holds bytes from before the last discovery
    roamed     \* history: the script has waited on another instance

rxVars == <<buf, alloc, denied, expect, handler, rxstate, szSz, state, objlist, objcount>>
vars == <<host, rxVars, cut, roamed>>

Hosts == {"script",     \* Lua code runs, no event is handled
          "discovery",  \* urpc_serial_discovery: while (s->state == 0)
          "call",       \* urpc_serial_call: while (s->state == 0)
          "elsewhere",  \* the same loop in another instance of the transport
          "loop"}       \* aura_loop_forever

Handlers == {"none", "init", "packets"}
RxStates == {"WAIT_START", "GET_LEN", "GET_BODY", "DISCOVERY"}

------------------------------------------------------------------------------
(* Helpers.                                                                    *)

\* A byte stored in a char and then in an int.
Signed(b) == IF b > MaxByte \div 2 THEN b - Base ELSE b

\* number_to_int of n bytes at data[1], stored in an int.
NumberToInt(b, n) ==
    CASE n = 1 -> b[2]
      [] n = 2 -> b[2] + Base * b[3]
      [] n = 4 -> LET u == b[2] + Base * (b[3] + Base * (b[4] + Base * b[5]))
                  IN  IF b[5] > MaxByte \div 2
                      THEN u - Base * Base * Base * Base ELSE u
      [] OTHER -> 0

\* aura_chunk_realloc, which may fail and then changes nothing.
Realloc(extra) ==
    \/ alloc' = alloc + extra /\ alloc' <= MaxAlloc /\ UNCHANGED denied
    \/ alloc + extra <= MaxRefused /\ UNCHANGED alloc /\ denied' = TRUE

\* Mutant: the chunk never grows.
ExpectBytesFixed(n) == expect' = n /\ UNCHANGED <<alloc, denied>>

\* aura_async_expect_bytes compares n with the whole chunk, not with what is left
\* of it, and expects the bytes also when there is no room for them: its callers
\* ignore what it returns.
ExpectBytes(n) ==
    /\ expect' = n
    /\ IF alloc - n < 0 THEN Realloc(2 * (n - alloc)) ELSE UNCHANGED <<alloc, denied>>

Store(b) == buf' = b /\ UNCHANGED cut

\* Mutant: the receiver is not reset.
NextFrameKeeps ==
    /\ buf' = buf
    /\ expect' = 1
    /\ cut' = FALSE /\ denied' = FALSE
    /\ UNCHANGED alloc

\* aura_async_xfer_reset_receiver and expect_bytes = 1.
NextFrame ==
    /\ buf' = <<>>
    /\ expect' = 1
    /\ cut' = FALSE /\ denied' = FALSE
    /\ UNCHANGED alloc

Init ==
    /\ host = "script"
    /\ buf = <<>> /\ alloc = Alloc0 /\ denied = FALSE /\ expect = 0
    /\ handler = "none" /\ rxstate = "WAIT_START"
    /\ szSz = 0
    /\ state \in {0, 1}                \* malloc'ed, not set by open
    /\ objlist = <<>> /\ objcount = 0
    /\ cut = FALSE /\ roamed = FALSE

------------------------------------------------------------------------------
(* handle_data, with the bytes b now in the buffer.                            *)

\* urpc_xfer_handler_discovery_init
InitWaitStart(b) ==
    /\ handler = "init" /\ rxstate = "WAIT_START"
    /\ IF b[1] # Start THEN NextFrame /\ UNCHANGED rxstate
       ELSE Store(b) /\ ExpectBytes(5) /\ rxstate' = "DISCOVERY"
    /\ UNCHANGED <<handler, szSz, state, objlist, objcount>>

InitDiscovery(b) ==
    /\ handler = "init" /\ rxstate = "DISCOVERY"
    /\ szSz' = Signed(b[2])
    /\ handler' = "packets"
    /\ rxstate' = "WAIT_START"
    /\ NextFrame
    /\ UNCHANGED <<state, objlist, objcount>>

\* urpc_xfer_handler_packets
PktWaitStart(b) ==
    /\ handler = "packets" /\ rxstate = "WAIT_START"
    /\ IF b[1] # Start THEN NextFrame /\ UNCHANGED rxstate
       ELSE Store(b) /\ ExpectBytes(szSz) /\ rxstate' = "GET_LEN"
    /\ UNCHANGED <<handler, szSz, state, objlist, objcount>>

\* Mutant: the end of a discovery is recognised by its length, before its body.
PktGetLenEnds(b) ==
    /\ handler = "packets" /\ rxstate = "GET_LEN"
    /\ Store(b)
    /\ ExpectBytes(NumberToInt(b, szSz))
    /\ rxstate' = "GET_BODY"
    /\ state' = IF NumberToInt(b, szSz) = 1 /\ state = 0 THEN 1 ELSE state
    /\ UNCHANGED <<handler, szSz, objlist, objcount>>

PktGetLen(b) ==
    /\ handler = "packets" /\ rxstate = "GET_LEN"
    /\ Store(b)
    /\ ExpectBytes(NumberToInt(b, szSz))
    /\ rxstate' = "GET_BODY"
    /\ UNCHANGED <<handler, szSz, state, objlist, objcount>>

\* A frame is complete: the common part of the mutants of PktGetBody.
BodyAnd(b, counts, newState, newList) ==
    /\ handler = "packets" /\ rxstate = "GET_BODY"
    /\ IF counts THEN state' = newState /\ newState < MaxState /\ UNCHANGED <<objlist, objcount>>
       ELSE /\ Len(objlist) < MaxObjs
            /\ objlist' = newList
            /\ objcount' = objcount + 1
            /\ UNCHANGED state
    /\ rxstate' = "WAIT_START"
    /\ NextFrame
    /\ UNCHANGED <<handler, szSz>>

\* Flags, an id and three strings, each up to its NUL.
IsObject(o) ==
    \E i, j \in 3..(Len(o) - 1) : i < j /\ {k \in 3..Len(o) : o[k] = 0} = {i, j, Len(o)}

\* What may be read as the object of a frame.  recv->size is not looked at: a body
\* in which the three strings do not end is read on into the memory behind it.
Parsed(b) ==
    LET body == SubSeq(b, 2 + szSz, Len(b))
        inside == {k \in 1..Len(body) : IsObject(SubSeq(body, 1, k))}
    IN  IF inside # {} THEN {SubSeq(body, 1, k) : k \in inside}
        ELSE {o \in {body \o m : m \in Beyond} : IsObject(o)}

Ends(b) == NumberToInt(b, szSz) = 1

\* Mutants: state counts down; an object is taken whatever the state; objects
\* are put in front of the list.
PktGetBodyCountsDown(b) ==
    /\ rxstate = "GET_BODY"
    /\ \E o \in Parsed(b) : BodyAnd(b, state # 0 \/ Ends(b), state - 1, Append(objlist, o))
PktGetBodyAnyState(b) ==
    /\ rxstate = "GET_BODY"
    /\ \E o \in Parsed(b) : BodyAnd(b, Ends(b), state + 1, Append(objlist, o))
PktGetBodyPrepends(b) ==
    /\ rxstate = "GET_BODY"
    /\ \E o \in Parsed(b) : BodyAnd(b, state # 0 \/ Ends(b), state + 1, <<o>> \o objlist)

\* While nl->state is 0 a frame is an object, or the end if only its checksum
\* is left; otherwise it is counted and dropped.
PktGetBody(b) ==
    /\ handler = "packets" /\ rxstate = "GET_BODY"
    /\ IF state # 0 \/ NumberToInt(b, szSz) = 1
       THEN /\ state < MaxState
            /\ state' = state + 1
            /\ UNCHANGED <<objlist, objcount>>
       ELSE /\ Len(objlist) < MaxObjs
            /\ \E o \in Parsed(b) : objlist' = Append(objlist, o)
            /\ objcount' = objcount + 1
            /\ UNCHANGED state
    /\ rxstate' = "WAIT_START"
    /\ NextFrame
    /\ UNCHANGED <<handler, szSz>>

HandleData(b) ==
    \/ InitWaitStart(b) \/ InitDiscovery(b)
    \/ PktWaitStart(b) \/ PktGetLen(b) \/ PktGetBody(b)

------------------------------------------------------------------------------
(* aura_async_xfer_handler, EPOLLIN branch.                                    *)

\* A loop is running, and has not found yet that what it waits for is there.
Listening ==
    /\ handler # "none"
    /\ \/ host \in {"loop", "elsewhere"}
       \/ host \in {"discovery", "call"} /\ state = 0

\* read(2) delivered bs.  A negative count is refused by read(2) and ignored,
\* so the receiver does nothing for ever: there is no action for it.
Receive(bs) ==
    /\ Listening
    /\ Len(bs) <= expect
    /\ expect > 0 => bs # <<>>
    /\ IF Len(bs) = expect THEN HandleData(buf \o bs)
       ELSE /\ buf' = buf \o bs
            /\ expect' = expect - Len(bs)
            /\ UNCHANGED <<alloc, denied, handler, rxstate, szSz, state, objlist, objcount,
                        cut>>
    /\ UNCHANGED <<host, roamed>>

\* What the line may deliver: any byte where a handler reads one (the start, the
\* announced size of sizes, the length), Payload elsewhere.
Alphabet(p) ==
    IF p <= 1 + (IF handler = "packets" THEN szSz ELSE 1) THEN Byte ELSE Payload

Deliveries ==
    IF expect = 0 THEN {<<>>}
    ELSE UNION {{bs \in [1..k -> Byte] : \A i \in 1..k : bs[i] \in Alphabet(Len(buf) + i)} :
                   k \in 1..(IF expect < MaxRead THEN expect ELSE MaxRead)}

------------------------------------------------------------------------------
(* The script.                                                                 *)

\* Mutant: nl->state is not cleared.
DiscoverKeepsState ==
    /\ host = "script"
    /\ host' = "discovery"
    /\ objcount' = 0
    /\ ExpectBytes(1)
    /\ handler' = "init"
    /\ rxstate' = "WAIT_START"
    /\ cut' = (buf # <<>>)
    /\ UNCHANGED <<buf, szSz, state, objlist, roamed>>

\* urpc_serial_discovery up to its loop.  recv->size and inst->objlist stay.
Discover ==
    /\ host = "script"
    /\ host' = "discovery"
    /\ objcount' = 0
    /\ ExpectBytes(1)
    /\ handler' = "init"
    /\ rxstate' = "WAIT_START"
    /\ state' = 0
    /\ cut' = (buf # <<>>)
    /\ UNCHANGED <<buf, szSz, objlist, roamed>>

\* urpc_serial_call of an object that has a reply, up to its loop.
CallReply ==
    /\ host = "script"
    /\ objlist # <<>>
    /\ host' = "call"
    /\ state' = 0
    /\ UNCHANGED <<buf, alloc, denied, expect, handler, rxstate, szSz, objlist, objcount>>
    /\ UNCHANGED <<cut, roamed>>

\* The loop of discovery or of the call ends.
Return ==
    /\ host \in {"discovery", "call"}
    /\ state # 0
    /\ host' = "script"
    /\ UNCHANGED <<rxVars, cut, roamed>>

\* Another instance discovers or calls: its loop handles our events as well.
GoElsewhere ==
    /\ host = "script"
    /\ handler # "none"
    /\ host' = "elsewhere"
    /\ roamed' = TRUE
    /\ UNCHANGED <<rxVars, cut>>

ComeBack ==
    /\ host = "elsewhere"
    /\ host' = "script"
    /\ UNCHANGED <<rxVars, cut, roamed>>

\* main: the scripts are over, aura_loop_forever.
LoopForever ==
    /\ host = "script"
    /\ host' = "loop"
    /\ UNCHANGED <<rxVars, cut, roamed>>

Script == Discover \/ CallReply \/ Return \/ GoElsewhere \/ ComeBack \/ LoopForever

Next == Script \/ \E bs \in Deliveries : Receive(bs)

Spec == Init /\ [][Next]_vars

------------------------------------------------------------------------------
(* Type invariant.                                                             *)
TypeOK ==
    /\ host \in Hosts
    /\ buf \in Seq(Byte)
    /\ alloc \in Nat
    /\ expect \in Int
    /\ handler \in Handlers
    /\ rxstate \in RxStates
    /\ szSz \in Int
    /\ state \in Nat
    /\ objlist \in Seq(Seq(Byte))
    /\ objcount \in Nat
    /\ cut \in BOOLEAN /\ denied \in BOOLEAN /\ roamed \in BOOLEAN

\* The state of the parser, the bytes in the buffer and the bytes still expected
\* always describe the same frame: the start, the announced sizes and the length
\* are read from bytes of that frame which have arrived.  (The strings of an object
\* need not be: see Parsed.)  A discovery started over the rest of a frame takes
\* that rest for the start of its answer, and is in step again after six bytes.
WholeFrame ==
    /\ rxstate = "WAIT_START" => buf = <<>> /\ (handler # "none" => expect = 1)
    /\ rxstate # "WAIT_START" => buf # <<>> /\ buf[1] = Start
    /\ rxstate = "DISCOVERY" => handler = "init" /\ Len(buf) + expect = 6 /\ expect > 0
    /\ rxstate = "GET_LEN" =>
         /\ handler = "packets"
         /\ Len(buf) + expect = 1 + szSz
         /\ expect < 0 => Len(buf) = 1
    /\ rxstate = "GET_BODY" =>
         /\ handler = "packets"
         /\ szSz >= 0
         /\ Len(buf) >= 1 + szSz
         /\ Len(buf) + expect = 1 + szSz + NumberToInt(buf, szSz)

CutFrame ==
    /\ handler = "init"
    /\ buf # <<>> /\ buf[1] = Start
    /\ \/ rxstate = "WAIT_START" /\ expect = 1
       \/ rxstate = "DISCOVERY" /\ expect > 0 /\ Len(buf) + expect > 6

FrameShape == IF cut THEN CutFrame ELSE WholeFrame

\* Discovery may leave recv->size alone: while the script never waited on another
\* instance, the receiver is between frames whenever the script runs.
BoundaryAtScript ==
    ~roamed => /\ ~cut
               /\ host = "script" => rxstate = "WAIT_START" /\ buf = <<>>

\* expect_bytes forgets what is already in the buffer: a frame may run past the
\* end of the chunk, but by no more than its header.  An information packet read
\* over the rest of a cut frame may run five bytes further.  A frame that was
\* refused its room, which nobody notices, has no such bound, nor has the packet
\* that is read over the rest of it: here it is excepted, and the exception ends
\* with the next reset of the receiver.
Header(n) == 1 + (IF n > 0 THEN n ELSE 0)
OverrunBounded ==
    /\ alloc >= Alloc0
    /\ ~denied => Len(buf) + expect <= alloc + Header(szSz)
                                        + (IF cut /\ rxstate = "DISCOVERY" THEN 5 ELSE 0)
    /\ ~cut /\ rxstate \in {"WAIT_START", "DISCOVERY"} =>
           ~denied /\ Len(buf) + expect <= alloc

\* The list of objects changes only while the script waits for a discovery or a
\* reply: what it has seen of the instance does not change under it.
ObjectsFrozen == [][objlist' # objlist => host \in {"discovery", "call"}]_vars

\* chunk.h: size is the "used data bytes" of the "total allocated data bytes".
UsedWithinAlloc == Len(buf) <= alloc
====
