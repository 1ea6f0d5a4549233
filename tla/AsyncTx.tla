---- MODULE AsyncTx ----
(* The transmit half of the asynchronous I/O layer (src/ioserver/asyncio.c)    *)
(* with the part of the epoll loop it drives (aura_epollout, main_loop.c).     *)
(*                                                                             *)
(* A transport hands chunks over with aura_async_enqueue_chunk; the epoll loop *)
(* calls aura_async_xfer_handler while EPOLLOUT is armed, and the handler      *)
(* makes one pass over the transfer list, one write(2) per chunk.  All chunks  *)
(* share ONE write position, x->pos.  A step is one call of enqueue or one     *)
(* iteration of the pass, with each result write(2) and epoll_ctl(2) can give. *)
EXTENDS Integers, Sequences, SequencesExt

CONSTANTS
    Sizes,      \* sizes a chunk may have
    MaxChunks,  \* bound: chunks accepted in a behaviour
    Faults      \* what may go wrong below: see FaultKinds

FaultKinds == {"short",   \* write(2) takes a part of the chunk
               "again",   \* write(2) fails with EAGAIN
               "error",   \* write(2) fails with another errno (EINTR, EIO)
               "ctl",     \* epoll_ctl(2) fails
               "nomem"}   \* malloc fails

ASSUME SizesAssumption == Sizes \subseteq Nat \ {0}
ASSUME MaxChunksAssumption == MaxChunks \in Nat
ASSUME FaultsAssumption == Faults \subseteq FaultKinds

VARIABLES
    accepted,  \* sizes of the chunks enqueued so far; a chunk is its index here
    queue,     \* x->transferlist
    pos,       \* x->pos, "position of writer"
    cur,       \* place of the running pass in the list, 0 outside the handler
    evOut,     \* EPOLLOUT in hook->ev.events
    kOut,      \* EPOLLOUT in the kernel's interest set
    freed,     \* chunks given to aura_chunk_put
    wire,      \* history: segments write(2) took, [id, from, to]
    torn,      \* history: bytes left from a chunk that was not the first queued
    failed     \* history: an epoll_ctl or a malloc failed

vars == <<accepted, queue, pos, cur, evOut, kOut, freed, wire, torn, failed>>
armVars == <<evOut, kOut>>

------------------------------------------------------------------------------
(* aura_epollout changes hook->ev before it asks the kernel.                   *)

EpollOut(on, ok) ==
    /\ evOut' = on
    /\ kOut' = IF ok THEN on ELSE kOut
    /\ failed' = (failed \/ ~ok)

CtlOutcomes == IF "ctl" \in Faults THEN BOOLEAN ELSE {TRUE}

Init ==
    /\ accepted = <<>> /\ queue = <<>>
    /\ pos = 0 /\ cur = 0
    /\ evOut = FALSE /\ kOut = FALSE      \* aura_create_async_xfer
    /\ freed = {} /\ wire = <<>>
    /\ torn = FALSE /\ failed = FALSE

------------------------------------------------------------------------------
(* aura_async_enqueue_chunk, called by a transport outside the handler.        *)

\* Mutant: EPOLLOUT is requested for every chunk but the first.
ArmLate(ok) == IF queue # <<>> THEN EpollOut(TRUE, ok) ELSE UNCHANGED <<armVars, failed>>

Arm(ok) == IF queue = <<>> THEN EpollOut(TRUE, ok) ELSE UNCHANGED <<armVars, failed>>

\* Mutant: list_add instead of list_add_tail.
EnqueueFirst(sz) ==
    /\ cur = 0
    /\ Len(accepted) < MaxChunks
    /\ Arm(TRUE)
    /\ accepted' = Append(accepted, sz)
    /\ queue' = <<Len(accepted) + 1>> \o queue
    /\ UNCHANGED <<pos, cur, freed, wire, torn>>

Enqueue(sz) ==
    /\ cur = 0
    /\ Len(accepted) < MaxChunks
    /\ Arm(TRUE)
    /\ accepted' = Append(accepted, sz)
    /\ queue' = Append(queue, Len(accepted) + 1)
    /\ UNCHANGED <<pos, cur, freed, wire, torn>>

\* epoll_ctl fails: the chunk is not queued.
EnqueueCtlFails ==
    /\ "ctl" \in Faults
    /\ cur = 0
    /\ queue = <<>>
    /\ Arm(FALSE)
    /\ UNCHANGED <<accepted, queue, pos, cur, freed, wire, torn>>

\* The list node cannot be allocated: EPOLLOUT stays armed.
EnqueueNoMem ==
    /\ "nomem" \in Faults
    /\ cur = 0
    /\ IF queue = <<>> THEN evOut' = TRUE /\ kOut' = TRUE ELSE UNCHANGED armVars
    /\ failed' = TRUE
    /\ UNCHANGED <<accepted, queue, pos, cur, freed, wire, torn>>

------------------------------------------------------------------------------
(* The EPOLLOUT branch of aura_async_xfer_handler: list_for_each_safe over the *)
(* transfer list.  The position after a retired chunk is the same index, since *)
(* list_del took it out; after any other chunk it is the next one.             *)

InPass == cur > 0 /\ cur <= Len(queue)
q == queue[cur]
left == accepted[q] - pos

BeginOut ==
    /\ cur = 0
    /\ kOut
    /\ cur' = 1
    /\ UNCHANGED <<accepted, queue, pos, armVars, freed, wire, torn, failed>>

Log(n) ==
    /\ wire' = Append(wire, [id |-> q, from |-> pos, to |-> pos + n])
    /\ torn' = (torn \/ cur # 1)

\* A chunk leaves the list: the common part of the mutants of WriteAll.
RetireAnd(unlinked, newPos, empty) ==
    /\ InPass
    /\ left >= 0
    /\ Log(left)
    /\ freed' = freed \cup {q}
    /\ queue' = unlinked
    /\ pos' = newPos
    /\ IF empty THEN \E ok \in CtlOutcomes : EpollOut(FALSE, ok)
       ELSE UNCHANGED <<armVars, failed>>
    /\ UNCHANGED <<accepted, cur>>

\* Mutants: the head is unlinked instead of the chunk written; x->pos = 0 is
\* forgotten; EPOLLOUT is disarmed without asking whether the list is empty.
WriteAllUnlinksHead == RetireAnd(Tail(queue), 0, Len(queue) = 1)
WriteAllKeepsPos == RetireAnd(RemoveAt(queue, cur), pos + left, Len(queue) = 1)
WriteAllDisarms == RetireAnd(RemoveAt(queue, cur), 0, TRUE)

\* The kernel takes all that is left (write of 0 bytes included): the chunk is
\* put, unlinked and the position reset; an empty list disarms EPOLLOUT.
WriteAll ==
    /\ InPass
    /\ left >= 0
    /\ Log(left)
    /\ freed' = freed \cup {q}
    /\ queue' = RemoveAt(queue, cur)
    /\ pos' = 0
    /\ IF queue' = <<>> THEN \E ok \in CtlOutcomes : EpollOut(FALSE, ok)
       ELSE UNCHANGED <<armVars, failed>>
    /\ UNCHANGED <<accepted, cur>>

\* Mutants: x->pos -= n; the chunk is put after any write.
WriteSomeBackwards ==
    /\ "short" \in Faults
    /\ InPass
    /\ \E n \in 1..(left - 1) : Log(n) /\ pos' = pos - n
    /\ cur' = cur + 1
    /\ UNCHANGED <<accepted, queue, armVars, freed, failed>>

WriteSomePuts ==
    /\ "short" \in Faults
    /\ InPass
    /\ \E n \in 1..(left - 1) : Log(n) /\ pos' = pos + n
    /\ freed' = freed \cup {q}
    /\ cur' = cur + 1
    /\ UNCHANGED <<accepted, queue, armVars, failed>>

\* A short write: the pass goes on to the next chunk with this chunk's position.
WriteSome ==
    /\ "short" \in Faults
    /\ InPass
    /\ \E n \in 1..(left - 1) : Log(n) /\ pos' = pos + n
    /\ cur' = cur + 1
    /\ UNCHANGED <<accepted, queue, armVars, freed, failed>>

\* EAGAIN: break.
WriteAgain ==
    /\ "again" \in Faults
    /\ InPass
    /\ left > 0
    /\ cur' = 0
    /\ UNCHANGED <<accepted, queue, pos, armVars, freed, wire, torn, failed>>

\* Any other failure is ignored.  A negative count, size - pos, becomes a huge
\* size_t that write(2) refuses.
WriteError ==
    /\ InPass
    /\ \/ left < 0
       \/ "error" \in Faults /\ left > 0
    /\ cur' = cur + 1
    /\ UNCHANGED <<accepted, queue, pos, armVars, freed, wire, torn, failed>>

EndPass ==
    /\ cur > Len(queue)
    /\ cur' = 0
    /\ UNCHANGED <<accepted, queue, pos, armVars, freed, wire, torn, failed>>

Progress == WriteAll \/ WriteSome
Pass == WriteAll \/ WriteSome \/ WriteAgain \/ WriteError \/ EndPass

Next ==
    \/ \E sz \in Sizes : Enqueue(sz)
    \/ EnqueueCtlFails
    \/ EnqueueNoMem
    \/ BeginOut
    \/ Pass

Spec == Init /\ [][Next]_vars

(* The loop calls the handler again and again while EPOLLOUT is armed (a fair  *)
(* epoll_wait: level triggered, and input does not occupy the loop for ever),  *)
(* a call ends, and a descriptor that is offered bytes for ever takes some.    *)
FairSpec == Spec /\ WF_vars(BeginOut) /\ WF_vars(Pass) /\ SF_vars(Progress)

------------------------------------------------------------------------------
(* Type invariant.                                                             *)
TypeOK ==
    /\ accepted \in Seq(Sizes)
    /\ queue \in Seq(1..Len(accepted))
    /\ pos \in Nat
    /\ cur \in Nat
    /\ evOut \in BOOLEAN /\ kOut \in BOOLEAN
    /\ freed \subseteq 1..Len(accepted)
    /\ wire \in Seq([id : 1..Len(accepted), from : Nat, to : Nat])
    /\ torn \in BOOLEAN /\ failed \in BOOLEAN

\* Each accepted chunk is either queued, once and in order of arrival, or
\* released: none is lost, none is released while queued or twice.
Conserved ==
    /\ \A i, j \in 1..Len(queue) : i < j => queue[i] < queue[j]
    /\ \A c \in 1..Len(accepted) :
         c \in freed <=> \A i \in 1..Len(queue) : queue[i] # c

\* Queued data always keeps EPOLLOUT armed in the kernel, whatever fails; and
\* unless a call failed, an empty transmitter is disarmed (the loop does not
\* spin) and hook->ev agrees with the kernel.
ArmedWhilePending ==
    /\ queue # <<>> => kOut
    /\ ~failed => /\ evOut = kOut
                  /\ kOut => queue # <<>>

\* The shared position always falls inside some queued chunk, even after a torn
\* pass: a position no chunk could ever reach would wedge the transmitter.
PosOwned ==
    pos # 0 => \E i \in 1..Len(queue) : pos < accepted[queue[i]]

\* <<chunk, byte>> that must leave after the first k segments.
AfterSegments(k) ==
    IF k = 0 THEN <<1, 0>>
    ELSE LET s == wire[k]
         IN  IF s.to = accepted[s.id] THEN <<s.id + 1, 0>> ELSE <<s.id, s.to>>

InOrder == \A k \in 1..Len(wire) : <<wire[k].id, wire[k].from>> = AfterSegments(k - 1)

\* While no pass has skipped an unfinished chunk, the bytes on the descriptor
\* are the chunks in order, each byte once, and x->pos with the head of the
\* list is exactly the place where the stream stands.
InOrderUnlessTorn ==
    ~torn => /\ InOrder
             /\ AfterSegments(Len(wire)) =
                  <<IF queue = <<>> THEN Len(accepted) + 1 ELSE queue[1], pos>>

\* Why it holds: an intact pass only ever works on the head of the list, so the
\* queue is the last Len(queue) chunks and x->pos lies within the first of them.
InTurn ==
    ~torn => /\ \A i \in 1..Len(queue) : queue[i] = Len(accepted) - Len(queue) + i
             /\ queue = <<>> => pos = 0
             /\ queue # <<>> => pos < accepted[queue[1]]

\* The transmitter implements the stream it promises.
Stream == INSTANCE ChunkStream
StreamSpec == Stream!Spec

\* Whatever was enqueued is eventually transmitted and released.
Drains == []<>(queue = <<>>)
====
