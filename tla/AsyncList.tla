---- MODULE AsyncList ----
(* The transmitter of AsyncTx as it is written: the transfer list is the links *)
(* of list.h, the pass over it is list_for_each_safe with its two pointers,    *)
(* and a chunk that is out is unlinked under the running pass.                 *)
(*                                                                             *)
(* AsyncTx speaks of a sequence and an index.  Here both are derived: contents *)
(* records what the calls of list_add_tail and list_del amount to, and Place   *)
(* is where the loop pointer stands in it.                                     *)
EXTENDS ListHead, SequencesExt

CONSTANTS
    Sizes,      \* sizes a chunk may have
    MaxChunks,  \* bound: chunks accepted in a behaviour
    Faults      \* subset of FaultKinds of AsyncTx

ASSUME ListSizesAssumption == Sizes \subseteq Nat \ {0}
ASSUME ListBoundAssumption == MaxChunks \in Nat
ASSUME NullAssumption == Null \notin 0..MaxChunks

VARIABLES
    m,         \* the links; the node of chunk c has address c
    i, tmp,    \* the pointers of list_for_each_safe; i is Null outside the handler
    contents,  \* history: the chunks linked into the list
    accepted, pos, evOut, kOut, freed, wire, torn, failed   \* as in AsyncTx

txVars == <<accepted, pos, evOut, kOut, freed, wire, torn, failed>>
vars == <<m, i, tmp, contents, txVars>>

Head0 == 0                       \* &x->transferlist
Nodes == 1..MaxChunks            \* struct aura_chunk_queue, one per chunk
Addresses == 0..MaxChunks

\* A loop pointer as an index: past the end when it is back at the head.
PlaceOf(ptr, s) ==
    IF ptr = Null THEN 0
    ELSE IF ptr = Head0 THEN Len(s) + 1
    ELSE CHOOSE k \in 1..Len(s) : s[k] = ptr

Place == PlaceOf(i, contents)

Tx == INSTANCE AsyncTx WITH queue <- contents, cur <- Place

ASSUME ListFaultsAssumption == Faults \subseteq Tx!FaultKinds

Init ==
    /\ m = INIT_LIST_HEAD([next |-> [a \in Addresses |-> Null],
                           prev |-> [a \in Addresses |-> Null]], Head0)
    /\ i = Null /\ tmp = Null
    /\ contents = <<>>
    /\ accepted = <<>> /\ pos = 0
    /\ evOut = FALSE /\ kOut = FALSE
    /\ freed = {} /\ wire = <<>> /\ torn = FALSE /\ failed = FALSE

------------------------------------------------------------------------------
(* aura_async_enqueue_chunk.                                                   *)

Arm(ok) ==
    IF list_empty(m, Head0) THEN Tx!EpollOut(TRUE, ok)
    ELSE UNCHANGED <<evOut, kOut, failed>>

Enqueue(sz) ==
    /\ i = Null
    /\ Len(accepted) < MaxChunks
    /\ Arm(TRUE)
    /\ accepted' = Append(accepted, sz)
    /\ m' = list_add_tail(m, Len(accepted) + 1, Head0)
    /\ contents' = Append(contents, Len(accepted) + 1)
    /\ UNCHANGED <<i, tmp, pos, freed, wire, torn>>

EnqueueCtlFails ==
    /\ "ctl" \in Faults
    /\ i = Null
    /\ list_empty(m, Head0)
    /\ Arm(FALSE)
    /\ UNCHANGED <<m, i, tmp, contents, accepted, pos, freed, wire, torn>>

EnqueueNoMem ==
    /\ "nomem" \in Faults
    /\ i = Null
    /\ IF list_empty(m, Head0) THEN evOut' = TRUE /\ kOut' = TRUE
       ELSE UNCHANGED <<evOut, kOut>>
    /\ failed' = TRUE
    /\ UNCHANGED <<m, i, tmp, contents, accepted, pos, freed, wire, torn>>

------------------------------------------------------------------------------
(* list_for_each_safe(i, tmp, &x->transferlist).                               *)

ForEachBegin == i' = m.next[Head0] /\ tmp' = m.next[m.next[Head0]]

\* Mutant: list_for_each, which follows the entry that may just be unlinked.
ForEachUnsafe == i' = m'.next[i] /\ tmp' = m'.next[i]

ForEachNext == i' = tmp /\ tmp' = m'.next[tmp]

InPass == i \notin {Null, Head0}
left == accepted[i] - pos

BeginOut ==
    /\ i = Null
    /\ kOut
    /\ ForEachBegin
    /\ UNCHANGED <<m, contents, txVars>>

Log(n) ==
    /\ wire' = Append(wire, [id |-> i, from |-> pos, to |-> pos + n])
    /\ torn' = (torn \/ i # m.next[Head0])

WriteAll ==
    /\ InPass
    /\ left >= 0
    /\ Log(left)
    /\ freed' = freed \cup {i}
    /\ m' = list_del(m, i)
    /\ contents' = RemoveAt(contents, Place)
    /\ pos' = 0
    /\ IF list_empty(m', Head0) THEN \E ok \in Tx!CtlOutcomes : Tx!EpollOut(FALSE, ok)
       ELSE UNCHANGED <<evOut, kOut, failed>>
    /\ ForEachNext
    /\ UNCHANGED accepted

WriteSome ==
    /\ "short" \in Faults
    /\ InPass
    /\ \E n \in 1..(left - 1) : Log(n) /\ pos' = pos + n
    /\ UNCHANGED m
    /\ ForEachNext
    /\ UNCHANGED <<contents, accepted, evOut, kOut, freed, failed>>

WriteAgain ==
    /\ "again" \in Faults
    /\ InPass
    /\ left > 0
    /\ i' = Null /\ tmp' = Null
    /\ UNCHANGED <<m, contents, txVars>>

WriteError ==
    /\ InPass
    /\ \/ left < 0
       \/ "error" \in Faults /\ left > 0
    /\ UNCHANGED m
    /\ ForEachNext
    /\ UNCHANGED <<contents, txVars>>

EndPass ==
    /\ i = Head0
    /\ i' = Null /\ tmp' = Null
    /\ UNCHANGED <<m, contents, txVars>>

Next ==
    \/ \E sz \in Sizes : Enqueue(sz)
    \/ EnqueueCtlFails
    \/ EnqueueNoMem
    \/ BeginOut
    \/ WriteAll \/ WriteSome \/ WriteAgain \/ WriteError
    \/ EndPass

Spec == Init /\ [][Next]_vars

------------------------------------------------------------------------------
\* The links are one ring through the head and the queued nodes, in order, in
\* both directions; a node outside the list points nowhere.
ListIntact ==
    /\ Ring(m, Head0, contents)
    /\ \A n \in Nodes : (\A k \in 1..Len(contents) : contents[k] # n) =>
           m.next[n] = Null /\ m.prev[n] = Null

\* Unlinking the current entry never leaves the loop on a dead one: i and tmp
\* are neighbours on the ring, whatever has been unlinked since the loop began.
CursorOnRing ==
    i # Null => /\ i \in {Head0} \cup {contents[k] : k \in 1..Len(contents)}
                /\ tmp = m.next[i]

\* The links and the two pointers behave as the sequence and the index of
\* AsyncTx, so what AsyncTx guarantees holds of the code as it is written.
TxSpec == Tx!Spec
====
