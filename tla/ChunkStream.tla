---- MODULE ChunkStream ----
(* What the transmit half of the asynchronous I/O layer promises to the        *)
(* transports that use it (include/aura/asyncio.h): chunks are handed over one *)
(* by one, their bytes appear on the descriptor in the order in which they     *)
(* were handed over, each byte once, and a chunk is released when, and only    *)
(* when, its last byte is out.  An implementation may tear the stream; what    *)
(* it then still owes is that it never transmits from a chunk it has released. *)
EXTENDS Integers, Sequences

CONSTANT Sizes                    \* sizes of the chunks handed over

VARIABLES
    accepted,  \* sizes of the chunks accepted so far; a chunk is its index
    freed,     \* the chunks released
    wire,      \* segments that left: [id |-> chunk, from |-> byte, to |-> byte]
    torn       \* the stream is no longer the concatenation of the chunks

vars == <<accepted, freed, wire, torn>>

\* <<chunk, byte>> that must leave after the segments w have left.
After(w) ==
    IF w = <<>> THEN <<1, 0>>
    ELSE LET s == w[Len(w)]
         IN  IF s.to = accepted[s.id] THEN <<s.id + 1, 0>> ELSE <<s.id, s.to>>

Init ==
    /\ accepted = <<>>
    /\ freed = {}
    /\ wire = <<>>
    /\ torn = FALSE

Accept ==
    /\ \E sz \in Sizes : accepted' = Append(accepted, sz)
    /\ UNCHANGED <<freed, wire, torn>>

\* The next n bytes of the stream leave.
Emit ==
    LET id  == After(wire)[1]
        off == After(wire)[2]
    IN  /\ ~torn
        /\ id \in 1..Len(accepted)
        /\ \E n \in 1..(accepted[id] - off) :
             /\ wire' = Append(wire, [id |-> id, from |-> off, to |-> off + n])
             /\ freed' = IF off + n = accepted[id] THEN freed \cup {id} ELSE freed
        /\ UNCHANGED <<accepted, torn>>

\* Bytes of some chunk that is still owned leave out of turn.
Tear ==
    /\ torn' = TRUE
    /\ \E id \in (1..Len(accepted)) \ freed :
         /\ Len(wire') = Len(wire) + 1
         /\ SubSeq(wire', 1, Len(wire)) = wire
         /\ wire'[Len(wire) + 1].id = id
         /\ freed' \in {freed, freed \cup {id}}
    /\ UNCHANGED accepted

Next == Accept \/ Emit \/ Tear

Spec == Init /\ [][Next]_vars
====
