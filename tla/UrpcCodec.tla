---- MODULE UrpcCodec ----
(* The argument formats of plugins/urpc/datahelpers.c: a format string is      *)
(* parsed once into a cache of functions (urpc_argcache), and every call walks *)
(* the cache over the Lua arguments (urpc_pack_data) or over received bytes    *)
(* (urpc_unpack_data).  The serial transport closes the packed chunk with a    *)
(* checksum and a stop byte.                                                   *)
(*                                                                             *)
(* A format is the sequence of fields between its ';', so it has one field     *)
(* more than it has ';', and one that ends in ';' has an empty last field.  Of *)
(* a field only what the parser asks is kept: whether it starts with 's', and  *)
(* what sscanf(tok, "%d%c") converts of it.  A byte has Base values.           *)
EXTENDS SequencesExt, Integers

CONSTANTS
    Base,       \* values of a byte, 256 in the code
    Fields,     \* fields a format may be made of
    MaxFields,  \* bound: fields of a format
    Values,     \* Lua values a script may pass
    MaxArgs,    \* bound: arguments of a call
    Headers,    \* bytes a transport reserves: 0 (null), 1 + sz_sz + id_sz (serial)
    Room,       \* bytes asked for a chunk, 256 in the code
    Swap        \* the swap parameter; both transports pass 0

Empty == [str |-> FALSE, got |-> -1, len |-> 0, conv |-> "-"]
Nil == [num |-> 0, cstr |-> FALSE, str |-> <<>>]

ASSUME CodecAssumption ==
    /\ Base \in Nat \ {0, 1} /\ Base % 2 = 0
    /\ Fields \subseteq [str : BOOLEAN, got : 0..2, len : Nat, conv : {"d", "u", "x", "-"}]
    /\ \A f \in Fields : f.str => f.got = 0
    /\ Values \subseteq [num : Int, cstr : BOOLEAN, str : Seq(1..Base - 1)]
    /\ MaxFields \in Nat /\ MaxArgs \in Nat
    /\ Room \in Nat
    /\ Headers \subseteq 0..Room
    /\ Swap \in BOOLEAN

VARIABLES
    phase,     \* "parse", "ready", "pack", "packed", "sent", "unpack", "unpacked" or "crashed"
    format,    \* the fields of the format
    at,        \* fields taken by strtok
    len, conv, \* locals of urpc_argcache, uninitialised at first
    cache,     \* functions selected so far
    nocache,   \* urpc_argcache returned NULL
    args,      \* what the script passes
    head,      \* bytes reserved in this call
    data,      \* the used bytes of the chunk
    alloc,
    fails,     \* parity of the reallocations that failed: each one is a step
    i, arg,    \* cache entry and Lua argument the packer is at
    grown,     \* history: a packer has asked for more room
    starts,    \* history: where the encoding of each entry starts
    off, pushed  \* bytes read and values pushed by urpc_unpack_data

parseVars == <<format, at, len, conv, cache, nocache>>
packVars == <<args, head, data, alloc, fails, i, arg, grown, starts>>
unpackVars == <<off, pushed>>
vars == <<phase, parseVars, packVars, unpackVars>>

------------------------------------------------------------------------------
(* urpc_argcache.                                                              *)

Entry(kind, n) == [kind |-> kind, len |-> n]
Str == Entry("s", 0)
Entries == {Str} \cup {Entry(k, n) : k \in {"d", "u"}, n \in {1, 2, 4}}

\* Mutant: no slot for the NULL.
SlotsBare == Len(format) - 1

Slots == Len(format)     \* argcount + 1: strdlmcnt counts one ';' less than fields
Written == Len(cache) + (IF phase = "parse" THEN 0 ELSE 1)

\* The branch a token takes with what len and fmt hold; none is an error.
Selected(f, n, c) == IF f.str THEN {Str} ELSE Entries \cap {Entry(c, n)}

Init ==
    /\ format \in BoundedSeq(Fields \cup {Empty}, MaxFields)     \* <<>>: no format, NULL
    /\ phase = IF format = <<>> THEN "ready" ELSE "parse"
    /\ at = 0
    /\ len \in {0, 1, 2, 4} /\ conv \in {"d", "u", "x"}   \* whatever is on the stack
    /\ cache = <<>> /\ nocache = (format = <<>>)
    /\ args = <<>> /\ head = 0 /\ data = <<>> /\ alloc = 0 /\ fails = 0
    /\ i = 0 /\ arg = 0 /\ grown = FALSE /\ starts = <<>>
    /\ off = 0 /\ pushed = <<>>

SkipEmpty ==     \* strtok never returns an empty token
    /\ phase = "parse" /\ at < Len(format)
    /\ format[at + 1] = Empty
    /\ at' = at + 1
    /\ UNCHANGED <<phase, format, len, conv, cache, nocache, packVars, unpackVars>>

\* sscanf assigns what it converts and leaves the rest.
Scan(f) == [len |-> IF f.got >= 1 THEN f.len ELSE len,
            conv |-> IF f.got = 2 THEN f.conv ELSE conv]

\* Mutant: the branch is chosen by what the previous token left.
ChosenLate(f) == Selected(f, len, conv)

Chosen(f) == Selected(f, Scan(f).len, Scan(f).conv)

Forget == len' = 0 /\ conv' = "x"     \* the locals are gone

ParseToken ==
    /\ phase = "parse" /\ at < Len(format)
    /\ format[at + 1] # Empty
    /\ \E e \in Chosen(format[at + 1]) : cache' = Append(cache, e)
    /\ len' = Scan(format[at + 1]).len /\ conv' = Scan(format[at + 1]).conv
    /\ at' = at + 1
    /\ UNCHANGED <<phase, format, nocache, packVars, unpackVars>>

ParseError ==
    /\ phase = "parse" /\ at < Len(format)
    /\ format[at + 1] # Empty
    /\ Chosen(format[at + 1]) = {}
    /\ phase' = "ready" /\ nocache' = TRUE /\ cache' = <<>>
    /\ Forget
    /\ UNCHANGED <<format, at, packVars, unpackVars>>

ParseEnd ==
    /\ phase = "parse" /\ at = Len(format)
    /\ phase' = "ready"
    /\ Forget
    /\ UNCHANGED <<format, at, cache, nocache, packVars, unpackVars>>

------------------------------------------------------------------------------
(* urpc_pack_data.  A value is encoded little-endian, the order of the host    *)
(* the code is built for; Swap reverses it.                                    *)

Ordered(bytes) == IF Swap THEN Reverse(bytes) ELSE bytes

\* The weight of each byte of a number, and the first number that is too long.
Place == <<1, Base, Base * Base, Base * Base * Base, Base * Base * Base * Base>>

\* Mutant: the digits are not cut to bytes.
NumberUncut(n, v) == [k \in 1..n |-> v \div Place[k]]

Number(n, v) == [k \in 1..n |-> (v \div Place[k]) % Base]

Encoded(e, v) ==
    IF e.kind = "s" THEN Append(v.str, 0) ELSE Ordered(Number(e.len, v.num))

Arg(k) == IF k <= Len(args) THEN args[k] ELSE Nil     \* lua_tonumber, lua_tostring of none

Call(a, h) ==
    /\ phase = "ready"
    /\ phase' = "pack"
    /\ args' = a /\ head' = h
    /\ data' = [k \in 1..h |-> 0]     \* whatever malloc returned; the tail fills it
    /\ alloc' = Room /\ arg' = 1
    /\ UNCHANGED <<parseVars, fails, i, grown, starts, unpackVars>>

InPack == phase = "pack" /\ ~nocache /\ i < Len(cache)
Bytes == Encoded(cache[i + 1], Arg(arg))
NoString == cache[i + 1].kind = "s" /\ ~Arg(arg).cstr

PackCrash ==     \* strlen(NULL)
    /\ InPack /\ NoString
    /\ phase' = "crashed"
    /\ UNCHANGED <<parseVars, packVars, unpackVars>>

\* Mutant: the terminating NUL is not counted in the room a packer needs.
FitsShort(bytes) == Len(bytes) <= alloc - Len(data) + 1

Fits(bytes) == Len(bytes) <= alloc - Len(data)

\* Mutant: every entry is taken from the first argument.
SameArg == arg' = arg

NextArg == arg' = arg + 1      \* lua_arg++, whatever the packer answers

PackEntry ==
    /\ InPack /\ ~NoString
    /\ Fits(Bytes)
    /\ data' = data \o Bytes
    /\ starts' = Append(starts, Len(data))
    /\ i' = i + 1 /\ NextArg
    /\ UNCHANGED <<phase, parseVars, args, head, alloc, fails, grown, unpackVars>>

\* aura_chunk_realloc: the memory may be refused in every retry.
Grow(need) ==
    \/ alloc' = alloc + 2 * need /\ UNCHANGED fails
    \/ fails' = 1 - fails /\ UNCHANGED alloc

\* lua_arg++ of a retry; all positions behind the last argument are alike.
SkipArg == arg' = IF arg <= Len(args) THEN arg + 1 ELSE arg

\* Mutant: the retry starts over without the reallocation.
PackRetryBare ==
    /\ InPack /\ ~NoString
    /\ ~Fits(Bytes)
    /\ grown' = TRUE
    /\ UNCHANGED <<phase, parseVars, args, head, data, alloc, fails, i, arg, starts, unpackVars>>

PackRetry ==     \* "goto retry", which advances again
    /\ InPack /\ ~NoString
    /\ ~Fits(Bytes)
    /\ Grow(Len(Bytes))
    /\ SkipArg
    /\ grown' = TRUE
    /\ UNCHANGED <<phase, parseVars, args, head, data, i, starts, unpackVars>>

PackEnd ==
    /\ phase = "pack"
    /\ nocache \/ i = Len(cache)
    /\ phase' = "packed"
    /\ UNCHANGED <<parseVars, packVars, unpackVars>>

Csum(bytes) ==
    LET sum[k \in 0..Len(bytes)] == IF k = 0 THEN 0 ELSE (sum[k - 1] + bytes[k]) % Base
    IN  sum[Len(bytes)]

\* urpc_serial_call: length into the header, checksum and MAGIC_STOP appended
\* as they are.  Object and magic bytes are 0 here: nothing looks at them.
SerialTail ==
    /\ phase = "packed" /\ head >= 3
    /\ phase' = "sent"
    /\ LET framed == [data EXCEPT ![2] = (Len(data) - 1) % Base] IN
           data' = framed \o <<Csum(Tail(framed)), 0>>
    /\ UNCHANGED <<parseVars, args, head, alloc, fails, i, arg, grown, starts, unpackVars>>

------------------------------------------------------------------------------
(* urpc_unpack_data.  The reply is whatever the peer put there; here the peer  *)
(* lays it out with the packer of the same format, as the two are meant to fit *)
(* (the null transport itself unpacks the name of the host).                   *)

Byte(k) == IF k <= Len(data) THEN data[k] ELSE 0
Taken(n) == Ordered([k \in 1..n |-> Byte(off + k)])

Weighed(bytes, k) == bytes[k] * Place[k]
Unsigned(bytes) ==
    CASE Len(bytes) = 1 -> Weighed(bytes, 1)
      [] Len(bytes) = 2 -> Weighed(bytes, 1) + Weighed(bytes, 2)
      [] Len(bytes) = 4 -> Weighed(bytes, 1) + Weighed(bytes, 2)
                               + Weighed(bytes, 3) + Weighed(bytes, 4)

Top(n) == Place[n + 1] \div 2
Wrapped(kind, n, u) == IF kind = "d" /\ u >= Top(n) THEN u - Place[n + 1] ELSE u

\* Length of the C string at p.
Strlen(p) == CHOOSE n \in 0..Len(data) :
                 Byte(p + n + 1) = 0 /\ \A k \in 1..n : Byte(p + k) # 0

Decoded(e) ==
    IF e.kind = "s" THEN [k \in 1..Strlen(off) |-> Byte(off + k)]
    ELSE Wrapped(e.kind, e.len, Unsigned(Taken(e.len)))

\* Mutant: the terminating NUL is not skipped.
AdvanceShort(e) == IF e.kind = "s" THEN Strlen(off) ELSE 1

\* Mutant: every number is taken to be two bytes wide.
AdvanceTwo(e) == IF e.kind = "s" THEN Strlen(off) + 1 ELSE 2

Advance(e) == IF e.kind = "s" THEN Strlen(off) + 1 ELSE 1   \* 1 for wide ones too

UnpackBegin ==
    /\ phase = "packed" /\ head = 0
    /\ phase' = "unpack"
    /\ UNCHANGED <<parseVars, packVars, unpackVars>>

InUnpack == phase = "unpack" /\ ~nocache /\ Len(pushed) < Len(cache)

UnpackEntry ==
    /\ InUnpack
    /\ LET e == cache[Len(pushed) + 1] IN
           /\ pushed' = Append(pushed, Decoded(e))
           /\ off' = off + Advance(e)
    /\ UNCHANGED <<phase, parseVars, packVars>>

UnpackEnd ==
    /\ phase = "unpack"
    /\ nocache \/ Len(pushed) = Len(cache)
    /\ phase' = "unpacked"
    /\ UNCHANGED <<parseVars, packVars, unpackVars>>

\* The chunk is freed (by the null transport at once, by the serial one when it
\* has left) and the script goes on.
Return ==
    /\ phase \in {"sent", "unpacked"}
    /\ phase' = "ready"
    /\ args' = <<>> /\ head' = 0 /\ data' = <<>> /\ alloc' = 0 /\ fails' = 0
    /\ i' = 0 /\ arg' = 0 /\ grown' = FALSE /\ starts' = <<>>
    /\ off' = 0 /\ pushed' = <<>>
    /\ UNCHANGED parseVars

------------------------------------------------------------------------------
PackStep == PackCrash \/ PackEntry \/ PackRetry \/ PackEnd

Next ==
    \/ SkipEmpty \/ ParseToken \/ ParseError \/ ParseEnd
    \/ \E a \in BoundedSeq(Values, MaxArgs), h \in Headers : Call(a, h)
    \/ PackStep
    \/ SerialTail
    \/ UnpackBegin \/ UnpackEntry \/ UnpackEnd
    \/ Return

Spec == Init /\ [][Next]_vars

\* A packer runs to its end inside one C call.
FairSpec == Spec /\ WF_vars(PackStep)

------------------------------------------------------------------------------
\* Every variable keeps to its range: the parser to the format, the packer to
\* the cache it walks.
TypeOK ==
    /\ phase \in {"parse", "ready", "pack", "packed", "sent", "unpack", "unpacked", "crashed"}
    /\ format \in Seq(Fields \cup {Empty})
    /\ at \in 0..Len(format)
    /\ len \in Nat /\ conv \in {"d", "u", "x", "-"}
    /\ cache \in Seq(Entries) /\ Len(cache) <= at
    /\ nocache \in BOOLEAN /\ (nocache => cache = <<>>)
    /\ args \in Seq(Values)
    /\ head \in Headers \cup {0}
    /\ data \in Seq(0..Base - 1)
    /\ alloc \in Nat /\ fails \in 0..1
    /\ i \in 0..Len(cache) /\ arg \in Nat
    /\ grown \in BOOLEAN
    /\ starts \in Seq(Nat) /\ Len(starts) = i
    /\ off \in Nat /\ Len(pushed) <= Len(cache)

\* The cache has room for every entry and its NULL whenever the format ends in
\* (or has anywhere) an empty field; otherwise the NULL, and nothing but it, is
\* written one slot past the end.
CacheFits ==
    ~nocache /\ Written > Slots =>
        /\ Written = Slots + 1 /\ phase # "parse"
        /\ \A k \in 1..Len(format) : format[k] # Empty

\* What the comment over the packers lists (datahelpers.c 40-49).
Complete(f) == f.str \/ f.got = 2
Documented(f) == f.str \/ (f.got = 2 /\ f.conv \in {"d", "u"} /\ f.len \in {1, 2, 4, 8})
Eight(f) == f.got = 2 /\ f.len = 8     \* no branch of the parser takes it
Meaning(f) == IF f.str THEN Str ELSE Entry(f.conv, f.len)
Rank(k) == Cardinality({j \in 1..k : format[j] # Empty})     \* tokens up to field k

\* Scanning into variables that survive from token to token never changes what
\* a complete token means: every complete token selects its own function, and an
\* incomplete one at least keeps the length it gives.  A format is refused only
\* for a token the comment over the packers does not list, or for 8d and 8u:
\* those it lists as valid, and the parser never takes them.
ParsedAsWritten ==
    phase # "parse" =>
        /\ nocache => \/ format = <<>>
                      \/ \E k \in 1..Len(format) :
                             /\ format[k] # Empty
                             /\ ~Documented(format[k]) \/ Eight(format[k])
        /\ ~nocache =>
               /\ Len(cache) = Rank(Len(format))
               /\ \A k \in 1..Len(format) : ~Eight(format[k])
               /\ \A k \in 1..Len(format) : format[k] # Empty =>
                      /\ Complete(format[k]) => cache[Rank(k)] = Meaning(format[k])
                      /\ format[k].got = 1 => cache[Rank(k)].len = format[k].len

Holds(p, bytes) == \A k \in 1..Len(bytes) : data[p + k] = bytes[k]
Own(j) == Encoded(cache[j], Arg(j))     \* entry j's encoding of its own argument

\* The packed bytes are the encodings of the arguments, each of its own, without
\* gap or overlap, from the reserved header on.
Laid ==
    \A j \in 1..i :
        /\ starts[j] = IF j = 1 THEN head ELSE starts[j - 1] + Len(Own(j - 1))
        /\ starts[j] + Len(Own(j)) <= Len(data)
        /\ Holds(starts[j], Own(j))

\* As long as no packer had to ask for more room, a call carries exactly the
\* script's arguments.
PackExact == ~grown => Laid

\* The same without the condition, as "Packs data from lua starting with
\* element" and "buffer to small, reallocating ... can cause slowdowns" have it.
PackAlwaysExact == Laid

\* The packers never write past the chunk; only the checksum and the stop byte,
\* appended without asking, can.
PackFits == Len(data) <= alloc + (IF phase = "sent" THEN 2 ELSE 0)

\* The process dies in strlen(NULL) only when the script left out the string of
\* this very entry, or when a retry took it away.
CrashBlamed == phase = "crashed" => grown \/ ~Arg(i + 1).cstr

Narrow(e) == e.kind = "s" \/ e.len = 1
Value(j) ==
    IF cache[j].kind = "s" THEN Arg(j).str
    ELSE Wrapped(cache[j].kind, cache[j].len, Arg(j).num % Place[cache[j].len + 1])

\* Unpacking gives the packed values back, in their own types, up to and
\* including the first field that is wider than a byte.  A number that its type
\* cannot hold is cut to it, as the usual builds do: to convert such a double is
\* undefined in C.
RoundTrip ==
    ~grown =>
        \A j \in 1..Len(pushed) :
            (\A k \in 1..(j - 1) : Narrow(cache[k])) => pushed[j] = Value(j)

\* The wrong strides of the wide fields lag behind the layout and never run
\* ahead of it: nothing past the packed bytes is read.
UnpackWithin ==
    /\ off <= Len(data)
    /\ InUnpack => off + cache[Len(pushed) + 1].len <= Len(data)
    /\ InUnpack /\ cache[Len(pushed) + 1].kind = "s" =>
           \E k \in (off + 1)..Len(data) : data[k] = 0

\* A packer that needs a number's room goes on asking for it.
Refused == InPack /\ cache[i + 1].kind # "s"

\* A call ends, however the arguments shift: a retry that gets its memory has room
\* enough, and a string soon runs out of arguments.  The one thing that keeps it
\* is a number whose memory is refused for ever: nothing counts the retries.
PackEnds ==
    \/ phase = "pack" ~> phase \in {"packed", "crashed"}
    \/ <>[]Refused /\ <>[][PackRetry /\ UNCHANGED alloc]_vars
====
