---- MODULE UrpcCodecProofs ----
(* The parser and the packer of the argument formats, for bytes of any even    *)
(* number of values, formats of any fields and any length, and any arguments:  *)
(* the cache holds what is written into it but for one NULL, packed bytes stay *)
(* in the chunk, and a call that never had to grow carries the arguments.      *)
EXTENDS UrpcCodec, DataLemmas

ByteValues == 0..Base - 1      \* a byte

------------------------------------------------------------------------------
(* Encodings are sequences of bytes.                                           *)

\* The base of the number system of the bytes.
LEMMA BaseFacts == Base \in Nat /\ Base > 1
  BY CodecAssumption

\* Products of places are positive.
LEMMA Products ==
    ASSUME NEW a \in Nat \ {0}, NEW b \in Nat \ {0}
    PROVE  a * b \in Nat \ {0}
  OBVIOUS

\* Each place has a positive weight, Base times the one before.
LEMMA PlaceFacts ==
    /\ \A k \in 1..5 : Place[k] \in Nat \ {0}
    /\ Place[1] = 1 /\ \A k \in 1..4 : Place[k + 1] = Place[k] * Base
<1>1. Base \in Nat \ {0}
  BY BaseFacts
<1> DEFINE two == Base * Base
           three == Base * Base * Base
           four == Base * Base * Base * Base
<1>2. /\ two \in Nat \ {0} /\ two = Base * Base
      /\ three \in Nat \ {0} /\ three = two * Base
      /\ four \in Nat \ {0} /\ four = three * Base
  BY <1>1, Products
<1> HIDE DEF two, three, four
<1>3. Place = <<1, Base, two, three, four>>
  BY DEF Place, two, three, four
<1>4. Place[1] = 1 /\ Place[2] = Base /\ Place[3] = two /\ Place[4] = three /\ Place[5] = four
  BY <1>3
<1>5. \A k \in 1..5 : k = 1 \/ k = 2 \/ k = 3 \/ k = 4 \/ k = 5
  OBVIOUS
<1>6. Place[2] = Place[1] * Base
  BY <1>1, <1>4
<1>7. QED
  BY <1>1, <1>2, <1>4, <1>5, <1>6

\* A digit is a byte.
LEMMA Digit ==
    ASSUME NEW v \in Int, NEW d \in Nat \ {0}
    PROVE  (v \div d) % Base \in ByteValues
<1>1. v \div d \in Int
  OBVIOUS
<1>2. \A x \in Int : x % Base \in 0..Base - 1
  BY BaseFacts
<1>3. QED
  BY <1>1, <1>2 DEF ByteValues

\* A packer lays out a number or a string as bytes.
LEMMA EncodedBytes ==
    ASSUME NEW e \in Entries, NEW v \in Values \cup {Nil}
    PROVE  Encoded(e, v) \in Seq(ByteValues)
<1>1. /\ v.num \in Int
      /\ v.str \in Seq(1..Base - 1)
  <2>1. CASE v \in Values
    BY <2>1, CodecAssumption
  <2>2. CASE v = Nil
    BY <2>2 DEF Nil
  <2>3. QED
    BY <2>1, <2>2
<1>2. CASE e.kind = "s"
  <2>1. v.str \in Seq(ByteValues) /\ 0 \in ByteValues
    BY <1>1, BaseFacts DEF ByteValues
  <2>2. Encoded(e, v) = Append(v.str, 0)
    BY <1>2 DEF Encoded
  <2>3. QED
    BY <2>1, <2>2, AppendProperties
<1>3. CASE e.kind # "s"
  <2>1. e.len \in {1, 2, 4}
    BY <1>3 DEF Entries, Entry, Str
  <2> DEFINE n == e.len
             f == [k \in 1..n |-> (v.num \div Place[k]) % Base]
  <2>2. ASSUME NEW k \in 1..n PROVE (v.num \div Place[k]) % Base \in ByteValues
    <3>1. Place[k] \in Nat \ {0}
      BY <2>1, PlaceFacts
    <3>2. QED
      BY <1>1, <3>1, Digit
  <2>3. n \in Nat
    BY <2>1
  <2> HIDE DEF n
  <2>4. f \in [1..n -> ByteValues]
    BY <2>2
  <2>5. f \in Seq(ByteValues) /\ Len(f) = n
    BY <2>3, <2>4
  <2> HIDE DEF f
  <2>6. Reverse(f) \in Seq(ByteValues)
    <3>1. \A k \in 1..n : f[(n - k) + 1] \in ByteValues
      BY <2>3, <2>5
    <3>2. Reverse(f) = [k \in 1..n |-> f[(n - k) + 1]]
      BY <2>5 DEF Reverse
    <3>3. QED
      BY <2>3, <3>1, <3>2
  <2>7. Encoded(e, v) = Ordered(f)
    BY <1>3 DEF Encoded, Number, f, n
  <2>8. QED
    BY <2>5, <2>6, <2>7 DEF Ordered
<1>4. QED
  BY <1>2, <1>3
------------------------------------------------------------------------------
(* The parser: each token fills at most one slot, an empty field none.         *)

ParseInv ==
    /\ Len(format) \in Nat
    /\ at \in 0..Len(format)
    /\ cache \in Seq(Entries) /\ Len(cache) <= at
    /\ (\E k \in 1..at : format[k] = Empty) => Len(cache) < at
    /\ nocache \in BOOLEAN /\ (nocache => cache = <<>>)
    /\ phase = "parse" => ~nocache
    /\ phase # "parse" /\ ~nocache => at = Len(format)

\* The cache does not change while a call is made.
Sealed == phase # "parse" /\ phase' # "parse" /\ UNCHANGED parseVars

\* A step either parses or leaves the result of the parser alone.
LEMMA Steps ==
    ASSUME [Next]_vars
    PROVE  \/ SkipEmpty \/ ParseToken \/ ParseError \/ ParseEnd
           \/ Sealed
           \/ UNCHANGED vars
<1>1. CASE \E a \in BoundedSeq(Values, MaxArgs), h \in Headers : Call(a, h)
  BY <1>1 DEF Call, Sealed
<1>2. CASE PackStep
  BY <1>2 DEF PackStep, PackCrash, PackEntry, PackRetry, PackEnd, InPack, Sealed
<1>3. CASE SerialTail \/ UnpackBegin \/ UnpackEntry \/ UnpackEnd \/ Return
  BY <1>3 DEF SerialTail, UnpackBegin, UnpackEntry, UnpackEnd, InUnpack, Return, Sealed, parseVars
<1>4. QED
  BY <1>1, <1>2, <1>3 DEF Next

\* An entry selected for a token is one of the table.
LEMMA SelectedEntry ==
    ASSUME NEW f, NEW n, NEW c, NEW e \in Selected(f, n, c)
    PROVE  e \in Entries
  BY DEF Selected, Entries

\* The parser starts with nothing written.
LEMMA ParseInit == Init => ParseInv
<1> SUFFICES ASSUME Init PROVE ParseInv
  OBVIOUS
<1>1. PICK n \in 0..MaxFields : format \in [1..n -> Fields \cup {Empty}]
  BY DEF Init, BoundedSeq, SeqOf
<1>2. n \in Nat
  BY CodecAssumption
<1>3. Len(format) \in Nat
  BY <1>1, <1>2
<1>4. at = 0 /\ cache = <<>> /\ nocache = (format = <<>>)
  BY DEF Init
<1>5. cache \in Seq(Entries) /\ Len(cache) = 0
  BY <1>4
<1>6. nocache \in BOOLEAN
  BY <1>4
<1>7. nocache <=> phase # "parse"
  BY <1>4 DEF Init
<1>8. QED
  BY <1>3, <1>4, <1>5, <1>6, <1>7 DEF ParseInv

\* Every step of the parser keeps its count.
LEMMA ParseStep == ParseInv /\ [Next]_vars => ParseInv'
<1> SUFFICES ASSUME ParseInv, [Next]_vars PROVE ParseInv'
  OBVIOUS
<1> USE DEF ParseInv
<1>0. Len(cache) \in Nat
  OBVIOUS
<1>1. CASE SkipEmpty
  <2>1. /\ phase = "parse" /\ phase' = phase /\ at' = at + 1 /\ at < Len(format)
        /\ UNCHANGED <<format, cache, nocache>>
    BY <1>1 DEF SkipEmpty
  <2>2. at' \in 0..Len(format') /\ Len(cache') < at'
    BY <1>0, <2>1
  <2>3. QED
    BY <1>0, <2>1, <2>2
<1>2. CASE ParseToken
  <2>1. /\ phase = "parse" /\ phase' = phase /\ at' = at + 1 /\ at < Len(format)
        /\ format[at + 1] # Empty
        /\ UNCHANGED <<format, nocache>>
    BY <1>2 DEF ParseToken
  <2>2. PICK e \in Chosen(format[at + 1]) : cache' = Append(cache, e)
    BY <1>2 DEF ParseToken
  <2>3. e \in Entries
    BY SelectedEntry DEF Chosen
  <2>4. cache' \in Seq(Entries) /\ Len(cache') = Len(cache) + 1
    BY <2>2, <2>3, AppendProperties
  <2>5. at' \in 0..Len(format') /\ Len(cache') <= at'
    BY <1>0, <2>1, <2>4
  <2>6. (\E k \in 1..at' : format'[k] = Empty) => Len(cache') < at'
    <3>1. ASSUME NEW k \in 1..at', format'[k] = Empty PROVE k \in 1..at
      BY <2>1, <3>1
    <3>2. QED
      BY <1>0, <2>1, <2>4, <3>1
  <2>7. ~nocache'
    BY <2>1
  <2>8. QED
    BY <2>1, <2>4, <2>5, <2>6, <2>7
<1>3. CASE ParseError
  BY <1>3 DEF ParseError
<1>4. CASE ParseEnd
  BY <1>4 DEF ParseEnd
<1>5. CASE Sealed
  BY <1>5 DEF Sealed, parseVars
<1>6. CASE UNCHANGED vars
  BY <1>6 DEF vars, parseVars
<1>7. QED
  BY <1>1, <1>2, <1>3, <1>4, <1>5, <1>6, Steps

\* The cache of urpc_argcache holds the functions of every format; at most its
\* NULL is written past the end, and only for a format without an empty field.
THEOREM CacheCorrect == Spec => []CacheFits
<1>1. ParseInv => CacheFits
  <2> SUFFICES ASSUME ParseInv, ~nocache, Written > Slots
               PROVE  /\ Written = Slots + 1 /\ phase # "parse"
                      /\ \A k \in 1..Len(format) : format[k] # Empty
    BY DEF CacheFits
  <2>1. Len(cache) \in Nat /\ Len(format) \in Nat /\ at \in 0..Len(format) /\ Len(cache) <= at
    BY DEF ParseInv
  <2>2. phase # "parse"
    BY <2>1 DEF Written, Slots
  <2>3. at = Len(format) /\ Written = Len(cache) + 1
    BY <2>2 DEF ParseInv, Written
  <2>4. Len(cache) = Len(format) /\ Written = Slots + 1
    BY <2>1, <2>3 DEF Slots
  <2>5. \A k \in 1..Len(format) : format[k] # Empty
    BY <2>1, <2>3, <2>4 DEF ParseInv
  <2>6. QED
    BY <2>2, <2>4, <2>5
<1>2. QED
  BY <1>1, ParseInit, ParseStep, PTL DEF Spec
------------------------------------------------------------------------------
(* What the cache means: the fields of the format that are read so far have    *)
(* their entries in it, in their order.                                        *)

ReadField(k) ==
    /\ Complete(format[k]) => cache[Rank(k)] = Meaning(format[k])
    /\ format[k].got = 1 => cache[Rank(k)].len = format[k].len

FormatInv ==
    /\ format \in Seq(Fields \cup {Empty})
    /\ nocache => \/ format = <<>>
                  \/ \E k \in 1..Len(format) :
                         /\ format[k] # Empty
                         /\ ~Documented(format[k]) \/ Eight(format[k])
    /\ ~nocache => /\ Len(cache) = Rank(at)
                   /\ \A k \in 1..at : ~Eight(format[k])
                   /\ \A k \in 1..at : format[k] # Empty => ReadField(k)

\* How many of the first k fields are tokens.
LEMMA RankFacts ==
    /\ Rank(0) = 0
    /\ \A k \in Nat : /\ Rank(k) \in Nat
                      /\ Rank(k + 1) = IF format[k + 1] = Empty THEN Rank(k) ELSE Rank(k) + 1
                      /\ \A j \in 0..k : Rank(j) <= Rank(k)
<1> DEFINE T(k) == {j \in 1..k : format[j] # Empty}
<1>1. \A k \in Nat : IsFiniteSet(T(k)) /\ Rank(k) = Cardinality(T(k)) /\ Rank(k) \in Nat
  <2> SUFFICES ASSUME NEW k \in Nat
               PROVE  IsFiniteSet(T(k)) /\ Rank(k) = Cardinality(T(k)) /\ Rank(k) \in Nat
    OBVIOUS
  <2>1. IsFiniteSet(1..k) /\ T(k) \in SUBSET (1..k)
    BY FS_Interval
  <2>2. IsFiniteSet(T(k))
    BY <2>1, FS_Subset
  <2>3. QED
    BY <2>2, FS_CardinalityType DEF Rank
<1>2. Rank(0) = 0
  <2>1. T(0) = {}
    OBVIOUS
  <2>2. QED
    BY <1>1, <2>1, FS_EmptySet
<1>3. ASSUME NEW k \in Nat
      PROVE  Rank(k + 1) = IF format[k + 1] = Empty THEN Rank(k) ELSE Rank(k) + 1
  <2>0. /\ Rank(k) = Cardinality(T(k)) /\ Rank(k + 1) = Cardinality(T(k + 1))
        /\ IsFiniteSet(T(k))
    BY <1>1
  <2>1. CASE format[k + 1] = Empty
    <3>1. T(k + 1) = T(k)
      BY <2>1
    <3>2. QED
      BY <2>0, <2>1, <3>1
  <2>2. CASE format[k + 1] # Empty
    <3>1. T(k + 1) = T(k) \cup {k + 1} /\ k + 1 \notin T(k)
      BY <2>2
    <3>2. Cardinality(T(k) \cup {k + 1}) = Cardinality(T(k)) + 1
      BY <2>0, <3>1, FS_AddElement
    <3>3. QED
      BY <2>0, <2>2, <3>1, <3>2
  <2>3. QED
    BY <2>1, <2>2
<1>4. ASSUME NEW k \in Nat, NEW j \in 0..k PROVE Rank(j) <= Rank(k)
  <2>1. T(j) \in SUBSET T(k)
    OBVIOUS
  <2>2. Cardinality(T(j)) <= Cardinality(T(k))
    BY <1>1, <2>1, FS_Subset
  <2>3. QED
    BY <1>1, <2>2
<1>5. QED
  BY <1>1, <1>2, <1>3, <1>4

\* The entry a token selects, whatever the tokens before it have left in len and
\* fmt.
LEMMA ChosenFacts ==
    ASSUME NEW f \in Fields
    PROVE  /\ Chosen(f) = {} => ~Documented(f) \/ Eight(f)
           /\ Eight(f) => Chosen(f) = {}
           /\ \A e \in Chosen(f) : /\ Complete(f) => e = Meaning(f)
                                   /\ f.got = 1 => e.len = f.len
<1>1. f.str => f.got = 0
  BY CodecAssumption
<1>2. CASE f.str
  BY <1>1, <1>2 DEF Chosen, Selected, Complete, Meaning, Eight
<1>3. CASE ~f.str
  <2>1. Chosen(f) = Entries \cap {Entry(Scan(f).conv, Scan(f).len)}
    BY <1>3 DEF Chosen, Selected
  <2>2. f.got = 2 => Scan(f).len = f.len /\ Scan(f).conv = f.conv
    BY DEF Scan
  <2>3. f.got = 1 => Scan(f).len = f.len
    BY DEF Scan
  <2>4. f.got = 2 => Chosen(f) = Entries \cap {Entry(f.conv, f.len)}
    BY <2>1, <2>2
  <2>5. Eight(f) => Chosen(f) = {}
    BY <2>4 DEF Eight, Entries, Entry, Str
  <2>6. Documented(f) /\ ~Eight(f) => Entry(f.conv, f.len) \in Entries
    BY <1>3 DEF Documented, Eight, Entries, Entry, Str
  <2>7. Chosen(f) = {} => ~Documented(f) \/ Eight(f)
    BY <1>3, <2>4, <2>6 DEF Documented
  <2>8. \A e \in Chosen(f) : (Complete(f) => e = Meaning(f)) /\ (f.got = 1 => e.len = f.len)
    BY <1>3, <2>1, <2>2, <2>3 DEF Complete, Meaning, Entry
  <2>9. QED
    BY <2>5, <2>7, <2>8
<1>4. QED
  BY <1>2, <1>3

\* No field is read.
LEMMA FormatInit == Init => FormatInv
<1> SUFFICES ASSUME Init PROVE FormatInv
  OBVIOUS
<1>1. PICK n \in 0..MaxFields : format \in [1..n -> Fields \cup {Empty}]
  BY DEF Init, BoundedSeq, SeqOf
<1>2. n \in Nat
  BY CodecAssumption
<1>3. format \in Seq(Fields \cup {Empty})
  BY <1>1, <1>2
<1>4. at = 0 /\ cache = <<>> /\ nocache = (format = <<>>)
  BY DEF Init
<1>5. Len(cache) = Rank(at)
  BY <1>4, RankFacts, EmptySeq
<1>6. \A k \in 1..at : FALSE
  BY <1>4
<1>7. nocache => format = <<>>
  BY <1>4
<1>8. QED
  BY <1>3, <1>5, <1>6, <1>7 DEF FormatInv

\* Every token that is read gets its entry, and the ones before keep theirs.
LEMMA FormatStep == ParseInv /\ FormatInv /\ [Next]_vars => FormatInv'
<1> SUFFICES ASSUME ParseInv, FormatInv, [Next]_vars PROVE FormatInv'
  OBVIOUS
<1>1. /\ format \in Seq(Fields \cup {Empty}) /\ at \in Nat /\ cache \in Seq(Entries)
      /\ Len(cache) \in Nat /\ Len(format) \in Nat /\ at <= Len(format)
  BY DEF FormatInv, ParseInv
<1>2. CASE SkipEmpty
  <2>1. /\ phase = "parse" /\ at' = at + 1 /\ format[at + 1] = Empty
        /\ UNCHANGED <<format, cache, nocache>>
    BY <1>2 DEF SkipEmpty
  <2>2. ~nocache
    BY <2>1 DEF ParseInv
  <2>3. Rank(at + 1) = Rank(at)
    BY <1>1, <2>1, RankFacts
  <2>4. Len(cache') = Rank(at)'
    <3>1. Rank(at)' = Rank(at + 1)
      BY <2>1 DEF Rank
    <3>2. QED
      BY <2>1, <2>2, <2>3, <3>1 DEF FormatInv
  <2>5. ASSUME NEW k \in 1..at', format[k] # Empty PROVE ReadField(k)'
    <3>1. k \in 1..at
      BY <1>1, <2>1, <2>5
    <3>2. QED
      BY <2>1, <2>2, <2>5, <3>1 DEF FormatInv, ReadField, Rank
  <2>6. \A k \in 1..at' : ~Eight(format'[k])
    <3>1. ~Eight(Empty)
      BY DEF Eight, Empty
    <3>2. QED
      BY <1>1, <2>1, <2>2, <3>1 DEF FormatInv
  <2>7. QED
    BY <1>1, <2>1, <2>2, <2>4, <2>5, <2>6 DEF FormatInv
<1>3. CASE ParseToken
  <2>1. /\ phase = "parse" /\ at' = at + 1 /\ at < Len(format)
        /\ format[at + 1] # Empty
        /\ UNCHANGED <<format, nocache>>
    BY <1>3 DEF ParseToken
  <2>2. PICK e \in Chosen(format[at + 1]) : cache' = Append(cache, e)
    BY <1>3 DEF ParseToken
  <2>3. PICK f \in Fields : f = format[at + 1]
    BY <1>1, <2>1, ElementOfSeq
  <2>4. ~nocache
    BY <2>1 DEF ParseInv
  <2>5. e \in Entries
    BY SelectedEntry DEF Chosen
  <2>6. /\ Len(cache') = Len(cache) + 1 /\ cache'[Len(cache) + 1] = e
        /\ \A k \in 1..Len(cache) : cache'[k] = cache[k]
    BY <1>1, <2>2, <2>5, AppendProperties
  <2>7. Len(cache) = Rank(at) /\ Rank(at + 1) = Rank(at) + 1
    BY <1>1, <2>1, <2>4, RankFacts DEF FormatInv
  <2>8. (\A k : Rank(k)' = Rank(k)) /\ Rank(at)' = Rank(at + 1)
    BY <2>1 DEF Rank
  <2>9. ASSUME NEW k \in 1..at', format[k] # Empty PROVE ReadField(k)'
    <3>1. CASE k = at + 1
      <4>1. cache'[Rank(k)] = e
        BY <2>6, <2>7, <3>1
      <4>2. QED
        BY <2>1, <2>2, <2>3, <2>8, <3>1, <4>1, ChosenFacts DEF ReadField
    <3>2. CASE k # at + 1
      <4>1. k \in 1..at /\ k - 1 \in Nat /\ (k - 1) + 1 = k /\ k \in 0..at
        BY <1>1, <2>1, <3>2
      <4>2. Rank(k) = Rank(k - 1) + 1 /\ Rank(k - 1) \in Nat
        BY <2>9, <4>1, RankFacts
      <4>3. Rank(k) <= Rank(at)
        BY <1>1, <4>1, RankFacts
      <4>4. Rank(k) \in 1..Len(cache)
        BY <1>1, <2>7, <4>2, <4>3
      <4>5. cache'[Rank(k)] = cache[Rank(k)]
        BY <2>6, <4>4
      <4>6. ReadField(k)
        BY <2>4, <2>9, <4>1 DEF FormatInv
      <4>7. QED
        BY <2>1, <2>8, <4>5, <4>6 DEF ReadField
    <3>3. QED
      BY <3>1, <3>2
  <2>10. Len(cache') = Rank(at)'
    BY <2>1, <2>6, <2>7, <2>8
  <2>11. \A k \in 1..at' : ~Eight(format'[k])
    <3>1. ~Eight(format[at + 1])
      BY <2>2, <2>3, ChosenFacts
    <3>2. QED
      BY <1>1, <2>1, <2>4, <3>1 DEF FormatInv
  <2>12. QED
    BY <1>1, <2>1, <2>4, <2>9, <2>10, <2>11 DEF FormatInv
<1>4. CASE ParseError
  <2>1. /\ format[at + 1] # Empty /\ Chosen(format[at + 1]) = {} /\ at < Len(format)
        /\ nocache' /\ format' = format
    BY <1>4 DEF ParseError
  <2>2. PICK f \in Fields : f = format[at + 1]
    BY <1>1, <2>1, ElementOfSeq
  <2>3. ~Documented(f) \/ Eight(f)
    BY <2>1, <2>2, ChosenFacts
  <2>4. at + 1 \in 1..Len(format)
    BY <1>1, <2>1
  <2>5. QED
    BY <1>1, <2>1, <2>2, <2>3, <2>4 DEF FormatInv
<1>5. CASE ParseEnd \/ Sealed \/ UNCHANGED vars
  <2>1. UNCHANGED <<format, at, cache, nocache>>
    BY <1>5 DEF ParseEnd, Sealed, vars, parseVars
  <2>2. QED
    BY <2>1 DEF FormatInv, ReadField, Rank
<1>6. QED
  BY <1>2, <1>3, <1>4, <1>5, Steps

\* Scanning every token into the same two variables never changes what a complete
\* token means: a format is refused only for a token that is not listed or for 8d
\* and 8u, which are listed and always refused, and otherwise each token has its
\* own function at its own place (urpc_argcache).
THEOREM ParsedCorrect == Spec => []ParsedAsWritten
<1>1. ParseInv /\ FormatInv => ParsedAsWritten
  BY DEF ParseInv, FormatInv, ReadField, ParsedAsWritten
<1>2. QED
  BY <1>1, ParseInit, ParseStep, FormatInit, FormatStep, PTL DEF Spec

------------------------------------------------------------------------------
(* The packer.                                                                 *)

PackTypes ==
    /\ args \in Seq(Values)
    /\ head \in Nat /\ alloc \in Nat
    /\ i \in 0..Len(cache) /\ arg \in Nat
    /\ grown \in BOOLEAN
    /\ starts \in Seq(Nat) /\ Len(starts) = i
    /\ phase # "sent" => data \in Seq(ByteValues)
    /\ Len(data) \in Nat

\* Between calls the packer is at the start of an empty chunk.
Idle == i = 0 /\ starts = <<>> /\ data = <<>> /\ head = 0

\* Until the first retry the argument is the one of the entry.
InStep == arg # 0 /\ (~grown => arg = i + 1)

\* Where the packed bytes end, and with them the chunk.
PackedEnd == IF i = 0 THEN head ELSE starts[i] + Len(Own(i))

LaidFull ==
    ~grown =>
        /\ Laid
        /\ \A j \in 1..i : starts[j] >= head
        /\ phase # "sent" => Len(data) = PackedEnd

PackInv ==
    /\ PackTypes
    /\ phase \in {"parse", "ready"} => Idle
    /\ phase = "pack" => InStep
    /\ CrashBlamed
    /\ PackFits
    /\ LaidFull

\* The value of an argument is a number.
LEMMA ArgValue ==
    ASSUME PackTypes, NEW k \in Nat \ {0}
    PROVE  Arg(k) \in Values \cup {Nil}
  BY ElementOfSeq DEF PackTypes, Arg

\* The bytes of an argument by its own format.
LEMMA OwnBytes ==
    ASSUME PackTypes, cache \in Seq(Entries), NEW j \in 1..Len(cache)
    PROVE  Own(j) \in Seq(ByteValues) /\ Len(Own(j)) \in Nat
<1>1. cache[j] \in Entries /\ j \in Nat \ {0}
  BY ElementOfSeq
<1>2. Own(j) \in Seq(ByteValues)
  BY <1>1, ArgValue, EncodedBytes DEF Own
<1>3. QED
  BY <1>2

\* What the layout says stays true of the same entries when bytes are appended.
LEMMA LaidKept ==
    ASSUME PackTypes, cache \in Seq(Entries), Laid,
           UNCHANGED <<args, cache, head>>,
           NEW n \in Nat, Len(data') = Len(data) + n,
           \A j \in 1..i : starts'[j] = starts[j] /\ starts[j] \in Nat /\ starts[j] >= head,
           \A k \in 1..Len(data) : k > head => data'[k] = data[k]
    PROVE  \A j \in 1..i :
               /\ starts'[j] = IF j = 1 THEN head' ELSE starts'[j - 1] + Len(Own(j - 1)')
               /\ starts'[j] + Len(Own(j)') <= Len(data')
               /\ Holds(starts[j], Own(j))'
<1> SUFFICES ASSUME NEW j \in 1..i
             PROVE  /\ starts'[j] = IF j = 1 THEN head' ELSE starts'[j - 1] + Len(Own(j - 1)')
                    /\ starts'[j] + Len(Own(j)') <= Len(data')
                    /\ Holds(starts[j], Own(j))'
  OBVIOUS
<1>1. i \in Nat /\ 1..i \subseteq 1..Len(cache) /\ Len(data) \in Nat /\ head \in Nat
  BY DEF PackTypes
<1>2. Own(j)' = Own(j) /\ Own(j - 1)' = Own(j - 1)
  BY DEF Own, Arg
<1>3. Len(Own(j)) \in Nat
  BY <1>1, OwnBytes
<1>4. /\ starts[j] = IF j = 1 THEN head ELSE starts[j - 1] + Len(Own(j - 1))
      /\ starts[j] + Len(Own(j)) <= Len(data)
      /\ Holds(starts[j], Own(j))
  BY DEF Laid
<1>5. starts'[j] = starts[j] /\ starts[j] \in Nat /\ starts[j] >= head
  OBVIOUS
<1>6. starts'[j] = IF j = 1 THEN head' ELSE starts'[j - 1] + Len(Own(j - 1)')
  <2>1. CASE j = 1
    BY <2>1, <1>4, <1>5
  <2>2. CASE j # 1
    <3>1. j - 1 \in 1..i
      BY <2>2, <1>1
    <3>2. QED
      BY <2>2, <3>1, <1>2, <1>4, <1>5
  <2>3. QED
    BY <2>1, <2>2
<1>7. starts'[j] + Len(Own(j)') <= Len(data')
  <2>1. starts'[j] + Len(Own(j)') = starts[j] + Len(Own(j))
    BY <1>2, <1>5
  <2>2. QED
    BY <2>1, <1>1, <1>3, <1>4, <1>5
<1>8. ASSUME NEW k \in 1..Len(Own(j)) PROVE data'[starts[j] + k] = Own(j)[k]
  <2>0. PICK x \in Nat, z \in Nat : x = starts[j] /\ z = Len(Own(j))
    BY <1>3, <1>5
  <2>1. starts[j] + k \in 1..Len(data) /\ starts[j] + k > head
    <3>1. x + z <= Len(data) /\ x >= head /\ k \in 1..z
      BY <1>4, <1>5, <2>0
    <3>2. x + k \in 1..Len(data) /\ x + k > head
      BY <1>1, <3>1
    <3>3. QED
      BY <2>0, <3>2
  <2>2. data[starts[j] + k] = Own(j)[k]
    BY <1>4 DEF Holds
  <2>3. QED
    BY <2>1, <2>2
<1>9. Holds(starts[j], Own(j))'
  BY <1>2, <1>5, <1>8 DEF Holds
<1>10. QED
  BY <1>6, <1>7, <1>9

\* The packer has not begun.
LEMMA PackInit == Init => PackInv
<1> SUFFICES ASSUME Init PROVE PackInv
  OBVIOUS
<1>1. phase \in {"parse", "ready"}
  BY DEF Init
<1>2. /\ args = <<>> /\ head = 0 /\ alloc = 0 /\ i = 0 /\ arg = 0
      /\ grown = FALSE /\ starts = <<>> /\ data = <<>> /\ cache = <<>>
  BY DEF Init
<1>3. PackTypes
  <2>1. <<>> \in Seq(Values) /\ <<>> \in Seq(Nat) /\ <<>> \in Seq(ByteValues) /\ Len(<<>>) = 0
    BY EmptySeq
  <2>2. i \in 0..Len(cache) /\ arg \in Nat /\ head \in Nat /\ alloc \in Nat /\ grown \in BOOLEAN
    <3>1. Len(cache) = 0
      BY <1>2, <2>1
    <3>2. i \in 0..Len(cache) /\ arg \in Nat /\ head \in Nat /\ alloc \in Nat
      BY <1>2, <3>1
    <3>3. grown \in BOOLEAN
      BY <1>2
    <3>4. QED
      BY <3>2, <3>3
  <2>3. starts \in Seq(Nat) /\ Len(starts) = i /\ args \in Seq(Values)
    BY <1>2, <2>1
  <2>4. data \in Seq(ByteValues) /\ Len(data) \in Nat
    BY <1>2, <2>1
  <2>5. QED
    BY <2>2, <2>3, <2>4 DEF PackTypes
<1>4. LaidFull
  BY <1>1, <1>2 DEF LaidFull, Laid, PackedEnd
<1>5. QED
  BY <1>1, <1>2, <1>3, <1>4 DEF PackInv, Idle, CrashBlamed, PackFits

\* A step that keeps to the chunk and the arguments.
LEMMA PackSame ==
    ASSUME PackInv, UNCHANGED <<args, head, data, alloc, i, starts, grown>>,
           cache' = cache \/ i = 0, cache' \in Seq(Entries), i <= Len(cache'),
           arg' \in Nat, phase # "sent", phase' # "sent",
           phase' \in {"parse", "ready"} => phase \in {"parse", "ready"},
           phase' = "pack" => InStep',
           phase' = "crashed" => CrashBlamed'
    PROVE  PackInv'
<1>1. PackTypes'
  BY DEF PackInv, PackTypes
<1>2. PackFits'
  BY DEF PackInv, PackFits
<1>3. ASSUME NEW j \in 1..i PROVE Own(j)' = Own(j)
  <2>1. cache' = cache
    BY <1>3 DEF PackInv, PackTypes
  <2>2. QED
    BY <2>1 DEF Own, Arg
<1>4. LaidFull'
  <2> SUFFICES ASSUME ~grown PROVE Laid' /\ (\A j \in 1..i : starts[j] >= head) /\ Len(data) = PackedEnd'
    BY DEF LaidFull
  <2>1. Laid /\ (\A j \in 1..i : starts[j] >= head) /\ Len(data) = PackedEnd
    BY DEF PackInv, LaidFull
  <2>2. i \in Nat /\ (i # 0 => i \in 1..i)
    BY DEF PackInv, PackTypes
  <2>3. PackedEnd' = PackedEnd
    BY <1>3, <2>2 DEF PackedEnd
  <2>4. Laid'
    <3>1. CASE i = 0
      BY <3>1 DEF Laid
    <3>2. CASE cache' = cache
      BY <3>2, <2>1 DEF Laid, Own, Arg, Holds
    <3>3. QED
      BY <3>1, <3>2
  <2>5. QED
    BY <2>1, <2>3, <2>4
<1>5. QED
  BY <1>1, <1>2, <1>4 DEF PackInv, Idle, CrashBlamed

\* A new call.
LEMMA PackCall ==
    ASSUME ParseInv, PackInv, NEW a \in BoundedSeq(Values, MaxArgs), NEW h \in Headers, Call(a, h)
    PROVE  PackInv'
<1>1. /\ phase' = "pack" /\ args' = a /\ head' = h /\ alloc' = Room /\ arg' = 1
      /\ data' = [k \in 1..h |-> 0]
      /\ i' = i /\ starts' = starts /\ grown' = grown /\ cache' = cache
      /\ phase = "ready"
  BY DEF Call, parseVars
<1>2. i = 0 /\ starts = <<>> /\ grown \in BOOLEAN
  BY <1>1 DEF PackInv, Idle, PackTypes
<1>3. a \in Seq(Values)
  <2>1. PICK n \in 0..MaxArgs : a \in [1..n -> Values]
    BY DEF BoundedSeq, SeqOf
  <2>2. n \in Nat
    BY CodecAssumption
  <2>3. QED
    BY <2>1, <2>2
<1>4. h \in Nat /\ h <= Room /\ Room \in Nat
  BY CodecAssumption
<1>5. data' \in Seq(ByteValues) /\ Len(data') = h
  <2>1. 0 \in ByteValues
    BY BaseFacts DEF ByteValues
  <2>2. QED
    BY <1>1, <1>4, <2>1
<1>6. PackTypes'
  <2>1. starts' \in Seq(Nat) /\ Len(starts') = 0 /\ i' \in 0..Len(cache')
    BY <1>1, <1>2 DEF ParseInv
  <2>2. QED
    BY <1>1, <1>2, <1>3, <1>4, <1>5, <2>1 DEF PackTypes
<1>7. LaidFull'
  <2>1. i' = 0 /\ \A j \in 1..i' : FALSE
    BY <1>1, <1>2
  <2>2. Laid'
    BY <2>1 DEF Laid
  <2>3. Len(data') = PackedEnd'
    BY <1>1, <1>5, <2>1 DEF PackedEnd
  <2>4. QED
    BY <2>1, <2>2, <2>3 DEF LaidFull
<1>8. PackFits'
  BY <1>1, <1>4, <1>5 DEF PackFits
<1>9. InStep' /\ CrashBlamed'
  <2>1. arg' # 0 /\ arg' = i' + 1
    BY <1>1, <1>2
  <2>2. phase' # "crashed"
    BY <1>1
  <2>3. QED
    BY <2>1, <2>2 DEF InStep, CrashBlamed
<1>10. QED
  BY <1>1, <1>6, <1>7, <1>8, <1>9 DEF PackInv

\* A packer appends its bytes.
LEMMA PackAppends ==
    ASSUME ParseInv, PackInv, PackEntry
    PROVE  PackInv'
<1>1. /\ phase = "pack" /\ phase' = "pack" /\ i < Len(cache)
      /\ Fits(Bytes)
      /\ data' = data \o Bytes
      /\ starts' = Append(starts, Len(data))
      /\ i' = i + 1 /\ arg' = arg + 1
      /\ UNCHANGED <<args, head, alloc, grown, cache>>
  BY DEF PackEntry, InPack, NextArg, parseVars
<1>2. /\ PackTypes /\ InStep /\ cache \in Seq(Entries) /\ Len(cache) \in Nat
      /\ i \in Nat /\ i + 1 \in 1..Len(cache) /\ arg \in Nat \ {0}
      /\ data \in Seq(ByteValues) /\ Len(data) \in Nat /\ head \in Nat /\ alloc \in Nat
      /\ starts \in Seq(Nat) /\ Len(starts) = i
  BY <1>1 DEF PackInv, PackTypes, InStep, ParseInv
<1>3. Bytes \in Seq(ByteValues) /\ Len(Bytes) \in Nat
  <2>1. cache[i + 1] \in Entries /\ Arg(arg) \in Values \cup {Nil}
    BY <1>2, ElementOfSeq, ArgValue
  <2>2. Bytes \in Seq(ByteValues)
    BY <2>1, EncodedBytes DEF Bytes
  <2>3. QED
    BY <2>2
<1>4. /\ data' \in Seq(ByteValues) /\ Len(data') = Len(data) + Len(Bytes)
      /\ \A k \in 1..Len(data) : data'[k] = data[k]
      /\ \A k \in 1..Len(Bytes) : data'[Len(data) + k] = Bytes[k]
  <2>1. /\ data' \in Seq(ByteValues) /\ Len(data') = Len(data) + Len(Bytes)
        /\ \A k \in 1..(Len(data) + Len(Bytes)) :
             data'[k] = IF k <= Len(data) THEN data[k] ELSE Bytes[k - Len(data)]
    BY <1>1, <1>2, <1>3, ConcatProperties
  <2>2. ASSUME NEW k \in 1..Len(Bytes) PROVE data'[Len(data) + k] = Bytes[k]
    <3>1. /\ Len(data) + k \in 1..(Len(data) + Len(Bytes)) /\ ~(Len(data) + k <= Len(data))
          /\ (Len(data) + k) - Len(data) = k
      BY <1>2, <1>3
    <3>2. QED
      BY <2>1, <3>1
  <2>3. QED
    BY <1>2, <1>3, <2>1, <2>2
<1>5. /\ starts' \in Seq(Nat) /\ Len(starts') = i + 1
      /\ \A j \in 1..i : starts'[j] = starts[j] /\ starts[j] \in Nat
      /\ starts'[i + 1] = Len(data)
  BY <1>1, <1>2, AppendProperties, ElementOfSeq
<1>6. PackTypes'
  BY <1>1, <1>2, <1>4, <1>5 DEF PackTypes
<1>7. PackFits'
  BY <1>1, <1>2, <1>3, <1>4 DEF PackFits, Fits
<1>8. InStep'
  BY <1>1, <1>2 DEF InStep
<1>9. LaidFull'
  <2> SUFFICES ASSUME ~grown
               PROVE  /\ Laid' /\ (\A j \in 1..i' : starts'[j] >= head')
                      /\ Len(data') = PackedEnd'
    BY <1>1 DEF LaidFull
  <2>0. PICK n \in Nat \ {0} : n = i + 1
    BY <1>2
  <2>1. /\ Laid /\ Len(data) = PackedEnd
        /\ \A j \in 1..i : starts[j] >= head
    BY <1>1 DEF PackInv, LaidFull
  <2>2. Own(n)' = Bytes
    BY <2>0, <1>1, <1>2 DEF InStep, Own, Bytes, Arg
  <2>3. Len(data) >= head
    <3>1. CASE i = 0
      BY <3>1, <2>1, <1>2 DEF PackedEnd
    <3>2. CASE i # 0
      <4>1. i \in 1..i /\ i \in 1..Len(cache)
        BY <3>2, <1>2
      <4>2. Len(Own(i)) \in Nat /\ starts[i] \in Nat /\ starts[i] >= head
        BY <4>1, <1>2, <1>5, <2>1, OwnBytes
      <4>3. QED
        BY <3>2, <4>2, <2>1, <1>2 DEF PackedEnd
    <3>3. QED
      BY <3>1, <3>2
  <2>4. \A j \in 1..i :
            /\ starts'[j] = IF j = 1 THEN head' ELSE starts'[j - 1] + Len(Own(j - 1)')
            /\ starts'[j] + Len(Own(j)') <= Len(data')
            /\ Holds(starts[j], Own(j))'
    BY <1>1, <1>2, <1>3, <1>4, <1>5, <2>1, LaidKept
  <2>5. /\ starts'[n] = IF n = 1 THEN head' ELSE starts'[n - 1] + Len(Own(n - 1)')
        /\ starts'[n] + Len(Own(n)') <= Len(data')
        /\ Holds(starts[n], Own(n))'
    <3>1. starts'[n] + Len(Own(n)') <= Len(data')
      BY <2>0, <1>2, <1>3, <1>4, <1>5, <2>2
    <3>2. Holds(starts[n], Own(n))'
      <4>1. \A k \in 1..Len(Bytes) : data'[starts'[n] + k] = Bytes[k]
        BY <2>0, <1>4, <1>5
      <4>2. QED
        BY <4>1, <2>2 DEF Holds
    <3>3. CASE i = 0
      BY <3>1, <3>2, <3>3, <2>0, <1>1, <1>5, <2>1 DEF PackedEnd
    <3>4. CASE i # 0
      <4>1. n - 1 = i /\ n - 1 \in 1..i /\ n # 1
        BY <3>4, <2>0, <1>2
      <4>2. Own(n - 1)' = Own(n - 1)
        BY <1>1 DEF Own, Arg
      <4>3. starts'[n] = starts[n - 1] + Len(Own(n - 1))
        BY <3>4, <4>1, <2>0, <1>5, <2>1 DEF PackedEnd
      <4>4. starts'[n] = starts'[n - 1] + Len(Own(n - 1)')
        BY <4>1, <4>2, <4>3, <1>5
      <4>5. QED
        BY <3>1, <3>2, <4>1, <4>4
    <3>5. QED
      BY <3>3, <3>4
  <2>6. Laid'
    <3>1. \A j \in 1..i' : j \in 1..i \/ j = n
      BY <2>0, <1>1, <1>2
    <3>2. ASSUME NEW j \in 1..i'
          PROVE  /\ starts'[j] = IF j = 1 THEN head' ELSE starts'[j - 1] + Len(Own(j - 1)')
                 /\ starts'[j] + Len(Own(j)') <= Len(data')
                 /\ Holds(starts[j], Own(j))'
      <4>1. CASE j \in 1..i
        BY <4>1, <2>4
      <4>2. CASE j = n
        BY <4>2, <2>5
      <4>3. QED
        BY <3>1, <4>1, <4>2
    <3>3. QED
      BY <3>2 DEF Laid
  <2>7. \A j \in 1..i' : starts'[j] >= head'
    BY <1>1, <1>2, <1>5, <2>1, <2>3
  <2>8. Len(data') = PackedEnd'
    <3>1. i' = n /\ n # 0 /\ starts'[n] = Len(data)
      BY <2>0, <1>1, <1>5
    <3>2. Own(i)' = Own(n)'
      BY <3>1
    <3>3. PackedEnd' = starts'[n] + Len(Own(n)')
      BY <3>1, <3>2 DEF PackedEnd
    <3>4. QED
      BY <3>1, <3>3, <2>2, <1>4
  <2>9. QED
    BY <2>6, <2>7, <2>8
<1>10. QED
  BY <1>1, <1>6, <1>7, <1>8, <1>9 DEF PackInv, CrashBlamed

\* urpc_serial_call writes the length into the header and appends two bytes.
LEMMA PackTail ==
    ASSUME ParseInv, PackInv, SerialTail
    PROVE  PackInv'
<1> DEFINE framed == [data EXCEPT ![2] = (Len(data) - 1) % Base]
           c == Csum(Tail(framed))
           S == ByteValues \cup {c, 0}
<1>1. /\ phase = "packed" /\ phase' = "sent" /\ head >= 3
      /\ data' = framed \o <<c, 0>>
      /\ UNCHANGED <<args, head, alloc, i, arg, grown, starts, cache>>
  BY DEF SerialTail, parseVars
<1>2. /\ PackTypes /\ cache \in Seq(Entries) /\ i \in Nat
      /\ data \in Seq(ByteValues) /\ Len(data) \in Nat /\ head \in Nat /\ alloc \in Nat
      /\ starts \in Seq(Nat) /\ Len(starts) = i
  BY <1>1 DEF PackInv, PackTypes, ParseInv
<1> HIDE DEF c
<1>3. /\ framed \in Seq(S) /\ Len(framed) = Len(data)
      /\ \A k \in 1..Len(data) : k > 2 => framed[k] = data[k]
  <2>1. data \in Seq(S)
    BY <1>2
  <2>2. (Len(data) - 1) % Base \in S
    <3>1. \A x \in Int : x % Base \in 0..Base - 1
      BY BaseFacts
    <3>2. QED
      BY <1>2, <3>1 DEF ByteValues
  <2> HIDE DEF S
  <2>3. CASE 2 \in 1..Len(data)
    BY <2>1, <2>2, <2>3, ExceptSeq
  <2>4. CASE 2 \notin 1..Len(data)
    <3>1. data = [k \in 1..Len(data) |-> data[k]]
      BY <1>2
    <3>2. framed = data
      BY <2>4, <3>1
    <3>3. QED
      BY <2>1, <3>2
  <2>5. QED
    BY <2>3, <2>4
<1> HIDE DEF framed
<1>4. /\ Len(data') = Len(data) + 2
      /\ \A k \in 1..Len(data) : k > head => data'[k] = data[k]
  <2>1. <<c, 0>> \in Seq(S) /\ Len(<<c, 0>>) = 2
    OBVIOUS
  <2> HIDE DEF S
  <2>2. /\ Len(data') = Len(framed) + 2
        /\ \A k \in 1..(Len(framed) + 2) :
             data'[k] = IF k <= Len(framed) THEN framed[k] ELSE <<c, 0>>[k - Len(framed)]
    BY <1>1, <1>3, <2>1, ConcatProperties
  <2>3. ASSUME NEW k \in 1..Len(data), k > head PROVE data'[k] = data[k]
    <3>1. k \in 1..(Len(framed) + 2) /\ k <= Len(framed) /\ k > 2
      BY <1>1, <1>2, <1>3, <2>3
    <3>2. QED
      BY <2>2, <3>1, <1>3
  <2>4. QED
    BY <1>3, <2>2, <2>3
<1>5. PackTypes'
  BY <1>1, <1>2, <1>4 DEF PackTypes
<1>6. PackFits'
  BY <1>1, <1>2, <1>4 DEF PackInv, PackFits
<1>7. LaidFull'
  <2> SUFFICES ASSUME ~grown PROVE Laid' /\ \A j \in 1..i' : starts'[j] >= head'
    BY <1>1 DEF LaidFull
  <2>1. Laid /\ \A j \in 1..i : starts[j] >= head
    BY <1>1 DEF PackInv, LaidFull
  <2>2. \A j \in 1..i : starts'[j] = starts[j] /\ starts[j] \in Nat
    BY <1>1, <1>2, ElementOfSeq
  <2>3. \A j \in 1..i :
            /\ starts'[j] = IF j = 1 THEN head' ELSE starts'[j - 1] + Len(Own(j - 1)')
            /\ starts'[j] + Len(Own(j)') <= Len(data')
            /\ Holds(starts[j], Own(j))'
    BY <1>1, <1>2, <1>4, <2>1, <2>2, LaidKept
  <2>4. QED
    BY <1>1, <2>1, <2>3 DEF Laid
<1>8. QED
  BY <1>1, <1>5, <1>6, <1>7 DEF PackInv, CrashBlamed

\* The retry asks for room and loses the argument.
LEMMA PackGrows ==
    ASSUME ParseInv, PackInv, PackRetry
    PROVE  PackInv'
<1>1. /\ phase = "pack" /\ phase' = "pack" /\ i < Len(cache)
      /\ Grow(Len(Bytes))
      /\ arg' \in {arg, arg + 1} /\ grown' = TRUE
      /\ UNCHANGED <<args, head, data, i, starts, cache>>
  BY DEF PackRetry, InPack, SkipArg, parseVars
<1>2. /\ PackTypes /\ InStep /\ cache \in Seq(Entries)
      /\ i + 1 \in 1..Len(cache) /\ arg \in Nat \ {0}
      /\ data \in Seq(ByteValues) /\ Len(data) \in Nat /\ alloc \in Nat
  BY <1>1 DEF PackInv, PackTypes, InStep, ParseInv
<1>3. Len(Bytes) \in Nat
  <2>1. cache[i + 1] \in Entries /\ Arg(arg) \in Values \cup {Nil}
    BY <1>2, ElementOfSeq, ArgValue
  <2>2. Bytes \in Seq(ByteValues)
    BY <2>1, EncodedBytes DEF Bytes
  <2>3. QED
    BY <2>2
<1>4. alloc' \in Nat /\ alloc' >= alloc
  BY <1>1, <1>2, <1>3 DEF Grow
<1>5. grown' \in BOOLEAN /\ grown'
  BY <1>1
<1>6. PackTypes'
  BY <1>1, <1>2, <1>4, <1>5 DEF PackTypes
<1>7. PackFits'
  BY <1>1, <1>2, <1>4 DEF PackInv, PackFits
<1>8. InStep' /\ LaidFull' /\ CrashBlamed'
  BY <1>1, <1>2, <1>5 DEF InStep, LaidFull, CrashBlamed
<1>9. QED
  BY <1>1, <1>6, <1>7, <1>8 DEF PackInv

\* What is known when the packer returns.
LEMMA PackReturn ==
    ASSUME ParseInv, PackInv, Return
    PROVE  PackInv'
<1>1. /\ phase' = "ready" /\ args' = <<>> /\ head' = 0 /\ data' = <<>> /\ alloc' = 0
      /\ i' = 0 /\ arg' = 0 /\ grown' = FALSE /\ starts' = <<>> /\ cache' = cache
  BY DEF Return, parseVars
<1>2. <<>> \in Seq(Values) /\ <<>> \in Seq(Nat) /\ <<>> \in Seq(ByteValues) /\ Len(<<>>) = 0
  BY EmptySeq
<1>3. Len(data') = 0 /\ Len(starts') = 0
  BY <1>1, <1>2
<1>4. PackTypes'
  <2>1. args' \in Seq(Values) /\ starts' \in Seq(Nat) /\ data' \in Seq(ByteValues)
    BY <1>1, <1>2
  <2>2. grown' \in BOOLEAN
    BY <1>1
  <2>3. i' \in 0..Len(cache')
    BY <1>1 DEF ParseInv
  <2>4. QED
    BY <1>1, <1>3, <2>1, <2>2, <2>3 DEF PackTypes
<1>5. LaidFull'
  <2>1. i' = 0 /\ \A j \in 1..i' : FALSE
    BY <1>1
  <2>2. Laid'
    BY <2>1 DEF Laid
  <2>3. Len(data') = PackedEnd'
    BY <1>1, <1>3, <2>1 DEF PackedEnd
  <2>4. QED
    BY <2>1, <2>2, <2>3 DEF LaidFull
<1>6. PackFits' /\ Idle'
  BY <1>1, <1>3 DEF PackFits, Idle
<1>7. CrashBlamed'
  BY <1>1 DEF CrashBlamed
<1>8. QED
  BY <1>1, <1>4, <1>5, <1>6, <1>7 DEF PackInv

\* Every step keeps what the packer has laid out.
LEMMA PackStepInv == ParseInv /\ ParseInv' /\ PackInv /\ [Next]_vars => PackInv'
<1> SUFFICES ASSUME ParseInv, ParseInv', PackInv, [Next]_vars PROVE PackInv'
  OBVIOUS
<1>1. cache' \in Seq(Entries) /\ PackTypes /\ (i = 0 => i <= Len(cache'))
  BY DEF ParseInv, PackInv
<1>2. CASE SkipEmpty \/ ParseToken \/ ParseError \/ ParseEnd
  <2>1. /\ UNCHANGED packVars
        /\ phase = "parse" /\ phase' \in {"parse", "ready"}
    BY <1>2 DEF SkipEmpty, ParseToken, ParseError, ParseEnd
  <2>2. i = 0
    BY <2>1 DEF PackInv, Idle
  <2>3. QED
    BY <1>1, <2>1, <2>2, PackSame DEF packVars, PackTypes
<1>3. ASSUME NEW a \in BoundedSeq(Values, MaxArgs), NEW h \in Headers, Call(a, h)
      PROVE  PackInv'
  BY <1>3, PackCall
<1>4. CASE PackCrash
  <2>1. /\ phase = "pack" /\ phase' = "crashed" /\ NoString
        /\ UNCHANGED packVars /\ cache' = cache
    BY <1>4 DEF PackCrash, InPack, parseVars
  <2>2. CrashBlamed'
    <3>1. ~grown => ~Arg(i + 1).cstr
      BY <2>1 DEF PackInv, InStep, NoString
    <3>2. QED
      BY <2>1, <3>1 DEF CrashBlamed, Arg, packVars
  <2>3. i <= Len(cache')
    BY <1>1, <2>1 DEF PackTypes
  <2>4. QED
    BY <1>1, <2>1, <2>2, <2>3, PackSame DEF packVars, PackTypes
<1>5. CASE PackEntry
  BY <1>5, PackAppends
<1>6. CASE PackRetry
  BY <1>6, PackGrows
<1>7. CASE PackEnd \/ UnpackBegin \/ UnpackEntry \/ UnpackEnd
  <2>1. /\ UNCHANGED packVars /\ cache' = cache
        /\ phase \in {"pack", "packed", "unpack"} /\ phase' \in {"packed", "unpack", "unpacked"}
    BY <1>7 DEF PackEnd, UnpackBegin, UnpackEntry, UnpackEnd, InUnpack, parseVars
  <2>2. i <= Len(cache')
    BY <1>1, <2>1 DEF PackTypes
  <2>3. QED
    BY <1>1, <2>1, <2>2, PackSame DEF packVars, PackTypes
<1>8. CASE SerialTail
  BY <1>8, PackTail
<1>9. CASE Return
  BY <1>9, PackReturn
<1>10. CASE UNCHANGED vars
  BY <1>10 DEF vars, packVars, parseVars, PackInv, PackTypes, Idle, InStep, CrashBlamed, PackFits,
              LaidFull, Laid, Holds, PackedEnd, Own, Arg
<1>11. QED
  BY <1>2, <1>3, <1>4, <1>5, <1>6, <1>7, <1>8, <1>9, <1>10 DEF Next, PackStep

\* The invariant of the packer always holds.
LEMMA PackAlways == Spec => []PackInv
  BY ParseInit, ParseStep, PackInit, PackStepInv, PTL DEF Spec

\* The packers never write past the chunk they were given (urpc_pack_data); the
\* transport does, by the two bytes it appends without asking.
THEOREM FitsCorrect == Spec => []PackFits
<1>1. PackInv => PackFits
  BY DEF PackInv
<1>2. QED
  BY <1>1, PackAlways, PTL

\* A packer dies of a missing string only when the script passed none for this
\* entry, or when a retry had shifted the arguments.
THEOREM CrashCorrect == Spec => []CrashBlamed
<1>1. PackInv => CrashBlamed
  BY DEF PackInv
<1>2. QED
  BY <1>1, PackAlways, PTL

\* A call that never had to grow carries the arguments of the script, each where
\* its format says, in every base, with every format and every header.
THEOREM PackExactCorrect == Spec => []PackExact
<1>1. PackInv => PackExact
  BY DEF PackInv, LaidFull, PackExact
<1>2. QED
  BY <1>1, PackAlways, PTL

------------------------------------------------------------------------------
(* What an encoding looks like from the other side.                            *)

\* A string ends in its only 0, a number is as long as its entry says.
LEMMA EncodedShape ==
    ASSUME NEW e \in Entries, NEW v \in Values \cup {Nil}
    PROVE  /\ v.num \in Int /\ v.str \in Seq(1..Base - 1)
           /\ e.kind = "s" =>
                /\ Len(Encoded(e, v)) = Len(v.str) + 1
                /\ Encoded(e, v)[Len(v.str) + 1] = 0
                /\ \A k \in 1..Len(v.str) : Encoded(e, v)[k] = v.str[k]
           /\ e.kind # "s" => e.len \in {1, 2, 4} /\ Len(Encoded(e, v)) = e.len
<1>1. v.num \in Int /\ v.str \in Seq(1..Base - 1)
  <2>1. CASE v \in Values
    BY <2>1, CodecAssumption
  <2>2. CASE v = Nil
    BY <2>2 DEF Nil
  <2>3. QED
    BY <2>1, <2>2
<1>2. CASE e.kind = "s"
  <2>0. v.str \in Seq(Int)
    <3>1. 1..Base - 1 \subseteq Int
      BY BaseFacts
    <3>2. QED
      BY <1>1, <3>1, SeqMonotonic
  <2>1. PICK t \in Seq(Int) : t = v.str
    BY <2>0
  <2>2. Encoded(e, v) = Append(t, 0)
    BY <1>2, <2>1 DEF Encoded
  <2>3. /\ Len(Append(t, 0)) = Len(t) + 1 /\ Append(t, 0)[Len(t) + 1] = 0
        /\ \A k \in 1..Len(t) : Append(t, 0)[k] = t[k]
    BY <2>1, AppendProperties
  <2>4. QED
    BY <1>1, <1>2, <2>1, <2>2, <2>3
<1>3. CASE e.kind # "s"
  <2>1. e.len \in {1, 2, 4}
    BY <1>3 DEF Entries, Entry, Str
  <2>2. PICK n \in Nat : n = e.len
    BY <2>1
  <2>3. PICK f : f = Number(n, v.num)
    OBVIOUS
  <2>4. Encoded(e, v) = Ordered(f)
    BY <1>3, <2>2, <2>3 DEF Encoded
  <2>5. Len(f) = n
    BY <2>2, <2>3 DEF Number
  <2>6. Len(Ordered(f)) = n
    BY <2>2, <2>5 DEF Ordered, Reverse
  <2>7. QED
    BY <1>1, <1>3, <2>1, <2>2, <2>4, <2>6
<1>4. QED
  BY <1>2, <1>3

\* The order of the bytes does not matter when both ends reverse it.
LEMMA OrderedTwice ==
    ASSUME NEW n \in Nat, NEW f, f = [k \in 1..n |-> f[k]]
    PROVE  /\ Ordered(Ordered(f)) = f
           /\ Len(Ordered(f)) = n /\ Ordered(f) = [k \in 1..n |-> Ordered(f)[k]]
<1>1. Len(f) = n
  OBVIOUS
<1>2. CASE ~Swap
  BY <1>1, <1>2 DEF Ordered
<1>3. CASE Swap
  <2>1. PICK g : g = [k \in 1..n |-> f[(n - k) + 1]]
    OBVIOUS
  <2>2. Reverse(f) = g /\ Len(g) = n
    BY <1>1, <2>1 DEF Reverse
  <2>3. Reverse(g) = [k \in 1..n |-> g[(n - k) + 1]]
    BY <2>2 DEF Reverse
  <2>4. \A k \in 1..n : g[(n - k) + 1] = f[k]
    BY <2>1
  <2>5. Reverse(g) = f
    BY <2>3, <2>4
  <2>6. QED
    BY <1>3, <2>1, <2>2, <2>5 DEF Ordered
<1>4. QED
  BY <1>2, <1>3

\* The bytes of a number add up to its remainder.
LEMMA NumberBack ==
    ASSUME NEW n \in {1, 2, 4}, NEW v \in Int
    PROVE  Unsigned(Number(n, v)) = v % Place[n + 1]
<1>1. PICK M : M = [k \in 1..5 |-> v % Place[k]]
  OBVIOUS
<1>2. PICK W : W = [k \in 1..4 |-> ((v \div Place[k]) % Base) * Place[k]]
  OBVIOUS
<1>3. ASSUME NEW k \in 1..4 PROVE M[k + 1] = M[k] + W[k] /\ M[k] \in Int /\ W[k] \in Int
  <2>1. Place[k] \in Nat \ {0} /\ Base \in Nat \ {0} /\ Place[k + 1] = Place[k] * Base
    BY BaseFacts, PlaceFacts
  <2>2. v % (Place[k] * Base) = (v % Place[k]) + ((v \div Place[k]) % Base) * Place[k]
    BY <2>1, ModProduct
  <2>3. M[k] = v % Place[k] /\ M[k + 1] = v % Place[k + 1]
        /\ W[k] = ((v \div Place[k]) % Base) * Place[k]
    BY <1>1, <1>2
  <2>4. M[k] \in Int
    <3>1. (v % Place[k]) \in 0..(Place[k] - 1)
      BY <2>1, DivMod
    <3>2. QED
      BY <2>1, <2>3, <3>1
  <2>5. (v \div Place[k]) % Base \in Int
    <3>1. v \div Place[k] \in Int
      BY <2>1, DivMod
    <3>2. QED
      BY <2>1, <3>1, DivMod
  <2>6. W[k] \in Int
    BY <2>1, <2>3, <2>5
  <2>7. QED
    BY <2>1, <2>2, <2>3, <2>4, <2>6, Zenon
<1>4. M[1] = 0
  <2>1. v % 1 = 0
    OBVIOUS
  <2>2. QED
    BY <1>1, <2>1, PlaceFacts
<1>5. PICK f : f = Number(n, v)
  OBVIOUS
<1>6. Len(f) = n /\ \A k \in 1..n : Weighed(f, k) = W[k]
  <2>1. f = [k \in 1..n |-> (v \div Place[k]) % Base]
    BY <1>5 DEF Number
  <2>2. n \in Nat /\ \A k \in 1..n : k \in 1..4
    OBVIOUS
  <2>3. Len(f) = n
    BY <2>1, <2>2
  <2>4. \A k \in 1..n : Weighed(f, k) = W[k]
    BY <1>2, <2>1, <2>2 DEF Weighed
  <2>5. QED
    BY <2>3, <2>4
<1>7. CASE n = 1
  <2>1. Unsigned(f) = W[1]
    BY <1>6, <1>7 DEF Unsigned
  <2>2. M[2] = W[1]
    <3>1. M[1 + 1] = M[1] + W[1] /\ W[1] \in Int
      BY <1>3
    <3>2. QED
      BY <1>4, <3>1
  <2>3. QED
    BY <1>1, <1>5, <1>7, <2>1, <2>2
<1>8. CASE n = 2
  <2>1. Unsigned(f) = W[1] + W[2]
    BY <1>6, <1>8 DEF Unsigned
  <2>2. M[3] = W[1] + W[2]
    <3>1. M[1 + 1] = M[1] + W[1] /\ W[1] \in Int
      BY <1>3
    <3>2. M[2 + 1] = M[2] + W[2] /\ W[2] \in Int
      BY <1>3
    <3>3. QED
      BY <1>4, <3>1, <3>2
  <2>3. QED
    BY <1>1, <1>5, <1>8, <2>1, <2>2
<1>9. CASE n = 4
  <2>1. Unsigned(f) = W[1] + W[2] + W[3] + W[4]
    BY <1>6, <1>9 DEF Unsigned
  <2>2. M[5] = W[1] + W[2] + W[3] + W[4]
    <3>1. M[1 + 1] = M[1] + W[1] /\ W[1] \in Int
      BY <1>3
    <3>2. M[2 + 1] = M[2] + W[2] /\ W[2] \in Int
      BY <1>3
    <3>3. M[3 + 1] = M[3] + W[3] /\ W[3] \in Int
      BY <1>3
    <3>4. M[4 + 1] = M[4] + W[4] /\ W[4] \in Int
      BY <1>3
    <3>5. QED
      BY <1>4, <3>1, <3>2, <3>3, <3>4
  <2>3. QED
    BY <1>1, <1>5, <1>9, <2>1, <2>2
<1>10. QED
  BY <1>7, <1>8, <1>9

\* The checksum is a byte.
LEMMA CsumByte ==
    ASSUME NEW bytes \in Seq(ByteValues)
    PROVE  Csum(bytes) \in ByteValues
<1>0. PICK n \in Nat : n = Len(bytes)
  OBVIOUS
<1> DEFINE Sum(g) == g = [k \in 0..n |-> IF k = 0 THEN 0 ELSE (g[k - 1] + bytes[k]) % Base]
           s == CHOOSE g : Sum(g)
<1>1. n \in Nat /\ 0 \in ByteValues /\ \A k \in 1..n : bytes[k] \in ByteValues
  BY <1>0, BaseFacts, ElementOfSeq DEF ByteValues
<1>2. \A x \in ByteValues, y \in ByteValues : (x + y) % Base \in ByteValues
  BY BaseFacts DEF ByteValues
<1>3. \E g : Sum(g)
  <2>1. PICK step : step = [x \in Nat \X ByteValues |->
                               IF x[1] \in 1..n THEN (x[2] + bytes[x[1]]) % Base ELSE 0]
    OBVIOUS
  <2>2. step \in [Nat \X ByteValues -> ByteValues]
    BY <1>1, <1>2, <2>1
  <2>3. PICK f \in [0..n -> ByteValues] :
            f[0] = 0 /\ \A k \in 1..n : f[k] = step[<<k, f[k - 1]>>]
    <3>1. \E f \in [0..n -> ByteValues] : Computed(f, 0, step, n)
      BY <1>1, <2>2, StepByStep
    <3>2. QED
      BY <3>1 DEF Computed
  <2>4. ASSUME NEW k \in 1..n PROVE f[k] = (f[k - 1] + bytes[k]) % Base
    <3>1. k - 1 \in 0..n /\ k \in Nat
      OBVIOUS
    <3>2. f[k - 1] \in ByteValues
      BY <2>3, <3>1
    <3>3. PICK x \in Nat \X ByteValues : x = <<k, f[k - 1]>>
      BY <3>1, <3>2
    <3>4. step[x] = (f[k - 1] + bytes[k]) % Base
      BY <2>1, <3>3
    <3>5. QED
      BY <2>3, <3>3, <3>4
  <2>5. f = [k \in 0..n |-> f[k]]
    BY <2>3
  <2>6. Sum(f)
    <3>1. \A k \in 0..n : f[k] = IF k = 0 THEN 0 ELSE (f[k - 1] + bytes[k]) % Base
      BY <1>1, <2>3, <2>4
    <3>2. QED
      BY <2>5, <3>1
  <2>7. QED
    BY <2>6
<1>4. Csum(bytes) = s[n]
  BY <1>0, Zenon DEF Csum
<1>5. Sum(s)
  <2> HIDE DEF Sum
  <2>1. QED
    BY <1>3
<1>6. PICK g : Sum(g) /\ g = s
  BY <1>5
<1>7. g[0] = 0 /\ \A k \in 1..n : g[k] = (g[k - 1] + bytes[k]) % Base
  BY <1>1, <1>6
<1> HIDE DEF Sum, s
<1>8. PICK T : T = {k \in Nat : k <= n => g[k] \in ByteValues}
  OBVIOUS
<1>9. 0 \in T
  BY <1>1, <1>7, <1>8
<1>10. ASSUME NEW k \in T PROVE k + 1 \in T
  <2>1. k \in Nat /\ (k <= n => g[k] \in ByteValues)
    BY <1>8, <1>10
  <2>2. ASSUME k + 1 <= n PROVE g[k + 1] \in ByteValues
    <3>1. k + 1 \in 1..n /\ (k + 1) - 1 = k /\ g[k] \in ByteValues
      BY <1>1, <2>1, <2>2
    <3>2. g[k + 1] = (g[k] + bytes[k + 1]) % Base
      BY <1>7, <3>1
    <3>3. QED
      BY <1>1, <1>2, <3>1, <3>2
  <2>3. QED
    BY <1>8, <2>1, <2>2
<1>11. \A k \in Nat : k \in T
  <2>1. T \in SUBSET Nat
    BY <1>8
  <2>2. QED
    BY <1>9, <1>10, <2>1, Induction
<1>12. QED
  BY <1>1, <1>4, <1>6, <1>8, <1>11

------------------------------------------------------------------------------
(* The chunk, entry by entry, whatever was packed into it: also after a retry  *)
(* has shifted the arguments every entry has the bytes its format calls for.   *)

\* Where the bytes of an entry start; those of the one after the last would start
\* at the end.
Edge(j) == IF j <= i THEN starts[j] ELSE Len(data)

Span(j) ==
    /\ Edge(j) \in Nat /\ Edge(j) <= Len(data)
    /\ IF cache[j].kind = "s" THEN Edge(j) < Edge(j + 1) /\ data[Edge(j + 1)] = 0
       ELSE Edge(j + 1) = Edge(j) + cache[j].len

Spans == phase # "sent" => \A j \in 1..i : Span(j)

\* Edges are places in the chunk.
LEMMA EdgeFacts ==
    ASSUME PackTypes, Spans, phase # "sent"
    PROVE  \A j \in Nat \ {0} : Edge(j) \in Nat /\ Edge(j) <= Len(data)
<1> SUFFICES ASSUME NEW j \in Nat \ {0} PROVE Edge(j) \in Nat /\ Edge(j) <= Len(data)
  OBVIOUS
<1>1. i \in Nat /\ Len(data) \in Nat
  BY DEF PackTypes
<1>2. CASE j <= i
  BY <1>1, <1>2 DEF Spans, Span
<1>3. CASE ~(j <= i)
  BY <1>1, <1>3 DEF Edge
<1>4. QED
  BY <1>2, <1>3

\* A packer adds the span of its entry.
LEMMA SpansGrow ==
    ASSUME ParseInv, PackInv, Spans, PackEntry
    PROVE  Spans'
<1>1. /\ phase = "pack" /\ i < Len(cache)
      /\ data' = data \o Bytes
      /\ starts' = Append(starts, Len(data))
      /\ i' = i + 1
      /\ cache' = cache
  BY DEF PackEntry, InPack, parseVars
<1>2. /\ PackTypes /\ InStep /\ cache \in Seq(Entries)
      /\ i \in Nat /\ i + 1 \in 1..Len(cache) /\ arg \in Nat \ {0}
      /\ data \in Seq(ByteValues) /\ Len(data) \in Nat
      /\ starts \in Seq(Nat) /\ Len(starts) = i
  BY <1>1 DEF PackInv, PackTypes, InStep, ParseInv
<1>3. PICK e \in Entries, v \in Values \cup {Nil} : e = cache[i + 1] /\ v = Arg(arg)
  BY <1>2, ElementOfSeq, ArgValue
<1>4. PICK b \in Seq(ByteValues) : b = Encoded(e, v) /\ b = Bytes
  BY <1>3, EncodedBytes DEF Bytes
<1>5. /\ Len(b) \in Nat /\ Len(data') = Len(data) + Len(b)
      /\ \A k \in 1..Len(data) : data'[k] = data[k]
      /\ \A k \in 1..Len(b) : data'[Len(data) + k] = b[k]
  <2>1. /\ Len(data') = Len(data) + Len(b)
        /\ \A k \in 1..(Len(data) + Len(b)) :
             data'[k] = IF k <= Len(data) THEN data[k] ELSE b[k - Len(data)]
    BY <1>1, <1>2, <1>4, ConcatProperties
  <2>2. ASSUME NEW k \in 1..Len(b) PROVE data'[Len(data) + k] = b[k]
    <3>1. /\ Len(data) + k \in 1..(Len(data) + Len(b)) /\ ~(Len(data) + k <= Len(data))
          /\ (Len(data) + k) - Len(data) = k
      BY <1>2, <1>4
    <3>2. QED
      BY <2>1, <3>1
  <2>3. QED
    BY <1>2, <1>4, <2>1, <2>2
<1>6. starts'[i + 1] = Len(data) /\ \A j \in 1..i : starts'[j] = starts[j]
  BY <1>1, <1>2, AppendProperties
<1>0. PICK n \in Nat \ {0} : n = i + 1
  BY <1>2
<1>7. /\ \A j \in 1..n : Edge(j)' = Edge(j)
      /\ Edge(n)' = Len(data) /\ Edge(n + 1)' = Len(data) + Len(b)
  BY <1>0, <1>1, <1>2, <1>5, <1>6 DEF Edge
<1>8. ASSUME NEW j \in 1..i PROVE Span(j)'
  <2>1. Span(j)
    BY <1>1 DEF Spans
  <2>2. /\ Edge(j) \in Nat /\ Edge(j) <= Len(data)
        /\ Edge(j + 1) \in Nat /\ Edge(j + 1) <= Len(data)
    <3>1. \A l \in 1..(i + 1) : Edge(l) \in Nat /\ Edge(l) <= Len(data)
      BY <1>1, <1>2, EdgeFacts
    <3>2. j \in 1..(i + 1) /\ j + 1 \in 1..(i + 1)
      BY <1>2
    <3>3. QED
      BY <3>1, <3>2
  <2>3. Edge(j)' = Edge(j) /\ Edge(j + 1)' = Edge(j + 1)
    BY <1>0, <1>2, <1>7
  <2>4. CASE cache[j].kind = "s"
    <3>1. Edge(j) < Edge(j + 1) /\ data[Edge(j + 1)] = 0
      BY <2>1, <2>4 DEF Span
    <3>2. data'[Edge(j + 1)] = 0
      BY <1>5, <2>2, <3>1
    <3>3. QED
      BY <1>1, <1>2, <1>5, <2>2, <2>3, <2>4, <3>1, <3>2 DEF Span
  <2>5. CASE cache[j].kind # "s"
    BY <1>1, <1>2, <1>5, <2>1, <2>2, <2>3, <2>5 DEF Span
  <2>6. QED
    BY <2>4, <2>5
<1>9. Span(n)'
  <2>2. Edge(n)' = Len(data) /\ Edge(n + 1)' = Len(data) + Len(b)
    BY <1>7
  <2>3. cache'[n] = e
    BY <1>0, <1>1, <1>3
  <2>4. CASE e.kind = "s"
    <3>1. Len(b) > 0 /\ b[Len(b)] = 0
      <4>1. /\ v.str \in Seq(1..Base - 1)
            /\ Len(b) = Len(v.str) + 1 /\ b[Len(v.str) + 1] = 0
        <5>1. /\ v.str \in Seq(1..Base - 1)
              /\ Len(Encoded(e, v)) = Len(v.str) + 1
              /\ Encoded(e, v)[Len(v.str) + 1] = 0
          BY <2>4, EncodedShape, Zenon
        <5>2. QED
          BY <1>4, <5>1, Zenon
      <4>2. Len(v.str) \in Nat
        BY <4>1
      <4>3. QED
        BY <4>1, <4>2
    <3>2. data'[Len(data) + Len(b)] = 0
      BY <1>5, <3>1
    <3>3. QED
      BY <1>2, <1>5, <2>2, <2>3, <2>4, <3>1, <3>2 DEF Span
  <2>5. CASE e.kind # "s"
    <3>1. Len(b) = e.len
      BY <1>4, <2>5, EncodedShape
    <3>2. QED
      BY <1>2, <1>5, <2>2, <2>3, <2>5, <3>1 DEF Span
  <2>6. QED
    BY <2>4, <2>5
<1>10. \A j \in 1..i' : j \in 1..i \/ j = n
  BY <1>0, <1>1, <1>2
<1>11. QED
  BY <1>8, <1>9, <1>10 DEF Spans

\* The other steps leave the packed entries alone, or drop them all.
LEMMA SpansStep == ParseInv /\ PackInv /\ Spans /\ [Next]_vars => Spans'
<1> SUFFICES ASSUME ParseInv, PackInv, Spans, [Next]_vars PROVE Spans'
  OBVIOUS
<1>1. ASSUME i' = 0 PROVE Spans'
  BY <1>1 DEF Spans
<1>2. ASSUME UNCHANGED <<i, starts, data, cache>>, phase # "sent" PROVE Spans'
  BY <1>2 DEF Spans, Span, Edge
<1>3. CASE SkipEmpty \/ ParseToken \/ ParseError \/ ParseEnd
  BY <1>1, <1>3
  DEF SkipEmpty, ParseToken, ParseError, ParseEnd, packVars, PackInv, Idle
<1>4. ASSUME NEW a \in BoundedSeq(Values, MaxArgs), NEW h \in Headers, Call(a, h)
      PROVE  Spans'
  BY <1>1, <1>4 DEF Call, PackInv, Idle
<1>5. CASE PackEntry
  BY <1>5, SpansGrow
<1>6. CASE PackCrash \/ PackRetry \/ PackEnd \/ UnpackBegin \/ UnpackEntry \/ UnpackEnd
  <2>1. phase # "sent" /\ UNCHANGED <<i, starts, data, cache>>
    BY <1>6 DEF PackCrash, PackRetry, PackEnd, UnpackBegin, UnpackEntry, UnpackEnd, InPack,
                InUnpack, packVars, parseVars
  <2>2. QED
    BY <1>2, <2>1
<1>7. CASE SerialTail
  BY <1>7 DEF SerialTail, Spans
<1>8. CASE Return
  BY <1>1, <1>8 DEF Return
<1>9. CASE UNCHANGED vars
  BY <1>9 DEF vars, parseVars, packVars, Spans, Span, Edge
<1>10. QED
  BY <1>3, <1>4, <1>5, <1>6, <1>7, <1>8, <1>9 DEF Next, PackStep

------------------------------------------------------------------------------
(* The unpacker.                                                               *)

\* It starts at the first entry when all of them are packed, stays behind the
\* edges, and is at them as long as no entry was wider than a byte.
UnpackInv ==
    /\ off \in Nat /\ Typed(pushed) /\ Len(pushed) <= Len(cache)
    /\ phase \notin {"unpack", "unpacked"} => off = 0 /\ pushed = <<>>
    /\ phase \in {"packed", "unpack", "unpacked"} => nocache \/ i = Len(cache)
    /\ phase \in {"unpack", "unpacked"} =>
           /\ head = 0
           /\ off <= Edge(Len(pushed) + 1)
           /\ ~grown /\ (\A k \in 1..Len(pushed) : Narrow(cache[k])) =>
                  off = Edge(Len(pushed) + 1)
    /\ RoundTrip

\* A string is read up to its NUL, if it has one.
LEMMA StrlenFacts ==
    ASSUME Len(data) \in Nat, NEW p \in Nat, NEW z \in (p + 1)..Len(data), data[z] = 0
    PROVE  /\ Strlen(p) \in Nat /\ p + Strlen(p) + 1 <= z
           /\ Byte(p + Strlen(p) + 1) = 0
           /\ \A k \in 1..Strlen(p) : Byte(p + k) # 0
<1> DEFINE Z == {n \in Nat : p + n + 1 <= Len(data) /\ Byte(p + n + 1) = 0}
           Ends(n) == Byte(p + n + 1) = 0 /\ \A k \in 1..n : Byte(p + k) # 0
<1>1. z - p - 1 \in Z
  <2>1. z - p - 1 \in Nat /\ p + (z - p - 1) + 1 = z
    OBVIOUS
  <2>2. Byte(z) = 0
    BY DEF Byte
  <2>3. QED
    BY <2>1, <2>2
<1>2. PICK n \in Z : \A k \in Z : n <= k
  <2>1. Z \in SUBSET Nat /\ Z # {}
    BY <1>1
  <2> HIDE DEF Z
  <2>2. QED
    BY <2>1, LeastNumber
<1>3. n \in 0..Len(data) /\ Byte(p + n + 1) = 0
  OBVIOUS
<1>4. ASSUME NEW k \in 1..n PROVE Byte(p + k) # 0
  <2>1. k - 1 \notin Z
    BY <1>2
  <2>2. k - 1 \in Nat /\ p + (k - 1) + 1 = p + k /\ p + k <= Len(data)
    BY <1>3
  <2>3. QED
    BY <2>1, <2>2
<1>5. \E s \in 0..Len(data) : Ends(s)
  BY <1>3, <1>4
<1>6. Strlen(p) \in 0..Len(data) /\ Ends(Strlen(p))
  <2>1. Strlen(p) = CHOOSE s \in 0..Len(data) : Ends(s)
    BY DEF Strlen
  <2> HIDE DEF Ends
  <2>2. QED
    BY <1>5, <2>1
<1>7. Strlen(p) <= n
  <2>1. CASE Strlen(p) > n
    <3>1. n + 1 \in 1..Strlen(p)
      BY <1>3, <1>6, <2>1
    <3>2. Byte(p + (n + 1)) # 0
      BY <1>6, <3>1
    <3>3. p + (n + 1) = p + n + 1
      BY <1>3
    <3>4. QED
      BY <1>3, <3>2, <3>3
  <2>2. QED
    BY <1>3, <1>6, <2>1
<1>8. n <= z - p - 1
  BY <1>1, <1>2
<1>9. p + Strlen(p) + 1 <= z
  BY <1>3, <1>6, <1>7, <1>8
<1>10. QED
  BY <1>6, <1>9

\* A string that lies at p is the one that is read there.
LEMMA StrlenExact ==
    ASSUME Len(data) \in Nat, NEW p \in Nat, NEW t \in Seq(1..Base - 1),
           p + Len(t) + 1 <= Len(data), data[p + Len(t) + 1] = 0,
           \A k \in 1..Len(t) : data[p + k] = t[k]
    PROVE  Strlen(p) = Len(t) /\ [k \in 1..Strlen(p) |-> Byte(p + k)] = t
<1>1. Len(t) \in Nat /\ \A k \in 1..Len(t) : t[k] # 0
  <2>1. \A k \in 1..Len(t) : t[k] \in 1..Base - 1
    BY ElementOfSeq
  <2>2. QED
    BY <2>1, BaseFacts
<1>2. /\ Strlen(p) \in Nat /\ p + Strlen(p) + 1 <= p + Len(t) + 1
      /\ Byte(p + Strlen(p) + 1) = 0
  BY <1>1, StrlenFacts
<1>3. ~(Strlen(p) < Len(t))
  <2> SUFFICES ASSUME Strlen(p) < Len(t) PROVE FALSE
    OBVIOUS
  <2>1. PICK k \in 1..Len(t) : k = Strlen(p) + 1
    BY <1>1, <1>2
  <2>0. PICK x \in Nat, y \in Nat, z \in Nat : x = Strlen(p) /\ y = Len(t) /\ z = Len(data)
    BY <1>1, <1>2
  <2>2. p + k = p + Strlen(p) + 1 /\ p + k <= Len(data)
    <3>1. x + 1 <= y /\ k = x + 1 /\ p + y + 1 <= z
      BY <2>0, <2>1
    <3>2. p + k = p + x + 1 /\ p + k <= z
      BY <3>1
    <3>3. QED
      BY <2>0, <3>2
  <2>3. Byte(p + k) = data[p + k]
    BY <2>2 DEF Byte
  <2>4. QED
    BY <1>1, <1>2, <2>2, <2>3
<1>4. Strlen(p) = Len(t)
  BY <1>1, <1>2, <1>3
<1>5. \A k \in 1..Len(t) : Byte(p + k) = t[k]
  BY <1>1 DEF Byte
<1>6. t = [k \in 1..Len(t) |-> t[k]]
  OBVIOUS
<1>7. QED
  BY <1>4, <1>5, <1>6

\* Without a retry every entry ends where its own argument does.
LEMMA OwnEdge ==
    ASSUME PackInv, ~grown, phase # "sent", NEW j \in 1..i
    PROVE  /\ Edge(j + 1) = Edge(j) + Len(Own(j)) /\ Edge(j) = starts[j]
           /\ Holds(Edge(j), Own(j)) /\ starts[j] + Len(Own(j)) <= Len(data)
           /\ Edge(1) = head
<1>1. Laid /\ Len(data) = PackedEnd /\ i \in Nat
  BY DEF PackInv, LaidFull, PackTypes
<1>2. /\ starts[j] + Len(Own(j)) <= Len(data) /\ Holds(starts[j], Own(j))
      /\ Edge(j) = starts[j]
  BY <1>1 DEF Laid, Edge
<1>3. Edge(j + 1) = starts[j] + Len(Own(j))
  <2>1. CASE j = i
    BY <1>1, <2>1 DEF Edge, PackedEnd
  <2>2. CASE j # i
    <3>1. j + 1 \in 1..i /\ (j + 1) - 1 = j /\ j + 1 # 1
      BY <1>1, <2>2
    <3>2. starts[j + 1] = starts[j] + Len(Own(j))
      BY <1>1, <3>1 DEF Laid
    <3>3. QED
      BY <3>1, <3>2 DEF Edge
  <2>3. QED
    BY <2>1, <2>2
<1>4. Edge(1) = head
  <2>1. 1 \in 1..i
    BY <1>1
  <2>2. QED
    BY <1>1, <2>1 DEF Laid, Edge
<1>5. QED
  BY <1>2, <1>3, <1>4

\* One entry is read: its value is the packed one if everything before it was read
\* to its end.
LEMMA EntryReads ==
    ASSUME ParseInv, PackInv, Spans, UnpackInv, InUnpack, NEW n \in Nat \ {0},
           n = Len(pushed) + 1, NEW e \in Entries, e = cache[n]
    PROVE  /\ off + Advance(e) \in Nat /\ off + Advance(e) <= Edge(n + 1)
           /\ ~grown /\ (\A k \in 1..Len(pushed) : Narrow(cache[k])) =>
                /\ Decoded(e) = Value(n)
                /\ Narrow(e) => off + Advance(e) = Edge(n + 1)
<1>1. /\ phase = "unpack" /\ ~nocache /\ Len(pushed) < Len(cache)
      /\ PackTypes /\ Len(data) \in Nat /\ cache \in Seq(Entries)
      /\ Len(cache) \in Nat /\ Len(pushed) \in Nat
  BY DEF InUnpack, PackInv, PackTypes, ParseInv
<1>2. i = Len(cache) /\ n \in 1..i
  BY <1>1 DEF UnpackInv
<1>3. off \in Nat /\ off <= Edge(n)
  BY <1>1 DEF UnpackInv
<1>4. /\ Edge(n) \in Nat /\ Edge(n) <= Len(data)
      /\ Edge(n + 1) \in Nat /\ Edge(n + 1) <= Len(data)
  BY <1>1, EdgeFacts
<1>5. IF e.kind = "s" THEN Edge(n) < Edge(n + 1) /\ data[Edge(n + 1)] = 0
      ELSE Edge(n + 1) = Edge(n) + e.len
  BY <1>1, <1>2 DEF Spans, Span
<1>6. e.kind # "s" => e.len \in {1, 2, 4}
  BY DEF Entries, Entry, Str
<1>7. off + Advance(e) \in Nat /\ off + Advance(e) <= Edge(n + 1)
  <2>1. CASE e.kind = "s"
    <3>1. Edge(n + 1) \in (off + 1)..Len(data)
      BY <1>3, <1>4, <1>5, <2>1
    <3>2. Strlen(off) \in Nat /\ off + Strlen(off) + 1 <= Edge(n + 1)
      BY <1>1, <1>3, <1>5, <2>1, <3>1, StrlenFacts
    <3>3. QED
      BY <1>3, <2>1, <3>2 DEF Advance
  <2>2. CASE e.kind # "s"
    BY <1>3, <1>4, <1>5, <1>6, <2>2 DEF Advance
  <2>3. QED
    BY <2>1, <2>2
<1>8. ASSUME ~grown, \A k \in 1..Len(pushed) : Narrow(cache[k])
      PROVE  /\ Decoded(e) = Value(n)
             /\ Narrow(e) => off + Advance(e) = Edge(n + 1)
  <2>1. off = Edge(n)
    BY <1>1, <1>8 DEF UnpackInv
  <2>2. PICK v \in Values \cup {Nil} : v = Arg(n)
    BY <1>1, ArgValue
  <2>3. Own(n) = Encoded(e, v)
    BY <2>2 DEF Own
  <2>4. /\ Edge(n + 1) = off + Len(Own(n)) /\ off + Len(Own(n)) <= Len(data)
        /\ Holds(off, Own(n))
    BY <1>1, <1>2, <1>8, <2>1, OwnEdge
  <2>5. CASE e.kind = "s"
    <3>1. PICK t \in Seq(1..Base - 1) : t = v.str
      BY EncodedShape
    <3>2. /\ Len(Own(n)) = Len(t) + 1 /\ Own(n)[Len(t) + 1] = 0
          /\ \A k \in 1..Len(t) : Own(n)[k] = t[k]
      BY <2>3, <2>5, <3>1, EncodedShape
    <3>3. Len(t) \in Nat
      OBVIOUS
    <3>4. /\ off + Len(t) + 1 <= Len(data)
          /\ data[off + Len(t) + 1] = 0
          /\ \A k \in 1..Len(t) : data[off + k] = t[k]
      <4>1. \A k \in 1..(Len(t) + 1) : data[off + k] = Own(n)[k]
        BY <2>4, <3>2 DEF Holds
      <4>2. data[off + (Len(t) + 1)] = 0
        BY <3>2, <3>3, <4>1
      <4>3. off + (Len(t) + 1) = off + Len(t) + 1
        BY <1>3, <3>3
      <4>4. QED
        BY <1>3, <2>4, <3>2, <3>3, <4>1, <4>2, <4>3
    <3>5. Strlen(off) = Len(t) /\ [k \in 1..Strlen(off) |-> Byte(off + k)] = t
      BY <1>1, <1>3, <3>4, StrlenExact
    <3>6. Decoded(e) = t /\ Value(n) = t
      BY <2>2, <2>5, <3>1, <3>5 DEF Decoded, Value
    <3>7. off + Advance(e) = Edge(n + 1)
      BY <1>3, <2>4, <2>5, <3>2, <3>3, <3>5 DEF Advance
    <3>8. QED
      BY <3>6, <3>7
  <2>6. CASE e.kind # "s"
    <3>1. PICK l \in {1, 2, 4} : l = e.len
      BY <1>6, <2>6
    <3>2. PICK f : f = Number(l, v.num)
      OBVIOUS
    <3>3. f = [k \in 1..l |-> f[k]] /\ l \in Nat
      BY <3>2 DEF Number
    <3>4. Own(n) = Ordered(f)
      BY <2>3, <2>6, <3>1, <3>2 DEF Encoded
    <3>5. PICK g : g = Ordered(f)
      OBVIOUS
    <3>6. Ordered(g) = f /\ Len(g) = l /\ g = [k \in 1..l |-> g[k]]
      BY <3>3, <3>5, OrderedTwice
    <3>7. \A k \in 1..l : Byte(off + k) = g[k]
      <4>1. \A k \in 1..l : data[off + k] = g[k]
        BY <2>4, <3>4, <3>5, <3>6 DEF Holds
      <4>2. \A k \in 1..l : off + k <= Len(data)
        BY <1>1, <1>3, <2>4, <3>3, <3>4, <3>5, <3>6
      <4>3. QED
        BY <4>1, <4>2 DEF Byte
    <3>8. [k \in 1..l |-> Byte(off + k)] = g
      BY <3>6, <3>7
    <3>9. Taken(l) = f
      BY <3>6, <3>8 DEF Taken
    <3>10. Unsigned(Taken(l)) = v.num % Place[l + 1]
      <4>1. v.num \in Int
        BY EncodedShape
      <4>2. QED
        BY <3>2, <3>9, <4>1, NumberBack
    <3>11. Decoded(e) = Value(n)
      BY <2>2, <2>6, <3>1, <3>10 DEF Decoded, Value
    <3>12. Narrow(e) => off + Advance(e) = Edge(n + 1)
      BY <1>5, <2>1, <2>6 DEF Narrow, Advance
    <3>13. QED
      BY <3>11, <3>12
  <2>7. QED
    BY <2>5, <2>6
<1>9. QED
  BY <1>7, <1>8

\* The unpacker takes the next entry.
LEMMA UnpackTakes ==
    ASSUME ParseInv, PackInv, Spans, UnpackInv, UnpackEntry
    PROVE  UnpackInv'
<1>1. /\ InUnpack /\ phase = "unpack" /\ phase' = "unpack"
      /\ pushed' = Append(pushed, Decoded(cache[Len(pushed) + 1]))
      /\ off' = off + Advance(cache[Len(pushed) + 1])
      /\ UNCHANGED <<cache, nocache, args, head, data, i, grown, starts>>
  BY DEF UnpackEntry, InUnpack, parseVars, packVars
<1>2. /\ cache \in Seq(Entries) /\ Len(cache) \in Nat /\ Typed(pushed)
      /\ Len(pushed) \in Nat /\ Len(pushed) < Len(cache)
  BY <1>1, AppendAny DEF InUnpack, ParseInv, UnpackInv
<1>3. PICK n \in Nat \ {0} : n = Len(pushed) + 1
  BY <1>2
<1>4. PICK e \in Entries : e = cache[n]
  BY <1>2, <1>3, ElementOfSeq
<1>5. /\ off + Advance(e) \in Nat /\ off + Advance(e) <= Edge(n + 1)
      /\ ~grown /\ (\A k \in 1..Len(pushed) : Narrow(cache[k])) =>
           /\ Decoded(e) = Value(n)
           /\ Narrow(e) => off + Advance(e) = Edge(n + 1)
  BY <1>1, <1>3, <1>4, EntryReads
<1>6. /\ Typed(pushed') /\ Len(pushed') = n /\ pushed'[n] = Decoded(e)
      /\ \A k \in 1..Len(pushed) : pushed'[k] = pushed[k]
  BY <1>1, <1>2, <1>3, <1>4, AppendAny
<1>7. \A k : Edge(k)' = Edge(k) /\ Value(k)' = Value(k)
  BY <1>1 DEF Edge, Value, Arg
<1>8. \A k \in 1..n : k \in 1..Len(pushed) \/ k = n
  BY <1>2, <1>3
<1>9. RoundTrip'
  <2> SUFFICES ASSUME ~grown, NEW j \in 1..n, \A k \in 1..(j - 1) : Narrow(cache[k])
               PROVE  pushed'[j] = Value(j)
    BY <1>1, <1>6, <1>7 DEF RoundTrip
  <2>1. CASE j = n
    <3>1. \A k \in 1..Len(pushed) : Narrow(cache[k])
      BY <1>2, <1>3, <2>1
    <3>2. QED
      BY <1>5, <1>6, <2>1, <3>1
  <2>2. CASE j \in 1..Len(pushed)
    BY <1>6, <2>2 DEF UnpackInv, RoundTrip
  <2>3. QED
    BY <1>8, <2>1, <2>2
<1>10. Edge(Len(pushed) + 1)' = Edge(n + 1)
  <2>1. Edge(n + 1)' = Edge(n + 1)
    BY <1>7
  <2>2. QED
    BY <1>6, <2>1 DEF Edge
<1>11. off' \in Nat /\ off' <= Edge(Len(pushed) + 1)'
  BY <1>1, <1>3, <1>4, <1>5, <1>10
<1>12. ~grown' /\ (\A k \in 1..Len(pushed') : Narrow(cache'[k])) => off' = Edge(Len(pushed) + 1)'
  <2> SUFFICES ASSUME ~grown, \A k \in 1..n : Narrow(cache[k])
               PROVE  off + Advance(e) = Edge(n + 1)
    BY <1>1, <1>3, <1>4, <1>6, <1>10
  <2>1. \A k \in 1..Len(pushed) : k \in 1..n
    BY <1>2, <1>3
  <2>2. Narrow(e)
    BY <1>4
  <2>3. QED
    BY <1>5, <2>1, <2>2
<1>13. /\ Len(pushed') <= Len(cache') /\ head' = 0 /\ (nocache' \/ i' = Len(cache'))
  BY <1>1, <1>2, <1>3, <1>6 DEF UnpackInv
<1>14. QED
  BY <1>1, <1>6, <1>9, <1>11, <1>12, <1>13 DEF UnpackInv

\* Before the unpacker starts there is nothing to say but that it has not.
LEMMA UnpackIdle ==
    ASSUME off' = 0, pushed' = <<>>, cache' \in Seq(Entries),
           phase' \notin {"unpack", "unpacked"},
           phase' = "packed" => nocache' \/ i' = Len(cache')
    PROVE  UnpackInv'
<1>1. Typed(pushed') /\ Len(pushed') = 0 /\ Len(cache') \in Nat
  BY EmptySeq DEF Typed
<1>2. RoundTrip'
  BY <1>1 DEF RoundTrip
<1>3. QED
  BY <1>1, <1>2 DEF UnpackInv

\* Every step.
LEMMA UnpackStep ==
    ParseInv /\ ParseInv' /\ PackInv /\ Spans /\ UnpackInv /\ [Next]_vars => UnpackInv'
<1> SUFFICES ASSUME ParseInv, ParseInv', PackInv, Spans, UnpackInv, [Next]_vars
             PROVE  UnpackInv'
  OBVIOUS
<1>0. cache' \in Seq(Entries)
  BY DEF ParseInv
<1>1. phase \notin {"unpack", "unpacked"} => off = 0 /\ pushed = <<>>
  BY DEF UnpackInv
<1>2. CASE SkipEmpty \/ ParseToken \/ ParseError \/ ParseEnd
  <2>1. /\ UNCHANGED <<off, pushed>> /\ phase = "parse" /\ phase' \in {"parse", "ready"}
    BY <1>2 DEF SkipEmpty, ParseToken, ParseError, ParseEnd, unpackVars
  <2>2. QED
    BY <1>0, <1>1, <2>1, UnpackIdle
<1>3. ASSUME NEW a \in BoundedSeq(Values, MaxArgs), NEW h \in Headers, Call(a, h)
      PROVE  UnpackInv'
  BY <1>0, <1>1, <1>3, UnpackIdle DEF Call, unpackVars
<1>4. CASE PackStep
  <2>1. /\ UNCHANGED <<off, pushed>> /\ phase = "pack"
        /\ phase' \notin {"unpack", "unpacked"}
    BY <1>4 DEF PackStep, PackCrash, PackEntry, PackRetry, PackEnd, InPack, unpackVars
  <2>2. phase' = "packed" => nocache' \/ i' = Len(cache')
    BY <1>4 DEF PackStep, PackCrash, PackEntry, PackRetry, PackEnd, InPack, parseVars, packVars
  <2>3. QED
    BY <1>0, <1>1, <2>1, <2>2, UnpackIdle
<1>5. CASE SerialTail
  BY <1>0, <1>1, <1>5, UnpackIdle DEF SerialTail, unpackVars
<1>6. CASE Return
  BY <1>0, <1>6, UnpackIdle DEF Return
<1>7. CASE UnpackBegin
  <2>1. /\ phase = "packed" /\ phase' = "unpack" /\ head = 0
        /\ UNCHANGED <<cache, nocache, args, head, data, i, grown, starts, off, pushed>>
    BY <1>7 DEF UnpackBegin, parseVars, packVars, unpackVars
  <2>2. off = 0 /\ pushed = <<>> /\ Len(pushed) = 0
    BY <1>1, <2>1
  <2>3. Edge(1) \in Nat /\ PackTypes
    BY <2>1, EdgeFacts DEF PackInv
  <2>4. ~grown => Edge(1) = 0
    <3>1. CASE i = 0
      BY <2>1, <3>1 DEF PackInv, LaidFull, PackedEnd, Edge
    <3>2. CASE i # 0
      <4>1. 1 \in 1..i
        BY <2>3, <3>2 DEF PackTypes
      <4>2. QED
        BY <2>1, <4>1, OwnEdge
    <3>3. QED
      BY <3>1, <3>2
  <2>5. Edge(Len(pushed) + 1)' = Edge(1)
    BY <2>1, <2>2 DEF Edge
  <2>6. RoundTrip'
    BY <2>1, <2>2 DEF RoundTrip
  <2>7. Typed(pushed') /\ Len(pushed') <= Len(cache') /\ (nocache' \/ i' = Len(cache'))
    BY <2>1 DEF UnpackInv
  <2>8. QED
    BY <2>1, <2>2, <2>3, <2>4, <2>5, <2>6, <2>7 DEF UnpackInv
<1>8. CASE UnpackEntry
  BY <1>8, UnpackTakes
<1>9. CASE UnpackEnd \/ UNCHANGED vars
  <2>1. /\ UNCHANGED <<cache, nocache, args, head, data, i, grown, starts, off, pushed>>
        /\ phase' = phase \/ (phase = "unpack" /\ phase' = "unpacked")
    BY <1>9 DEF UnpackEnd, vars, parseVars, packVars, unpackVars
  <2>2. RoundTrip' /\ Edge(Len(pushed) + 1)' = Edge(Len(pushed) + 1)
    BY <2>1 DEF UnpackInv, RoundTrip, Value, Arg, Edge
  <2>3. QED
    BY <2>1, <2>2 DEF UnpackInv
<1>10. QED
  BY <1>2, <1>3, <1>4, <1>5, <1>6, <1>7, <1>8, <1>9 DEF Next

\* What holds of every run of the codec.
LEMMA CodecAlways == Spec => [](ParseInv /\ FormatInv /\ PackInv /\ Spans /\ UnpackInv)
<1>1. Init => Spans /\ UnpackInv
  <2> SUFFICES ASSUME Init PROVE Spans /\ UnpackInv
    OBVIOUS
  <2>1. /\ i = 0 /\ off = 0 /\ pushed = <<>> /\ cache = <<>>
        /\ phase \in {"parse", "ready"}
    BY DEF Init
  <2>2. Typed(pushed) /\ Len(pushed) = 0 /\ Len(cache) = 0
    BY <2>1, EmptySeq DEF Typed
  <2>3. Spans
    BY <2>1 DEF Spans
  <2>4. RoundTrip
    BY <2>2 DEF RoundTrip
  <2>5. QED
    BY <2>1, <2>2, <2>3, <2>4 DEF UnpackInv
<1>2. QED
  BY <1>1, ParseInit, FormatInit, PackInit, ParseStep, FormatStep, PackStepInv, SpansStep,
     UnpackStep, PTL DEF Spec

\* A value that was packed without a retry comes back, in its own type, as long as
\* no entry before it was wider than a byte (urpc_unpack_data and its unpackers).
THEOREM RoundTripCorrect == Spec => []RoundTrip
<1>1. UnpackInv => RoundTrip
  BY DEF UnpackInv
<1>2. QED
  BY <1>1, CodecAlways, PTL

\* Nothing past the packed bytes is read, although the unpackers of wide numbers
\* advance by one byte and lag behind (datahelpers.c 84-222).
THEOREM WithinCorrect == Spec => []UnpackWithin
<1>1. ParseInv /\ PackInv /\ Spans /\ UnpackInv => UnpackWithin
  <2> SUFFICES ASSUME ParseInv, PackInv, Spans, UnpackInv PROVE UnpackWithin
    OBVIOUS
  <2>1. PackTypes /\ Len(data) \in Nat /\ off \in Nat /\ Len(pushed) \in Nat
    BY AppendAny DEF PackInv, PackTypes, UnpackInv
  <2>2. PICK n \in Nat \ {0} : n = Len(pushed) + 1
    BY <2>1
  <2>3. off <= Len(data)
    <3>1. CASE phase \in {"unpack", "unpacked"}
      BY <2>1, <2>2, <3>1, EdgeFacts DEF UnpackInv
    <3>2. CASE phase \notin {"unpack", "unpacked"}
      BY <2>1, <3>2 DEF UnpackInv
    <3>3. QED
      BY <3>1, <3>2
  <2>4. ASSUME InUnpack
        PROVE  /\ off + cache[n].len <= Len(data)
               /\ cache[n].kind = "s" => \E k \in (off + 1)..Len(data) : data[k] = 0
    <3>1. /\ phase = "unpack" /\ n \in 1..i /\ n \in 1..Len(cache)
          /\ off <= Edge(n) /\ cache \in Seq(Entries)
      BY <2>1, <2>2, <2>4 DEF InUnpack, UnpackInv, ParseInv
    <3>2. PICK e \in Entries : e = cache[n]
      BY <3>1, ElementOfSeq
    <3>3. /\ Edge(n) \in Nat /\ Edge(n) <= Len(data)
          /\ Edge(n + 1) \in Nat /\ Edge(n + 1) <= Len(data)
      BY <2>1, <3>1, EdgeFacts
    <3>4. Span(n)
      BY <3>1 DEF Spans
    <3>5. CASE e.kind = "s"
      <4>1. e.len = 0
        BY <3>5 DEF Entries, Entry, Str
      <4>2. Edge(n) < Edge(n + 1) /\ data[Edge(n + 1)] = 0
        BY <3>2, <3>4, <3>5 DEF Span
      <4>3. Edge(n + 1) \in (off + 1)..Len(data)
        BY <2>1, <3>1, <3>3, <4>2
      <4>4. QED
        BY <2>1, <2>3, <3>2, <4>1, <4>2, <4>3
    <3>6. CASE e.kind # "s"
      <4>1. Edge(n + 1) = Edge(n) + e.len /\ e.len \in {1, 2, 4}
        BY <3>2, <3>4, <3>6 DEF Span, Entries, Entry, Str
      <4>2. QED
        BY <2>1, <3>1, <3>2, <3>3, <3>6, <4>1
    <3>7. QED
      BY <3>5, <3>6
  <2>5. QED
    BY <2>2, <2>3, <2>4 DEF UnpackWithin
<1>2. QED
  BY <1>1, CodecAlways, PTL

------------------------------------------------------------------------------
(* Types.                                                                      *)

\* What the proofs so far did not have to know.
RestTypes ==
    /\ phase \in {"parse", "ready", "pack", "packed", "sent", "unpack", "unpacked", "crashed"}
    /\ len \in Nat /\ conv \in {"d", "u", "x", "-"}
    /\ head \in Headers \cup {0} /\ Len(data) >= head
    /\ data \in Seq(ByteValues)
    /\ fails \in 0..1

\* The length in the header, the checksum and the stop byte are bytes.
LEMMA TailBytes ==
    ASSUME PackInv, RestTypes, SerialTail
    PROVE  data' \in Seq(ByteValues) /\ Len(data') >= head'
<1>1. /\ data \in Seq(ByteValues) /\ Len(data) \in Nat /\ Len(data) >= head /\ head >= 3
      /\ head \in Nat /\ head' = head
  BY DEF SerialTail, RestTypes, PackInv, PackTypes
<1>2. PICK v \in ByteValues : v = (Len(data) - 1) % Base
  <2>1. \A x \in Int : x % Base \in 0..Base - 1
    BY BaseFacts
  <2>2. QED
    BY <1>1, <2>1 DEF ByteValues
<1>3. PICK framed : framed = [data EXCEPT ![2] = v]
  OBVIOUS
<1>4. framed \in Seq(ByteValues) /\ Len(framed) = Len(data)
  <2>1. 2 \in 1..Len(data)
    BY <1>1
  <2>2. QED
    BY <1>1, <1>2, <1>3, <2>1, ExceptSeq
<1>5. Tail(framed) \in Seq(ByteValues)
  <2>1. framed # <<>>
    BY <1>1, <1>4, EmptySeq
  <2>2. QED
    BY <1>4, <2>1, HeadTailProperties
<1>6. PICK c \in ByteValues : c = Csum(Tail(framed))
  BY <1>5, CsumByte
<1>7. 0 \in ByteValues
  BY BaseFacts DEF ByteValues
<1>8. data' = framed \o <<c, 0>>
  BY <1>2, <1>3, <1>6 DEF SerialTail
<1>9. <<c, 0>> \in Seq(ByteValues) /\ Len(<<c, 0>>) = 2
  BY <1>6, <1>7
<1>10. data' \in Seq(ByteValues) /\ Len(data') = Len(framed) + 2
  BY <1>4, <1>8, <1>9, ConcatProperties
<1>11. QED
  BY <1>1, <1>4, <1>10

\* The parser keeps its locals in their types, whatever it scans into them.
LEMMA LocalsStep ==
    ASSUME FormatInv, ParseInv, RestTypes, [Next]_vars
    PROVE  len' \in Nat /\ conv' \in {"d", "u", "x", "-"}
<1>1. CASE ParseToken
  <2>1. at + 1 \in 1..Len(format) /\ format[at + 1] # Empty
    BY <1>1 DEF ParseToken, ParseInv
  <2>2. PICK f \in Fields : f = format[at + 1]
    BY <2>1, ElementOfSeq DEF FormatInv
  <2>3. f.len \in Nat /\ f.conv \in {"d", "u", "x", "-"}
    BY CodecAssumption
  <2>4. len' = Scan(f).len /\ conv' = Scan(f).conv
    BY <1>1, <2>2 DEF ParseToken
  <2>5. QED
    BY <2>3, <2>4 DEF Scan, RestTypes
<1>2. CASE ParseError \/ ParseEnd
  BY <1>2 DEF ParseError, ParseEnd, Forget
<1>3. CASE SkipEmpty
  BY <1>3 DEF SkipEmpty, RestTypes
<1>4. CASE Sealed \/ UNCHANGED vars
  BY <1>4 DEF Sealed, vars, parseVars, RestTypes
<1>5. QED
  BY <1>1, <1>2, <1>3, <1>4, Steps

\* Every step.
LEMMA RestStep ==
    ParseInv /\ FormatInv /\ PackInv /\ PackInv' /\ RestTypes /\ [Next]_vars => RestTypes'
<1> SUFFICES ASSUME ParseInv, FormatInv, PackInv, PackInv', RestTypes, [Next]_vars
             PROVE  RestTypes'
  OBVIOUS
<1>1. len' \in Nat /\ conv' \in {"d", "u", "x", "-"}
  BY LocalsStep
<1>2. phase' # "sent" => data' \in Seq(ByteValues)
  BY DEF PackInv, PackTypes
<1>3. /\ data \in Seq(ByteValues) /\ Len(data) \in Nat /\ Len(data) >= head /\ head \in Nat
      /\ head \in Headers \cup {0} /\ fails \in 0..1
  BY CodecAssumption DEF RestTypes, PackInv, PackTypes
<1>4. ASSUME UNCHANGED <<head, data, fails>>,
             phase' \in {"parse", "ready", "pack", "packed", "sent", "unpack", "unpacked", "crashed"}
      PROVE  RestTypes'
  BY <1>1, <1>3, <1>4 DEF RestTypes
<1>5. CASE SkipEmpty \/ ParseToken \/ ParseError \/ ParseEnd
  BY <1>4, <1>5 DEF SkipEmpty, ParseToken, ParseError, ParseEnd, packVars
<1>6. ASSUME NEW a \in BoundedSeq(Values, MaxArgs), NEW h \in Headers, Call(a, h)
      PROVE  RestTypes'
  <2>1. /\ phase' = "pack" /\ head' = h /\ data' = [k \in 1..h |-> 0] /\ fails' = fails
    BY <1>6 DEF Call
  <2>2. h \in Nat
    BY CodecAssumption
  <2>3. Len(data') = h
    BY <2>1, <2>2
  <2>4. QED
    BY <1>1, <1>2, <1>3, <2>1, <2>2, <2>3 DEF RestTypes
<1>7. CASE PackEntry
  <2>1. /\ phase' = phase /\ phase = "pack" /\ head' = head /\ fails' = fails
        /\ starts' = Append(starts, Len(data)) /\ data' = data \o Bytes
    BY <1>7 DEF PackEntry, InPack
  <2>2. Bytes \in Seq(ByteValues)
    <3>1. i + 1 \in 1..Len(cache) /\ cache \in Seq(Entries)
      BY <1>7 DEF PackEntry, InPack, PackInv, PackTypes, ParseInv
    <3>2. PICK e \in Entries : e = cache[i + 1]
      BY <3>1, ElementOfSeq
    <3>3. arg \in Nat \ {0} /\ args \in Seq(Values)
      BY <2>1 DEF PackInv, PackTypes, InStep
    <3>4. PICK v \in Values \cup {Nil} : v = Arg(arg)
      BY <3>3, ArgValue DEF PackInv
    <3>5. Encoded(e, v) \in Seq(ByteValues)
      BY EncodedBytes
    <3>6. QED
      BY <3>2, <3>4, <3>5 DEF Bytes
  <2>3. Len(data') >= Len(data)
    BY <1>3, <2>1, <2>2, ConcatProperties, LenProperties
  <2>4. QED
    BY <1>1, <1>2, <1>3, <2>1, <2>3 DEF RestTypes, PackInv, PackTypes
<1>8. CASE PackRetry
  <2>1. /\ phase' = phase /\ head' = head /\ data' = data
        /\ fails' = fails \/ fails' = 1 - fails
    BY <1>8 DEF PackRetry, Grow
  <2>2. fails' \in 0..1
    BY <1>3, <2>1
  <2>3. QED
    BY <1>1, <1>3, <2>1, <2>2 DEF RestTypes
<1>9. CASE PackCrash \/ PackEnd
  BY <1>4, <1>9 DEF PackCrash, PackEnd, packVars
<1>10. CASE SerialTail
  <2>1. data' \in Seq(ByteValues) /\ Len(data') >= head'
    BY <1>10, TailBytes
  <2>2. phase' = "sent" /\ head' = head /\ fails' = fails
    BY <1>10 DEF SerialTail
  <2>3. QED
    BY <1>1, <1>3, <2>1, <2>2 DEF RestTypes
<1>11. CASE UnpackBegin \/ UnpackEntry \/ UnpackEnd
  BY <1>4, <1>11 DEF UnpackBegin, UnpackEntry, UnpackEnd, InUnpack, packVars, RestTypes
<1>12. CASE Return
  <2>1. phase' = "ready" /\ head' = 0 /\ data' = <<>> /\ fails' = 0
    BY <1>12 DEF Return
  <2>2. <<>> \in Seq(ByteValues) /\ Len(<<>>) = 0
    OBVIOUS
  <2>3. QED
    BY <1>1, <1>3, <2>1, <2>2 DEF RestTypes
<1>13. CASE UNCHANGED vars
  BY <1>4, <1>13 DEF vars, packVars, RestTypes
<1>14. QED
  BY <1>5, <1>6, <1>7, <1>8, <1>9, <1>10, <1>11, <1>12, <1>13 DEF Next, PackStep

\* The parser keeps to the format, the packer and the unpacker to the cache, and
\* every byte of the chunk, the length, checksum and stop byte included, is one
\* (datahelpers.c, urpc_serial_call).
THEOREM CodecTypeCorrect == Spec => []TypeOK
<1>1. Init => RestTypes
  <2> SUFFICES ASSUME Init PROVE RestTypes
    OBVIOUS
  <2>1. /\ phase \in {"ready", "parse"} /\ len \in {0, 1, 2, 4} /\ conv \in {"d", "u", "x"}
        /\ head = 0 /\ data = <<>> /\ fails = 0
    BY CodecAssumption DEF Init
  <2>2. <<>> \in Seq(ByteValues) /\ Len(<<>>) = 0
    OBVIOUS
  <2>3. QED
    BY <2>1, <2>2 DEF RestTypes
<1>2. ParseInv /\ FormatInv /\ PackInv /\ UnpackInv /\ RestTypes => TypeOK
  BY DEF ParseInv, FormatInv, PackInv, PackTypes, UnpackInv, RestTypes, TypeOK, ByteValues
<1>3. Spec => [](ParseInv /\ FormatInv /\ PackInv /\ Spans /\ UnpackInv)
  BY CodecAlways
<1>4. QED
  BY <1>1, <1>2, <1>3, RestStep, PTL DEF Spec
====
