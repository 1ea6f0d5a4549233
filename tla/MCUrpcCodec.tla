---- MODULE MCUrpcCodec ----
(* Bytes of four values and a chunk of five: three entries are enough to fill  *)
(* it, to grow it and to shift the arguments.                                  *)
EXTENDS UrpcCodec

Number1(c, n) == [str |-> FALSE, got |-> 2, len |-> n, conv |-> c]

MCFields ==
    {[str |-> TRUE, got |-> 0, len |-> 0, conv |-> "-"],     \* "s"
     Number1("d", 1), Number1("u", 2), Number1("d", 4),
     Number1("u", 8),                                        \* listed as valid, never taken
     [str |-> FALSE, got |-> 1, len |-> 2, conv |-> "-"],    \* "2"
     [str |-> FALSE, got |-> 0, len |-> 0, conv |-> "-"]}    \* "u"

MCValues ==
    {[num |-> 0, cstr |-> FALSE, str |-> <<>>],              \* a table
     [num |-> -2, cstr |-> TRUE, str |-> <<3, 1>>],          \* a number
     [num |-> 0, cstr |-> TRUE, str |-> <<2>>]}              \* a string
====
