---- MODULE MCSerialRx ----
(* The receiver over bytes of three bits: 7 is '[', sizes are signed from 4 up. *)
(* As in the code the chunk holds one byte more than the largest byte.          *)
EXTENDS SerialRx

MCPayload == {0}

\* NULs and another byte.
MCBeyond == UNION {[1..k -> {0, 3}] : k \in 1..5}
====
