---- MODULE MCSerialLink ----
(* A device with two objects over bytes of three bits.  A body holds a '[' (7), *)
(* so that a receiver out of step finds frames where there are none.  The reply *)
(* is too short for an object: where it is taken for one, the parse runs on     *)
(* into the NULs behind it.                                                     *)
EXTENDS SerialLink

MCDevObjects == <<<<1, 5, 0, 0, 0>>, <<7, 1, 3, 0, 0, 0>>>>
MCBeyond == {[i \in 1..n |-> 0] : n \in 1..5}
MCReplyBody == <<3, 4>>
MCEventBodies == {<<2>>, <<7, 3>>}

\* Nothing, the rest of an earlier frame, an event sent before the port was opened.
MCLeftovers == {<<>>, <<5, 6>>, <<7, 2, 3, 4, 6>>}
CleanLine == {<<>>, <<5, 6>>}
====
