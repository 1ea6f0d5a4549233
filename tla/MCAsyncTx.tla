---- MODULE MCAsyncTx ----
(* Small instances of the transmitter.  Sizes 1 and 3 let a stale position     *)
(* fall inside, exactly at the end of, and beyond the next chunk.              *)
EXTENDS AsyncTx

MCSizes == {1, 3}

\* Everything the code has a branch for.
AllFaults == FaultKinds

\* What a blocking tty can do to a write: a signal ends it early.
ShortWrites == {"short", "again"}
====
