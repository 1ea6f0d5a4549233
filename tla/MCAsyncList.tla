---- MODULE MCAsyncList ----
(* The instance of MCAsyncTx, with the links spelled out.                      *)
EXTENDS AsyncList

MCSizes == {1, 3}

AllFaults == {"short", "again", "error", "ctl", "nomem"}
====
