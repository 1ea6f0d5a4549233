---- MODULE MCAuraServer ----
(* Three instances of two transports, devices that announce up to three        *)
(* objects, with names that clash with another method, with the node's own     *)
(* field, or are missing.                                                      *)
EXTENDS AuraServer

MCNames == {"a", "b", "__instance", Null}

Obj(n, isMethod) == [name |-> n, method |-> isMethod]

MCDevices ==
    {<<Obj("a", TRUE), Obj("b", FALSE), Obj("a", TRUE)>>,
     <<Obj("b", TRUE), Obj("a", TRUE)>>,
     <<Obj("__instance", TRUE)>>,
     <<Obj(Null, FALSE), Obj("b", TRUE)>>,
     <<Obj(Null, TRUE)>>}

MCConfigs == {<<"urpc", "dummy", "null", "serial">>, <<"missing", "null", "urpc">>}
MCPresent == {"urpc", "null", "serial", "dummy"}
MCCounts == {-1, 0, 1, 7}
====
