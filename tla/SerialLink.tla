---- MODULE SerialLink ----
(* The serial transport against a device: the receiver of SerialRx, requests   *)
(* that wait in the transmitter until the loop finds no input, the line in     *)
(* both directions, and the object table the uRPC framework builds from a      *)
(* discovery (l_urpc_discovery, src/plugins/urpc/urpc.c).                      *)
(*                                                                             *)
(* The device is not part of the repository.  What it sends is taken from what *)
(* the handlers read: an information packet of six bytes, then frames '[' len  *)
(* body ']' in which len counts the body with its checksum, an object being    *)
(* flags, id and three strings; a frame with only the checksum ends a          *)
(* discovery.                                                                  *)
EXTENDS SerialRx, SequencesExt

CONSTANTS
    Stop,         \* MAGIC_STOP
    DevObjects,   \* the objects of the device
    Csum,         \* a checksum; the host looks at none
    ReplyBody,    \* body of the answer to a call
    EventBodies,  \* bodies of the events the device may send
    Leftovers,    \* bytes that may be on the line at open
    LinkFaults,   \* subset of {"ctl", "loss"}
    MaxRounds,    \* bound on discoveries
    MaxCalls,     \* bound on calls
    MaxEvents,    \* bound on events
    MaxLosses     \* bound on lost bytes

ASSUME StopAssumption == Stop \in Byte /\ Stop # Start
ASSUME LinkFaultsAssumption == LinkFaults \subseteq {"ctl", "loss"}
ASSUME BodiesAssumption ==
    /\ DevObjects \in Seq(Seq(Byte)) /\ ReplyBody \in Seq(Byte)
    /\ EventBodies \subseteq Seq(Byte) /\ Leftovers \subseteq Seq(Byte)
    /\ Csum \in Byte
    /\ \A i \in 1..Len(DevObjects) : IsObject(DevObjects[i]) /\ Len(DevObjects[i]) < MaxByte
    /\ Len(ReplyBody) \in 2..MaxByte
    /\ \A e \in EventBodies : Len(e) \in 1..MaxByte

VARIABLES
    toHost,     \* bytes on the line and in the kernel, towards the host
    txq,        \* requests queued in the transmitter
    toDev,      \* requests the device has received
    devout,     \* frames the device still has to send
    table,      \* entries of inst->objects, allocated by the last discovery
    used,       \* entries the last discovery wrote
    rounds, calls, events, losses,   \* counters for the bounds
    disturbed   \* history: an event, a loss, a failed request or stale input

lineVars == <<toHost, txq, toDev, devout>>
tableVars == <<table, used>>
counters == <<rounds, calls, events, losses>>
linkVars == <<vars, lineVars, tableVars, counters, disturbed>>

Frame(body) == <<Start, Len(body)>> \o body \o <<Stop>>
Info == <<Start, 1, 1, 0, 0, Stop>>
ObjectFrame(o) == Frame(Append(o, Csum))
End == Frame(<<Csum>>)

LinkInit ==
    /\ Init
    /\ toHost \in Leftovers
    /\ txq = <<>> /\ toDev = <<>> /\ devout = <<>>
    /\ table = 0 /\ used = 0
    /\ rounds = 0 /\ calls = 0 /\ events = 0 /\ losses = 0
    /\ disturbed = \E i \in 1..Len(toHost) : toHost[i] = Start

------------------------------------------------------------------------------
(* The script.  The result of aura_async_enqueue_chunk is not looked at.       *)

Enqueue(m) ==
    \/ txq' = Append(txq, m) /\ UNCHANGED disturbed
    \/ "ctl" \in LinkFaults /\ txq = <<>> /\ disturbed' = TRUE /\ UNCHANGED txq

LinkDiscover ==
    /\ rounds < MaxRounds
    /\ Discover
    /\ Enqueue("discover")
    /\ rounds' = rounds + 1
    /\ UNCHANGED <<toHost, toDev, devout, tableVars, calls, events, losses>>

LinkCallReply ==
    /\ calls < MaxCalls
    /\ CallReply
    /\ Enqueue("call")
    /\ calls' = calls + 1
    /\ UNCHANGED <<toHost, toDev, devout, tableVars, rounds, events, losses>>

\* A method without a reply: the request is queued and the script goes on.
CallNoReply ==
    /\ calls < MaxCalls
    /\ host = "script"
    /\ used > 0
    /\ Enqueue("post")
    /\ calls' = calls + 1
    /\ UNCHANGED <<vars, toHost, toDev, devout, tableVars, rounds, events, losses>>

\* l_urpc_discovery allocates what discovery returned and fills in what is on
\* the list.
LinkReturn ==
    /\ Return
    /\ IF host = "discovery" THEN table' = objcount /\ used' = Len(objlist)
       ELSE UNCHANGED tableVars
    /\ UNCHANGED <<lineVars, counters, disturbed>>

LinkLoopForever == LoopForever /\ UNCHANGED <<lineVars, tableVars, counters, disturbed>>

------------------------------------------------------------------------------
(* One turn of the loop: aura_async_xfer_handler looks at EPOLLIN first.       *)

LoopIn ==
    /\ toHost # <<>>
    /\ \E k \in 0..Len(toHost) :
         /\ Receive(SubSeq(toHost, 1, k))
         /\ toHost' = SubSeq(toHost, k + 1, Len(toHost))
    /\ UNCHANGED <<txq, toDev, devout, tableVars, counters, disturbed>>

\* Mutant: the request is taken off the queue and never written.
LoopOutDrops ==
    /\ Listening
    /\ toHost = <<>>
    /\ txq # <<>>
    /\ txq' = <<>>
    /\ UNCHANGED <<vars, toHost, toDev, devout, tableVars, counters, disturbed>>

LoopOut ==
    /\ Listening
    /\ toHost = <<>>
    /\ txq # <<>>
    /\ toDev' = toDev \o txq
    /\ txq' = <<>>
    /\ UNCHANGED <<vars, toHost, devout, tableVars, counters, disturbed>>

------------------------------------------------------------------------------
(* The device and the line.                                                    *)

DevTake ==
    /\ toDev # <<>>
    /\ devout = <<>>
    /\ toDev' = Tail(toDev)
    /\ devout' = CASE Head(toDev) = "discover" ->
                        <<Info>> \o [i \in 1..Len(DevObjects) |-> ObjectFrame(DevObjects[i])] \o <<End>>
                   [] Head(toDev) = "call" -> <<Frame(ReplyBody)>>
                   [] OTHER -> <<>>
    /\ UNCHANGED <<vars, toHost, txq, tableVars, counters, disturbed>>

DevSend ==
    /\ devout # <<>>
    /\ toHost' = toHost \o Head(devout)
    /\ devout' = Tail(devout)
    /\ UNCHANGED <<vars, txq, toDev, tableVars, counters, disturbed>>

\* An event of its own accord.  While the host awaits nothing it does no harm.
DevEvent ==
    /\ events < MaxEvents
    /\ events' = events + 1
    /\ \E e \in EventBodies : toHost' = toHost \o Frame(e)
    /\ disturbed' = (disturbed \/ state = 0 \/ handler = "none" \/ host = "script")
    /\ UNCHANGED <<vars, txq, toDev, devout, tableVars, rounds, calls, losses>>

Lose ==
    /\ "loss" \in LinkFaults
    /\ losses < MaxLosses
    /\ losses' = losses + 1
    /\ \E i \in 1..Len(toHost) : toHost' = RemoveAt(toHost, i)
    /\ disturbed' = TRUE
    /\ UNCHANGED <<vars, txq, toDev, devout, tableVars, rounds, calls, events>>

Device == DevTake \/ DevSend

LinkNext ==
    \/ LinkDiscover \/ LinkCallReply \/ CallNoReply \/ LinkReturn \/ LinkLoopForever
    \/ LoopIn \/ LoopOut
    \/ DevTake \/ DevSend \/ DevEvent \/ Lose

LinkSpec == LinkInit /\ [][LinkNext]_linkVars

(* The loops turn, a wait that is over ends, and the device answers.           *)
LinkFairSpec ==
    /\ LinkSpec
    /\ WF_linkVars(LoopIn) /\ WF_linkVars(LoopOut)
    /\ WF_linkVars(LinkReturn)
    /\ WF_linkVars(Device)

------------------------------------------------------------------------------
(* Type invariant.                                                             *)
LinkTypeOK ==
    /\ TypeOK
    /\ toHost \in Seq(Byte)
    /\ txq \in Seq({"discover", "call", "post"})
    /\ toDev \in Seq({"discover", "call", "post"})
    /\ devout \in Seq(Seq(Byte))
    /\ table \in Nat /\ used \in Nat
    /\ disturbed \in BOOLEAN

\* On an undisturbed line the first discovery finds the objects of the device, each
\* with its three strings, in the order in which it sent them, whatever bytes other
\* than '[' were left on the line; while it runs it has found a part of them, and
\* when it is over, all.
DiscoveryExact ==
    ~disturbed /\ rounds = 1 =>
        /\ host = "discovery" => IsPrefix(objlist, DevObjects)
        /\ host # "discovery" /\ calls = 0 =>
             objlist = DevObjects /\ used = Len(DevObjects) /\ table = used

\* An undisturbed request is never answered before it has left: when the script
\* has its first discovery back, the request is not queued any more.  (An event
\* sent between that discovery and the next may be taken for an answer.)
AnsweredAfterSent ==
    ~disturbed /\ rounds = 1 /\ host = "script" =>
        \A i \in 1..Len(txq) : txq[i] # "discover"

\* What discovery returns is the number of objects it put on the list.
\* (serial.c 282: "Should return the count of discovered objects")
CountsDiscovered == used <= table

\* Discovery comes to its end on an undisturbed line.
DiscoveryCompletes ==
    (host = "discovery") ~> (host # "discovery" \/ disturbed)

\* A call that needs a reply comes to its end on an undisturbed line.
\* (serial.c 270: "loop until the call is complete")
CallCompletes ==
    (host = "call") ~> (host # "call" \/ disturbed)
====
