---- MODULE SerialPorts ----
(* Several serial ports under one epoll loop: the settings string and the line *)
(* mode made of it (urpc-serial/uart.c), the open that registers a hook        *)
(* (urpc_serial_open, aura_create_async_xfer, aura_add_epollhook), and         *)
(* aura_loop_once, which the wait of any port runs for all of them.            *)
(*                                                                             *)
(* What a handler does with its bytes is SerialRx, what it does with its       *)
(* chunks AsyncTx; here input is a count, a read of the awaited port may be    *)
(* the one that ends the wait, and any read may be of a length byte that makes *)
(* expect_bytes negative.  Every call below the handlers may fail at any time. *)
EXTENDS Integers, Sequences, FiniteSets

CONSTANTS
    Ports,      \* serial devices, each opened at most once
    Settings,   \* per port: settings strings a script may pass, sequences of fields
    Speeds,     \* speeds of MAPSPEED; none is a number of bits or of stop bits
    MaxInput,   \* bound: input pending on a port
    MaxHups,    \* bound: ports that hang up
    MaxQueued,  \* bound: requests in a transfer list
    Garbage     \* an event nobody has written

\* A field between two ':', as strtok, sscanf and strcmp look at it.
Num(n) == [num |-> n, word |-> "number"]
Word(w) == [num |-> -1, word |-> w]
Missing == [num |-> -1, word |-> ""]

ASSUME PortsAssumption ==
    /\ IsFiniteSet(Ports)
    /\ \A p \in Ports : Settings[p] \subseteq Seq([num : Int, word : STRING])
    /\ Speeds \subseteq Nat \ (0..8)
    /\ {MaxInput, MaxHups, MaxQueued} \subseteq Nat
    /\ Garbage \notin Ports

VARIABLES
    where,     \* "script", "opening", "wait" (aura_loop_once of an operation), "forever" or "dead"
    port,      \* the port of the operation under way
    st,        \* "closed", "open" or "refused"
    asked,     \* history: the settings string the port was opened with
    mode,      \* line mode of the port, as far as it was set
    bare,      \* history: ports a script opened and has not discovered yet
    want,      \* hook->ev.events, per port
    kern,      \* what epoll watches, per port; {} before the port is added
    handler,   \* handle_data is set
    input,     \* pending input, a count
    hup,       \* ports that hung up
    stuck,     \* ports whose expect_bytes is negative: read(2) refuses it
    queued,    \* requests in the transfer list
    last       \* the port of the event that lies where ev will be

portVars == <<st, asked, mode, bare>>
hookVars == <<want, kern, handler>>
lineVars == <<input, hup, stuck>>
vars == <<where, port, portVars, hookVars, lineVars, queued, last>>

------------------------------------------------------------------------------
(* urpcserial_make_settings: tokens are the fields that are not empty, so a    *)
(* field left out moves the ones after it.                                     *)

Field(s, k) == IF k <= Len(s) THEN s[k] ELSE Missing
Behind(s, i) == {j \in (i + 1)..Len(s) : s[j] # Missing}

\* strtok(NULL, ":") when the last token was field i: past the end if none is left.
Strtok(s, i) ==
    IF Behind(s, i) = {} THEN Len(s) + 1
    ELSE CHOOSE j \in Behind(s, i) : \A k \in Behind(s, i) : j <= k

Token(s, k) ==
    LET a == Strtok(s, 0)
        b == Strtok(s, a)
        c == Strtok(s, b)
        d == Strtok(s, c)
    IN  Field(s, <<a, b, c, d>>[k])

\* speed is not initialised: without a number it is whatever it was.
SpeedsOf(t) ==
    IF t = Missing THEN {0} ELSE IF t.num >= 0 THEN {t.num} \cap Speeds ELSE Speeds

\* Mutant: an unknown number of bits is not a fault.
BitsLax(t) == IF t.num \in 5..8 THEN {t.num} ELSE {5}

BitsOf(t) ==      \* bits starts as 0, CS5 is no bit at all
    IF t = Missing THEN {5} ELSE {t.num} \cap 5..8

ParityOf(t) == IF t.word \in {"o", "e"} THEN t.word ELSE "n"

\* Two stop bits go to c_oflag, where CSTOPB is another flag: the line has one.
Modes(s) ==
    {[speed |-> v, bits |-> b, parity |-> ParityOf(Token(s, 4)), stop |-> 1] :
        v \in SpeedsOf(Token(s, 2)), b \in BitsOf(Token(s, 3))}

NoMode == [speed |-> 0, bits |-> 0, parity |-> "n", stop |-> 0]

Init ==
    /\ where = "script" /\ port = Garbage
    /\ st = [p \in Ports |-> "closed"]
    /\ asked = [p \in Ports |-> <<>>] /\ mode = [p \in Ports |-> NoMode]
    /\ bare = {}
    /\ want = [p \in Ports |-> {}] /\ kern = [p \in Ports |-> {}]
    /\ handler = [p \in Ports |-> FALSE]
    /\ input = [p \in Ports |-> 0] /\ hup = {} /\ stuck = {}
    /\ queued = [p \in Ports |-> 0]
    /\ last = Garbage

\* epoll_ctl, which may fail: the hook has been changed by then.
EpollCtl(p, events, ok) ==
    /\ want' = [want EXCEPT ![p] = events]
    /\ kern' = IF ok THEN [kern EXCEPT ![p] = events] ELSE kern

------------------------------------------------------------------------------
(* urpc_serial_open.                                                           *)

\* The settings are refused, or open(2): a device may be missing for any of them.
OpenRefused(p, s) ==
    /\ where = "script" /\ st[p] = "closed"
    /\ st' = [st EXCEPT ![p] = "refused"]
    /\ UNCHANGED <<where, port, asked, mode, bare, hookVars, lineVars, queued, last>>

\* aura_create_async_xfer: aura_add_epollhook watches for input, then
\* aura_epollout(h, 0) changes nothing.  urpc_open of init.lua goes on with the
\* discovery; a script that calls __urpc_open itself, or that is aborted in
\* between, need not.
Open(p, s) ==
    /\ where = "script" /\ st[p] = "closed"
    /\ Token(s, 1) # Missing
    /\ \E md \in Modes(s) : mode' = [mode EXCEPT ![p] = md]
    /\ st' = [st EXCEPT ![p] = "open"]
    /\ asked' = [asked EXCEPT ![p] = s]
    /\ EpollCtl(p, {"in"}, TRUE)
    /\ port' = p
    /\ \/ where' = "opening" /\ UNCHANGED bare
       \/ where' = "script" /\ bare' = bare \cup {p}
    /\ UNCHANGED <<handler, lineVars, queued, last>>

\* epoll_ctl fails: the transfer is freed, and the caller stores into NULL.
OpenCtlFails(p, s) ==
    /\ where = "script" /\ st[p] = "closed"
    /\ Token(s, 1) # Missing /\ Modes(s) # {}
    /\ where' = "dead"
    /\ UNCHANGED <<port, portVars, hookVars, lineVars, queued, last>>

------------------------------------------------------------------------------
(* A discovery, from urpc_open or from the script.                             *)

\* Mutant: the request is queued although it could not be armed.
EnqueueUnarmed(p) ==
    \E ok \in BOOLEAN, more \in 0..1 :
        /\ IF queued[p] > 0 THEN ok /\ UNCHANGED <<want, kern>>
           ELSE EpollCtl(p, want[p] \cup {"out"}, ok)
        /\ queued' = [queued EXCEPT ![p] = @ + more]

\* aura_async_enqueue_chunk: an empty list is armed first, which may fail and
\* then queues nothing; so may the malloc of the list node, after the arming.
Enqueue(p) ==
    \E ok \in BOOLEAN, more \in 0..1 :
        /\ IF queued[p] > 0 THEN ok /\ UNCHANGED <<want, kern>>
           ELSE EpollCtl(p, want[p] \cup {"out"}, ok)
        /\ ok \/ more = 0
        /\ queued' = [queued EXCEPT ![p] = @ + more]

\* After urpc_open's open, or whenever a script asks for it.
MayDiscover(p) ==
    /\ \/ where = "opening" /\ port = p
       \/ where = "script" /\ st[p] = "open"
    /\ queued[p] < MaxQueued

\* Mutant: the handler is set only if the request could be queued.
DiscoverIfQueued(p) ==
    /\ MayDiscover(p)
    /\ Enqueue(p)
    /\ handler' = [handler EXCEPT ![p] = @ \/ queued'[p] > queued[p]]
    /\ stuck' = stuck \ {p}
    /\ where' = "wait" /\ port' = p
    /\ bare' = bare \ {p}
    /\ UNCHANGED <<st, asked, mode, input, hup, last>>

\* urpc_serial_discovery ignores what the enqueue returns and waits all the same.
Discover(p) ==
    /\ MayDiscover(p)
    /\ Enqueue(p)
    /\ handler' = [handler EXCEPT ![p] = TRUE]
    /\ stuck' = stuck \ {p}
    /\ where' = "wait" /\ port' = p
    /\ bare' = bare \ {p}
    /\ UNCHANGED <<st, asked, mode, input, hup, last>>

\* No memory for the request, which is copied all the same.
DiscoverNoMem(p) ==
    /\ MayDiscover(p)
    /\ where' = "dead"
    /\ UNCHANGED <<port, portVars, hookVars, lineVars, queued, last>>

LoopForever ==
    /\ where = "script" /\ where' = "forever"
    /\ UNCHANGED <<port, portVars, hookVars, lineVars, queued, last>>

------------------------------------------------------------------------------
(* aura_loop_once: one event of one ready port, to the handler of its hook.    *)

InLoop == where \in {"wait", "forever"}
HasInput(p) == kern[p] # {} /\ (input[p] > 0 \/ p \in hup)
Ready(p) == HasInput(p) \/ "out" \in kern[p]

\* The handler without a handle_data: expect_bytes is 0, so it is called anyway.
NotSet(p) ==
    /\ where' = "dead"
    /\ UNCHANGED <<port, queued, hookVars, lineVars>>

\* EPOLLIN: read(2) fails, as it does for ever on a negative count, or has nothing
\* to give, as on a port that hung up; or it takes a part of the input, which may
\* end the wait of its port, or leave it with a negative count.
Reads(p) ==
    /\ \/ UNCHANGED <<where, input, stuck>>
       \/ /\ p \notin stuck
          /\ \E n \in 1..input[p] : input' = [input EXCEPT ![p] = @ - n]
          /\ \/ where' = where /\ stuck' \in {stuck, stuck \cup {p}}
             \/ where = "wait" /\ port = p /\ where' = "script" /\ UNCHANGED stuck
    /\ UNCHANGED <<port, queued, hookVars, hup>>

\* EPOLLOUT: n chunks stay behind a short write, EAGAIN or an error; the last one
\* takes EPOLLOUT with it, but an empty list that is still armed keeps it.
Writes(p) ==
    /\ \E n \in 0..queued[p] :
        /\ queued' = [queued EXCEPT ![p] = n]
        /\ IF n = 0 /\ queued[p] > 0
           THEN \E ok \in BOOLEAN : EpollCtl(p, want[p] \ {"out"}, ok)
           ELSE UNCHANGED <<want, kern>>
    /\ UNCHANGED <<where, port, handler, lineVars>>

Handle(p, in) ==
    IF in THEN (IF handler[p] THEN Reads(p) ELSE NotSet(p)) ELSE Writes(p)

\* Mutant: EPOLLOUT is left alone as long as a port that can be read is there.
DispatchInputFirst(p) ==
    /\ InLoop /\ Ready(p)
    /\ HasInput(p) \/ \A q \in Ports : ~HasInput(q)
    /\ last' = p
    /\ Handle(p, HasInput(p))
    /\ UNCHANGED portVars

Dispatch(p) ==
    /\ InLoop /\ Ready(p)
    /\ last' = p
    /\ Handle(p, HasInput(p))
    /\ UNCHANGED portVars

\* epoll_wait returns -1: c is true, ev is what the stack holds, the event of an
\* earlier turn at best.
Interrupted ==
    /\ InLoop
    /\ \/ /\ where' = "dead"
          /\ UNCHANGED <<port, queued, hookVars, lineVars>>
       \/ last # Garbage /\ \E in \in BOOLEAN : Handle(last, in)
    /\ UNCHANGED <<portVars, last>>

------------------------------------------------------------------------------
(* The devices.                                                                *)

Arrive(p) ==
    /\ p \notin hup /\ input[p] < MaxInput
    /\ input' = [input EXCEPT ![p] = @ + 1]
    /\ UNCHANGED <<where, port, portVars, hookVars, hup, stuck, queued, last>>

HangUp(p) ==
    /\ Cardinality(hup) < MaxHups
    /\ hup' = hup \cup {p}
    /\ UNCHANGED <<where, port, portVars, hookVars, input, stuck, queued, last>>

Next ==
    \/ \E p \in Ports : \/ \E s \in Settings[p] : Open(p, s) \/ OpenCtlFails(p, s)
                                               \/ OpenRefused(p, s)
                        \/ Discover(p) \/ DiscoverNoMem(p) \/ Dispatch(p)
                        \/ Arrive(p) \/ HangUp(p)
    \/ LoopForever \/ Interrupted

Spec == Init /\ [][Next]_vars

\* A turn in which the port sends at least one chunk.
Sends(p) == Dispatch(p) /\ queued'[p] < queued[p]

\* Epoll hands out ready descriptors in turn, and a line takes bytes now and then.
\* The script and the devices owe nothing, and no call below is bound to succeed.
FairSpec == Spec /\ \A p \in Ports : SF_vars(Sends(p))

------------------------------------------------------------------------------
\* Every variable keeps to its range, and only an open port is watched.  Hook and
\* kernel agree but for EPOLLOUT, of which a failing epoll_ctl leaves them with two
\* views, and which may stay armed over an empty list; what is queued is armed in
\* the kernel, whatever failed.
TypeOK ==
    /\ where \in {"script", "opening", "wait", "forever", "dead"}
    /\ port \in Ports \cup {Garbage}
    /\ last \in {p \in Ports : st[p] = "open"} \cup {Garbage}
    /\ bare \subseteq {p \in Ports : st[p] = "open" /\ ~handler[p]}
    /\ stuck \subseteq {p \in Ports : handler[p]}
    /\ \A p \in Ports :
        /\ st[p] \in {"closed", "open", "refused"}
        /\ mode[p] # NoMode <=> st[p] = "open"
        /\ kern[p] \ {"out"} = want[p] \ {"out"}
        /\ IF st[p] = "open" THEN "in" \in kern[p] ELSE kern[p] = {}
        /\ queued[p] > 0 => "out" \in kern[p]
        /\ input[p] \in 0..MaxInput /\ queued[p] \in Nat

\* Fields of a settings string in the columns uart.c names.
InColumns(s) ==
    /\ Len(s) <= 5 /\ s # <<>> /\ s[1] # Missing
    /\ \A k \in 2..Len(s) :
        s[k] \in {Missing} \cup
            CASE k = 2 -> {Num(v) : v \in Speeds}
              [] k = 3 -> {Num(b) : b \in 5..8}
              [] k = 4 -> {Word("n"), Word("o"), Word("e")}
              [] k = 5 -> {Num(1), Num(2)}

Untold(s) == Field(s, 2) = Missing /\ Field(s, 3) = Missing /\ Field(s, 4) # Missing

\* Although an empty field shifts the ones behind it, a port that opened has the
\* speed, bits and parity of their own columns, the defaults (B0, CS5) where they
\* are missing: a shifted field is never a valid value of the column it slips
\* into.  The one exception is a parity without speed and bits.  Stop bits are not
\* part of it: two of them never take effect (see Modes).
OwnColumns ==
    \A p \in Ports :
        LET s == asked[p] IN
        st[p] = "open" /\ InColumns(s) /\ ~Untold(s) =>
            /\ mode[p].speed = IF Field(s, 2) = Missing THEN 0 ELSE s[2].num
            /\ mode[p].bits = IF Field(s, 3) = Missing THEN 5 ELSE s[3].num
            /\ mode[p].parity = ParityOf(Field(s, 4))

\* Although the wait of one port dispatches the events of all, and although a
\* discovery goes on when its request could not be queued, an event can only meet
\* an unset handle_data on a port that a script opened and has not discovered at
\* all: scripts that use urpc_open, and are not aborted in it, are safe.
HandlerSet ==
    \A p \in Ports : InLoop /\ Ready(p) => handler[p] \/ p \in bare

\* Once the scripts only wait, or are over, a queued request leaves, whatever
\* failed and whatever the other ports do, even when one has hung up and is ready
\* for ever.  What can keep it is input of its own port, which goes before output:
\* a hang-up, bytes that nobody can read since the count is negative, or a device
\* that never lets its input run dry.
RequestLeaves ==
    \A p \in Ports :
        <>[]InLoop /\ []<>(input[p] = 0 \/ p \in stuck) =>
            (queued[p] > 0 ~> queued[p] = 0 \/ p \in hup \cup stuck)
====
