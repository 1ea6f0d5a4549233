---- MODULE SerialPortsProofs ----
(* Any number of serial ports with any settings, any input, hang-ups, signals  *)
(* and failing calls: what is queued is armed in the kernel, no event reaches  *)
(* a port that was ever discovered before its handle_data is set, and a port   *)
(* has the line mode its settings string names.                                *)
EXTENDS SerialPorts, DataLemmas

Functional ==
    /\ st \in [Ports -> {"closed", "open", "refused"}]
    /\ want \in [Ports -> SUBSET {"in", "out"}] /\ kern \in [Ports -> SUBSET {"in", "out"}]
    /\ handler \in [Ports -> BOOLEAN]
    /\ input \in [Ports -> Int] /\ queued \in [Ports -> Nat]
    /\ DOMAIN mode = Ports

\* A port without a handler is not open, or its discovery comes next, or was left
\* to the script, or nothing comes any more.
Opened(p) ==
    /\ handler[p] => st[p] = "open"
    /\ queued[p] > 0 => st[p] = "open"
    /\ st[p] = "open" /\ ~handler[p] =>
           p \in bare \/ (where = "opening" /\ port = p) \/ where = "dead"

OpeningOpen == where = "opening" => st[port] = "open"

PortInv == TypeOK /\ Functional /\ OpeningOpen /\ \A p \in Ports : Opened(p)

\* A line mode that was set is not the one of a port that is closed.
LEMMA ModeSet ==
    ASSUME NEW s, NEW md \in Modes(s)
    PROVE  md # NoMode
<1>1. md.stop = 1
  BY DEF Modes
<1>2. NoMode.stop = 0
  BY DEF NoMode
<1>3. QED
  BY <1>1, <1>2

\* No port is open.
LEMMA PortInit == Init => PortInv
<1> SUFFICES ASSUME Init PROVE PortInv
  OBVIOUS
<1>1. Functional
  BY DEF Init, Functional
<1>2. \A p \in Ports : Opened(p)
  BY DEF Init, Opened
<1>3. OpeningOpen
  BY DEF Init, OpeningOpen
<1>4. TypeOK
  <2>1. \A p \in Ports : mode[p] # NoMode <=> st[p] = "open"
    BY DEF Init
  <2>2. MaxInput \in Nat
    BY PortsAssumption
  <2>3. QED
    BY <2>1, <2>2 DEF Init, TypeOK
<1>5. QED
  BY <1>1, <1>2, <1>3, <1>4 DEF PortInv

------------------------------------------------------------------------------
(* The invariant step by step: first what a port is and was, then the kernel   *)
(* and the hooks, then the counts.                                             *)

\* The part of the invariant that only opening a port can disturb.
PortsKept ==
    /\ port \in Ports \cup {Garbage}
    /\ last \in {p \in Ports : st[p] = "open"} \cup {Garbage}
    /\ \A p \in Ports : mode[p] # NoMode <=> st[p] = "open"

\* What is true of hook and kernel.
Watch(p) ==
    /\ kern[p] \ {"out"} = want[p] \ {"out"}
    /\ IF st[p] = "open" THEN "in" \in kern[p] ELSE kern[p] = {}
    /\ queued[p] > 0 => "out" \in kern[p]

Watched == \A p \in Ports : Watch(p)

\* Ports without a handler, and those whose handler made the count negative.
Marked ==
    /\ bare \subseteq {p \in Ports : st[p] = "open" /\ ~handler[p]}
    /\ stuck \subseteq {p \in Ports : handler[p]}

Counted == \A p \in Ports : input[p] \in 0..MaxInput

Wheres == {"script", "opening", "wait", "forever", "dead"}

\* The types of the functions over the ports.
LEMMA TypeParts ==
    ASSUME Functional
    PROVE  TypeOK <=> where \in Wheres /\ PortsKept /\ Watched /\ Marked /\ Counted
  BY DEF Functional, TypeOK, PortsKept, Watched, Watch, Marked, Counted, Wheres

\* The same in the next state, and the parts put together.
LEMMA PartsPrime ==
    ASSUME Functional', where' \in Wheres, PortsKept', Watched', Marked', Counted',
           OpeningOpen', \A p \in Ports : Opened(p)'
    PROVE  PortInv'
<1>1. TypeOK'
  BY DEF Functional, TypeOK, PortsKept, Watched, Watch, Marked, Counted, Wheres
<1>2. QED
  BY <1>1 DEF PortInv

\* The parts of the invariant one by one.
LEMMA Parts ==
    ASSUME PortInv
    PROVE  /\ Functional /\ where \in Wheres /\ PortsKept /\ Watched /\ Marked /\ Counted
           /\ OpeningOpen /\ \A p \in Ports : Opened(p)
  BY TypeParts DEF PortInv

\* A step after which nothing comes any more.
LEMMA Ended ==
    ASSUME PortInv, where' = "dead", NEW p, p = Garbage \/ (p \in Ports /\ st[p] = "open"),
           UNCHANGED <<port, st, mode, bare, want, kern, handler, input, stuck, queued>>,
           last' \in {p, last}
    PROVE  PortInv'
<1>1. /\ Functional /\ PortsKept /\ Watched /\ Marked /\ Counted /\ \A q \in Ports : Opened(q)
  BY Parts
<1>2. Functional' /\ Counted' /\ Watched' /\ Marked'
  BY <1>1 DEF Functional, Counted, Watched, Watch, Marked
<1>3. PortsKept'
  BY <1>1 DEF PortsKept
<1>4. OpeningOpen' /\ (\A q \in Ports : Opened(q)') /\ where' \in Wheres
  BY <1>1 DEF OpeningOpen, Opened, Wheres
<1>5. QED
  BY <1>2, <1>3, <1>4, PartsPrime

\* epoll_ctl on an open port, with events that differ in EPOLLOUT at most.
LEMMA CtlStep ==
    ASSUME Functional, Watched, NEW p \in Ports, st[p] = "open",
           NEW events \in SUBSET {"in", "out"}, events \ {"out"} = want[p] \ {"out"},
           NEW ok \in BOOLEAN, EpollCtl(p, events, ok)
    PROVE  /\ want' \in [Ports -> SUBSET {"in", "out"}] /\ kern' \in [Ports -> SUBSET {"in", "out"}]
           /\ \A q \in Ports : /\ kern'[q] \ {"out"} = want'[q] \ {"out"}
                               /\ IF st[q] = "open" THEN "in" \in kern'[q] ELSE kern'[q] = {}
           /\ \A q \in Ports : q # p => kern'[q] = kern[q]
           /\ kern'[p] = IF ok THEN events ELSE kern[p]
<1>1. /\ want' = [want EXCEPT ![p] = events]
      /\ kern' = IF ok THEN [kern EXCEPT ![p] = events] ELSE kern
  BY DEF EpollCtl
<1>2. /\ want \in [Ports -> SUBSET {"in", "out"}] /\ kern \in [Ports -> SUBSET {"in", "out"}]
  BY DEF Functional
<1>3. \A q \in Ports : /\ kern[q] \ {"out"} = want[q] \ {"out"}
                       /\ IF st[q] = "open" THEN "in" \in kern[q] ELSE kern[q] = {}
  BY DEF Watched, Watch
<1>4. \A q \in Ports : q # p => kern'[q] = kern[q] /\ want'[q] = want[q]
  BY <1>1, <1>2
<1>5. want'[p] = events /\ kern'[p] = IF ok THEN events ELSE kern[p]
  BY <1>1, <1>2
<1>6. want' \in [Ports -> SUBSET {"in", "out"}] /\ kern' \in [Ports -> SUBSET {"in", "out"}]
  BY <1>1, <1>2
<1>7. "in" \in events /\ "in" \in kern[p]
  BY <1>3
<1>8. "in" \in kern'[p] /\ kern'[p] \ {"out"} = want'[p] \ {"out"}
  <2>1. kern[p] \ {"out"} = events \ {"out"}
    BY <1>3
  <2>2. QED
    BY <1>5, <1>7, <2>1
<1>9. ASSUME NEW q \in Ports
      PROVE  /\ kern'[q] \ {"out"} = want'[q] \ {"out"}
             /\ IF st[q] = "open" THEN "in" \in kern'[q] ELSE kern'[q] = {}
  <2>1. CASE q = p
    BY <1>8, <2>1
  <2>2. CASE q # p
    BY <1>3, <1>4, <2>2
  <2>3. QED
    BY <2>1, <2>2
<1>10. QED
  BY <1>4, <1>5, <1>6, <1>9

------------------------------------------------------------------------------
\* Opening a port.
LEMMA OpenStep ==
    ASSUME PortInv, NEW p \in Ports, NEW s \in Settings[p],
           Open(p, s) \/ OpenCtlFails(p, s) \/ OpenRefused(p, s)
    PROVE  PortInv'
<1>1. /\ Functional /\ where \in Wheres /\ PortsKept /\ Watched /\ Marked /\ Counted
      /\ OpeningOpen /\ \A q \in Ports : Opened(q)
  BY Parts
<1>2. CASE Open(p, s)
  <2>1. PICK md \in Modes(s) : mode' = [mode EXCEPT ![p] = md]
    BY <1>2 DEF Open
  <2>2. md # NoMode
    BY ModeSet
  <2>3. /\ st' = [st EXCEPT ![p] = "open"] /\ st[p] = "closed" /\ where = "script"
        /\ want' = [want EXCEPT ![p] = {"in"}] /\ kern' = [kern EXCEPT ![p] = {"in"}]
        /\ port' = p
        /\ UNCHANGED <<handler, input, stuck, queued, last>>
    BY <1>2 DEF Open, EpollCtl, lineVars
  <2>4. \/ where' = "opening" /\ bare' = bare
        \/ where' = "script" /\ bare' = bare \cup {p}
    BY <1>2 DEF Open
  <2>5. ~handler[p] /\ ~(queued[p] > 0)
    BY <1>1, <2>3 DEF Opened, Functional
  <2>6. Functional'
    BY <1>1, <2>1, <2>3 DEF Functional
  <2>7. PortsKept'
    BY <1>1, <2>1, <2>2, <2>3 DEF Functional, PortsKept
  <2>8. Watched'
    <3> SUFFICES ASSUME NEW q \in Ports PROVE Watch(q)'
      BY DEF Watched
    <3>1. CASE q = p
      <4>1. /\ kern'[q] = {"in"} /\ want'[q] = {"in"} /\ st'[q] = "open" /\ queued'[q] = queued[p]
        BY <1>1, <2>3, <3>1 DEF Functional
      <4>2. QED
        BY <2>5, <4>1 DEF Watch
    <3>2. CASE q # p
      <4>1. /\ kern'[q] = kern[q] /\ want'[q] = want[q] /\ st'[q] = st[q]
            /\ queued'[q] = queued[q]
        BY <1>1, <2>3, <3>2 DEF Functional
      <4>2. QED
        BY <1>1, <4>1 DEF Watched, Watch
    <3>3. QED
      BY <3>1, <3>2
  <2>9. Marked'
    BY <1>1, <2>3, <2>4, <2>5 DEF Functional, Marked
  <2>10. Counted'
    BY <1>1, <2>3 DEF Counted
  <2>11. OpeningOpen'
    BY <1>1, <2>3 DEF Functional, OpeningOpen
  <2>12. \A q \in Ports : Opened(q)'
    BY <1>1, <2>3, <2>4 DEF Functional, Opened
  <2>13. where' \in Wheres
    BY <2>4 DEF Wheres
  <2>14. QED
    BY <2>6, <2>7, <2>8, <2>9, <2>10, <2>11, <2>12, <2>13, PartsPrime
<1>3. CASE OpenCtlFails(p, s)
  BY <1>3, Ended DEF OpenCtlFails, portVars, hookVars, lineVars
<1>4. CASE OpenRefused(p, s)
  <2>1. /\ st' = [st EXCEPT ![p] = "refused"] /\ st[p] = "closed" /\ where = "script"
        /\ UNCHANGED <<where, port, mode, bare, want, kern, handler, input, stuck, queued, last>>
    BY <1>4 DEF OpenRefused, hookVars, lineVars
  <2>2. Functional'
    BY <1>1, <2>1 DEF Functional
  <2>3. PortsKept' /\ Counted' /\ Marked'
    BY <1>1, <2>1 DEF Functional, PortsKept, Counted, Marked
  <2>4. Watched'
    BY <1>1, <2>1 DEF Functional, Watched, Watch
  <2>5. OpeningOpen' /\ (\A q \in Ports : Opened(q)') /\ where' \in Wheres
    BY <1>1, <2>1 DEF Functional, OpeningOpen, Opened
  <2>6. QED
    BY <2>2, <2>3, <2>4, <2>5, PartsPrime
<1>5. QED
  BY <1>2, <1>3, <1>4

\* A discovery sets the handler of its port, whether or not its request could be
\* armed and queued.
LEMMA DiscoverStep ==
    ASSUME PortInv, NEW p \in Ports, Discover(p)
    PROVE  PortInv'
<1>1. /\ Functional /\ where \in Wheres /\ PortsKept /\ Watched /\ Marked /\ Counted
      /\ OpeningOpen /\ \A q \in Ports : Opened(q)
  BY Parts
<1>2. /\ Enqueue(p)
      /\ handler' = [handler EXCEPT ![p] = TRUE]
      /\ stuck' = stuck \ {p} /\ bare' = bare \ {p}
      /\ where' = "wait" /\ port' = p
      /\ UNCHANGED <<st, mode, input, last>>
  BY DEF Discover
<1>3. st[p] = "open" /\ (where = "script" \/ (where = "opening" /\ port = p))
  BY <1>1 DEF Discover, MayDiscover, OpeningOpen
<1>4. PICK ok \in BOOLEAN, more \in 0..1 :
          /\ IF queued[p] > 0 THEN ok /\ UNCHANGED <<want, kern>>
             ELSE EpollCtl(p, want[p] \cup {"out"}, ok)
          /\ ok \/ more = 0
          /\ queued' = [queued EXCEPT ![p] = @ + more]
  BY <1>2 DEF Enqueue
<1>5. /\ queued' \in [Ports -> Nat] /\ \A q \in Ports : q # p => queued'[q] = queued[q]
      /\ ~(queued[p] > 0) /\ ~ok => queued'[p] = queued[p]
  BY <1>1, <1>4 DEF Functional
<1>6. /\ want' \in [Ports -> SUBSET {"in", "out"}] /\ kern' \in [Ports -> SUBSET {"in", "out"}]
      /\ \A q \in Ports : /\ kern'[q] \ {"out"} = want'[q] \ {"out"}
                          /\ IF st[q] = "open" THEN "in" \in kern'[q] ELSE kern'[q] = {}
      /\ \A q \in Ports : q # p => kern'[q] = kern[q]
      /\ queued'[p] > 0 => "out" \in kern'[p]
  <2>1. CASE queued[p] > 0
    <3>1. want' = want /\ kern' = kern
      BY <1>4, <2>1
    <3>2. "out" \in kern[p]
      BY <1>1, <2>1 DEF Watched, Watch
    <3>3. QED
      BY <1>1, <3>1, <3>2 DEF Functional, Watched, Watch
  <2>2. CASE ~(queued[p] > 0)
    <3>1. EpollCtl(p, want[p] \cup {"out"}, ok)
      BY <1>4, <2>2
    <3>2. PICK events : events = want[p] \cup {"out"}
      OBVIOUS
    <3>3. events \in SUBSET {"in", "out"} /\ events \ {"out"} = want[p] \ {"out"}
      BY <1>1, <3>2 DEF Functional
    <3>4. /\ want' \in [Ports -> SUBSET {"in", "out"}] /\ kern' \in [Ports -> SUBSET {"in", "out"}]
          /\ \A q \in Ports : /\ kern'[q] \ {"out"} = want'[q] \ {"out"}
                              /\ IF st[q] = "open" THEN "in" \in kern'[q] ELSE kern'[q] = {}
          /\ \A q \in Ports : q # p => kern'[q] = kern[q]
          /\ kern'[p] = IF ok THEN events ELSE kern[p]
      BY <1>1, <1>3, <3>1, <3>2, <3>3, CtlStep
    <3>5. queued'[p] > 0 => ok
      BY <1>5, <2>2
    <3>6. queued'[p] > 0 => "out" \in kern'[p]
      BY <3>2, <3>4, <3>5
    <3>7. QED
      BY <3>4, <3>6
  <2>3. QED
    BY <2>1, <2>2
<1>7. Functional'
  BY <1>1, <1>2, <1>5, <1>6 DEF Functional
<1>8. PortsKept' /\ Counted'
  BY <1>1, <1>2 DEF PortsKept, Counted
<1>9. Watched'
  <2> SUFFICES ASSUME NEW q \in Ports PROVE Watch(q)'
    BY DEF Watched
  <2>1. queued'[q] > 0 => "out" \in kern'[q]
    BY <1>1, <1>5, <1>6 DEF Watched, Watch
  <2>2. QED
    BY <1>2, <1>6, <2>1 DEF Watch
<1>10. Marked'
  BY <1>1, <1>2 DEF Functional, Marked
<1>11. OpeningOpen' /\ where' \in Wheres
  BY <1>2 DEF OpeningOpen, Wheres
<1>12. \A q \in Ports : Opened(q)'
  <2> SUFFICES ASSUME NEW q \in Ports PROVE Opened(q)'
    OBVIOUS
  <2>1. CASE q = p
    <3>1. handler'[q] = TRUE /\ st'[q] = "open"
      BY <1>1, <1>2, <1>3, <2>1 DEF Functional
    <3>2. QED
      BY <3>1 DEF Opened
  <2>2. CASE q # p
    <3>1. /\ handler'[q] = handler[q] /\ st'[q] = st[q] /\ queued'[q] = queued[q]
          /\ q \in bare => q \in bare'
      BY <1>1, <1>2, <1>5, <2>2 DEF Functional
    <3>2. st[q] = "open" /\ ~handler[q] => q \in bare
      BY <1>1, <1>3, <2>2 DEF Opened
    <3>3. QED
      BY <1>1, <3>1, <3>2 DEF Opened
  <2>3. QED
    BY <2>1, <2>2
<1>13. QED
  BY <1>7, <1>8, <1>9, <1>10, <1>11, <1>12, PartsPrime

\* A handler without a handle_data ends the program.
LEMMA NotSetStep ==
    ASSUME PortInv, NEW p \in Ports, st[p] = "open", NotSet(p), UNCHANGED <<st, mode, bare>>,
           last' \in {p, last}
    PROVE  PortInv'
  BY Ended DEF NotSet, hookVars, lineVars

\* Input, which only a port with a handler takes.
LEMMA ReadsStep ==
    ASSUME PortInv, NEW p \in Ports, st[p] = "open", InLoop, handler[p], Reads(p),
           UNCHANGED <<st, mode, bare>>, last' \in {p, last}
    PROVE  PortInv'
<1>1. /\ Functional /\ PortsKept /\ Watched /\ Marked /\ Counted /\ \A q \in Ports : Opened(q)
      /\ where \in {"wait", "forever"}
  BY Parts DEF InLoop
<1>2. UNCHANGED <<port, want, kern, handler, queued>>
  BY DEF Reads, hookVars
<1>3. where' \in {where, "script"} /\ stuck' \in {stuck, stuck \cup {p}}
  BY DEF Reads
<1>4. \/ input' = input
      \/ \E n \in 1..input[p] : input' = [input EXCEPT ![p] = @ - n]
  BY DEF Reads
<1>5. Functional' /\ Counted'
  <2>1. CASE input' = input
    BY <1>1, <1>2, <2>1 DEF Functional, Counted
  <2>2. ASSUME NEW n \in 1..input[p], input' = [input EXCEPT ![p] = @ - n]
        PROVE  Functional' /\ Counted'
    <3>1. input[p] \in 0..MaxInput /\ MaxInput \in Nat
      BY <1>1, PortsAssumption DEF Counted
    <3>2. input[p] - n \in 0..MaxInput
      BY <3>1
    <3>3. QED
      BY <1>1, <1>2, <2>2, <3>2 DEF Functional, Counted
  <2>3. QED
    BY <1>4, <2>1, <2>2
<1>6. PortsKept' /\ Watched'
  BY <1>1, <1>2 DEF PortsKept, Watched, Watch
<1>7. Marked'
  BY <1>1, <1>2, <1>3 DEF Marked
<1>8. OpeningOpen' /\ where' \in Wheres
  BY <1>1, <1>3 DEF OpeningOpen, Wheres
<1>9. \A q \in Ports : Opened(q)'
  BY <1>1, <1>2 DEF Opened
<1>10. QED
  BY <1>5, <1>6, <1>7, <1>8, <1>9, PartsPrime

\* Output: the last chunk takes EPOLLOUT with it, unless epoll_ctl fails.
LEMMA WritesStep ==
    ASSUME PortInv, NEW p \in Ports, st[p] = "open", InLoop, Writes(p),
           UNCHANGED <<st, mode, bare>>, last' \in {p, last}
    PROVE  PortInv'
<1>1. /\ Functional /\ where \in Wheres /\ PortsKept /\ Watched /\ Marked /\ Counted
      /\ OpeningOpen /\ \A q \in Ports : Opened(q)
  BY Parts
<1>2. UNCHANGED <<where, port, handler, input, stuck>>
  BY DEF Writes, lineVars
<1>3. PICK n \in 0..queued[p] :
          /\ queued' = [queued EXCEPT ![p] = n]
          /\ IF n = 0 /\ queued[p] > 0
             THEN \E ok \in BOOLEAN : EpollCtl(p, want[p] \ {"out"}, ok)
             ELSE UNCHANGED <<want, kern>>
  BY DEF Writes
<1>4. /\ queued' \in [Ports -> Nat] /\ \A q \in Ports : q # p => queued'[q] = queued[q]
      /\ queued'[p] = n /\ (n > 0 => queued[p] > 0)
  BY <1>1, <1>3 DEF Functional
<1>5. /\ want' \in [Ports -> SUBSET {"in", "out"}] /\ kern' \in [Ports -> SUBSET {"in", "out"}]
      /\ \A q \in Ports : /\ kern'[q] \ {"out"} = want'[q] \ {"out"}
                          /\ IF st[q] = "open" THEN "in" \in kern'[q] ELSE kern'[q] = {}
      /\ \A q \in Ports : q # p => kern'[q] = kern[q]
      /\ n > 0 => "out" \in kern'[p]
  <2>1. CASE n = 0 /\ queued[p] > 0
    <3>1. PICK ok \in BOOLEAN : EpollCtl(p, want[p] \ {"out"}, ok)
      BY <1>3, <2>1
    <3>2. PICK events : events = want[p] \ {"out"}
      OBVIOUS
    <3>3. events \in SUBSET {"in", "out"} /\ events \ {"out"} = want[p] \ {"out"}
      BY <1>1, <3>2 DEF Functional
    <3>4. /\ want' \in [Ports -> SUBSET {"in", "out"}] /\ kern' \in [Ports -> SUBSET {"in", "out"}]
          /\ \A q \in Ports : /\ kern'[q] \ {"out"} = want'[q] \ {"out"}
                              /\ IF st[q] = "open" THEN "in" \in kern'[q] ELSE kern'[q] = {}
          /\ \A q \in Ports : q # p => kern'[q] = kern[q]
      BY <1>1, <3>1, <3>2, <3>3, CtlStep
    <3>5. QED
      BY <2>1, <3>4
  <2>2. CASE ~(n = 0 /\ queued[p] > 0)
    <3>1. want' = want /\ kern' = kern
      BY <1>3, <2>2
    <3>2. n > 0 => "out" \in kern[p]
      BY <1>1, <1>4 DEF Watched, Watch
    <3>3. QED
      BY <1>1, <3>1, <3>2 DEF Functional, Watched, Watch
  <2>3. QED
    BY <2>1, <2>2
<1>6. Functional'
  BY <1>1, <1>2, <1>4, <1>5 DEF Functional
<1>7. PortsKept' /\ Counted' /\ Marked'
  BY <1>1, <1>2 DEF PortsKept, Counted, Marked
<1>8. Watched'
  <2> SUFFICES ASSUME NEW q \in Ports PROVE Watch(q)'
    BY DEF Watched
  <2>1. queued'[q] > 0 => "out" \in kern'[q]
    BY <1>1, <1>4, <1>5 DEF Watched, Watch
  <2>2. QED
    BY <1>5, <2>1 DEF Watch
<1>9. OpeningOpen' /\ where' \in Wheres
  BY <1>1, <1>2 DEF OpeningOpen
<1>10. \A q \in Ports : Opened(q)'
  <2> SUFFICES ASSUME NEW q \in Ports PROVE Opened(q)'
    OBVIOUS
  <2>1. queued'[q] > 0 => queued[q] > 0
    BY <1>4
  <2>2. QED
    BY <1>1, <1>2, <2>1 DEF Opened
<1>11. QED
  BY <1>6, <1>7, <1>8, <1>9, <1>10, PartsPrime

\* A handler, whether its event is its own or one left on the stack.
LEMMA HandleStep ==
    ASSUME PortInv, NEW p \in Ports, st[p] = "open", InLoop, NEW in \in BOOLEAN,
           Handle(p, in), UNCHANGED <<st, mode, bare>>, last' \in {p, last}
    PROVE  PortInv'
<1>1. CASE NotSet(p)
  BY <1>1, NotSetStep
<1>2. CASE handler[p] /\ Reads(p)
  BY <1>2, ReadsStep
<1>3. CASE Writes(p)
  BY <1>3, WritesStep
<1>4. QED
  BY <1>1, <1>2, <1>3 DEF Handle

\* Only an open port can be ready.
LEMMA ReadyOpen ==
    ASSUME PortInv, NEW p \in Ports, Ready(p)
    PROVE  st[p] = "open"
<1>1. kern[p] # {}
  BY DEF Ready, HasInput
<1>2. QED
  BY <1>1, Parts DEF Watched, Watch

\* Every step of the script, the loop and the devices.
LEMMA PortStep == PortInv /\ [Next]_vars => PortInv'
<1> SUFFICES ASSUME PortInv, [Next]_vars PROVE PortInv'
  OBVIOUS
<1>1. ASSUME NEW p \in Ports, NEW s \in Settings[p],
             Open(p, s) \/ OpenCtlFails(p, s) \/ OpenRefused(p, s)
      PROVE  PortInv'
  BY <1>1, OpenStep
<1>2. ASSUME NEW p \in Ports, Discover(p) PROVE PortInv'
  BY <1>2, DiscoverStep
<1>3. ASSUME NEW p \in Ports, DiscoverNoMem(p) PROVE PortInv'
  BY <1>3, Ended DEF DiscoverNoMem, portVars, hookVars, lineVars
<1>4. ASSUME NEW p \in Ports, Dispatch(p) PROVE PortInv'
  <2>1. /\ InLoop /\ Ready(p) /\ last' = p /\ Handle(p, HasInput(p))
        /\ UNCHANGED <<st, mode, bare>>
    BY <1>4 DEF Dispatch, portVars
  <2>2. HasInput(p) \in BOOLEAN
    BY DEF HasInput
  <2>3. QED
    BY <2>1, <2>2, ReadyOpen, HandleStep
<1>5. CASE Interrupted
  <2>1. InLoop /\ UNCHANGED <<st, mode, bare, last>>
    BY <1>5 DEF Interrupted, portVars
  <2>2. CASE where' = "dead" /\ UNCHANGED <<port, queued, hookVars, lineVars>>
    BY <2>1, <2>2, Ended DEF hookVars, lineVars
  <2>3. ASSUME last # Garbage, NEW in \in BOOLEAN, Handle(last, in) PROVE PortInv'
    <3>1. last \in Ports /\ st[last] = "open"
      BY <2>3, Parts DEF PortsKept
    <3>2. QED
      BY <2>1, <2>3, <3>1, HandleStep
  <2>4. QED
    BY <1>5, <2>2, <2>3 DEF Interrupted
<1>6. ASSUME NEW p \in Ports, Arrive(p) PROVE PortInv'
  <2>1. /\ input' = [input EXCEPT ![p] = @ + 1] /\ input[p] < MaxInput
        /\ UNCHANGED <<where, port, st, mode, bare, want, kern, handler, stuck, queued, last>>
    BY <1>6 DEF Arrive, portVars, hookVars
  <2>2. /\ Functional /\ where \in Wheres /\ PortsKept /\ Watched /\ Marked /\ Counted
        /\ OpeningOpen /\ \A q \in Ports : Opened(q)
    BY Parts
  <2>3. input[p] \in 0..MaxInput /\ MaxInput \in Nat
    BY <2>2, PortsAssumption DEF Counted
  <2>4. input[p] + 1 \in 0..MaxInput
    BY <2>1, <2>3
  <2>5. Functional' /\ Counted'
    BY <2>1, <2>2, <2>4 DEF Functional, Counted
  <2>6. PortsKept' /\ Watched' /\ Marked'
    BY <2>1, <2>2 DEF PortsKept, Watched, Watch, Marked
  <2>7. OpeningOpen' /\ (\A q \in Ports : Opened(q)') /\ where' \in Wheres
    BY <2>1, <2>2 DEF OpeningOpen, Opened
  <2>8. QED
    BY <2>5, <2>6, <2>7, PartsPrime
<1>7. ASSUME UNCHANGED <<port, st, mode, bare, want, kern, handler, input, stuck, queued, last>>,
             where' = where \/ (where = "script" /\ where' = "forever")
      PROVE  PortInv'
  <2>1. /\ Functional /\ where \in Wheres /\ PortsKept /\ Watched /\ Marked /\ Counted
        /\ OpeningOpen /\ \A q \in Ports : Opened(q)
    BY Parts
  <2>2. Functional' /\ Counted' /\ PortsKept' /\ Watched' /\ Marked'
    BY <1>7, <2>1 DEF Functional, Counted, PortsKept, Watched, Watch, Marked
  <2>3. OpeningOpen' /\ (\A q \in Ports : Opened(q)') /\ where' \in Wheres
    BY <1>7, <2>1 DEF OpeningOpen, Opened, Wheres
  <2>4. QED
    BY <2>2, <2>3, PartsPrime
<1>8. ASSUME NEW p \in Ports, HangUp(p) PROVE PortInv'
  BY <1>7, <1>8 DEF HangUp, portVars, hookVars
<1>9. CASE LoopForever
  BY <1>7, <1>9 DEF LoopForever, portVars, hookVars, lineVars
<1>10. CASE UNCHANGED vars
  BY <1>7, <1>10 DEF vars, portVars, hookVars, lineVars
<1>11. QED
  BY <1>1, <1>2, <1>3, <1>4, <1>5, <1>6, <1>8, <1>9, <1>10 DEF Next

------------------------------------------------------------------------------
\* Whatever fails below the handlers: hook and kernel differ in EPOLLOUT at most,
\* only an open port is watched, and what is queued is armed in the kernel
\* (main_loop.c 59-85, asyncio.c 63-129).
THEOREM TypeCorrect == Spec => []TypeOK
<1>1. PortInv => TypeOK
  BY DEF PortInv
<1>2. QED
  BY <1>1, PortInit, PortStep, PTL DEF Spec

\* An event can meet an unset handle_data only on a port that a script opened and
\* has not discovered at all, though the wait of every port dispatches the events
\* of all and a discovery goes on when its request is lost (main_loop.c 101-112,
\* asyncio.c 74, serial.c 288-308).
THEOREM HandlerCorrect == Spec => []HandlerSet
<1>1. PortInv => HandlerSet
  <2> SUFFICES ASSUME PortInv, NEW p \in Ports, InLoop, Ready(p) PROVE handler[p] \/ p \in bare
    BY DEF HandlerSet
  <2>1. st[p] = "open"
    BY ReadyOpen
  <2>2. where \in {"wait", "forever"}
    BY DEF InLoop
  <2>3. QED
    BY <2>1, <2>2, Parts DEF Opened
<1>2. QED
  BY <1>1, PortInit, PortStep, PTL DEF Spec

------------------------------------------------------------------------------
(* Settings.                                                                   *)

\* An open port has a line mode that its settings string can give.
ModeOfAsked ==
    /\ DOMAIN asked = Ports
    /\ \A p \in Ports : st[p] = "open" =>
         /\ asked[p] \in Settings[p] /\ Token(asked[p], 1) # Missing
         /\ mode[p] \in Modes(asked[p])

\* Only an open writes the settings and the mode.
LEMMA AskedStep ==
    ASSUME Functional, ModeOfAsked, [Next]_vars
    PROVE  ModeOfAsked'
<1>1. ASSUME UNCHANGED <<st, asked, mode>> PROVE ModeOfAsked'
  BY <1>1 DEF ModeOfAsked
<1>2. ASSUME NEW p \in Ports, NEW s \in Settings[p], Open(p, s) PROVE ModeOfAsked'
  <2>1. PICK md \in Modes(s) : mode' = [mode EXCEPT ![p] = md]
    BY <1>2 DEF Open
  <2>2. /\ st' = [st EXCEPT ![p] = "open"] /\ asked' = [asked EXCEPT ![p] = s]
        /\ Token(s, 1) # Missing
    BY <1>2 DEF Open
  <2>3. DOMAIN asked = Ports /\ DOMAIN mode = Ports /\ st \in [Ports -> {"closed", "open", "refused"}]
    BY DEF ModeOfAsked, Functional
  <2>4. ASSUME NEW q \in Ports, st'[q] = "open"
        PROVE  /\ asked'[q] \in Settings[q] /\ Token(asked'[q], 1) # Missing
               /\ mode'[q] \in Modes(asked'[q])
    <3>1. CASE q = p
      <4>1. asked'[q] = s /\ mode'[q] = md
        BY <2>1, <2>2, <2>3, <3>1
      <4>2. QED
        BY <2>2, <3>1, <4>1
    <3>2. CASE q # p
      <4>1. asked'[q] = asked[q] /\ mode'[q] = mode[q] /\ st'[q] = st[q]
        BY <2>1, <2>2, <2>3, <3>2
      <4>2. QED
        BY <2>4, <4>1 DEF ModeOfAsked
    <3>3. QED
      BY <3>1, <3>2
  <2>5. DOMAIN asked' = Ports
    BY <2>2, <2>3
  <2>6. QED
    BY <2>4, <2>5 DEF ModeOfAsked
<1>3. ASSUME NEW p \in Ports, NEW s \in Settings[p], OpenCtlFails(p, s) PROVE ModeOfAsked'
  BY <1>1, <1>3 DEF OpenCtlFails, portVars
<1>4. ASSUME NEW p \in Ports, NEW s \in Settings[p], OpenRefused(p, s) PROVE ModeOfAsked'
  <2>1. st' = [st EXCEPT ![p] = "refused"] /\ UNCHANGED <<asked, mode>>
    BY <1>4 DEF OpenRefused
  <2>2. \A q \in Ports : st'[q] = "open" => st[q] = "open"
    BY <2>1 DEF Functional
  <2>3. QED
    BY <2>1, <2>2 DEF ModeOfAsked
<1>5. ASSUME NEW p \in Ports,
             \/ Discover(p) \/ DiscoverNoMem(p) \/ Dispatch(p) \/ Arrive(p) \/ HangUp(p)
      PROVE  ModeOfAsked'
  BY <1>1, <1>5 DEF Discover, DiscoverNoMem, Dispatch, Arrive, HangUp, portVars
<1>6. CASE LoopForever \/ Interrupted \/ UNCHANGED vars
  BY <1>1, <1>6 DEF LoopForever, Interrupted, vars, portVars
<1>7. QED
  BY <1>2, <1>3, <1>4, <1>5, <1>6 DEF Next

\* strtok finds the next field that is not empty, or none if all the rest are.
LEMMA StrtokNext ==
    ASSUME NEW s, Len(s) \in Nat, NEW i \in Nat
    PROVE  \/ /\ Strtok(s, i) = Len(s) + 1
              /\ \A k \in (i + 1)..Len(s) : s[k] = Missing
           \/ /\ Strtok(s, i) \in (i + 1)..Len(s)
              /\ s[Strtok(s, i)] # Missing
              /\ \A k \in (i + 1)..(Strtok(s, i) - 1) : s[k] = Missing
<1>1. CASE Behind(s, i) = {}
  BY <1>1 DEF Strtok, Behind
<1>2. CASE Behind(s, i) # {}
  <2>1. \E j \in Behind(s, i) : \A k \in Behind(s, i) : j <= k
    <3>1. Behind(s, i) \in SUBSET Nat
      BY DEF Behind
    <3>2. QED
      BY <1>2, <3>1, LeastNumber
  <2>2. /\ Strtok(s, i) \in Behind(s, i)
        /\ \A k \in Behind(s, i) : Strtok(s, i) <= k
    BY <1>2, <2>1 DEF Strtok
  <2>3. ASSUME NEW k \in (i + 1)..(Strtok(s, i) - 1), s[k] # Missing PROVE FALSE
    <3>1. k \in Behind(s, i)
      BY <2>2, <2>3 DEF Behind
    <3>2. QED
      BY <2>2, <2>3, <3>1 DEF Behind
  <2>4. QED
    BY <2>2, <2>3 DEF Behind
<1>3. QED
  BY <1>1, <1>2

\* The second to fourth token of a string with a port in its first column: each is
\* in its own column or in a later one, and what it passed over is empty.
LEMMA TokenColumns ==
    ASSUME NEW s, Len(s) \in 1..5, s[1] # Missing
    PROVE  \E b, c, d \in 2..6 :
              /\ Token(s, 2) = Field(s, b) /\ Token(s, 3) = Field(s, c)
              /\ Token(s, 4) = Field(s, d)
              /\ \A k \in 2..5 : k < b => Field(s, k) = Missing
              /\ b < 6 => Field(s, b) # Missing
              /\ b < 6 => b < c
              /\ \A k \in 2..5 : b < k /\ k < c => Field(s, k) = Missing
              /\ c < 6 => Field(s, c) # Missing
              /\ c < 6 => c < d
              /\ \A k \in 2..5 : c < k /\ k < d => Field(s, k) = Missing
              /\ d < 6 => Field(s, d) # Missing
              /\ b = 6 => c = 6
              /\ c = 6 => d = 6
<1> DEFINE n == Len(s)
           Cut(i) == IF i <= n THEN i ELSE 6
           a == Strtok(s, 0)
           b == Strtok(s, a)
           c == Strtok(s, b)
           d == Strtok(s, c)
<1>1. n \in 1..5
  OBVIOUS
<1>2. a = 1
  BY <1>1, StrtokNext
<1>3. ASSUME NEW i \in 1..6, i <= n + 1
      PROVE  /\ Strtok(s, i) \in 2..6 /\ Strtok(s, i) <= n + 1
             /\ \A k \in 2..5 : i < k /\ k < Strtok(s, i) => Field(s, k) = Missing
             /\ Strtok(s, i) <= n => Field(s, Strtok(s, i)) # Missing /\ i < Strtok(s, i)
             /\ Strtok(s, i) > n => Field(s, Strtok(s, i)) = Missing
             /\ i > n => Strtok(s, i) > n
  <2>1. \/ /\ Strtok(s, i) = n + 1
           /\ \A k \in (i + 1)..n : s[k] = Missing
        \/ /\ Strtok(s, i) \in (i + 1)..n
           /\ s[Strtok(s, i)] # Missing
           /\ \A k \in (i + 1)..(Strtok(s, i) - 1) : s[k] = Missing
    BY <1>1, <1>3, StrtokNext
  <2>2. PICK j : j = Strtok(s, i)
    OBVIOUS
  <2>3. j \in 2..6 /\ j <= n + 1 /\ (j <= n => i < j) /\ (i > n => j > n)
    BY <1>1, <1>3, <2>1, <2>2
  <2>4. \A k \in 2..5 : i < k /\ k < j => Field(s, k) = Missing
    BY <1>1, <1>3, <2>1, <2>2 DEF Field
  <2>5. (j <= n => Field(s, j) # Missing) /\ (j > n => Field(s, j) = Missing)
    BY <1>1, <2>1, <2>2 DEF Field
  <2>6. QED
    BY <2>2, <2>3, <2>4, <2>5
<1> HIDE DEF a
<1>4. b \in 2..6 /\ b <= n + 1
  BY <1>1, <1>2, <1>3
<1>5. /\ \A k \in 2..5 : 1 < k /\ k < b => Field(s, k) = Missing
      /\ b <= n => Field(s, b) # Missing
      /\ b > n => Field(s, b) = Missing
  BY <1>1, <1>2, <1>3
<1> HIDE DEF b
<1>6. c \in 2..6 /\ c <= n + 1
  BY <1>1, <1>3, <1>4
<1>7. /\ \A k \in 2..5 : b < k /\ k < c => Field(s, k) = Missing
      /\ c <= n => Field(s, c) # Missing /\ b < c
      /\ c > n => Field(s, c) = Missing
      /\ b > n => c > n
  BY <1>1, <1>3, <1>4
<1> HIDE DEF c
<1>8. d \in 2..6 /\ d <= n + 1
  BY <1>1, <1>3, <1>6
<1>9. /\ \A k \in 2..5 : c < k /\ k < d => Field(s, k) = Missing
      /\ d <= n => Field(s, d) # Missing /\ c < d
      /\ d > n => Field(s, d) = Missing
      /\ c > n => d > n
  BY <1>1, <1>3, <1>6
<1>10. /\ Token(s, 2) = Field(s, b) /\ Token(s, 3) = Field(s, c) /\ Token(s, 4) = Field(s, d)
  BY DEF Token, a, b, c, d
<1> HIDE DEF d
<1>11. \A k \in 1..6 : k > n => Field(s, k) = Missing
  BY <1>1 DEF Field
<1>12. \A i \in 2..6 : Field(s, Cut(i)) = Field(s, i) /\ Cut(i) \in 2..6
  BY <1>1, <1>11
<1>13. /\ Cut(b) \in 2..6 /\ Cut(c) \in 2..6 /\ Cut(d) \in 2..6
       /\ Token(s, 2) = Field(s, Cut(b)) /\ Token(s, 3) = Field(s, Cut(c))
       /\ Token(s, 4) = Field(s, Cut(d))
  BY <1>4, <1>6, <1>8, <1>10, <1>12
<1>14. /\ \A k \in 2..5 : k < Cut(b) => Field(s, k) = Missing
       /\ Cut(b) < 6 => Field(s, Cut(b)) # Missing
       /\ Cut(b) < 6 => Cut(b) < Cut(c)
  BY <1>1, <1>4, <1>5, <1>6, <1>7, <1>11
<1>15. /\ \A k \in 2..5 : Cut(b) < k /\ k < Cut(c) => Field(s, k) = Missing
       /\ Cut(c) < 6 => Field(s, Cut(c)) # Missing
       /\ Cut(c) < 6 => Cut(c) < Cut(d)
       /\ Cut(b) = 6 => Cut(c) = 6
  BY <1>1, <1>4, <1>6, <1>7, <1>8, <1>9, <1>11
<1>16. /\ \A k \in 2..5 : Cut(c) < k /\ k < Cut(d) => Field(s, k) = Missing
       /\ Cut(d) < 6 => Field(s, Cut(d)) # Missing
       /\ Cut(c) = 6 => Cut(d) = 6
  BY <1>1, <1>6, <1>8, <1>9, <1>11
<1> HIDE DEF Cut
<1>17. QED
  BY <1>13, <1>14, <1>15, <1>16

\* What a mode that a string in columns can give has: a field that slipped into
\* another column is no speed and no number of bits there.
LEMMA ModeInColumns ==
    ASSUME NEW s, s \in Seq([num : Int, word : STRING]), InColumns(s), ~Untold(s),
           NEW md \in Modes(s)
    PROVE  /\ md.speed = IF Field(s, 2) = Missing THEN 0 ELSE s[2].num
           /\ md.bits = IF Field(s, 3) = Missing THEN 5 ELSE s[3].num
           /\ md.parity = ParityOf(Field(s, 4))
<1>1. Len(s) \in 1..5 /\ s[1] # Missing
  <2>1. Len(s) \in Nat /\ (Len(s) = 0 => s = <<>>)
    BY EmptySeq
  <2>2. Len(s) <= 5 /\ s # <<>> /\ s[1] # Missing
    BY Zenon DEF InColumns
  <2>3. Len(s) # 0
    BY <2>1, <2>2
  <2>4. \A n \in Nat : n <= 5 /\ n # 0 => n \in 1..5
    OBVIOUS
  <2>5. QED
    BY <2>1, <2>2, <2>3, <2>4, Zenon
<1>2. Speeds \subseteq Nat \ (0..8)
  BY PortsAssumption
<1>3. \A k \in 2..5 : k > Len(s) => Field(s, k) = Missing
  BY <1>1 DEF Field
<1>4. /\ Field(s, 2) # Missing => Field(s, 2).num \in Speeds /\ s[2] = Field(s, 2)
      /\ Field(s, 3) # Missing => Field(s, 3).num \in 5..8 /\ s[3] = Field(s, 3)
      /\ Field(s, 3) # Missing => Field(s, 3).word = "number"
      /\ Field(s, 4) # Missing => Field(s, 4).num = -1
      /\ Field(s, 5) # Missing => Field(s, 5).num \in {1, 2} /\ Field(s, 5).word = "number"
  <2>1. /\ 2 \in 2..Len(s) => s[2] \in {Missing} \cup {Num(v) : v \in Speeds}
        /\ 3 \in 2..Len(s) => s[3] \in {Missing} \cup {Num(v) : v \in 5..8}
        /\ 4 \in 2..Len(s) => s[4] \in {Missing} \cup {Word("n"), Word("o"), Word("e")}
        /\ 5 \in 2..Len(s) => s[5] \in {Missing} \cup {Num(1), Num(2)}
    <3>1. \A k \in 2..Len(s) : s[k] \in {Missing} \cup
              CASE k = 2 -> {Num(v) : v \in Speeds}
                [] k = 3 -> {Num(b) : b \in 5..8}
                [] k = 4 -> {Word("n"), Word("o"), Word("e")}
                [] k = 5 -> {Num(1), Num(2)}
      BY Zenon DEF InColumns
    <3>2. 2 \in 2..Len(s) => s[2] \in {Missing} \cup {Num(v) : v \in Speeds}
      BY <3>1
    <3>3. 3 \in 2..Len(s) => s[3] \in {Missing} \cup {Num(v) : v \in 5..8}
      BY <3>1
    <3>4. 4 \in 2..Len(s) => s[4] \in {Missing} \cup {Word("n"), Word("o"), Word("e")}
      BY <3>1
    <3>5. 5 \in 2..Len(s) => s[5] \in {Missing} \cup {Num(1), Num(2)}
      BY <3>1
    <3>6. QED
      BY <3>2, <3>3, <3>4, <3>5
  <2>2. /\ Field(s, 2) # Missing => Field(s, 2) = s[2] /\ 2 \in 2..Len(s)
        /\ Field(s, 3) # Missing => Field(s, 3) = s[3] /\ 3 \in 2..Len(s)
        /\ Field(s, 4) # Missing => Field(s, 4) = s[4] /\ 4 \in 2..Len(s)
        /\ Field(s, 5) # Missing => Field(s, 5) = s[5] /\ 5 \in 2..Len(s)
    BY <1>1 DEF Field
  <2>3. /\ \A v : Num(v).num = v /\ Num(v).word = "number"
        /\ \A w : Word(w).num = -1
    BY DEF Num, Word
  <2>4. Field(s, 2) # Missing => Field(s, 2).num \in Speeds /\ s[2] = Field(s, 2)
    BY <2>1, <2>2, <2>3
  <2>5. /\ Field(s, 3) # Missing => Field(s, 3).num \in 5..8 /\ s[3] = Field(s, 3)
        /\ Field(s, 3) # Missing => Field(s, 3).word = "number"
    BY <2>1, <2>2, <2>3
  <2>6. Field(s, 4) # Missing => Field(s, 4).num = -1
    BY <2>1, <2>2, <2>3
  <2>7. Field(s, 5) # Missing => Field(s, 5).num \in {1, 2} /\ Field(s, 5).word = "number"
    BY <2>1, <2>2, <2>3
  <2>8. QED
    BY <2>4, <2>5, <2>6, <2>7
<1>5. PICK b \in 2..6, c \in 2..6, d \in 2..6 :
          /\ Token(s, 2) = Field(s, b) /\ Token(s, 3) = Field(s, c)
          /\ Token(s, 4) = Field(s, d)
          /\ \A k \in 2..5 : k < b => Field(s, k) = Missing
          /\ b < 6 => Field(s, b) # Missing
          /\ b < 6 => b < c
          /\ \A k \in 2..5 : b < k /\ k < c => Field(s, k) = Missing
          /\ c < 6 => Field(s, c) # Missing
          /\ c < 6 => c < d
          /\ \A k \in 2..5 : c < k /\ k < d => Field(s, k) = Missing
          /\ d < 6 => Field(s, d) # Missing
          /\ b = 6 => c = 6
          /\ c = 6 => d = 6
  BY <1>1, TokenColumns
<1>6. Field(s, 6) = Missing
  BY <1>1 DEF Field
<1>7. PICK v \in SpeedsOf(Field(s, b)), w \in BitsOf(Field(s, c)) :
          md = [speed |-> v, bits |-> w, parity |-> ParityOf(Field(s, d)), stop |-> 1]
  BY <1>5 DEF Modes
<1>8. b \in {2, 6}
  <2>1. SpeedsOf(Field(s, b)) # {}
    BY <1>7
  <2>2. b # 3 /\ b # 5
    BY <1>2, <1>4, <1>5, <2>1 DEF SpeedsOf
  <2>3. b # 4
    BY <1>5 DEF Untold
  <2>4. QED
    BY <2>2, <2>3
<1>9. c \in {3, 6}
  <2>1. BitsOf(Field(s, c)) # {}
    BY <1>7
  <2>2. c # 4 /\ c # 5
    BY <1>4, <1>5, <2>1 DEF BitsOf
  <2>3. c # 2
    BY <1>5, <1>8
  <2>4. QED
    BY <2>2, <2>3
<1>10. md.speed = IF Field(s, 2) = Missing THEN 0 ELSE s[2].num
  <2>1. CASE b = 2
    <3>1. Field(s, 2) # Missing
      BY <1>5, <2>1
    <3>2. Field(s, 2).num \in Speeds /\ s[2] = Field(s, 2)
      BY <1>4, <3>1
    <3>3. Field(s, 2).num \in Nat
      BY <1>2, <3>2
    <3>4. SpeedsOf(Field(s, 2)) \subseteq {Field(s, 2).num}
      BY <3>1, <3>3 DEF SpeedsOf
    <3>5. v = Field(s, 2).num
      BY <2>1, <3>4
    <3>6. QED
      BY <1>7, <3>1, <3>2, <3>5
  <2>2. CASE b = 6
    BY <1>5, <1>6, <1>7, <2>2 DEF SpeedsOf
  <2>3. QED
    BY <1>8, <2>1, <2>2
<1>11. md.bits = IF Field(s, 3) = Missing THEN 5 ELSE s[3].num
  <2>1. CASE c = 3
    BY <1>4, <1>5, <1>7, <2>1 DEF BitsOf
  <2>2. CASE c = 6
    BY <1>5, <1>6, <1>7, <1>8, <2>2 DEF BitsOf
  <2>3. QED
    BY <1>9, <2>1, <2>2
<1>12. md.parity = ParityOf(Field(s, 4))
  <2>1. ParityOf(Missing) = "n"
    BY DEF ParityOf, Missing
  <2>2. Field(s, 5) # Missing => ParityOf(Field(s, 5)) = "n"
    BY <1>4 DEF ParityOf
  <2>3. CASE d = 4
    BY <1>7, <2>3
  <2>4. CASE d # 4
    <3>1. Field(s, 4) = Missing /\ d \in {5, 6}
      BY <1>5, <1>8, <1>9, <2>4 DEF Untold
    <3>2. QED
      BY <1>6, <1>7, <2>1, <2>2, <3>1
  <2>5. QED
    BY <2>3, <2>4
<1>13. QED
  BY <1>10, <1>11, <1>12

\* An open port has the speed, bits and parity of their own columns, with the
\* defaults where they are missing, although strtok shifts the fields behind an
\* empty one; all but a parity without speed and bits (uart.c 25-90).
THEOREM ColumnsCorrect == Spec => []OwnColumns
<1>1. Init => ModeOfAsked
  BY DEF Init, ModeOfAsked
<1>2. PortInv /\ ModeOfAsked /\ [Next]_vars => ModeOfAsked'
  BY AskedStep DEF PortInv
<1>3. ModeOfAsked => OwnColumns
  <2> SUFFICES ASSUME ModeOfAsked, NEW p \in Ports, st[p] = "open",
                      InColumns(asked[p]), ~Untold(asked[p])
               PROVE  /\ mode[p].speed = IF Field(asked[p], 2) = Missing THEN 0
                                         ELSE asked[p][2].num
                      /\ mode[p].bits = IF Field(asked[p], 3) = Missing THEN 5
                                        ELSE asked[p][3].num
                      /\ mode[p].parity = ParityOf(Field(asked[p], 4))
    BY DEF OwnColumns
  <2>1. asked[p] \in Seq([num : Int, word : STRING]) /\ mode[p] \in Modes(asked[p])
    BY PortsAssumption DEF ModeOfAsked
  <2>2. QED
    BY <2>1, ModeInColumns
<1>4. QED
  BY <1>1, <1>2, <1>3, PortInit, PortStep, PTL DEF Spec
====
