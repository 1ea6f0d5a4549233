---- MODULE UrpcNodes ----
(* The uRPC framework as a script sees it: instances (plugins/urpc/urpc.c),    *)
(* the transports that fill their object lists (plugins/urpc-null/urpcnull.c   *)
(* by static objects, the serial one by what its device announces), and the    *)
(* nodes urpc_open builds of them (lua/init.lua), whose functions remember an  *)
(* index into the table of the instance.                                       *)
(*                                                                             *)
(* A list_head has the address <<k, 0>> in instance k, <<k, j>> in the j-th    *)
(* object its device announced and <<0, j>> in the j-th static object.         *)
EXTENDS ListHead, SequencesExt

CONSTANTS
    Names,      \* names a device may give to its objects; Null is no name
    Devices,    \* what a serial device may announce
    MaxInsts,   \* bound: instances opened
    MaxObjs     \* bound: objects announced

ASSUME NodesAssumption ==
    /\ MaxInsts \in Nat /\ MaxObjs \in Nat /\ MaxObjs >= 3
    /\ Devices \subseteq {d \in Seq([name : Names, method : BOOLEAN]) : Len(d) <= MaxObjs}

VARIABLES
    m,        \* the links of all list_heads
    insts,    \* per instance: transport, announced objects, inst->objects
    nodes     \* per instance: its node, from method names to indices

nodeVars == <<m, insts, nodes>>

Addresses == (0..MaxInsts) \X (0..MaxObjs)
Head0(k) == <<k, 0>>

Method(n) == [name |-> n, method |-> TRUE]
NullObjects == <<Method("hostname"), Method("packnumbers"), Method("unpacknumbers")>>

\* The objects that discovery links into the list of instance k.
Found(k, tr, dev) == [j \in 1..Len(dev) |-> IF tr = "null" THEN <<0, j>> ELSE <<k, j>>]
Object(k, a) == insts[k].dev[a[2]]

NodesInit ==
    /\ m = [next |-> [a \in Addresses |-> Null], prev |-> [a \in Addresses |-> Null]]
    /\ insts = <<>> /\ nodes = <<>>

------------------------------------------------------------------------------
(* list_for_each: where the pointer is after j steps, and the entries it       *)
(* passes before it is back at the head.                                       *)

Steps == Cardinality(Addresses)
Visit(l, h) == LET at[j \in 0..Steps] == IF j = 0 THEN h ELSE l.next[at[j - 1]] IN at

Listed(l, h) ==
    LET at == Visit(l, h)
        n == CHOOSE j \in 0..Steps - 1 : at[j + 1] = h /\ \A k \in 1..j : at[k] # h
    IN  [j \in 1..n |-> at[j]]

AddAll(l, h, objs) ==
    LET added[j \in 0..Len(objs)] ==
            IF j = 0 THEN l ELSE list_add_tail(added[j - 1], objs[j], h)
    IN  added[Len(objs)]

\* Names that urpc_open binds: those of the methods.
Bound(dev) == {dev[j].name : j \in {j \in 1..Len(dev) : dev[j].method}}

Unbound == [n \in {} |-> 0]

\* Mutant: all functions made so far see the i of the latest turn.
TurnShared(f, dev, table, i) ==
    LET o == dev[table[i][2]] IN
    IF o.method THEN [n \in DOMAIN f \cup {o.name} |-> i] ELSE [n \in DOMAIN f |-> i]

\* The body of urpc_open's loop: the function of a method remembers the i of its
\* own turn, and takes the place of an earlier one of that name.
Turn(f, dev, table, i) ==
    LET o == dev[table[i][2]] IN
    IF o.method THEN [n \in DOMAIN f \cup {o.name} |-> IF n = o.name THEN i ELSE f[n]]
    ELSE f

\* The loop, over the table in the order in which pairs() visits it.
NodeOf(dev, table, order) ==
    LET node[j \in 0..Len(order)] ==
            IF j = 0 THEN Unbound ELSE Turn(node[j - 1], dev, table, order[j])
    IN  node[Len(order)]

\* urpc_open with a transport that is there: open, discovery, table, node.  A
\* method without a name stops the script in node[nil] = ..., the instance stays.
OpenNode(tr, dev) ==
    LET k == Len(insts) + 1
        l == AddAll(INIT_LIST_HEAD(m, Head0(k)), Head0(k), Found(k, tr, dev))
        table == Listed(l, Head0(k))
    IN  /\ k <= MaxInsts
        /\ m' = l
        /\ insts' = Append(insts, [tr |-> tr, dev |-> dev, objects |-> table])
        /\ IF Null \in Bound(dev) THEN nodes' = Append(nodes, Unbound)
           ELSE \E order \in SetToSeqs(1..Len(table)) :
                    nodes' = Append(nodes, NodeOf(dev, table, order))

\* __urpc_discovery once more, on an instance of the null transport: the static
\* objects are linked again although they are on this list, or on another one.
Rediscover(k) ==
    /\ insts[k].tr = "null"
    /\ m' = AddAll(m, Head0(k), Found(k, "null", NullObjects))
    /\ insts' = [insts EXCEPT ![k].objects = Listed(m', Head0(k))]
    /\ UNCHANGED nodes

\* A method named "__instance" replaces the userdata its node is called with.
Clobbered(k) == "__instance" \in DOMAIN nodes[k]

------------------------------------------------------------------------------
\* Whatever is opened or discovered, in whatever order, and although the null
\* transport links the same three static objects into the list of every instance
\* and so breaks the rings of the others, every table lists exactly the objects
\* of its instance in the order in which they were announced.
TablesExact ==
    \A k \in 1..Len(insts) :
        insts[k].objects = Found(k, insts[k].tr, insts[k].dev)

\* In whatever order the table was visited, and whatever was discovered since, a
\* function of a node packs by the formats of an object of its own name and sends
\* that object's place in the table; and every method of the device has a function,
\* unless one of them had no name, which leaves the script without a node.  (Whether
\* the device knows the object by that place is another matter: the id it announces
\* is parsed and dropped.)
CallsReachNamed ==
    \A k \in 1..Len(nodes) :
        /\ \A n \in DOMAIN nodes[k] :
               LET o == Object(k, insts[k].objects[nodes[k][n]]) IN o.name = n /\ o.method
        /\ Null \notin Bound(insts[k].dev) => DOMAIN nodes[k] = Bound(insts[k].dev)
====
