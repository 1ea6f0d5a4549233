---- MODULE ListHead ----
(* The intrusive list of include/aura/list.h, pointer by pointer: the links of *)
(* all list_heads in memory are a record m of two functions, m.next and        *)
(* m.prev, from addresses to addresses.  An operation maps links to links; the *)
(* code assigns in the order in which the EXCEPT updates, which matters when   *)
(* two of the arguments are the same list_head.                                *)
EXTENDS Integers, Sequences

CONSTANT Null      \* (void *) 0

INIT_LIST_HEAD(m, h) == [m EXCEPT !.next[h] = h, !.prev[h] = h]

list_add_between(m, new, p, n) ==
    [m EXCEPT !.prev[n] = new, !.next[new] = n, !.prev[new] = p, !.next[p] = new]

\* Mutant: list_add, which puts the entry first.
ListAddFirst(m, new, head) == list_add_between(m, new, head, m.next[head])

list_add_tail(m, new, head) == list_add_between(m, new, m.prev[head], head)

\* Mutant: the entry that follows is not linked back.
ListDelForward(m, e) ==
    [m EXCEPT !.next[m.prev[e]] = m.next[e], !.next[e] = Null, !.prev[e] = Null]

list_del(m, e) ==
    [m EXCEPT !.prev[m.next[e]] = m.prev[e], !.next[m.prev[e]] = m.next[e],
              !.next[e] = Null, !.prev[e] = Null]

list_empty(m, head) == m.next[head] = head

------------------------------------------------------------------------------
(* The list a head is meant to hold, and what the links must then be.          *)

\* Entry k of the ring: the head is entry 0 and the one after the last.
RingEntry(head, s, k) == IF k \in 1..Len(s) THEN s[k] ELSE head

Ring(m, head, s) ==
    \A k \in 0..Len(s) :
        /\ m.next[RingEntry(head, s, k)] = RingEntry(head, s, k + 1)
        /\ m.prev[RingEntry(head, s, k + 1)] = RingEntry(head, s, k)
====
