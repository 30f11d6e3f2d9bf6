-------------------------------- MODULE Lists --------------------------------
(***************************************************************************)
(* The kernel's linked lists: kernel/include/ocean/list.h.                 *)
(*                                                                         *)
(* A list is circular through its head.  Every operation is written with   *)
(* the assignments of the code, in their order, because some of the        *)
(* pointers it reads are ones it has just written.  The callers hold the   *)
(* lock of the list, so an operation, or a whole loop over a list, is one  *)
(* step.                                                                   *)
(***************************************************************************)
EXTENDS Integers, Sequences, FiniteSets, SequencesExt

CONSTANTS
    Heads,      \* list heads
    Entries     \* list_heads embedded in structures

VARIABLES
    links,      \* [next, prev]: functions on heads and entries
    asked       \* history: the last operation and its arguments

listVars == <<links, asked>>

Nodes == Heads \cup Entries
NULL == "NULL"
Bound == Cardinality(Nodes) + 1

INIT_LIST_HEAD(l, n) == [l EXCEPT !.next[n] = n, !.prev[n] = n]

__list_add(l, new, prev, next) ==
    [l EXCEPT !.prev[next] = new, !.next[new] = next,
              !.prev[new] = prev, !.next[prev] = new]

__list_del(l, prev, next) == [l EXCEPT !.prev[next] = prev, !.next[prev] = next]

list_add(l, new, head) == __list_add(l, new, head, l.next[head])
\* Variant of list_add_tail: the entry goes to the front.
list_add_front(l, new, head) == __list_add(l, new, head, l.next[head])

list_add_tail(l, new, head) == __list_add(l, new, l.prev[head], head)

list_del(l, entry) ==
    [__list_del(l, l.prev[entry], l.next[entry])
        EXCEPT !.next[entry] = NULL, !.prev[entry] = NULL]

list_del_init(l, entry) ==
    INIT_LIST_HEAD(__list_del(l, l.prev[entry], l.next[entry]), entry)

\* new->next and new->prev are read back after they are written.
list_replace(l, old, new) ==
    LET a == [l EXCEPT !.next[new] = l.next[old]]
        b == [a EXCEPT !.prev[a.next[new]] = new]
        c == [b EXCEPT !.prev[new] = b.prev[old]]
    IN  [c EXCEPT !.next[c.prev[new]] = new]

list_replace_init(l, old, new) == INIT_LIST_HEAD(list_replace(l, old, new), old)

list_move(l, entry, head) ==
    list_add(__list_del(l, l.prev[entry], l.next[entry]), entry, head)

list_move_tail(l, entry, head) ==
    list_add_tail(__list_del(l, l.prev[entry], l.next[entry]), entry, head)

list_empty(l, head) == l.next[head] = head
list_is_singular(l, head) == ~list_empty(l, head) /\ l.next[head] = l.prev[head]

\* The entries list_for_each and list_for_each_entry visit; a walk that does
\* not come back to the head is cut after more steps than there are nodes.
list_for_each(l, head) ==
    LET pos[i \in 1 .. Bound] ==
            IF i = 1 THEN l.next[head]
            ELSE LET p == pos[i - 1] IN IF p \in {head, NULL} THEN p ELSE l.next[p]
    IN  SelectSeq([i \in 1 .. Bound |-> pos[i]], LAMBDA p : p \notin {head, NULL})

list_for_each_entry_reverse(l, head) ==
    list_for_each([next |-> l.prev, prev |-> l.next], head)

\* list_for_each_entry_safe with a body that takes the entries of removed off
\* the list: n is read before the body runs, pos takes its value after.
list_for_each_entry_safe(l, head, removed) ==
    LET body(m, pos) == IF pos \in removed THEN list_del_init(m, pos) ELSE m
        loop[i \in 0 .. Bound] ==
            IF i = 0 THEN [l |-> l, pos |-> l.next[head], n |-> l.next[l.next[head]],
                           seen |-> <<>>]
            ELSE LET s == loop[i - 1]  m == body(s.l, s.pos)
                 IN  IF s.pos = head THEN s
                     ELSE [l |-> m, pos |-> s.n, n |-> m.next[s.n],
                           seen |-> Append(s.seen, s.pos)]
    IN  loop[Bound]

-----------------------------------------------------------------------------
On(head) == ToSet(list_for_each(links, head))
Listed(e) == \E h \in Heads : e \in On(h)

ListsInit ==
    /\ links = [next |-> [n \in Nodes |-> n], prev |-> [n \in Nodes |-> n]]
    /\ asked = <<"none">>

Does(operation, l) == asked' = operation /\ links' = l

\* An entry is added only when it is on no list, and taken off only when it
\* is on one, except by list_del_init, which does nothing to an entry alone.
ListsNext ==
    \/ \E e \in Entries, h \in Heads :
         ~Listed(e) /\ Does(<<"list_add", e, h>>, list_add(links, e, h))
    \/ \E e \in Entries, h \in Heads :
         ~Listed(e) /\ Does(<<"list_add_tail", e, h>>, list_add_tail(links, e, h))
    \/ \E e \in Entries : Listed(e) /\ Does(<<"list_del", e>>, list_del(links, e))
    \/ \E e \in Entries :
         links.next[e] # NULL /\ Does(<<"list_del_init", e>>, list_del_init(links, e))
    \/ \E e, f \in Entries :
         /\ Listed(e) /\ ~Listed(f)
         /\ Does(<<"list_replace_init", e, f>>, list_replace_init(links, e, f))
    \/ \E e \in Entries, h \in Heads :
         Listed(e) /\ Does(<<"list_move", e, h>>, list_move(links, e, h))
    \/ \E e \in Entries, h \in Heads :
         Listed(e) /\ Does(<<"list_move_tail", e, h>>, list_move_tail(links, e, h))
    \/ \E h \in Heads, removed \in SUBSET Entries :
         Does(<<"list_for_each_entry_safe", h, removed>>,
              list_for_each_entry_safe(links, h, removed).l)

-----------------------------------------------------------------------------
(* What must hold.                                                         *)

Q == INSTANCE Queues WITH queue <- [h \in Heads |-> list_for_each(links, h)]

\* A list reads the same backwards, list_empty and list_is_singular count its
\* entries, and a loop with list_for_each_entry_safe whose body removes any of
\* the entries it visits still visits every one, once, and in order.
TraversalsExact ==
    \A h \in Heads :
        LET q == list_for_each(links, h)
        IN  /\ list_for_each_entry_reverse(links, h) = Reverse(q)
            /\ list_empty(links, h) <=> q = <<>>
            /\ list_is_singular(links, h) <=> Len(q) = 1
            /\ \A removed \in SUBSET Entries :
                 list_for_each_entry_safe(links, h, removed).seen = q

\* The pointers behave as sequences do: each operation changes the list of its
\* head as the same operation changes the abstract queue, and no other list,
\* whatever the operations before it were; and every way to walk a list agrees
\* with that queue, also while the loop's body takes entries off.  The first
\* two conjuncts are Q!QueuesSpec, steps that change no list set aside first.
ListsImplementQueues ==
    /\ Q!QueuesInit
    /\ [][listVars' # listVars => Q!QueuesNext]_listVars
    /\ []TraversalsExact
=============================================================================
