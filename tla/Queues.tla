------------------------------- MODULE Queues -------------------------------
(***************************************************************************)
(* What kernel/include/ocean/list.h promises its users: every head has a   *)
(* sequence of entries, an entry is in at most one of them, and each       *)
(* operation changes the sequences and nothing else.                       *)
(***************************************************************************)
EXTENDS Sequences, SequencesExt

CONSTANTS
    Heads,      \* list heads
    Entries     \* list_heads embedded in structures

VARIABLES
    queue,      \* head -> the entries on its list
    asked       \* the last operation and its arguments

QueuesInit == queue = [h \in Heads |-> <<>>] /\ asked = <<"none">>

Queued(e) == \E h \in Heads : Contains(queue[h], e)

Without(q, e) == SelectSeq(q, LAMBDA f : f # e)

AddFirst(e, h) ==
    /\ asked' = <<"list_add", e, h>>
    /\ ~Queued(e)
    /\ queue' = [queue EXCEPT ![h] = <<e>> \o @]

AddLast(e, h) ==
    /\ asked' = <<"list_add_tail", e, h>>
    /\ ~Queued(e)
    /\ queue' = [queue EXCEPT ![h] = Append(@, e)]

TakeOff(e) ==
    /\ \/ asked' = <<"list_del", e>> /\ Queued(e)
       \/ asked' = <<"list_del_init", e>>
    /\ queue' = [h \in Heads |-> Without(queue[h], e)]

Exchange(e, f) ==
    /\ asked' = <<"list_replace_init", e, f>>
    /\ Queued(e) /\ ~Queued(f)
    /\ queue' = [h \in Heads |-> ReplaceAll(queue[h], e, f)]

MoveFirst(e, h) ==
    /\ asked' = <<"list_move", e, h>>
    /\ Queued(e)
    /\ queue' = [k \in Heads |-> IF k = h THEN <<e>> \o Without(queue[k], e)
                                 ELSE Without(queue[k], e)]

MoveLast(e, h) ==
    /\ asked' = <<"list_move_tail", e, h>>
    /\ Queued(e)
    /\ queue' = [k \in Heads |-> IF k = h THEN Append(Without(queue[k], e), e)
                                 ELSE Without(queue[k], e)]

\* A loop over a list that removes some of its entries on the way.
Sweep(h, removed) ==
    /\ asked' = <<"list_for_each_entry_safe", h, removed>>
    /\ queue' = [queue EXCEPT ![h] = SelectSeq(@, LAMBDA e : e \notin removed)]

QueuesNext ==
    \/ \E e \in Entries, h \in Heads : AddFirst(e, h)
    \/ \E e \in Entries, h \in Heads : AddLast(e, h)
    \/ \E e \in Entries : TakeOff(e)
    \/ \E e, f \in Entries : Exchange(e, f)
    \/ \E e \in Entries, h \in Heads : MoveFirst(e, h)
    \/ \E e \in Entries, h \in Heads : MoveLast(e, h)
    \/ \E h \in Heads, removed \in SUBSET Entries : Sweep(h, removed)

QueuesSpec == QueuesInit /\ [][QueuesNext]_<<queue, asked>>
=============================================================================
