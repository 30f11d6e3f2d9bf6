-------------------------------- MODULE Locks --------------------------------
(***************************************************************************)
(* The kernel's locks: kernel/include/ocean/spinlock.h.                    *)
(*                                                                         *)
(* A step is one atomic access to the lock's memory.  Tickets are of       *)
(* TicketBits bits and wrap around, at any time.  spin_trylock compares a  *)
(* ticket it has read earlier, and would take one that has come round for  *)
(* the same: NoFullRound says that the tickets do not go round once while  *)
(* a CPU is between its comparison and its exchange.                       *)
(***************************************************************************)
EXTENDS Integers, FiniteSets

CONSTANTS
    CPUs,          \* the processors
    TicketBits     \* width of a ticket, 32

VARIABLES
    next_ticket,   \* spinlock.next_ticket
    now_serving,   \* spinlock.now_serving
    count,         \* rwlock.count: readers, -1 for a writer, 0 when free
    lock_pc,       \* CPU -> where it is in an operation
    lock_tmp       \* CPU -> my_ticket, ticket, or the count read_lock has read

lockVars == <<next_ticket, now_serving, count, lock_pc, lock_tmp>>

Tickets == 2^TicketBits
Inc(t) == (t + 1) % Tickets

\* Every CPU may hold a ticket and one is left, as 2^32 are.
ASSUME TicketsSuffice ==
    /\ IsFiniteSet(CPUs)
    /\ Tickets \in Nat
    /\ Cardinality(CPUs) < Tickets

\* The lock may have been used any number of times before.
LocksInit ==
    /\ next_ticket \in 0 .. Tickets - 1
    /\ now_serving = next_ticket
    /\ count = 0
    /\ lock_pc = [c \in CPUs |-> "idle"]
    /\ lock_tmp = [c \in CPUs |-> 0]

\* The step of CPU c from one point of an operation to another.
Goto(c, from, to) ==
    lock_pc[c] = from /\ lock_pc' = [lock_pc EXCEPT ![c] = to]
Keep(c, value) == lock_tmp' = [lock_tmp EXCEPT ![c] = value]

\* Issues the next ticket.
NoFullRound == \A d \in CPUs : lock_pc[d] = "swap" => lock_tmp[d] # Inc(next_ticket)
Issue == NoFullRound /\ next_ticket' = Inc(next_ticket)

-----------------------------------------------------------------------------
(* Ticket spinlock.                                                        *)

spin_lock_take(c) ==
    /\ Goto(c, "idle", "spin")
    /\ Keep(c, next_ticket)
    /\ Issue
    /\ UNCHANGED <<now_serving, count>>

spin_lock_served(c) ==
    /\ now_serving = lock_tmp[c]
    /\ Goto(c, "spin", "locked")
    /\ UNCHANGED <<next_ticket, now_serving, count, lock_tmp>>

spin_unlock(c) ==
    /\ Goto(c, "locked", "idle")
    /\ now_serving' = Inc(now_serving)
    /\ UNCHANGED <<next_ticket, count, lock_tmp>>

spin_trylock_load(c) ==
    /\ Goto(c, "idle", "try")
    /\ Keep(c, next_ticket)
    /\ UNCHANGED <<next_ticket, now_serving, count>>

spin_trylock_compare(c) ==
    /\ Goto(c, "try", IF lock_tmp[c] = now_serving THEN "swap" ELSE "idle")
    /\ UNCHANGED <<next_ticket, now_serving, count, lock_tmp>>

\* Variant of spin_trylock_swap: stores without comparing.
spin_trylock_store(c) ==
    /\ Goto(c, "swap", "locked")
    /\ Issue
    /\ UNCHANGED <<now_serving, count, lock_tmp>>

spin_trylock_swap(c) ==
    /\ IF next_ticket = lock_tmp[c]
       THEN Goto(c, "swap", "locked") /\ Issue
       ELSE Goto(c, "swap", "idle") /\ UNCHANGED next_ticket
    /\ UNCHANGED <<now_serving, count, lock_tmp>>

-----------------------------------------------------------------------------
(* Reader-writer lock.                                                     *)

\* Both loads of read_lock see no writer: the second decides.
read_lock_load(c) ==
    /\ count >= 0
    /\ Goto(c, "idle", "read")
    /\ Keep(c, count)
    /\ UNCHANGED <<next_ticket, now_serving, count>>

\* When the count has changed read_lock starts again.
read_lock_swap(c) ==
    /\ lock_pc[c] = "read"
    /\ IF count = lock_tmp[c]
       THEN Goto(c, "read", "reading") /\ count' = count + 1 /\ UNCHANGED lock_tmp
       ELSE count >= 0 /\ Keep(c, count) /\ UNCHANGED <<lock_pc, count>>
    /\ UNCHANGED <<next_ticket, now_serving>>

read_unlock(c) ==
    /\ Goto(c, "reading", "idle")
    /\ count' = count - 1
    /\ UNCHANGED <<next_ticket, now_serving, lock_tmp>>

write_lock_load(c) ==
    /\ count = 0
    /\ Goto(c, "idle", "write")
    /\ UNCHANGED <<next_ticket, now_serving, count, lock_tmp>>

write_lock_swap(c) ==
    /\ count = 0
    /\ Goto(c, "write", "writing")
    /\ count' = -1
    /\ UNCHANGED <<next_ticket, now_serving, lock_tmp>>

write_unlock(c) ==
    /\ Goto(c, "writing", "idle")
    /\ count' = 0
    /\ UNCHANGED <<next_ticket, now_serving, lock_tmp>>

LocksNext ==
    \E c \in CPUs :
        \/ spin_lock_take(c) \/ spin_lock_served(c) \/ spin_unlock(c)
        \/ spin_trylock_load(c) \/ spin_trylock_compare(c) \/ spin_trylock_swap(c)
        \/ read_lock_load(c) \/ read_lock_swap(c) \/ read_unlock(c)
        \/ write_lock_load(c) \/ write_lock_swap(c) \/ write_unlock(c)

LocksSpec == LocksInit /\ [][LocksNext]_lockVars

-----------------------------------------------------------------------------
(* What must hold.                                                         *)

At(where) == {c \in CPUs : lock_pc[c] = where}

\* One CPU at most holds the spinlock, also when spin_trylock races the ticket
\* of spin_lock or the tickets wrap around; the tickets from now_serving up to
\* next_ticket are exactly those of the holder and the waiters, so every waiter
\* is served, in the order it came, once those before it have unlocked, and
\* none waits for a ticket nobody holds.  Readers and a writer exclude each
\* other and count says which of them are inside.
LocksExclusive ==
    LET outstanding == (next_ticket - now_serving) % Tickets
        place(c) == (lock_tmp[c] - now_serving) % Tickets
        holders == Cardinality(At("locked"))
    IN  /\ holders <= 1
        /\ outstanding = holders + Cardinality(At("spin"))
        /\ {place(c) : c \in At("spin")} = holders .. outstanding - 1
        /\ \A c \in At("locked") \cup At("spin") : lock_tmp[c] # next_ticket
        /\ At("writing") = {} <=> count >= 0
        /\ count >= 0 => count = Cardinality(At("reading"))
        /\ count < 0 => Cardinality(At("writing")) = 1 /\ At("reading") = {}
=============================================================================
