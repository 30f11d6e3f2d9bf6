------------------------------- MODULE Cspace -------------------------------
(***************************************************************************)
(* Capability spaces: kernel/ipc/capability.c.                             *)
(*                                                                         *)
(* Every operation holds the lock of each space it touches until it is     *)
(* done, so it is one step.  A slot is in use twice over: by the type of   *)
(* the capability in it, which lookups and copies to a given slot go by,   *)
(* and by its bit in the bitmap, which the search for a free slot goes by. *)
(*                                                                         *)
(* kmalloc is taken to succeed in cspace_init, which returns nothing: its  *)
(* callers could not tell.                                                 *)
(***************************************************************************)
EXTENDS Integers, FiniteSets

CONSTANTS
    Spaces,         \* the capability spaces
    CSPACE_SIZE,    \* slots of a space, 256
    Objects,        \* endpoints and notification objects
    Rights,         \* capability rights
    RightSets,      \* the sets of rights capabilities are made and minted with
    Badges,         \* badges a capability is minted with
    MaxIssued,      \* bound: different capabilities made by cap_create_*
    MaxRevokes      \* bound: the generation of a space stays at or below this

ASSUME CspaceAssumption ==
    /\ CSPACE_SIZE \in Nat
    /\ MaxIssued \in Nat /\ MaxRevokes \in Nat
    /\ RightSets \subseteq SUBSET Rights
    /\ Badges \subseteq Nat

VARIABLES
    size,           \* cs->size: 0 until cspace_init and after cspace_destroy
    slots,          \* cs->slots
    bitmap,         \* cs->bitmap: the numbers of the set bits
    used,           \* cs->used
    generation,     \* cs->generation
    issued          \* history: capabilities made by cap_create_*, with the
                    \*   space each was put in

cspaceVars == <<size, slots, bitmap, used, generation, issued>>

Slots == 0 .. CSPACE_SIZE - 1
ANY == -1           \* (u32)-1: any free slot

Types == {"ENDPOINT", "NOTIFICATION"}

\* A slot after memset; its object and badge are 0.
NoCap == [type |-> "NONE", rights |-> {}, object |-> 0, badge |-> 0,
          generation |-> 0, slot |-> 0]

Capability(type, rights, object) ==
    [NoCap EXCEPT !.type = type, !.rights = rights, !.object = object]

Occupied(c, i) == slots[c][i].type # "NONE"

CspaceInit ==
    /\ size = [c \in Spaces |-> 0]
    /\ slots = [c \in Spaces |-> [i \in Slots |-> NoCap]]
    /\ bitmap = [c \in Spaces |-> {}]
    /\ used = [c \in Spaces |-> 0]
    /\ generation = [c \in Spaces |-> 0]
    /\ issued = {}

cspace_init(c) ==
    /\ size[c] = 0
    /\ size' = [size EXCEPT ![c] = CSPACE_SIZE]
    /\ slots' = [slots EXCEPT ![c] = [i \in Slots |-> NoCap]]
    /\ bitmap' = [bitmap EXCEPT ![c] = {}]
    /\ used' = [used EXCEPT ![c] = 0]
    /\ generation' = [generation EXCEPT ![c] = 1]
    /\ UNCHANGED issued

\* The slots and the bitmap are freed; the generation stays.
cspace_destroy(c) ==
    /\ size[c] # 0
    /\ size' = [size EXCEPT ![c] = 0]
    /\ slots' = [slots EXCEPT ![c] = [i \in Slots |-> NoCap]]
    /\ bitmap' = [bitmap EXCEPT ![c] = {}]
    /\ used' = [used EXCEPT ![c] = 0]
    /\ UNCHANGED <<generation, issued>>

\* The lowest slot whose bit is clear; none when all are set.
cspace_find_free_slot(c) ==
    {i \in 0 .. size[c] - 1 : i \notin bitmap[c] /\ 0 .. i - 1 \subseteq bitmap[c]}

cspace_mark_used(c, i) ==
    /\ bitmap' = [bitmap EXCEPT ![c] = @ \cup {i}]
    /\ used' = [used EXCEPT ![c] = @ + 1]

\* Variant of cspace_mark_free: the bit stays set.
cspace_mark_free_count(c, i) ==
    /\ used' = [used EXCEPT ![c] = @ - 1]
    /\ UNCHANGED bitmap

cspace_mark_free(c, i) ==
    /\ bitmap' = [bitmap EXCEPT ![c] = @ \ {i}]
    /\ used' = [used EXCEPT ![c] = @ - 1]

\* cap is written to slot i of space c.
Store(c, i, cap) ==
    /\ slots' = [slots EXCEPT ![c][i] =
                    [cap EXCEPT !.slot = i, !.generation = generation[c]]]
    /\ cspace_mark_used(c, i)
    /\ UNCHANGED <<size, generation>>

cap_insert(c, cap) == \E i \in cspace_find_free_slot(c) : Store(c, i, cap)

\* cap_create_endpoint and cap_create_notification.
cap_create(c, type, object, rights) ==
    /\ cap_insert(c, Capability(type, rights, object))
    /\ issued' = issued \cup {[space |-> c, type |-> type, object |-> object,
                               rights |-> rights]}
    /\ Cardinality(issued') <= MaxIssued

cap_lookup(c, i) == IF i < size[c] THEN slots[c][i] ELSE NoCap

cap_check_rights(cap, required) == required \subseteq cap.rights

cap_get_endpoint(c, i) ==
    IF cap_lookup(c, i).type = "ENDPOINT" THEN {cap_lookup(c, i).object} ELSE {}

cap_delete(c, i) ==
    /\ i < size[c]
    /\ Occupied(c, i)
    /\ slots' = [slots EXCEPT ![c][i] = NoCap]
    /\ cspace_mark_free(c, i)
    /\ UNCHANGED <<size, generation, issued>>

\* Variant of Target: does not look whether the slot named is empty.
TargetAny(dst, dst_slot) ==
    IF dst_slot = ANY THEN cspace_find_free_slot(dst)
    ELSE {i \in {dst_slot} : i < size[dst]}

\* The slot a copy goes to: a free one, or the one named when it is empty.
Target(dst, dst_slot) ==
    IF dst_slot = ANY THEN cspace_find_free_slot(dst)
    ELSE {i \in {dst_slot} : i < size[dst] /\ ~Occupied(dst, i)}

cap_copy(dst, dst_slot, src, src_slot) ==
    /\ src_slot < size[src]
    /\ Occupied(src, src_slot)
    /\ "GRANT" \in slots[src][src_slot].rights
    /\ \E i \in Target(dst, dst_slot) : Store(dst, i, slots[src][src_slot])
    /\ UNCHANGED issued

\* Variant of cap_mint: takes the new rights as they are.
cap_mint_unmasked(dst, dst_slot, src, src_slot, new_rights, badge) ==
    LET cap == slots[src][src_slot]
    IN  /\ src_slot < size[src]
        /\ Occupied(src, src_slot)
        /\ "GRANT" \in cap.rights
        /\ \E i \in Target(dst, dst_slot) :
             Store(dst, i, [cap EXCEPT !.rights = new_rights, !.badge = badge])
        /\ UNCHANGED issued

cap_mint(dst, dst_slot, src, src_slot, new_rights, badge) ==
    LET cap == slots[src][src_slot]
    IN  /\ src_slot < size[src]
        /\ Occupied(src, src_slot)
        /\ "GRANT" \in cap.rights
        /\ \E i \in Target(dst, dst_slot) :
             Store(dst, i, [cap EXCEPT !.rights = cap.rights \cap new_rights,
                                       !.badge = badge])
        /\ UNCHANGED issued

cap_revoke(c, i) ==
    /\ i < size[c]
    /\ Occupied(c, i)
    /\ "REVOKE" \in slots[c][i].rights
    /\ generation[c] < MaxRevokes
    /\ generation' = [generation EXCEPT ![c] = @ + 1]
    /\ UNCHANGED <<size, slots, bitmap, used, issued>>

CspaceNext ==
    \/ \E c \in Spaces : cspace_init(c)
    \/ \E c \in Spaces : cspace_destroy(c)
    \/ \E c \in Spaces, type \in Types, object \in Objects, rights \in RightSets :
         cap_create(c, type, object, rights)
    \/ \E c \in Spaces, i \in Slots : cap_delete(c, i)
    \/ \E dst, src \in Spaces, i \in Slots \cup {ANY}, j \in Slots :
         cap_copy(dst, i, src, j)
    \/ \E dst, src \in Spaces, i \in Slots \cup {ANY}, j \in Slots,
          rights \in RightSets, badge \in Badges :
         cap_mint(dst, i, src, j, rights, badge)
    \/ \E c \in Spaces, i \in Slots : cap_revoke(c, i)

CspaceSpec == CspaceInit /\ [][CspaceNext]_cspaceVars

-----------------------------------------------------------------------------
(* What must hold.                                                         *)

CapabilityType ==
    [type : Types \cup {"NONE"}, rights : SUBSET Rights, object : Objects \cup {0},
     badge : Badges \cup {0}, generation : Nat, slot : Slots \cup {0}]

CspaceTypeOK ==
    /\ size \in [Spaces -> {0, CSPACE_SIZE}]
    /\ slots \in [Spaces -> [Slots -> CapabilityType]]
    /\ bitmap \in [Spaces -> SUBSET Slots]
    /\ used \in [Spaces -> Int]
    /\ generation \in [Spaces -> Nat]
    /\ issued \subseteq [space : Spaces, type : Types, object : Objects,
                         rights : SUBSET Rights]

\* The two records of what is in use agree: a slot's bit is set exactly when
\* the slot holds a capability, used counts them, and a capability knows the
\* slot it is in.  cap_insert goes by the bitmap and cap_copy, given a slot, by
\* the type; where they disagreed one would overwrite what the other stored.
CspaceExact ==
    \A c \in Spaces :
        /\ bitmap[c] = {i \in Slots : Occupied(c, i)}
        /\ used[c] = Cardinality(bitmap[c])
        /\ \A i \in Slots : Occupied(c, i) => slots[c][i].slot = i
        /\ size[c] = 0 => bitmap[c] = {}

\* A lookup never shows more authority than cap_create_* issued: the endpoint
\* cap_get_endpoint finds in a slot, with rights cap_check_rights accepts, was
\* issued with at least these rights, and to that very space unless the rights
\* issued included GRANT, however often it was copied and minted.
RightsDerived ==
    \A c \in Spaces, i \in Slots : \A object \in cap_get_endpoint(c, i) :
        \E g \in issued :
            /\ g.type = "ENDPOINT" /\ g.object = object
            /\ \A required \in SUBSET Rights :
                 cap_check_rights(cap_lookup(c, i), required) => required \subseteq g.rights
            /\ g.space = c \/ "GRANT" \in g.rights

\* A capability stays in its slot as it is, in every step but the cap_delete of
\* that very slot and the cspace_destroy of that space: no insert, copy or mint
\* replaces one, and nothing done to another slot or space reaches it.  That
\* goes for cap_revoke too, whose comment says "invalidate derived caps": what
\* was derived stays where it is, with all its rights.
CapabilitiesKept ==
    [][\A c \in Spaces, i \in Slots :
          Occupied(c, i) => \/ slots'[c][i] = slots[c][i]
                            \/ cap_delete(c, i)
                            \/ cspace_destroy(c)]_cspaceVars
=============================================================================
