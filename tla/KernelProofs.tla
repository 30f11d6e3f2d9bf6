---------------------------- MODULE KernelProofs ----------------------------
(***************************************************************************)
(* Proofs about capability spaces, locks and the bitmap of page frames,    *)
(* for any number of spaces and slots, processors and tickets, bits and    *)
(* words.                                                                  *)
(*                                                                         *)
(* Capability spaces: the inductive invariant CspaceInv adds to the        *)
(* agreement of bitmap and slots (CspaceExact) where the capability in a   *)
(* slot comes from (Derived): one that was issued, with at least its       *)
(* rights, to the same space or with GRANT. A copy needs GRANT in the slot *)
(* it copies, so what it derives from was issued with GRANT, which is why  *)
(* the second half holds in any space the copy goes to.                    *)
(*                                                                         *)
(* Locks: TicketInv measures tickets by their distance from now_serving,   *)
(* modulo 2^TicketBits. The distances of the holder and the waiters are    *)
(* exactly 0 .. n-1 for n CPUs; a ticket that spin_trylock still has to    *)
(* exchange lies at or before now_serving.                                 *)
(*                                                                         *)
(* Bitmap: BitmapInv says that the ranges handed out are set in the bitmap *)
(* and lie apart. That a search finds what there is to be found needs the  *)
(* two scans (by word and bit, and by runs of clear bits) to return the    *)
(* least element of a set of numbers.                                      *)
(***************************************************************************)
EXTENDS Cspace, Locks, Bitmap, FiniteSetTheorems, WellFoundedInduction, TLAPS

From(g, c, cap) ==
    /\ g.type = cap.type /\ g.object = cap.object
    /\ cap.rights \subseteq g.rights
    /\ g.space = c \/ "GRANT" \in g.rights

Derived ==
    \A c \in Spaces, i \in Slots :
        Occupied(c, i) => \E g \in issued : From(g, c, slots[c][i])

CspaceInv == CspaceTypeOK /\ CspaceExact /\ Derived

\* An empty slot is of the type of a slot.
LEMMA NoCapType ==
    NoCap \in CapabilityType /\ NoCap.type = "NONE"
BY CspaceAssumption DEF NoCap, CapabilityType, Types

\* The slots of a space are a finite set.
LEMMA SlotsFinite ==
    IsFiniteSet(Slots)
BY CspaceAssumption, FS_Interval DEF Slots

\* The free slot found is a slot whose bit is clear.
LEMMA FreeSlot ==
    ASSUME CspaceTypeOK, NEW c \in Spaces, NEW i \in cspace_find_free_slot(c)
    PROVE  i \in Slots /\ i \notin bitmap[c] /\ size[c] # 0
BY CspaceAssumption DEF CspaceTypeOK, cspace_find_free_slot, Slots

\* So is the slot a copy goes to, given that bitmap and slots agree.
LEMMA TargetSlot ==
    ASSUME CspaceTypeOK, CspaceExact, NEW c \in Spaces, NEW d \in Slots \cup {ANY},
           NEW i \in Target(c, d)
    PROVE  i \in Slots /\ i \notin bitmap[c] /\ size[c] # 0
<1>1. CASE d = ANY
  BY <1>1, FreeSlot DEF Target
<1>2. CASE d # ANY
  <2>1. i = d /\ i < size[c] /\ ~Occupied(c, i) /\ i \in Slots
    BY <1>2 DEF Target
  <2>2. i \notin bitmap[c]
    BY <2>1 DEF CspaceExact
  <2> QED BY <2>1, <2>2, CspaceAssumption DEF CspaceTypeOK, Slots
<1> QED BY <1>1, <1>2

\* Storing a capability in a slot whose bit is clear keeps types and agreement,
\* and changes no other slot.
LEMMA StoreKeeps ==
    ASSUME CspaceTypeOK, CspaceExact, NEW c \in Spaces, NEW i \in Slots,
           i \notin bitmap[c], size[c] # 0,
           NEW cap \in CapabilityType, cap.type # "NONE",
           Store(c, i, cap)
    PROVE  /\ slots' \in [Spaces -> [Slots -> CapabilityType]]
           /\ bitmap' \in [Spaces -> SUBSET Slots]
           /\ used' \in [Spaces -> Int]
           /\ UNCHANGED <<size, generation>>
           /\ CspaceExact'
           /\ \A d \in Spaces, j \in Slots : (d # c \/ j # i) => slots'[d][j] = slots[d][j]
           /\ slots'[c][i].type = cap.type /\ slots'[c][i].object = cap.object
           /\ slots'[c][i].rights = cap.rights
<1> DEFINE new == [cap EXCEPT !.slot = i, !.generation = generation[c]]
<1>1. /\ new \in CapabilityType /\ new.type = cap.type /\ new.object = cap.object
      /\ new.rights = cap.rights /\ new.slot = i
  BY DEF CapabilityType, CspaceTypeOK
<1> HIDE DEF new
<1>2. /\ slots' = [slots EXCEPT ![c][i] = new]
      /\ bitmap' = [bitmap EXCEPT ![c] = @ \cup {i}]
      /\ used' = [used EXCEPT ![c] = @ + 1]
      /\ UNCHANGED <<size, generation>>
  BY DEF Store, cspace_mark_used, new
<1>3. /\ slots' \in [Spaces -> [Slots -> CapabilityType]]
      /\ slots'[c][i] = new
      /\ \A d \in Spaces, j \in Slots : (d # c \/ j # i) => slots'[d][j] = slots[d][j]
  BY <1>1, <1>2 DEF CspaceTypeOK
<1>4. /\ bitmap' \in [Spaces -> SUBSET Slots]
      /\ bitmap'[c] = bitmap[c] \cup {i}
      /\ \A d \in Spaces : d # c => bitmap'[d] = bitmap[d]
  BY <1>2 DEF CspaceTypeOK
<1>5. /\ used' \in [Spaces -> Int]
      /\ used'[c] = used[c] + 1
      /\ \A d \in Spaces : d # c => used'[d] = used[d]
  BY <1>2 DEF CspaceTypeOK
<1>6. Cardinality(bitmap'[c]) = Cardinality(bitmap[c]) + 1
  BY <1>4, SlotsFinite, FS_Subset, FS_AddElement DEF CspaceTypeOK
<1>7. ASSUME NEW d \in Spaces
      PROVE  /\ bitmap'[d] = {j \in Slots : Occupied(d, j)'}
             /\ used'[d] = Cardinality(bitmap'[d])
             /\ \A j \in Slots : Occupied(d, j)' => slots'[d][j].slot = j
             /\ size'[d] = 0 => bitmap'[d] = {}
  <2>1. CASE d # c
    BY <2>1, <1>2, <1>3, <1>4, <1>5 DEF CspaceExact, Occupied
  <2>2. CASE d = c
    BY <2>2, <1>1, <1>2, <1>3, <1>4, <1>5, <1>6 DEF CspaceExact, Occupied
  <2> QED BY <2>1, <2>2
<1>8. CspaceExact'
  BY <1>7 DEF CspaceExact
<1> QED BY <1>1, <1>2, <1>3, <1>4, <1>5, <1>8

\* Storing a capability that derives from an issued one keeps Derived.
LEMMA StoreDerived ==
    ASSUME Derived, NEW c \in Spaces, NEW i \in Slots, NEW cap, NEW g \in issued',
           From(g, c, cap), issued \subseteq issued',
           \A d \in Spaces, j \in Slots : (d # c \/ j # i) => slots'[d][j] = slots[d][j],
           slots'[c][i].type = cap.type, slots'[c][i].object = cap.object,
           slots'[c][i].rights = cap.rights
    PROVE  Derived'
<1> SUFFICES ASSUME NEW d \in Spaces, NEW j \in Slots, Occupied(d, j)'
             PROVE  \E h \in issued' : From(h, d, slots'[d][j])
  BY DEF Derived
<1>1. CASE d = c /\ j = i
  BY <1>1 DEF From
<1>2. CASE d # c \/ j # i
  <2>1. slots'[d][j] = slots[d][j] /\ Occupied(d, j)
    BY <1>2 DEF Occupied
  <2> QED BY <2>1 DEF Derived
<1> QED BY <1>1, <1>2

\* The spaces start with nothing in them.
LEMMA InitInv ==
    CspaceInit => CspaceInv
<1> SUFFICES ASSUME CspaceInit PROVE CspaceInv
  OBVIOUS
<1>1. CspaceTypeOK
  BY NoCapType DEF CspaceInit, CspaceTypeOK
<1>2. \A c \in Spaces, i \in Slots : ~Occupied(c, i)
  BY NoCapType DEF CspaceInit, Occupied
<1>3. CspaceExact
  BY <1>2, FS_EmptySet DEF CspaceInit, CspaceExact
<1>4. Derived
  BY <1>2 DEF Derived
<1> QED BY <1>1, <1>3, <1>4 DEF CspaceInv

\* Emptying a whole space keeps the invariant: cspace_init, cspace_destroy.
LEMMA ClearInv ==
    ASSUME CspaceInv, NEW c \in Spaces,
           slots' = [slots EXCEPT ![c] = [i \in Slots |-> NoCap]],
           bitmap' = [bitmap EXCEPT ![c] = {}],
           used' = [used EXCEPT ![c] = 0],
           size' \in [Spaces -> {0, CSPACE_SIZE}],
           \A d \in Spaces : d # c => size'[d] = size[d],
           generation' \in [Spaces -> Nat],
           issued' = issued
    PROVE  CspaceInv'
<1> USE DEF CspaceInv
<1>1. CspaceTypeOK'
  <2>1. [i \in Slots |-> NoCap] \in [Slots -> CapabilityType]
    BY NoCapType
  <2>2. slots' \in [Spaces -> [Slots -> CapabilityType]]
    BY <2>1 DEF CspaceTypeOK
  <2>3. bitmap' \in [Spaces -> SUBSET Slots] /\ used' \in [Spaces -> Int]
    BY DEF CspaceTypeOK
  <2> QED BY <2>2, <2>3 DEF CspaceTypeOK
<1>2. /\ \A i \in Slots : ~Occupied(c, i)'
      /\ \A d \in Spaces, i \in Slots : d # c => slots'[d][i] = slots[d][i]
  BY NoCapType DEF Occupied, CspaceTypeOK
<1>3. ASSUME NEW d \in Spaces
      PROVE  /\ bitmap'[d] = {i \in Slots : Occupied(d, i)'}
             /\ used'[d] = Cardinality(bitmap'[d])
             /\ \A i \in Slots : Occupied(d, i)' => slots'[d][i].slot = i
             /\ size'[d] = 0 => bitmap'[d] = {}
  <2>1. CASE d = c
    <3>1. bitmap'[c] = {} /\ used'[c] = 0
      BY DEF CspaceTypeOK
    <3> QED BY <2>1, <3>1, <1>2, FS_EmptySet
  <2>2. CASE d # c
    <3>1. bitmap'[d] = bitmap[d] /\ used'[d] = used[d] /\ size'[d] = size[d]
      BY <2>2 DEF CspaceTypeOK
    <3> QED BY <2>2, <3>1, <1>2 DEF CspaceExact, Occupied
  <2> QED BY <2>1, <2>2
<1>4. CspaceExact'
  BY <1>3 DEF CspaceExact
<1>5. Derived'
  BY <1>2 DEF Derived, Occupied
<1> QED BY <1>1, <1>4, <1>5

\* cap_create stores one capability, the one that is issued.
LEMMA CreateInv ==
    ASSUME CspaceInv, NEW c \in Spaces, NEW type \in Types, NEW object \in Objects,
           NEW rights \in RightSets, cap_create(c, type, object, rights)
    PROVE  CspaceInv'
<1> USE DEF CspaceInv
<1> DEFINE cap == Capability(type, rights, object)
           g == [space |-> c, type |-> type, object |-> object, rights |-> rights]
<1>1. /\ cap \in CapabilityType /\ cap.type = type /\ cap.object = object
      /\ cap.rights = rights /\ cap.type # "NONE"
  BY CspaceAssumption DEF Capability, NoCap, CapabilityType, Types
<1>2. issued' = issued \cup {g} /\ rights \in SUBSET Rights
  BY CspaceAssumption DEF cap_create
<1>3. PICK i \in cspace_find_free_slot(c) : Store(c, i, cap)
  BY DEF cap_create, cap_insert
<1>4. g \in issued' /\ From(g, c, cap)
  BY <1>1, <1>2 DEF From
<1>5. issued' \subseteq [space : Spaces, type : Types, object : Objects, rights : SUBSET Rights]
  BY <1>2 DEF CspaceTypeOK
<1> HIDE DEF cap, g
<1>6. i \in Slots /\ i \notin bitmap[c] /\ size[c] # 0
  BY FreeSlot
<1>7. /\ slots' \in [Spaces -> [Slots -> CapabilityType]]
      /\ bitmap' \in [Spaces -> SUBSET Slots] /\ used' \in [Spaces -> Int]
      /\ UNCHANGED <<size, generation>> /\ CspaceExact'
      /\ \A d \in Spaces, j \in Slots : (d # c \/ j # i) => slots'[d][j] = slots[d][j]
      /\ slots'[c][i].type = cap.type /\ slots'[c][i].object = cap.object
      /\ slots'[c][i].rights = cap.rights
  BY <1>1, <1>3, <1>6, StoreKeeps
<1>8. Derived'
  BY <1>2, <1>4, <1>6, <1>7, StoreDerived
<1>9. CspaceTypeOK'
  BY <1>5, <1>7 DEF CspaceTypeOK
<1> QED BY <1>7, <1>8, <1>9

\* What a copy and a mint have in common: cap has the type and object of the
\* source slot and no right the source slot does not have.
LEMMA DeriveInv ==
    ASSUME CspaceInv, NEW dst \in Spaces, NEW src \in Spaces, NEW j \in Slots,
           NEW d \in Slots \cup {ANY}, NEW i \in Target(dst, d),
           Occupied(src, j), "GRANT" \in slots[src][j].rights,
           NEW cap \in CapabilityType, cap.type = slots[src][j].type,
           cap.object = slots[src][j].object, cap.rights \subseteq slots[src][j].rights,
           Store(dst, i, cap), UNCHANGED issued
    PROVE  CspaceInv'
<1> USE DEF CspaceInv
<1>1. i \in Slots /\ i \notin bitmap[dst] /\ size[dst] # 0
  BY TargetSlot
<1>2. cap.type # "NONE"
  BY DEF Occupied
<1>3. /\ slots' \in [Spaces -> [Slots -> CapabilityType]]
      /\ bitmap' \in [Spaces -> SUBSET Slots] /\ used' \in [Spaces -> Int]
      /\ UNCHANGED <<size, generation>> /\ CspaceExact'
      /\ \A e \in Spaces, k \in Slots : (e # dst \/ k # i) => slots'[e][k] = slots[e][k]
      /\ slots'[dst][i].type = cap.type /\ slots'[dst][i].object = cap.object
      /\ slots'[dst][i].rights = cap.rights
  BY <1>1, <1>2, StoreKeeps
<1>4. PICK g \in issued : From(g, src, slots[src][j])
  BY DEF Derived
<1>5. g \in issued' /\ From(g, dst, cap) /\ issued \subseteq issued'
  BY <1>4 DEF From
<1>6. Derived'
  BY <1>1, <1>3, <1>5, StoreDerived
<1>7. CspaceTypeOK'
  BY <1>3 DEF CspaceTypeOK
<1> QED BY <1>3, <1>6, <1>7

\* Every operation of the module keeps the invariant.
LEMMA NextInv ==
    CspaceInv /\ [CspaceNext]_cspaceVars => CspaceInv'
<1> SUFFICES ASSUME CspaceInv, [CspaceNext]_cspaceVars PROVE CspaceInv'
  OBVIOUS
<1> USE DEF CspaceInv
<1>1. ASSUME NEW c \in Spaces, cspace_init(c) \/ cspace_destroy(c) PROVE CspaceInv'
  <2>1. /\ slots' = [slots EXCEPT ![c] = [i \in Slots |-> NoCap]]
        /\ bitmap' = [bitmap EXCEPT ![c] = {}]
        /\ used' = [used EXCEPT ![c] = 0]
        /\ issued' = issued
    BY <1>1 DEF cspace_init, cspace_destroy
  <2>2. /\ size' \in [Spaces -> {0, CSPACE_SIZE}]
        /\ \A d \in Spaces : d # c => size'[d] = size[d]
        /\ generation' \in [Spaces -> Nat]
    <3>1. size \in [Spaces -> {0, CSPACE_SIZE}] /\ generation \in [Spaces -> Nat]
      BY DEF CspaceTypeOK
    <3>2. CASE cspace_init(c)
      <4>1. size' = [size EXCEPT ![c] = CSPACE_SIZE] /\ generation' = [generation EXCEPT ![c] = 1]
        BY <3>2 DEF cspace_init
      <4> QED BY <3>1, <4>1
    <3>3. CASE cspace_destroy(c)
      <4>1. size' = [size EXCEPT ![c] = 0] /\ generation' = generation
        BY <3>3 DEF cspace_destroy
      <4> QED BY <3>1, <4>1
    <3> QED BY <1>1, <3>2, <3>3
  <2> QED BY <2>1, <2>2, ClearInv
<1>2. ASSUME NEW c \in Spaces, NEW type \in Types, NEW object \in Objects,
             NEW rights \in RightSets, cap_create(c, type, object, rights)
      PROVE  CspaceInv'
  BY <1>2, CreateInv
<1>3. ASSUME NEW c \in Spaces, NEW i \in Slots, cap_delete(c, i) PROVE CspaceInv'
  <2>1. /\ slots' = [slots EXCEPT ![c][i] = NoCap]
        /\ bitmap' = [bitmap EXCEPT ![c] = @ \ {i}]
        /\ used' = [used EXCEPT ![c] = @ - 1]
        /\ UNCHANGED <<size, generation, issued>>
        /\ i \in bitmap[c] /\ size[c] # 0
    <3>1. i \in bitmap[c]
      BY <1>3 DEF cap_delete, CspaceExact
    <3> QED BY <1>3, <3>1 DEF cap_delete, cspace_mark_free, CspaceExact
  <2>2. /\ slots' \in [Spaces -> [Slots -> CapabilityType]]
        /\ slots'[c][i] = NoCap
        /\ \A d \in Spaces, j \in Slots : (d # c \/ j # i) => slots'[d][j] = slots[d][j]
    BY <2>1, NoCapType DEF CspaceTypeOK
  <2>3. /\ bitmap' \in [Spaces -> SUBSET Slots] /\ bitmap'[c] = bitmap[c] \ {i}
        /\ \A d \in Spaces : d # c => bitmap'[d] = bitmap[d]
    BY <2>1 DEF CspaceTypeOK
  <2>4. /\ used' \in [Spaces -> Int] /\ used'[c] = used[c] - 1
        /\ \A d \in Spaces : d # c => used'[d] = used[d]
    BY <2>1 DEF CspaceTypeOK
  <2>5. CspaceTypeOK'
    BY <2>1, <2>2, <2>3, <2>4 DEF CspaceTypeOK
  <2>6. Cardinality(bitmap'[c]) = Cardinality(bitmap[c]) - 1
    <3>1. IsFiniteSet(bitmap[c])
      BY SlotsFinite, FS_Subset DEF CspaceTypeOK
    <3> QED BY <2>1, <2>3, <3>1, FS_RemoveElement
  <2>7. ~Occupied(c, i)'
    BY <2>2, NoCapType DEF Occupied
  <2>8. ASSUME NEW d \in Spaces
        PROVE  /\ bitmap'[d] = {j \in Slots : Occupied(d, j)'}
               /\ used'[d] = Cardinality(bitmap'[d])
               /\ \A j \in Slots : Occupied(d, j)' => slots'[d][j].slot = j
               /\ size'[d] = 0 => bitmap'[d] = {}
    <3>1. CASE d # c
      BY <3>1, <2>1, <2>2, <2>3, <2>4 DEF CspaceExact, Occupied
    <3>2. CASE d = c
      <4>1. \A j \in Slots : j # i => (Occupied(c, j)' <=> Occupied(c, j))
        BY <2>2 DEF Occupied
      <4>2. bitmap'[c] = {j \in Slots : Occupied(c, j)'}
        BY <4>1, <2>3, <2>7 DEF CspaceExact
      <4>3. \A j \in Slots : Occupied(c, j)' => slots'[c][j].slot = j
        BY <4>1, <2>2, <2>7 DEF CspaceExact
      <4>4. used'[c] = Cardinality(bitmap'[c])
        BY <2>4, <2>6 DEF CspaceExact
      <4> QED BY <3>2, <4>2, <4>3, <4>4, <2>1
    <3> QED BY <3>1, <3>2
  <2>9. Derived'
    BY <2>1, <2>2, <2>7 DEF Derived, Occupied
  <2> QED BY <2>5, <2>8, <2>9 DEF CspaceExact
<1>4. ASSUME NEW dst \in Spaces, NEW src \in Spaces, NEW d \in Slots \cup {ANY},
             NEW j \in Slots, cap_copy(dst, d, src, j)
      PROVE  CspaceInv'
  <2>1. PICK i \in Target(dst, d) : Store(dst, i, slots[src][j])
    BY <1>4 DEF cap_copy
  <2>2. slots[src][j] \in CapabilityType
    BY DEF CspaceTypeOK
  <2> QED BY <1>4, <2>1, <2>2, DeriveInv DEF cap_copy
<1>5. ASSUME NEW dst \in Spaces, NEW src \in Spaces, NEW d \in Slots \cup {ANY},
             NEW j \in Slots, NEW rights \in RightSets, NEW badge \in Badges,
             cap_mint(dst, d, src, j, rights, badge)
      PROVE  CspaceInv'
  <2> DEFINE old == slots[src][j]
             cap == [old EXCEPT !.rights = old.rights \cap rights, !.badge = badge]
  <2>1. PICK i \in Target(dst, d) : Store(dst, i, cap)
    BY <1>5 DEF cap_mint
  <2>2. /\ cap \in CapabilityType /\ cap.type = old.type /\ cap.object = old.object
        /\ cap.rights \subseteq old.rights
    <3>1. old \in CapabilityType
      BY DEF CspaceTypeOK
    <3> HIDE DEF old
    <3> QED BY <3>1 DEF CapabilityType
  <2>3. Occupied(src, j) /\ "GRANT" \in old.rights /\ UNCHANGED issued
    BY <1>5 DEF cap_mint
  <2> HIDE DEF cap
  <2> QED BY <2>1, <2>2, <2>3, DeriveInv
<1>6. ASSUME NEW c \in Spaces, NEW i \in Slots, cap_revoke(c, i) PROVE CspaceInv'
  <2>1. UNCHANGED <<size, slots, bitmap, used, issued>> /\ generation' \in [Spaces -> Nat]
    BY <1>6 DEF cap_revoke, CspaceTypeOK
  <2>2. CspaceTypeOK'
    BY <2>1 DEF CspaceTypeOK
  <2>3. CspaceExact' /\ Derived'
    BY <2>1 DEF CspaceExact, Derived, Occupied
  <2> QED BY <2>2, <2>3
<1>7. ASSUME UNCHANGED cspaceVars PROVE CspaceInv'
  BY <1>7 DEF cspaceVars, CspaceTypeOK, CspaceExact, Derived, Occupied
<1> QED BY <1>1, <1>2, <1>3, <1>4, <1>5, <1>6, <1>7 DEF CspaceNext

\* The invariant holds in every state of every behaviour.
THEOREM Invariance ==
    CspaceSpec => []CspaceInv
BY InitInv, NextInv, PTL DEF CspaceSpec

\* Bitmap, count and slots of a capability space agree in every state
\* (cspace_mark_used, cspace_mark_free), whatever the sizes.
THEOREM SlotsAgree ==
    CspaceSpec => []CspaceExact
<1>1. CspaceInv => CspaceExact
  BY DEF CspaceInv
<1> QED BY <1>1, Invariance, PTL

\* No sequence of copies and mints (cap_copy, cap_mint) shows a lookup an
\* endpoint with rights it was not issued with.
THEOREM AuthorityNeverGrows ==
    CspaceSpec => []RightsDerived
<1>1. CspaceInv => RightsDerived
  <2> SUFFICES ASSUME CspaceInv, NEW c \in Spaces, NEW i \in Slots,
                      NEW object \in cap_get_endpoint(c, i)
               PROVE  \E g \in issued :
                         /\ g.type = "ENDPOINT" /\ g.object = object
                         /\ \A required \in SUBSET Rights :
                              cap_check_rights(cap_lookup(c, i), required)
                                  => required \subseteq g.rights
                         /\ g.space = c \/ "GRANT" \in g.rights
    BY DEF RightsDerived
  <2>1. /\ cap_lookup(c, i).type = "ENDPOINT" /\ object = cap_lookup(c, i).object
        /\ cap_lookup(c, i) = slots[c][i]
    BY NoCapType DEF cap_get_endpoint, cap_lookup
  <2>2. Occupied(c, i)
    BY <2>1 DEF Occupied
  <2>3. PICK g \in issued : From(g, c, slots[c][i])
    BY <2>2 DEF CspaceInv, Derived
  <2> QED BY <2>1, <2>3 DEF From, cap_check_rights
<1> QED BY <1>1, Invariance, PTL

\* Nothing but the cap_delete of a slot and the cspace_destroy of its space takes
\* the capability out of it or changes it: a search by bitmap never returns a
\* slot that holds one, and cap_revoke leaves all of them alone.
THEOREM CapabilitiesStay ==
    CspaceSpec => CapabilitiesKept
<1> DEFINE Kept == \A c \in Spaces, i \in Slots :
                      Occupied(c, i) => \/ slots'[c][i] = slots[c][i]
                                        \/ cap_delete(c, i)
                                        \/ cspace_destroy(c)
<1>1. CspaceInv /\ [CspaceNext]_cspaceVars => [Kept]_cspaceVars
  <2> SUFFICES ASSUME CspaceInv, CspaceNext,
                      NEW c \in Spaces, NEW i \in Slots, Occupied(c, i)
               PROVE  slots'[c][i] = slots[c][i] \/ cap_delete(c, i) \/ cspace_destroy(c)
    OBVIOUS
  <2> USE DEF CspaceInv
  <2>1. i \in bitmap[c]
    BY DEF CspaceExact
  <2>2. ASSUME NEW d \in Spaces, NEW j \in Slots, j \notin bitmap[d], NEW cap, Store(d, j, cap)
        PROVE  slots'[c][i] = slots[c][i]
    BY <2>1, <2>2 DEF Store, CspaceTypeOK
  <2>3. ASSUME NEW d \in Spaces, cspace_init(d) \/ cspace_destroy(d)
        PROVE  slots'[c][i] = slots[c][i] \/ cspace_destroy(c)
    <3>1. slots' = [slots EXCEPT ![d] = [k \in Slots |-> NoCap]]
      BY <2>3 DEF cspace_init, cspace_destroy
    <3>2. CASE d # c
      BY <3>1, <3>2 DEF CspaceTypeOK
    <3>3. CASE d = c
      <4>1. size[c] # 0
        BY <2>1 DEF CspaceExact
      <4> QED BY <2>3, <3>3, <4>1 DEF cspace_init
    <3> QED BY <3>2, <3>3
  <2>4. ASSUME NEW d \in Spaces, NEW type \in Types, NEW object \in Objects,
               NEW rights \in RightSets, cap_create(d, type, object, rights)
        PROVE  slots'[c][i] = slots[c][i]
    <3>1. PICK j \in cspace_find_free_slot(d) : Store(d, j, Capability(type, rights, object))
      BY <2>4 DEF cap_create, cap_insert
    <3> QED BY <3>1, <2>2, FreeSlot
  <2>5. ASSUME NEW d \in Spaces, NEW j \in Slots, cap_delete(d, j)
        PROVE  slots'[c][i] = slots[c][i] \/ cap_delete(c, i)
    <3>1. CASE d = c /\ j = i
      BY <2>5, <3>1
    <3>2. CASE ~(d = c /\ j = i)
      BY <2>5, <3>2 DEF cap_delete, CspaceTypeOK
    <3> QED BY <3>1, <3>2
  <2>6. ASSUME NEW dst \in Spaces, NEW src \in Spaces, NEW d \in Slots \cup {ANY},
               NEW j \in Slots, cap_copy(dst, d, src, j)
        PROVE  slots'[c][i] = slots[c][i]
    <3>1. PICK k \in Target(dst, d) : Store(dst, k, slots[src][j])
      BY <2>6 DEF cap_copy
    <3> QED BY <3>1, <2>2, TargetSlot
  <2>7. ASSUME NEW dst \in Spaces, NEW src \in Spaces, NEW d \in Slots \cup {ANY},
               NEW j \in Slots, NEW rights \in RightSets, NEW badge \in Badges,
               cap_mint(dst, d, src, j, rights, badge)
        PROVE  slots'[c][i] = slots[c][i]
    <3>1. PICK k \in Target(dst, d) :
             Store(dst, k, [slots[src][j] EXCEPT
                              !.rights = slots[src][j].rights \cap rights, !.badge = badge])
      BY <2>7 DEF cap_mint
    <3> QED BY <3>1, <2>2, TargetSlot
  <2>8. ASSUME NEW d \in Spaces, NEW j \in Slots, cap_revoke(d, j)
        PROVE  slots'[c][i] = slots[c][i]
    BY <2>8 DEF cap_revoke
  <2> QED BY <2>3, <2>4, <2>5, <2>6, <2>7, <2>8 DEF CspaceNext
<1>2. CapabilitiesKept <=> [][Kept]_cspaceVars
  BY DEF CapabilitiesKept
<1> QED BY <1>1, <1>2, Invariance, PTL DEF CspaceSpec

-----------------------------------------------------------------------------
(* Locks. *)

Places == {"idle", "spin", "locked", "try", "swap", "read", "reading", "write", "writing"}
Numbers == 0 .. Tickets - 1
Ahead(a, b) == (a - b) % Tickets
Holding == At("locked") \cup At("spin")
Outstanding == Ahead(next_ticket, now_serving)

LocksTypeOK ==
    /\ next_ticket \in Numbers
    /\ now_serving \in Numbers
    /\ count \in Int
    /\ lock_pc \in [CPUs -> Places]
    /\ lock_tmp \in [CPUs -> Int]
    /\ \A c \in CPUs : lock_pc[c] \in {"spin", "locked", "try", "swap"}
                          => lock_tmp[c] \in Numbers
    /\ \A c \in CPUs : lock_pc[c] = "read" => lock_tmp[c] \in Nat

\* The holder and the waiters have the tickets from now_serving on, each its
\* own; a ticket that spin_trylock is about to exchange is not past now_serving.
TicketInv ==
    /\ Outstanding = Cardinality(Holding)
    /\ \A c \in Holding : Ahead(lock_tmp[c], now_serving) < Outstanding
    /\ \A c, d \in Holding : lock_tmp[c] = lock_tmp[d] => c = d
    /\ \A i \in 0 .. Outstanding - 1 :
          \E c \in Holding : Ahead(lock_tmp[c], now_serving) = i
    /\ \A c \in At("locked") : lock_tmp[c] = now_serving
    /\ \A c \in At("swap") :
          Ahead(now_serving, lock_tmp[c]) + Outstanding = Ahead(next_ticket, lock_tmp[c])

ReadersInv ==
    \/ At("writing") = {} /\ count = Cardinality(At("reading"))
    \/ At("reading") = {} /\ count = -1 /\ \E c \in CPUs : At("writing") = {c}

LocksInv == LocksTypeOK /\ TicketInv /\ ReadersInv

\* The remainder of a difference of two tickets.
LEMMA Distance ==
    ASSUME NEW M \in Nat, M > 0, NEW a \in 0 .. M - 1, NEW b \in 0 .. M - 1
    PROVE  (a - b) % M = IF a >= b THEN a - b ELSE a - b + M
  OBVIOUS

\* A ticket counter is incremented, or wraps to zero.
LEMMA Successor ==
    ASSUME NEW M \in Nat, M > 0, NEW a \in 0 .. M - 1
    PROVE  (a + 1) % M = IF a + 1 = M THEN 0 ELSE a + 1
  OBVIOUS

\* How the distances between tickets change when one is issued or called.
LEMMA TicketArithmetic ==
    ASSUME NEW x \in Numbers
    PROVE  /\ Inc(x) = IF x + 1 = Tickets THEN 0 ELSE x + 1
           /\ Inc(x) \in Numbers
           /\ \A y \in Numbers :
                 /\ Ahead(x, y) = IF x >= y THEN x - y ELSE x - y + Tickets
                 /\ Ahead(x, y) \in Numbers
<1> DEFINE M == Tickets
<1>1. M \in Nat /\ M > 0
  BY TicketsSuffice DEF Numbers
<1>2. x \in 0 .. M - 1
  BY DEF Numbers
<1>3. (x + 1) % M = IF x + 1 = M THEN 0 ELSE x + 1
  <2> HIDE DEF M
  <2> QED BY <1>1, <1>2, Successor
<1>4. ASSUME NEW y \in 0 .. M - 1
      PROVE  (x - y) % M = IF x >= y THEN x - y ELSE x - y + M
  <2> HIDE DEF M
  <2> QED BY <1>1, <1>2, <1>4, Distance
<1> QED
  BY <1>1, <1>2, <1>3, <1>4 DEF Inc, Ahead, Numbers

\* Distances of tickets are tickets, and tell tickets apart.
LEMMA PureAhead ==
    ASSUME NEW M \in Nat, M > 0, NEW x \in 0 .. M - 1, NEW y \in 0 .. M - 1,
           NEW sx, sx = (IF x + 1 = M THEN 0 ELSE x + 1),
           NEW sy, sy = (IF y + 1 = M THEN 0 ELSE y + 1),
           NEW d, d = (IF x >= y THEN x - y ELSE x - y + M)
    PROVE  /\ sx # y <=> d + 1 < M
           /\ sx # y => (IF sx >= y THEN sx - y ELSE sx - y + M) = d + 1
           /\ x # y => (IF x >= sy THEN x - sy ELSE x - sy + M) = d - 1
           /\ x = y <=> d = 0
  OBVIOUS

\* The same facts about Ahead and Inc.
LEMMA AheadMoves ==
    ASSUME NEW x \in Numbers, NEW y \in Numbers
    PROVE  /\ Inc(x) # y <=> Ahead(x, y) + 1 < Tickets
           /\ Inc(x) # y => Ahead(Inc(x), y) = Ahead(x, y) + 1
           /\ x # y => Ahead(x, Inc(y)) = Ahead(x, y) - 1
           /\ x = y <=> Ahead(x, y) = 0
           /\ Ahead(x, y) \in Nat /\ Ahead(x, y) < Tickets /\ Inc(x) \in Numbers
<1> DEFINE M == Tickets  sx == Inc(x)  sy == Inc(y)  d == Ahead(x, y)
<1>1. M \in Nat /\ M > 0 /\ x \in 0 .. M - 1 /\ y \in 0 .. M - 1
  BY TicketsSuffice DEF Numbers
<1>2. /\ sx = (IF x + 1 = M THEN 0 ELSE x + 1) /\ sx \in Numbers
      /\ sy = (IF y + 1 = M THEN 0 ELSE y + 1) /\ sy \in Numbers
      /\ d = (IF x >= y THEN x - y ELSE x - y + M) /\ d \in Nat /\ d < M
  <2>1. \A n \in Numbers : n \in Nat /\ n < M
    BY TicketsSuffice DEF Numbers
  <2> QED BY <2>1, TicketArithmetic
<1>3. /\ Ahead(sx, y) = (IF sx >= y THEN sx - y ELSE sx - y + M)
      /\ Ahead(x, sy) = (IF x >= sy THEN x - sy ELSE x - sy + M)
  <2> HIDE DEF sx, sy
  <2> QED BY <1>2, TicketArithmetic
<1>4. /\ sx # y <=> d + 1 < M
      /\ sx # y => (IF sx >= y THEN sx - y ELSE sx - y + M) = d + 1
      /\ x # y => (IF x >= sy THEN x - sy ELSE x - sy + M) = d - 1
      /\ x = y <=> d = 0
  <2> HIDE DEF M, sx, sy, d
  <2> QED BY <1>1, <1>2, PureAhead
<1> QED
  BY <1>2, <1>3, <1>4

\* A step of one CPU moves that CPU from one place to another and no other CPU.
LEMMA PlacesMove ==
    ASSUME lock_pc \in [CPUs -> Places], NEW c \in CPUs, NEW from, NEW to,
           from # to, Goto(c, from, to), NEW w
    PROVE  /\ c \in At(from)
           /\ w = from => At(w)' = At(w) \ {c}
           /\ w = to => At(w)' = At(w) \cup {c}
           /\ w \notin {from, to} => At(w)' = At(w)
  BY DEF Goto, At

\* The CPUs at a place are a finite set, and one more or fewer is counted.
LEMMA FiniteAt ==
    ASSUME NEW w
    PROVE  /\ IsFiniteSet(At(w))
           /\ Cardinality(At(w)) \in Nat
<1>1. At(w) \in SUBSET CPUs
  BY DEF At
<1> QED
  BY <1>1, TicketsSuffice, FS_Subset, FS_CardinalityType

\* The CPUs with a ticket are no more than there are CPUs.
LEMMA FiniteHolding ==
    IsFiniteSet(Holding) /\ Cardinality(Holding) \in Nat
<1>1. Holding \in SUBSET CPUs
  BY DEF Holding, At
<1> QED
  BY <1>1, TicketsSuffice, FS_Subset, FS_CardinalityType

\* A step that issues no ticket and calls none.
LEMMA TicketsKept ==
    ASSUME LocksTypeOK, TicketInv, LocksTypeOK',
           UNCHANGED <<next_ticket, now_serving>>,
           Holding' = Holding,
           \A d \in Holding : lock_tmp'[d] = lock_tmp[d],
           \A d \in At("locked")' : lock_tmp'[d] = now_serving,
           \A d \in At("swap")' : \/ d \in At("swap") /\ lock_tmp'[d] = lock_tmp[d]
                                  \/ lock_tmp'[d] = now_serving
    PROVE  TicketInv'
<1>1. Outstanding' = Outstanding
  BY DEF Outstanding, Ahead
<1>2. ASSUME NEW d \in Holding PROVE Ahead(lock_tmp[d], now_serving)' = Ahead(lock_tmp[d], now_serving)
  BY DEF Ahead
<1>3. ASSUME NEW d \in At("swap")'
      PROVE  (Ahead(now_serving, lock_tmp[d]) + Outstanding = Ahead(next_ticket, lock_tmp[d]))'
  <2>1. CASE d \in At("swap") /\ lock_tmp'[d] = lock_tmp[d]
    BY <1>1, <2>1 DEF TicketInv, Ahead
  <2>2. CASE lock_tmp'[d] = now_serving
    <3>1. now_serving \in Numbers /\ next_ticket \in Numbers
      BY DEF LocksTypeOK
    <3>2. Ahead(now_serving, now_serving) = 0 /\ Outstanding \in Nat
      BY <3>1, AheadMoves DEF Outstanding
    <3>3. /\ Ahead(now_serving, lock_tmp[d])' = Ahead(now_serving, now_serving)
          /\ Ahead(next_ticket, lock_tmp[d])' = Outstanding
      BY <2>2 DEF Ahead, Outstanding
    <3> QED
      BY <1>1, <3>2, <3>3
  <2> QED
    BY <1>3, <2>1, <2>2
<1>4. (\A c \in Holding : Ahead(lock_tmp[c], now_serving) < Outstanding)'
  BY <1>1, <1>2 DEF TicketInv
<1>5. (\A c, d \in Holding : lock_tmp[c] = lock_tmp[d] => c = d)'
  BY DEF TicketInv
<1>6. (\A i \in 0 .. Outstanding - 1 : \E c \in Holding : Ahead(lock_tmp[c], now_serving) = i)'
  BY <1>1, <1>2 DEF TicketInv
<1>7. (Outstanding = Cardinality(Holding))'
  BY <1>1 DEF TicketInv
<1> QED
  BY <1>3, <1>4, <1>5, <1>6, <1>7 DEF TicketInv

\* A step that gives CPU c the next ticket.
LEMMA TicketIssued ==
    ASSUME LocksTypeOK, TicketInv, LocksTypeOK', NEW c \in CPUs,
           Issue, UNCHANGED now_serving,
           c \notin Holding, Holding' = Holding \cup {c},
           lock_tmp'[c] = next_ticket,
           \A d \in CPUs \ {c} : lock_tmp'[d] = lock_tmp[d],
           \A d \in At("locked")' : lock_tmp'[d] = now_serving,
           At("swap")' \subseteq At("swap") \ {c}
    PROVE  TicketInv'
<1>0. /\ next_ticket \in Numbers /\ now_serving \in Numbers
      /\ next_ticket' = Inc(next_ticket) /\ Tickets \in Nat
      /\ Holding \subseteq CPUs
  BY TicketsSuffice DEF LocksTypeOK, Issue, Holding, At
<1>1. Cardinality(Holding') = Cardinality(Holding) + 1 /\ Cardinality(Holding') < Tickets
  <2>1. Holding' \in SUBSET CPUs
    BY DEF Holding, At
  <2>2. Cardinality(Holding') <= Cardinality(CPUs) /\ Cardinality(CPUs) \in Nat
    BY <2>1, TicketsSuffice, FS_Subset, FS_CardinalityType
  <2>3. Cardinality(Holding') = Cardinality(Holding) + 1
    BY FiniteHolding, FS_AddElement
  <2> QED
    BY <2>2, <2>3, FiniteHolding, TicketsSuffice
<1>2. Outstanding' = Outstanding + 1 /\ Outstanding \in Nat /\ Outstanding + 1 < Tickets
  <2>1. Outstanding = Cardinality(Holding)
    BY DEF TicketInv
  <2>2. Outstanding' = Ahead(Inc(next_ticket), now_serving)
    BY <1>0 DEF Outstanding, Ahead
  <2> QED
    BY <1>0, <1>1, <2>1, <2>2, AheadMoves, FiniteHolding DEF Outstanding
<1>3. ASSUME NEW d \in Holding
      PROVE  /\ Ahead(lock_tmp[d], now_serving)' = Ahead(lock_tmp[d], now_serving)
             /\ Ahead(lock_tmp[d], now_serving) < Outstanding
             /\ Ahead(lock_tmp[d], now_serving) \in Nat
  <2>1. d \in CPUs /\ lock_tmp[d] \in Numbers
    BY DEF Holding, At, LocksTypeOK
  <2>2. lock_tmp'[d] = lock_tmp[d]
    BY <1>0
  <2>3. Ahead(lock_tmp[d], now_serving) \in Nat
    BY <1>0, <2>1, AheadMoves
  <2> QED
    BY <2>2, <2>3 DEF TicketInv, Ahead
<1>4. Ahead(lock_tmp[c], now_serving)' = Outstanding
  BY DEF Ahead, Outstanding
<1>5. (\A d \in Holding : Ahead(lock_tmp[d], now_serving) < Outstanding)'
  BY <1>2, <1>3, <1>4
<1>6. (\A a, b \in Holding : lock_tmp[a] = lock_tmp[b] => a = b)'
  <2>1. ASSUME NEW d \in Holding PROVE lock_tmp'[d] # next_ticket
    <3>1. lock_tmp'[d] = lock_tmp[d]
      BY <1>0
    <3>2. Ahead(lock_tmp[d], now_serving) < Ahead(next_ticket, now_serving)
      BY <1>3 DEF Outstanding
    <3> QED
      BY <1>2, <1>3, <3>1, <3>2 DEF Outstanding
  <2>2. \A a, b \in Holding : lock_tmp'[a] = lock_tmp'[b] => a = b
    BY <1>0 DEF TicketInv
  <2> QED
    BY <2>1, <2>2
<1>7. (\A i \in 0 .. Outstanding - 1 : \E d \in Holding : Ahead(lock_tmp[d], now_serving) = i)'
  <2> SUFFICES ASSUME NEW i \in 0 .. Outstanding
               PROVE  \E d \in Holding' : Ahead(lock_tmp[d], now_serving)' = i
    BY <1>2
  <2>1. CASE i = Outstanding
    BY <1>4, <2>1
  <2>2. CASE i # Outstanding
    <3>1. PICK d \in Holding : Ahead(lock_tmp[d], now_serving) = i
      BY <1>2, <2>2 DEF TicketInv
    <3> QED
      BY <1>3, <3>1
  <2> QED
    BY <2>1, <2>2
<1>8. ASSUME NEW d \in At("swap")'
      PROVE  (Ahead(now_serving, lock_tmp[d]) + Outstanding = Ahead(next_ticket, lock_tmp[d]))'
  <2>1. d \in CPUs \ {c} /\ d \in At("swap") /\ lock_pc[d] = "swap" /\ lock_tmp[d] \in Numbers
    BY <1>8 DEF At, LocksTypeOK
  <2> DEFINE t == lock_tmp[d]
  <2>2. Inc(next_ticket) # t /\ Inc(next_ticket) \in Numbers
    BY <1>0, <2>1, TicketArithmetic DEF Issue, NoFullRound
  <2>3. Ahead(now_serving, t) + Outstanding = Ahead(next_ticket, t)
    BY <2>1 DEF TicketInv
  <2>4. /\ Ahead(now_serving, lock_tmp[d])' = Ahead(now_serving, t)
        /\ Ahead(next_ticket, lock_tmp[d])' = Ahead(Inc(next_ticket), t)
    BY <1>0, <2>1 DEF Ahead
  <2>5. Ahead(Inc(next_ticket), t) = Ahead(next_ticket, t) + 1
    BY <1>0, <2>1, <2>2, AheadMoves
  <2>6. Ahead(now_serving, t) \in Nat /\ Ahead(next_ticket, t) \in Nat
    BY <1>0, <2>1, AheadMoves
  <2> QED
    BY <1>2, <2>3, <2>4, <2>5, <2>6
<1>9. (Outstanding = Cardinality(Holding))'
  BY <1>1, <1>2 DEF TicketInv
<1> QED
  BY <1>5, <1>6, <1>7, <1>8, <1>9 DEF TicketInv

\* spin_unlock: the holder's ticket is the first, the others come one nearer.
LEMMA TicketCalled ==
    ASSUME LocksTypeOK, TicketInv, LocksTypeOK', NEW c \in At("locked"),
           UNCHANGED <<next_ticket, lock_tmp>>,
           now_serving' = Inc(now_serving),
           Holding' = Holding \ {c}, At("locked")' = At("locked") \ {c},
           At("swap")' = At("swap")
    PROVE  TicketInv'
<1>0. /\ next_ticket \in Numbers /\ now_serving \in Numbers
      /\ Inc(now_serving) \in Numbers
      /\ c \in Holding /\ lock_tmp[c] = now_serving
      /\ Holding \subseteq CPUs
  BY AheadMoves DEF LocksTypeOK, TicketInv, Holding, At
<1>1. Cardinality(Holding') = Cardinality(Holding) - 1
  BY <1>0, FiniteHolding, FS_RemoveElement
<1>2. /\ Ahead(now_serving, now_serving) = 0 /\ next_ticket # now_serving
      /\ Outstanding \in Nat /\ Outstanding > 0
  <2>1. Ahead(now_serving, now_serving) = 0 /\ Outstanding \in Nat
    BY <1>0, AheadMoves DEF Outstanding
  <2>2. Ahead(lock_tmp[c], now_serving) < Outstanding
    BY <1>0 DEF TicketInv
  <2> QED
    BY <1>0, <2>1, <2>2 DEF Outstanding
<1>3. Outstanding' = Outstanding - 1
  <2>1. Outstanding' = Ahead(next_ticket, Inc(now_serving))
    BY DEF Outstanding, Ahead
  <2> QED
    BY <1>0, <1>2, <2>1, AheadMoves DEF Outstanding
<1>4. ASSUME NEW d \in Holding, d # c
      PROVE  /\ Ahead(lock_tmp[d], now_serving)' = Ahead(lock_tmp[d], now_serving) - 1
             /\ Ahead(lock_tmp[d], now_serving) < Outstanding
             /\ Ahead(lock_tmp[d], now_serving) \in Nat \ {0}
             /\ lock_tmp[d] # now_serving
  <2>1. lock_tmp[d] \in Numbers
    BY DEF Holding, At, LocksTypeOK
  <2>2. lock_tmp[d] # now_serving /\ Ahead(lock_tmp[d], now_serving) < Outstanding
    BY <1>0, <1>4 DEF TicketInv
  <2>3. Ahead(lock_tmp[d], now_serving)' = Ahead(lock_tmp[d], Inc(now_serving))
    BY DEF Ahead
  <2> QED
    BY <1>0, <2>1, <2>2, <2>3, AheadMoves
<1>5. (\A d \in Holding : Ahead(lock_tmp[d], now_serving) < Outstanding)'
  BY <1>2, <1>3, <1>4
<1>6. (\A a, b \in Holding : lock_tmp[a] = lock_tmp[b] => a = b)'
  BY DEF TicketInv
<1>7. (\A i \in 0 .. Outstanding - 1 : \E d \in Holding : Ahead(lock_tmp[d], now_serving) = i)'
  <2> SUFFICES ASSUME NEW i \in 0 .. Outstanding - 2
               PROVE  \E d \in Holding' : Ahead(lock_tmp[d], now_serving)' = i
    BY <1>2, <1>3
  <2>1. i + 1 \in 0 .. Outstanding - 1 /\ i + 1 # 0
    BY <1>2
  <2>2. PICK d \in Holding : Ahead(lock_tmp[d], now_serving) = i + 1
    BY <2>1 DEF TicketInv
  <2>3. d # c
    BY <1>0, <1>2, <2>1, <2>2
  <2> QED
    BY <1>4, <2>2, <2>3
<1>8. ASSUME NEW d \in At("swap")'
      PROVE  (Ahead(now_serving, lock_tmp[d]) + Outstanding = Ahead(next_ticket, lock_tmp[d]))'
  <2>1. d \in At("swap") /\ lock_tmp[d] \in Numbers
    BY DEF At, LocksTypeOK
  <2> DEFINE t == lock_tmp[d]
  <2>2. Ahead(now_serving, t) + Outstanding = Ahead(next_ticket, t)
    BY <2>1 DEF TicketInv
  <2>3. /\ Ahead(now_serving, lock_tmp[d])' = Ahead(Inc(now_serving), t)
        /\ Ahead(next_ticket, lock_tmp[d])' = Ahead(next_ticket, t)
    BY DEF Ahead
  <2>4. /\ Ahead(now_serving, t) \in Nat /\ Ahead(next_ticket, t) \in Nat
        /\ Ahead(next_ticket, t) < Tickets /\ Tickets \in Nat
    BY <1>0, <2>1, AheadMoves, TicketsSuffice
  <2>6. Ahead(now_serving, t) + 1 < Tickets
    BY <1>2, <2>2, <2>4
  <2>7. Ahead(Inc(now_serving), t) = Ahead(now_serving, t) + 1
    BY <1>0, <2>1, <2>6, AheadMoves
  <2> QED
    BY <1>2, <1>3, <2>2, <2>3, <2>4, <2>7
<1>9. (Outstanding = Cardinality(Holding))'
  BY <1>1, <1>3 DEF TicketInv
<1>10. \A d \in At("locked")' : FALSE
  BY <1>0, <1>4 DEF Holding, TicketInv
<1> QED
  BY <1>5, <1>6, <1>7, <1>8, <1>9, <1>10 DEF TicketInv

\* Every step keeps the types.
LEMMA LocksTypeStep ==
    ASSUME LocksTypeOK, NEW c \in CPUs,
           \/ spin_lock_take(c) \/ spin_lock_served(c) \/ spin_unlock(c)
           \/ spin_trylock_load(c) \/ spin_trylock_compare(c) \/ spin_trylock_swap(c)
           \/ read_lock_load(c) \/ read_lock_swap(c) \/ read_unlock(c)
           \/ write_lock_load(c) \/ write_lock_swap(c) \/ write_unlock(c)
    PROVE  LocksTypeOK'
<1>0. Inc(next_ticket) \in Numbers /\ Inc(now_serving) \in Numbers
  BY AheadMoves DEF LocksTypeOK
<1>1. Numbers \subseteq Int
  BY TicketsSuffice DEF Numbers
<1>2. CASE spin_lock_take(c)
  BY <1>0, <1>1, <1>2 DEF spin_lock_take, LocksTypeOK, Goto, Keep, Issue, Places
<1>3. CASE spin_lock_served(c)
  BY <1>3 DEF spin_lock_served, LocksTypeOK, Goto, Places
<1>4. CASE spin_unlock(c)
  BY <1>0, <1>4 DEF spin_unlock, LocksTypeOK, Goto, Places
<1>5. CASE spin_trylock_load(c)
  BY <1>1, <1>5 DEF spin_trylock_load, LocksTypeOK, Goto, Keep, Places
<1>6. CASE spin_trylock_compare(c)
  BY <1>6 DEF spin_trylock_compare, LocksTypeOK, Goto, Places
<1>7. CASE spin_trylock_swap(c)
  BY <1>0, <1>7 DEF spin_trylock_swap, LocksTypeOK, Goto, Issue, Places
<1>8. CASE read_lock_load(c)
  BY <1>8 DEF read_lock_load, LocksTypeOK, Goto, Keep, Places
<1>9. CASE read_lock_swap(c)
  BY <1>9 DEF read_lock_swap, LocksTypeOK, Goto, Keep, Places
<1>10. CASE read_unlock(c)
  BY <1>10 DEF read_unlock, LocksTypeOK, Goto, Places
<1>11. CASE write_lock_load(c)
  BY <1>11 DEF write_lock_load, LocksTypeOK, Goto, Places
<1>12. CASE write_lock_swap(c)
  BY <1>12 DEF write_lock_swap, LocksTypeOK, Goto, Places
<1>13. CASE write_unlock(c)
  BY <1>13 DEF write_unlock, LocksTypeOK, Goto, Places
<1> QED
  BY <1>2, <1>3, <1>4, <1>5, <1>6, <1>7, <1>8, <1>9, <1>10, <1>11, <1>12, <1>13

\* The steps of the spinlock keep the tickets in order.
LEMMA SpinStep ==
    ASSUME LocksTypeOK, TicketInv, LocksTypeOK', NEW c \in CPUs,
           \/ spin_lock_take(c) \/ spin_lock_served(c) \/ spin_unlock(c)
           \/ spin_trylock_load(c) \/ spin_trylock_compare(c) \/ spin_trylock_swap(c)
    PROVE  TicketInv'
<1>0. lock_pc \in [CPUs -> Places] /\ lock_tmp \in [CPUs -> Int] /\ Holding \subseteq CPUs
  BY DEF LocksTypeOK, Holding, At
<1>1. CASE spin_lock_take(c)
  <2>1. Goto(c, "idle", "spin") /\ Issue /\ UNCHANGED now_serving
        /\ lock_tmp' = [lock_tmp EXCEPT ![c] = next_ticket]
    BY <1>1 DEF spin_lock_take, Keep
  <2>2. At("spin")' = At("spin") \cup {c} /\ At("locked")' = At("locked")
        /\ At("swap")' = At("swap") /\ c \in At("idle")
    BY <1>0, <2>1, PlacesMove
  <2>3. c \notin Holding /\ c \notin At("swap") /\ c \notin At("locked")
    BY <2>2 DEF Holding, At
  <2>4. Holding' = Holding \cup {c}
    BY <2>2 DEF Holding
  <2>5. lock_tmp'[c] = next_ticket /\ \A d \in CPUs \ {c} : lock_tmp'[d] = lock_tmp[d]
    BY <1>0, <2>1
  <2>6. \A d \in At("locked")' : lock_tmp'[d] = now_serving
    BY <2>2, <2>3, <2>5 DEF TicketInv, At
  <2> QED
    BY <2>1, <2>2, <2>3, <2>4, <2>5, <2>6, TicketIssued
<1>2. CASE spin_lock_served(c)
  <2>1. Goto(c, "spin", "locked") /\ UNCHANGED <<next_ticket, now_serving, lock_tmp>>
        /\ now_serving = lock_tmp[c]
    BY <1>2 DEF spin_lock_served
  <2>2. At("spin")' = At("spin") \ {c} /\ At("locked")' = At("locked") \cup {c}
        /\ At("swap")' = At("swap") /\ c \in At("spin")
    BY <1>0, <2>1, PlacesMove
  <2>3. Holding' = Holding
    BY <2>2 DEF Holding
  <2>4. \A d \in At("locked")' : lock_tmp'[d] = now_serving
    BY <2>1, <2>2 DEF TicketInv
  <2> QED
    BY <2>1, <2>2, <2>3, <2>4, TicketsKept
<1>3. CASE spin_unlock(c)
  <2>1. Goto(c, "locked", "idle") /\ UNCHANGED <<next_ticket, lock_tmp>>
        /\ now_serving' = Inc(now_serving)
    BY <1>3 DEF spin_unlock
  <2>2. At("locked")' = At("locked") \ {c} /\ At("spin")' = At("spin")
        /\ At("swap")' = At("swap") /\ c \in At("locked")
    BY <1>0, <2>1, PlacesMove
  <2>3. Holding' = Holding \ {c}
    BY <2>2 DEF Holding, At
  <2> QED
    BY <2>1, <2>2, <2>3, TicketCalled
<1>4. CASE spin_trylock_load(c)
  <2>1. Goto(c, "idle", "try") /\ UNCHANGED <<next_ticket, now_serving>>
        /\ lock_tmp' = [lock_tmp EXCEPT ![c] = next_ticket]
    BY <1>4 DEF spin_trylock_load, Keep
  <2>2. At("spin")' = At("spin") /\ At("locked")' = At("locked")
        /\ At("swap")' = At("swap") /\ c \in At("idle")
    BY <1>0, <2>1, PlacesMove
  <2>3. Holding' = Holding /\ c \notin Holding /\ c \notin At("swap")
    BY <2>2 DEF Holding, At
  <2>4. \A d \in Holding \cup At("swap") : lock_tmp'[d] = lock_tmp[d]
    BY <1>0, <2>1, <2>3 DEF At
  <2>5. \A d \in At("locked")' : lock_tmp'[d] = now_serving
    BY <2>2, <2>4 DEF TicketInv, Holding
  <2> QED
    BY <2>1, <2>2, <2>3, <2>4, <2>5, TicketsKept
<1>5. CASE spin_trylock_compare(c)
  <2>1. UNCHANGED <<next_ticket, now_serving, lock_tmp>>
        /\ \/ Goto(c, "try", "swap") /\ lock_tmp[c] = now_serving
           \/ Goto(c, "try", "idle")
    BY <1>5 DEF spin_trylock_compare
  <2>2. /\ At("spin")' = At("spin") /\ At("locked")' = At("locked")
        /\ \/ At("swap")' = At("swap")
           \/ At("swap")' = At("swap") \cup {c} /\ lock_tmp[c] = now_serving
    BY <1>0, <2>1, PlacesMove
  <2>3. Holding' = Holding
    BY <2>2 DEF Holding
  <2>4. \A d \in At("locked")' : lock_tmp'[d] = now_serving
    BY <2>1, <2>2 DEF TicketInv
  <2> QED
    BY <2>1, <2>2, <2>3, <2>4, TicketsKept
<1>6. CASE spin_trylock_swap(c)
  <2>1. CASE next_ticket = lock_tmp[c]
    <3>1. Goto(c, "swap", "locked") /\ Issue /\ UNCHANGED <<now_serving, lock_tmp>>
      BY <1>6, <2>1 DEF spin_trylock_swap
    <3>2. At("locked")' = At("locked") \cup {c} /\ At("spin")' = At("spin")
          /\ At("swap")' = At("swap") \ {c} /\ c \in At("swap")
      BY <1>0, <3>1, PlacesMove
    <3>3. Holding' = Holding \cup {c} /\ c \notin Holding
      BY <3>2 DEF Holding, At
    <3>4. now_serving = lock_tmp[c]
      <4>1. next_ticket \in Numbers /\ now_serving \in Numbers /\ lock_tmp[c] \in Numbers
        BY <2>1 DEF LocksTypeOK
      <4>2. Ahead(next_ticket, lock_tmp[c]) = 0
        BY <2>1, <4>1, AheadMoves
      <4>5. Outstanding \in Nat
        BY <4>1, AheadMoves DEF Outstanding
      <4>6. Ahead(now_serving, lock_tmp[c]) \in Nat
        BY <4>1, AheadMoves
      <4>3. Ahead(now_serving, lock_tmp[c]) + Outstanding = Ahead(next_ticket, lock_tmp[c])
        BY <3>2 DEF TicketInv
      <4>4. Ahead(now_serving, lock_tmp[c]) = 0
        BY <4>2, <4>3, <4>5, <4>6
      <4> QED
        BY <2>1, <4>1, <4>4, AheadMoves
    <3>5. \A d \in At("locked")' : lock_tmp'[d] = now_serving
      BY <3>1, <3>2, <3>4 DEF TicketInv
    <3> QED
      BY <2>1, <3>1, <3>2, <3>3, <3>5, TicketIssued
  <2>2. CASE next_ticket # lock_tmp[c]
    <3>1. Goto(c, "swap", "idle") /\ UNCHANGED <<next_ticket, now_serving, lock_tmp>>
      BY <1>6, <2>2 DEF spin_trylock_swap
    <3>2. At("locked")' = At("locked") /\ At("spin")' = At("spin")
          /\ At("swap")' = At("swap") \ {c}
      BY <1>0, <3>1, PlacesMove
    <3>3. Holding' = Holding
      BY <3>2 DEF Holding
    <3>4. \A d \in At("locked")' : lock_tmp'[d] = now_serving
      BY <3>1, <3>2 DEF TicketInv
    <3> QED
      BY <3>1, <3>2, <3>3, <3>4, TicketsKept
  <2> QED
    BY <2>1, <2>2
<1> QED
  BY <1>1, <1>2, <1>3, <1>4, <1>5, <1>6

\* The steps of the reader-writer lock leave the tickets alone.
LEMMA ReadWriteLeavesTickets ==
    ASSUME LocksTypeOK, TicketInv, LocksTypeOK', NEW c \in CPUs,
           \/ read_lock_load(c) \/ read_lock_swap(c) \/ read_unlock(c)
           \/ write_lock_load(c) \/ write_lock_swap(c) \/ write_unlock(c)
    PROVE  TicketInv'
<1>0. lock_pc \in [CPUs -> Places] /\ lock_tmp \in [CPUs -> Int] /\ Holding \subseteq CPUs
  BY DEF LocksTypeOK, Holding, At
<1>1. /\ UNCHANGED <<next_ticket, now_serving>>
      /\ lock_pc[c] \in {"idle", "read", "reading", "write", "writing"}
      /\ lock_pc'[c] \in {"idle", "read", "reading", "write", "writing"}
      /\ \A d \in CPUs \ {c} : lock_pc'[d] = lock_pc[d] /\ lock_tmp'[d] = lock_tmp[d]
  BY <1>0 DEF read_lock_load, read_lock_swap, read_unlock, write_lock_load,
              write_lock_swap, write_unlock, Goto, Keep, Places
<1>2. At("locked")' = At("locked") /\ At("spin")' = At("spin") /\ At("swap")' = At("swap")
  BY <1>0, <1>1 DEF At
<1>3. Holding' = Holding
  BY <1>2 DEF Holding
<1>4. \A d \in Holding \cup At("swap") : lock_tmp'[d] = lock_tmp[d]
  BY <1>0, <1>1 DEF Holding, At
<1>5. \A d \in At("locked")' : lock_tmp'[d] = now_serving
  BY <1>2, <1>4 DEF TicketInv, Holding
<1> QED
  BY <1>1, <1>2, <1>3, <1>4, <1>5, TicketsKept

\* The steps of the reader-writer lock keep its count.
LEMMA ReadWriteStep ==
    ASSUME LocksTypeOK, ReadersInv, NEW c \in CPUs,
           \/ read_lock_load(c) \/ read_lock_swap(c) \/ read_unlock(c)
           \/ write_lock_load(c) \/ write_lock_swap(c) \/ write_unlock(c)
    PROVE  ReadersInv'
<1>0. lock_pc \in [CPUs -> Places] /\ count \in Int
  BY DEF LocksTypeOK
<1>1. IsFiniteSet(At("reading")) /\ Cardinality(At("reading")) \in Nat
  BY FiniteAt
<1>2. CASE \/ At("reading")' = At("reading") /\ At("writing")' = At("writing") /\ count' = count
  BY <1>2 DEF ReadersInv
<1>3. CASE read_lock_load(c)
  BY <1>0, <1>2, <1>3, PlacesMove DEF read_lock_load
<1>4. CASE read_lock_swap(c)
  <2>1. CASE count = lock_tmp[c]
    <3>1. Goto(c, "read", "reading") /\ count' = count + 1
      BY <1>4, <2>1 DEF read_lock_swap
    <3>2. At("reading")' = At("reading") \cup {c} /\ At("writing")' = At("writing") /\ c \in At("read")
      BY <1>0, <3>1, PlacesMove
    <3>3. c \notin At("reading") /\ c \notin At("writing")
      BY <3>2 DEF At
    <3>4. Cardinality(At("reading")') = Cardinality(At("reading")) + 1
      BY <1>1, <3>2, <3>3, FS_AddElement
    <3>5. count >= 0
      BY <2>1, <3>1 DEF LocksTypeOK, Goto
    <3> QED
      BY <1>0, <1>1, <3>1, <3>2, <3>4, <3>5 DEF ReadersInv
  <2>2. CASE count # lock_tmp[c]
    BY <1>2, <1>4, <2>2 DEF read_lock_swap, At
  <2> QED
    BY <2>1, <2>2
<1>5. CASE read_unlock(c)
  <2>1. Goto(c, "reading", "idle") /\ count' = count - 1
    BY <1>5 DEF read_unlock
  <2>2. At("reading")' = At("reading") \ {c} /\ At("writing")' = At("writing") /\ c \in At("reading")
    BY <1>0, <2>1, PlacesMove
  <2>3. Cardinality(At("reading")') = Cardinality(At("reading")) - 1
    BY <1>1, <2>2, FS_RemoveElement
  <2> QED
    BY <2>1, <2>2, <2>3 DEF ReadersInv
<1>6. CASE write_lock_load(c)
  BY <1>0, <1>2, <1>6, PlacesMove DEF write_lock_load
<1>7. CASE write_lock_swap(c)
  <2>1. Goto(c, "write", "writing") /\ count' = -1 /\ count = 0
    BY <1>7 DEF write_lock_swap
  <2>2. At("reading")' = At("reading") /\ At("writing")' = At("writing") \cup {c}
    BY <1>0, <2>1, PlacesMove
  <2>3. At("writing") = {} /\ Cardinality(At("reading")) = 0
    BY <2>1 DEF ReadersInv
  <2>4. At("reading") = {}
    BY <1>1, <2>3, FS_EmptySet
  <2> QED
    BY <2>1, <2>2, <2>3, <2>4 DEF ReadersInv
<1>8. CASE write_unlock(c)
  <2>1. Goto(c, "writing", "idle") /\ count' = 0
    BY <1>8 DEF write_unlock
  <2>2. At("reading")' = At("reading") /\ At("writing")' = At("writing") \ {c} /\ c \in At("writing")
    BY <1>0, <2>1, PlacesMove
  <2>3. At("reading") = {} /\ At("writing") = {c}
    BY <2>2 DEF ReadersInv
  <2> QED
    BY <2>1, <2>2, <2>3, FS_EmptySet DEF ReadersInv
<1> QED
  BY <1>3, <1>4, <1>5, <1>6, <1>7, <1>8

\* The steps of the spinlock leave the reader-writer lock alone.
LEMMA SpinLeavesReaders ==
    ASSUME LocksTypeOK, ReadersInv, NEW c \in CPUs,
           \/ spin_lock_take(c) \/ spin_lock_served(c) \/ spin_unlock(c)
           \/ spin_trylock_load(c) \/ spin_trylock_compare(c) \/ spin_trylock_swap(c)
    PROVE  ReadersInv'
<1>1. /\ UNCHANGED count
      /\ lock_pc[c] \in {"idle", "spin", "locked", "try", "swap"}
      /\ lock_pc'[c] \in {"idle", "spin", "locked", "try", "swap"}
      /\ \A d \in CPUs \ {c} : lock_pc'[d] = lock_pc[d]
  BY DEF spin_lock_take, spin_lock_served, spin_unlock, spin_trylock_load,
         spin_trylock_compare, spin_trylock_swap, Goto, LocksTypeOK, Places
<1>2. At("reading")' = At("reading") /\ At("writing")' = At("writing")
  BY <1>1 DEF At
<1> QED
  BY <1>1, <1>2 DEF ReadersInv

\* At the start the lock is free.
LEMMA LocksStart == LocksInit => LocksInv
<1> SUFFICES ASSUME LocksInit PROVE LocksInv
  OBVIOUS
<1>1. At("locked") = {} /\ At("spin") = {} /\ At("swap") = {} /\ At("reading") = {} /\ At("writing") = {}
  BY DEF LocksInit, At
<1>2. LocksTypeOK
  BY DEF LocksInit, LocksTypeOK, Places, Numbers
<1>3. Outstanding = 0
  BY AheadMoves DEF LocksInit, Outstanding, Numbers
<1>4. TicketInv
  BY <1>1, <1>3, FS_EmptySet DEF TicketInv, Holding
<1>5. ReadersInv
  BY <1>1, FS_EmptySet DEF ReadersInv, LocksInit
<1> QED
  BY <1>2, <1>4, <1>5 DEF LocksInv

\* Every step of a lock operation preserves the invariant.
LEMMA LocksStep == LocksInv /\ [LocksNext]_lockVars => LocksInv'
<1> SUFFICES ASSUME LocksInv, [LocksNext]_lockVars PROVE LocksInv'
  OBVIOUS
<1>1. CASE UNCHANGED lockVars
  BY <1>1 DEF lockVars, LocksInv, LocksTypeOK, TicketInv, ReadersInv, Holding,
              Outstanding, Ahead, At
<1>2. CASE LocksNext
  <2>1. PICK c \in CPUs :
           \/ spin_lock_take(c) \/ spin_lock_served(c) \/ spin_unlock(c)
           \/ spin_trylock_load(c) \/ spin_trylock_compare(c) \/ spin_trylock_swap(c)
           \/ read_lock_load(c) \/ read_lock_swap(c) \/ read_unlock(c)
           \/ write_lock_load(c) \/ write_lock_swap(c) \/ write_unlock(c)
    BY <1>2 DEF LocksNext
  <2>2. LocksTypeOK'
    BY <2>1, LocksTypeStep DEF LocksInv
  <2>3. TicketInv'
    BY <2>1, <2>2, SpinStep, ReadWriteLeavesTickets DEF LocksInv
  <2>4. ReadersInv'
    BY <2>1, SpinLeavesReaders, ReadWriteStep DEF LocksInv
  <2> QED
    BY <2>2, <2>3, <2>4 DEF LocksInv
<1> QED
  BY <1>1, <1>2

\* The invariant says what the property says: one holder, with the first ticket;
\* the waiters have the others.
LEMMA LocksInvExclusive == LocksInv => LocksExclusive
<1> SUFFICES ASSUME LocksInv PROVE LocksExclusive
  OBVIOUS
<1> USE DEF LocksInv
<1> DEFINE locked == At("locked")  spin == At("spin")
<1>0. /\ next_ticket \in Numbers /\ now_serving \in Numbers
      /\ \A c \in Holding : lock_tmp[c] \in Numbers
      /\ \A c \in Holding : Ahead(lock_tmp[c], now_serving) \in Nat
      /\ Outstanding \in Nat
      /\ Ahead(now_serving, now_serving) = 0
  <2>1. next_ticket \in Numbers /\ now_serving \in Numbers
        /\ \A c \in Holding : lock_tmp[c] \in Numbers
    BY DEF LocksTypeOK, Holding, At
  <2> QED
    BY <2>1, AheadMoves DEF Outstanding
<1>1. /\ IsFiniteSet(locked) /\ Cardinality(locked) \in Nat
      /\ IsFiniteSet(spin) /\ Cardinality(spin) \in Nat
      /\ locked \cap spin = {} /\ Holding = locked \cup spin
  BY FiniteAt DEF Holding, At
<1>2. \A c, d \in locked : c = d
  BY <1>1 DEF TicketInv
<1>3. locked = {} \/ \E c \in locked : locked = {c}
  BY <1>2
<1>4. /\ locked = {} => Cardinality(locked) = 0
      /\ locked # {} => Cardinality(locked) = 1
  BY <1>3, FS_EmptySet, FS_Singleton
<1>5. Outstanding = Cardinality(locked) + Cardinality(spin)
  BY <1>1, FS_Union, FS_EmptySet DEF TicketInv
<1>6. ASSUME NEW c \in spin
      PROVE  Ahead(lock_tmp[c], now_serving) \in Cardinality(locked) .. Outstanding - 1
  <2>1. c \in Holding /\ Ahead(lock_tmp[c], now_serving) < Outstanding
    BY <1>1 DEF TicketInv
  <2>2. CASE locked = {}
    BY <1>0, <1>4, <2>1, <2>2
  <2>3. CASE locked # {}
    <3>1. PICK h \in locked : TRUE
      BY <2>3
    <3>2. lock_tmp[h] = now_serving /\ h # c /\ h \in Holding
      BY <1>1 DEF TicketInv
    <3>3. lock_tmp[c] # now_serving
      BY <2>1, <3>2 DEF TicketInv
    <3>4. Ahead(lock_tmp[c], now_serving) # 0
      BY <1>0, <2>1, <3>3, AheadMoves
    <3> QED
      BY <1>0, <1>4, <2>1, <2>3, <3>4
  <2> QED
    BY <2>2, <2>3
<1>7. ASSUME NEW i \in Cardinality(locked) .. Outstanding - 1
      PROVE  \E c \in spin : Ahead(lock_tmp[c], now_serving) = i
  <2>0. i \in 0 .. Outstanding - 1
    BY <1>0, <1>1
  <2>1. PICK c \in Holding : Ahead(lock_tmp[c], now_serving) = i
    BY <2>0 DEF TicketInv
  <2>2. CASE c \in locked
    <3>1. i = 0
      BY <1>0, <2>1, <2>2 DEF TicketInv
    <3> QED
      BY <1>1, <1>4, <2>2, <3>1
  <2> QED
    BY <1>1, <2>1, <2>2
<1>8. {Ahead(lock_tmp[c], now_serving) : c \in spin} = Cardinality(locked) .. Outstanding - 1
  BY <1>6, <1>7
<1>9. \A c \in Holding : lock_tmp[c] # next_ticket
  BY <1>0 DEF TicketInv, Outstanding
<1>10. /\ At("writing") = {} <=> count >= 0
       /\ count >= 0 => count = Cardinality(At("reading"))
       /\ count < 0 => Cardinality(At("writing")) = 1 /\ At("reading") = {}
  <2>1. Cardinality(At("reading")) \in Nat
    BY FiniteAt
  <2>2. CASE At("writing") = {} /\ count = Cardinality(At("reading"))
    BY <2>1, <2>2
  <2>3. CASE At("reading") = {} /\ count = -1 /\ \E c \in CPUs : At("writing") = {c}
    <3>1. count = -1 /\ ~(count >= 0) /\ At("reading") = {} /\ At("writing") # {}
      BY <2>3
    <3>2. Cardinality(At("writing")) = 1
      BY <2>3, FS_Singleton
    <3> QED
      BY <3>1, <3>2
  <2> QED
    BY <2>2, <2>3 DEF ReadersInv
<1> QED
  BY <1>1, <1>4, <1>5, <1>8, <1>9, <1>10 DEF LocksExclusive, Ahead, Outstanding

\* Mutual exclusion and first come, first served, for any number of CPUs and any
\* number of operations: the spinlock has one holder, its waiters have exactly the
\* tickets between, and readers and writers exclude each other (spinlock.h).
THEOREM LocksCorrect == LocksSpec => []LocksExclusive
  BY LocksStart, LocksStep, LocksInvExclusive, PTL DEF LocksSpec

-----------------------------------------------------------------------------
(* The bitmap of page frames. *)

\* A set of natural numbers has a least element.
LEMMA MinIn ==
    ASSUME NEW S \in SUBSET Nat, S # {}
    PROVE  Min(S) \in S /\ \A y \in S : Min(S) <= y
<1> DEFINE less == OpToRel(<, Nat)
<1>1. IsWellFoundedOn(less, Nat)
  BY NatLessThanWellFounded
<1>2. \A x, y \in Nat : x < y => <<x, y>> \in less
  BY DEF OpToRel
<1> HIDE DEF less
<1>3. PICK m \in S : \A y \in S : ~(<<y, m>> \in less)
  BY <1>1, WFMin
<1>4. ASSUME NEW y \in S PROVE m <= y
  <2>1. y \in Nat /\ m \in Nat
    OBVIOUS
  <2>2. ~(y < m)
    BY <1>2, <1>3, <2>1
  <2> QED
    BY <2>1, <2>2
<1> QED
  BY <1>4 DEF Min

\* The least element is the only one no larger than the others.
LEMMA MinIs ==
    ASSUME NEW S \in SUBSET Nat, NEW m \in S, \A y \in S : m <= y
    PROVE  Min(S) = m
<1>1. Min(S) \in S /\ Min(S) <= m /\ m <= Min(S)
  BY MinIn
<1>2. Min(S) \in Nat /\ m \in Nat
  BY <1>1
<1> QED
  BY <1>1, <1>2

\* The scan's count satisfies its recursion: the recursion has a solution, the
\* distance to the last set bit.
LEMMA RunEquation ==
    ASSUME NEW b, NEW N \in Nat
    PROVE  clear_run(b, N) = [pfn \in -1 .. N - 1 |->
              IF pfn = -1 \/ pfn \in b THEN 0 ELSE clear_run(b, N)[pfn - 1] + 1]
<1> DEFINE D(p) == {d \in 0 .. p + 1 : p - d = -1 \/ p - d \in b}
           e == [p \in -1 .. N - 1 |-> Min(D(p))]
           P(f) == f = [pfn \in -1 .. N - 1 |->
                          IF pfn = -1 \/ pfn \in b THEN 0 ELSE f[pfn - 1] + 1]
<1>1. ASSUME NEW p \in -1 .. N - 1
      PROVE  D(p) \in SUBSET Nat /\ p + 1 \in D(p)
  OBVIOUS
<1>2. ASSUME NEW p \in -1 .. N - 1, p = -1 \/ p \in b PROVE Min(D(p)) = 0
  <2>1. 0 \in D(p) /\ \A d \in D(p) : 0 <= d
    BY <1>2
  <2> QED
    BY <1>1, <2>1, MinIs
<1>3. ASSUME NEW p \in -1 .. N - 1, p # -1, p \notin b PROVE Min(D(p)) = Min(D(p - 1)) + 1
  <2>1. p - 1 \in -1 .. N - 1
    BY <1>3
  <2>2. Min(D(p - 1)) \in D(p - 1) /\ \A d \in D(p - 1) : Min(D(p - 1)) <= d
    BY <1>1, <2>1, MinIn
  <2> DEFINE m == Min(D(p - 1))
  <2>3. m \in Nat /\ m <= p /\ (p - 1 - m = -1 \/ p - 1 - m \in b)
    BY <2>2
  <2>4. m + 1 \in D(p)
    <3>1. p - (m + 1) = p - 1 - m
      BY <2>3
    <3> QED
      BY <2>3, <3>1
  <2>5. ASSUME NEW d \in D(p) PROVE m + 1 <= d
    <3>1. d # 0
      BY <1>3, <2>5
    <3>2. d - 1 \in D(p - 1)
      <4>1. p - 1 - (d - 1) = p - d /\ d - 1 \in 0 .. (p - 1) + 1
        BY <3>1
      <4> QED
        BY <4>1
    <3> QED
      BY <2>2, <2>3, <3>2
  <2> HIDE DEF m
  <2>6. Min(D(p)) = m + 1
    BY <1>1, <2>4, <2>5, MinIs
  <2> QED
    BY <2>6 DEF m
<1> HIDE DEF D
<1>4. e = [pfn \in -1 .. N - 1 |-> IF pfn = -1 \/ pfn \in b THEN 0 ELSE e[pfn - 1] + 1]
  <2>1. ASSUME NEW p \in -1 .. N - 1
        PROVE  e[p] = IF p = -1 \/ p \in b THEN 0 ELSE e[p - 1] + 1
    <3>1. CASE p = -1 \/ p \in b
      BY <1>2, <3>1
    <3>2. CASE p # -1 /\ p \notin b
      <4>1. p - 1 \in -1 .. N - 1
        BY <3>2
      <4> QED
        BY <1>3, <3>2, <4>1
    <3> QED
      BY <3>1, <3>2
  <2> QED
    BY <2>1
<1>5. P(e)
  BY <1>4
<1>6. clear_run(b, N) = CHOOSE f : P(f)
  BY DEF clear_run
<1>7. P(clear_run(b, N))
  <2> HIDE DEF P, e
  <2> QED
    BY <1>5, <1>6
<1> QED
  BY <1>7

\* What the count says: that many bits up to pfn are clear, and the one before is
\* not, or there is none.
LEMMA RunCounts ==
    ASSUME NEW b, NEW N \in Nat, NEW p \in -1 .. N - 1
    PROVE  LET c == clear_run(b, N)[p]
           IN  /\ c \in 0 .. p + 1
               /\ \A q \in p - c + 1 .. p : q \notin b
               /\ p - c = -1 \/ p - c \in b
<1> DEFINE f == clear_run(b, N)
           Good(x) == /\ f[x] \in 0 .. x + 1
                      /\ \A q \in x - f[x] + 1 .. x : q \notin b
                      /\ x - f[x] = -1 \/ x - f[x] \in b
           Bad == {i \in 0 .. N : ~Good(i - 1)}
<1>1. ASSUME NEW x \in -1 .. N - 1
      PROVE  f[x] = IF x = -1 \/ x \in b THEN 0 ELSE f[x - 1] + 1
  BY RunEquation
<1> HIDE DEF f
<1>2. ASSUME NEW x \in -1 .. N - 1, x = -1 \/ x \in b PROVE Good(x)
  BY <1>1, <1>2
<1>3. ASSUME NEW x \in -1 .. N - 1, x # -1, x \notin b, Good(x - 1) PROVE Good(x)
  <2>1. f[x] = f[x - 1] + 1 /\ f[x - 1] \in 0 .. x
    BY <1>1, <1>3
  <2>2. x - f[x] = (x - 1) - f[x - 1]
    BY <2>1
  <2>3. f[x] \in 0 .. x + 1
    BY <2>1
  <2>4. ASSUME NEW q \in x - f[x] + 1 .. x PROVE q \notin b
    <3>1. CASE q = x
      BY <1>3, <3>1
    <3>2. CASE q # x
      <4>1. q \in (x - 1) - f[x - 1] + 1 .. x - 1
        BY <2>1, <3>2
      <4> QED
        BY <1>3, <4>1
    <3> QED
      BY <3>1, <3>2
  <2> QED
    BY <1>3, <2>2, <2>3, <2>4
<1>4. Bad = {}
  <2> SUFFICES ASSUME Bad # {} PROVE FALSE
    OBVIOUS
  <2>1. PICK i \in Bad : \A j \in Bad : i <= j
    <3>1. Bad \in SUBSET Nat
      OBVIOUS
    <3> HIDE DEF Bad
    <3> QED
      BY <3>1, MinIn
  <2>2. i \in 0 .. N /\ ~Good(i - 1)
    OBVIOUS
  <2>3. i - 1 # -1 /\ i - 1 \notin b /\ i - 1 \in -1 .. N - 1
    <3> HIDE DEF Good
    <3> QED
      BY <1>2, <2>2
  <2>4. i - 1 \in 0 .. N /\ (i - 1) - 1 = i - 2
    BY <2>2, <2>3
  <2>5. i - 1 \notin Bad
    BY <2>1, <2>2
  <2>6. Good((i - 1) - 1)
    <3> HIDE DEF Good
    <3> QED
      BY <2>4, <2>5
  <2> HIDE DEF Good
  <2> QED
    BY <1>3, <2>2, <2>3, <2>6
<1>5. p + 1 \in 0 .. N /\ (p + 1) - 1 = p
  OBVIOUS
<1>6. Good(p)
  <2> HIDE DEF Good
  <2> QED
    BY <1>4, <1>5
<1> QED
  BY <1>6 DEF f

\* The lowest page of a set, as the searches answer it.
lowest(S) == IF S = {} THEN NoPfn ELSE Min(S)

\* bitmap_find_free_range finds the lowest run of n clear bits, if there is one.
LEMMA RangeFound ==
    ASSUME NEW b, NEW N \in Nat, NEW n \in Nat \ {0}
    PROVE  LET clear == (0 .. N - 1) \ b
               starts == {p \in clear : p .. p + n - 1 \subseteq clear}
           IN  bitmap_find_free_range(b, n, N) = lowest(starts)
<1> DEFINE clear == (0 .. N - 1) \ b
           starts == {p \in clear : p .. p + n - 1 \subseteq clear}
           f == clear_run(b, N)
           stops == {pfn \in 0 .. N - 1 : f[pfn] > 0 /\ f[pfn] >= n}
<1>1. \A p \in -1 .. N - 1 : /\ f[p] \in 0 .. p + 1
                             /\ \A q \in p - f[p] + 1 .. p : q \notin b
                             /\ p - f[p] = -1 \/ p - f[p] \in b
  BY RunCounts
<1>2. \A p \in -1 .. N - 1 : f[p] = IF p = -1 \/ p \in b THEN 0 ELSE f[p - 1] + 1
  BY RunEquation
<1>3. bitmap_find_free_range(b, n, N) =
         IF stops = {} THEN NoPfn ELSE Min(stops) - f[Min(stops)] + 1
  BY DEF bitmap_find_free_range
<1> HIDE DEF f
<1>4. ASSUME NEW q \in starts PROVE q + n - 1 \in stops
  <2> DEFINE l == q + n - 1
  <2>1. q \in Nat /\ l \in q .. q + n - 1
    OBVIOUS
  <2>2. l \in clear /\ l \in 0 .. N - 1
    BY <2>1
  <2>3. f[l] \in 0 .. l + 1 /\ (l - f[l] = -1 \/ l - f[l] \in b)
    BY <1>1, <2>2
  <2>4. f[l] >= n
    <3> SUFFICES ASSUME f[l] < n PROVE FALSE
      BY <2>2, <2>3
    <3>1. l - f[l] \in q .. q + n - 1
      BY <2>1, <2>3
    <3> QED
      BY <2>1, <2>3, <3>1
  <2> QED
    BY <2>2, <2>3, <2>4
<1>5. CASE stops = {}
  BY <1>3, <1>4, <1>5 DEF lowest
<1>6. CASE stops # {}
  <2> DEFINE s == Min(stops)
  <2>1. s \in stops /\ \A y \in stops : s <= y
    <3>1. stops \in SUBSET Nat
      OBVIOUS
    <3> HIDE DEF stops
    <3> QED
      BY <1>6, <3>1, MinIn
  <2> HIDE DEF s
  <2>2. /\ s \in 0 .. N - 1 /\ f[s] >= n /\ f[s] \in 0 .. s + 1
        /\ \A q \in s - f[s] + 1 .. s : q \notin b
    BY <1>1, <2>1
  <2>3. f[s] = n
    <3> SUFFICES ASSUME f[s] > n PROVE FALSE
      BY <2>2
    <3>1. f[s] = f[s - 1] + 1 /\ s - 1 \in -1 .. N - 1 /\ f[s - 1] \in 0 .. s
      BY <1>1, <1>2, <2>2
    <3>2. s - 1 # -1
      BY <1>1, <2>2, <3>1
    <3>3. s - 1 \in stops
      BY <2>2, <3>1, <3>2
    <3> QED
      BY <2>1, <2>2, <3>3
  <2>4. s - n + 1 \in starts
    <3>1. \A q \in s - n + 1 .. s : q \in clear
      BY <2>2, <2>3
    <3>2. (s - n + 1) + n - 1 = s /\ s - n + 1 \in s - n + 1 .. s
      BY <2>2
    <3> QED
      BY <3>1, <3>2
  <2>5. ASSUME NEW q \in starts PROVE s - n + 1 <= q
    <3>1. q + n - 1 \in stops /\ q \in Nat
      BY <1>4
    <3> QED
      BY <2>1, <2>2, <3>1
  <2>6. starts \in SUBSET Nat
    OBVIOUS
  <2>7. bitmap_find_free_range(b, n, N) = s - n + 1
    BY <1>3, <1>6, <2>3 DEF s
  <2>8. Min(starts) = s - n + 1
    <3> HIDE DEF starts
    <3> QED
      BY <2>4, <2>5, <2>6, MinIs
  <2> QED
    BY <2>4, <2>7, <2>8 DEF lowest
<1> QED
  BY <1>5, <1>6

\* A larger word number begins at a larger bit.
LEMMA TimesMonotone ==
    ASSUME NEW w \in Nat, NEW i \in Nat, NEW j \in Nat, i < j
    PROVE  (i + 1) * w <= j * w /\ (i + 1) * w \in Nat /\ j * w \in Nat
  OBVIOUS

\* A bit lies in the word of its number divided by the word's width.
LEMMA WordOf ==
    ASSUME NEW w \in Nat \ {0}, NEW p \in Nat
    PROVE  /\ p \div w \in Nat
           /\ (p \div w) * w <= p
           /\ p <= (p \div w + 1) * w - 1
  OBVIOUS

\* There are words enough for all bits.
LEMMA WordsSuffice ==
    ASSUME NEW N \in Nat, NEW p \in 0 .. N - 1, NEW i \in Nat, i * WordBits <= p
    PROVE  i <= nr_words(N) - 1
<1>1. WordBits \in Nat \ {0}
  BY BitmapConstants
<1> DEFINE k == (N + WordBits - 1) \div WordBits
<1>2. k \in Nat /\ N + WordBits - 1 <= (k + 1) * WordBits - 1
  BY <1>1, WordOf
<1>3. (k + 1) * WordBits = k * WordBits + WordBits /\ k * WordBits \in Nat /\ i * WordBits \in Nat
  BY <1>1, <1>2
<1>4. i * WordBits < k * WordBits
  BY <1>1, <1>2, <1>3
<1>5. i < k
  <2> SUFFICES ASSUME k <= i PROVE FALSE
    BY <1>2
  <2>1. k * WordBits <= i * WordBits
    BY <1>1, <1>2
  <2> QED
    BY <1>3, <1>4, <2>1
<1> QED
  BY <1>2, <1>5 DEF nr_words

\* bitmap_find_free finds the lowest clear bit, if there is one: the words are
\* visited in the order of their bits.
LEMMA PageFound ==
    ASSUME NEW b, NEW N \in Nat
    PROVE  bitmap_find_free(b, N) = lowest((0 .. N - 1) \ b)
<1> DEFINE clear == (0 .. N - 1) \ b
           inWord(i) == {p \in i * WordBits .. (i + 1) * WordBits - 1 : p \notin b /\ p < N}
           found == {i \in 0 .. nr_words(N) - 1 : inWord(i) # {}}
<1>1. bitmap_find_free(b, N) = IF found = {} THEN NoPfn ELSE Min(inWord(Min(found)))
  BY DEF bitmap_find_free
<1>2. WordBits \in Nat \ {0} /\ nr_words(N) \in Nat
  BY BitmapConstants DEF nr_words
<1>3. ASSUME NEW p \in clear
      PROVE  p \div WordBits \in found /\ p \in inWord(p \div WordBits)
  <2> DEFINE i == p \div WordBits
  <2>1. i \in Nat /\ i * WordBits <= p /\ p <= (i + 1) * WordBits - 1
    BY <1>2, WordOf
  <2> HIDE DEF i
  <2>2. p \in inWord(i)
    BY <1>2, <2>1
  <2>3. i <= nr_words(N) - 1
    BY <1>2, <2>1, WordsSuffice
  <2> QED
    BY <1>2, <2>1, <2>2, <2>3 DEF i
<1>4. ASSUME NEW i \in found, NEW p \in inWord(i) PROVE p \in clear
  <2>1. i \in Nat /\ i * WordBits \in Nat
    BY <1>2
  <2> QED
    BY <2>1, <1>2
<1>5. CASE found = {}
  BY <1>1, <1>3, <1>5 DEF lowest
<1>6. CASE found # {}
  <2>1. PICK i : i = Min(found)
    OBVIOUS
  <2>2. i \in found /\ \A j \in found : i <= j
    <3>1. found \in SUBSET Nat
      OBVIOUS
    <3> HIDE DEF found
    <3> QED
      BY <1>6, <2>1, <3>1, MinIn
  <2>3. i \in Nat /\ inWord(i) # {}
    BY <2>2
  <2>4. inWord(i) \in SUBSET Nat
    BY <1>4, <2>2
  <2>5. PICK m : m = Min(inWord(i))
    OBVIOUS
  <2>6. m \in inWord(i) /\ \A y \in inWord(i) : m <= y
    <3> HIDE DEF inWord
    <3> QED
      BY <2>3, <2>4, <2>5, MinIn
  <2>7. m \in clear
    BY <1>4, <2>2, <2>6
  <2>8. ASSUME NEW p \in clear PROVE m <= p
    <3>1. PICK j : j = p \div WordBits
      OBVIOUS
    <3>2. j \in found /\ p \in inWord(j) /\ i <= j
      BY <1>3, <2>2, <3>1
    <3>3. CASE i = j
      BY <2>6, <3>2, <3>3
    <3>4. CASE i < j
      <4>1. m <= (i + 1) * WordBits - 1 /\ j * WordBits <= p
        BY <2>6, <3>2
      <4>2. j \in Nat
        BY <3>2
      <4>3. (i + 1) * WordBits <= j * WordBits /\ (i + 1) * WordBits \in Nat /\ j * WordBits \in Nat
        BY <1>2, <2>3, <3>4, <4>2, TimesMonotone
      <4> QED
        BY <2>7, <4>1, <4>3
    <3> QED
      BY <2>3, <3>2, <3>3, <3>4
  <2>9. Min(clear) = m
    <3>1. clear \in SUBSET Nat
      OBVIOUS
    <3> HIDE DEF clear
    <3> QED
      BY <2>7, <2>8, <3>1, MinIs
  <2> QED
    BY <1>1, <1>6, <2>1, <2>5, <2>7, <2>9 DEF lowest
<1> QED
  BY <1>5, <1>6

\* What every operation keeps: the callers' ranges lie in the bitmap, set, and do
\* not overlap.
BitmapInv ==
    /\ taken \subseteq [pfn : Nat, nr : Nat \ {0}]
    /\ \A r \in taken : r.pfn .. r.pfn + r.nr - 1 \subseteq bits \cap (0 .. NrBits - 1)
    /\ \A r, t \in taken : r = t \/ r.pfn + r.nr <= t.pfn \/ t.pfn + t.nr <= r.pfn

\* Two ranges without a page in common lie one after the other.
LEMMA RangesApart ==
    ASSUME NEW p \in Nat, NEW n \in Nat \ {0}, NEW q \in Nat, NEW m \in Nat \ {0},
           \A x \in p .. p + n - 1 : x \notin q .. q + m - 1
    PROVE  p + n <= q \/ q + m <= p
<1>1. CASE p <= q
  <2>1. q \notin p .. p + n - 1
    OBVIOUS
  <2> QED
    BY <1>1, <2>1
<1>2. CASE q <= p
  <2>1. p \notin q .. q + m - 1
    OBVIOUS
  <2> QED
    BY <1>2, <2>1
<1> QED
  BY <1>1, <1>2

\* Taking a run of clear pages keeps the invariant.
LEMMA TakeRange ==
    ASSUME BitmapInv, NEW p \in Nat, NEW n \in Nat \ {0},
           p .. p + n - 1 \subseteq (0 .. NrBits - 1) \ bits,
           bits' = bits \cup (p .. p + n - 1),
           taken' = taken \cup {[pfn |-> p, nr |-> n]}
    PROVE  BitmapInv'
<1> DEFINE new == [pfn |-> p, nr |-> n]
<1>1. new \in [pfn : Nat, nr : Nat \ {0}] /\ new.pfn = p /\ new.nr = n
  OBVIOUS
<1> HIDE DEF new
<1>2. ASSUME NEW r \in taken PROVE p + n <= r.pfn \/ r.pfn + r.nr <= p
  <2>1. r.pfn \in Nat /\ r.nr \in Nat \ {0} /\ r.pfn .. r.pfn + r.nr - 1 \subseteq bits
    BY DEF BitmapInv
  <2>2. \A x \in p .. p + n - 1 : x \notin r.pfn .. r.pfn + r.nr - 1
    BY <2>1
  <2> QED
    BY <2>1, <2>2, RangesApart
<1>3. taken' = taken \cup {new}
  BY DEF new
<1>4. (taken \subseteq [pfn : Nat, nr : Nat \ {0}])'
  BY <1>1, <1>3 DEF BitmapInv
<1>5. ASSUME NEW r \in taken'
      PROVE  r.pfn .. r.pfn + r.nr - 1 \subseteq bits' \cap (0 .. NrBits - 1)
  <2>1. CASE r = new
    <3>1. r.pfn .. r.pfn + r.nr - 1 = p .. p + n - 1
      BY <1>1, <2>1
    <3> QED
      BY <3>1
  <2>2. CASE r \in taken
    <3>1. r.pfn .. r.pfn + r.nr - 1 \subseteq bits \cap (0 .. NrBits - 1)
      BY <2>2 DEF BitmapInv
    <3> QED
      BY <3>1
  <2> QED
    BY <1>3, <2>1, <2>2
<1>6. ASSUME NEW r \in taken', NEW t \in taken'
      PROVE  r = t \/ r.pfn + r.nr <= t.pfn \/ t.pfn + t.nr <= r.pfn
  <2>1. CASE r \in taken /\ t \in taken
    BY <2>1 DEF BitmapInv
  <2>2. CASE r = new /\ t \in taken
    BY <1>1, <1>2, <2>2
  <2>3. CASE t = new /\ r \in taken
    BY <1>1, <1>2, <2>3
  <2> QED
    BY <1>3, <2>1, <2>2, <2>3
<1> QED
  BY <1>4, <1>5, <1>6 DEF BitmapInv

\* Giving a range back keeps it.
LEMMA GiveRange ==
    ASSUME BitmapInv, NEW g \in taken,
           bits' = bits \ PfnRange(g.pfn, g.nr, NrBits),
           taken' = taken \ {g}
    PROVE  BitmapInv'
<1>1. (taken \subseteq [pfn : Nat, nr : Nat \ {0}])'
  BY DEF BitmapInv
<1>2. ASSUME NEW r \in taken'
      PROVE  r.pfn .. r.pfn + r.nr - 1 \subseteq bits' \cap (0 .. NrBits - 1)
  <2>1. /\ r \in taken /\ r # g
        /\ r.pfn \in Nat /\ r.nr \in Nat \ {0} /\ g.pfn \in Nat /\ g.nr \in Nat \ {0}
        /\ r.pfn + r.nr <= g.pfn \/ g.pfn + g.nr <= r.pfn
        /\ r.pfn .. r.pfn + r.nr - 1 \subseteq bits \cap (0 .. NrBits - 1)
    BY DEF BitmapInv
  <2>2. ASSUME NEW x \in r.pfn .. r.pfn + r.nr - 1 PROVE x \notin PfnRange(g.pfn, g.nr, NrBits)
    BY <2>1 DEF PfnRange
  <2> QED
    BY <2>1, <2>2
<1>3. ASSUME NEW r \in taken', NEW t \in taken'
      PROVE  r = t \/ r.pfn + r.nr <= t.pfn \/ t.pfn + t.nr <= r.pfn
  BY DEF BitmapInv
<1> QED
  BY <1>1, <1>2, <1>3 DEF BitmapInv

\* The four operations keep it.
LEMMA BitmapSteps ==
    ASSUME BitmapInv, [BitmapNext]_bitmapVars PROVE BitmapInv'
<1> DEFINE clear == (0 .. NrBits - 1) \ bits
<1>1. NrBits \in Nat /\ MaxRange \in Nat
  BY BitmapConstants
<1>2. CASE mem_bitmap_alloc_page
  <2>1. PICK p : p = bitmap_find_free(bits, NrBits)
    OBVIOUS
  <2>2. p # NoPfn /\ bits' = bits \cup {p} /\ taken' = taken \cup {[pfn |-> p, nr |-> 1]}
    BY <1>2, <2>1 DEF mem_bitmap_alloc_page
  <2>3. p = lowest(clear)
    BY <1>1, <2>1, PageFound
  <2>4. p \in clear
    <3>1. clear \in SUBSET Nat
      OBVIOUS
    <3> HIDE DEF clear
    <3> QED
      BY <2>2, <2>3, <3>1, MinIn DEF lowest
  <2>5. PICK n : n = 1
    OBVIOUS
  <2>6. p \in Nat /\ n \in Nat \ {0} /\ p .. p + n - 1 = {p}
    BY <2>4, <2>5
  <2>7. /\ p .. p + n - 1 \subseteq (0 .. NrBits - 1) \ bits
        /\ bits' = bits \cup (p .. p + n - 1)
        /\ taken' = taken \cup {[pfn |-> p, nr |-> n]}
    BY <2>2, <2>4, <2>5, <2>6
  <2> QED
    BY <2>6, <2>7, TakeRange
<1>3. ASSUME NEW n \in 1 .. MaxRange, mem_bitmap_alloc_pages(n) PROVE BitmapInv'
  <2> DEFINE starts == {q \in clear : q .. q + n - 1 \subseteq clear}
  <2>1. PICK p : p = bitmap_find_free_range(bits, n, NrBits)
    OBVIOUS
  <2>2. /\ p # NoPfn /\ bits' = bits \cup PfnRange(p, n, NrBits)
        /\ taken' = taken \cup {[pfn |-> p, nr |-> n]}
    BY <1>3, <2>1 DEF mem_bitmap_alloc_pages, bitmap_set_range
  <2>3. p = lowest(starts)
    <3>1. n \in Nat \ {0}
      BY <1>1
    <3>2. bitmap_find_free_range(bits, n, NrBits) = lowest(starts)
      BY <1>1, <3>1, RangeFound
    <3> QED
      BY <2>1, <3>2
  <2>4. p \in starts
    <3>1. starts \in SUBSET Nat
      OBVIOUS
    <3> HIDE DEF starts
    <3> QED
      BY <2>2, <2>3, <3>1, MinIn DEF lowest
  <2>5. p \in Nat /\ p .. p + n - 1 \subseteq clear
    BY <2>4
  <2>6. PfnRange(p, n, NrBits) = p .. p + n - 1
    BY <1>1, <2>5 DEF PfnRange
  <2> QED
    BY <2>2, <2>5, <2>6, TakeRange
<1>4. ASSUME NEW r \in taken, mem_bitmap_free_page(r) PROVE BitmapInv'
  BY <1>4, GiveRange DEF mem_bitmap_free_page
<1>5. ASSUME NEW r \in taken, mem_bitmap_free_pages(r) PROVE BitmapInv'
  BY <1>5, GiveRange DEF mem_bitmap_free_pages, bitmap_clear_range
<1>6. CASE UNCHANGED bitmapVars
  BY <1>6 DEF BitmapInv, bitmapVars
<1> QED
  BY <1>2, <1>3, <1>4, <1>5, <1>6 DEF BitmapNext

\* For every size of word, of bitmap and of request, the ranges that bitmap.c has
\* handed out never overlap and stay set, and its two searches answer the lowest
\* page and the lowest run of pages whenever there is one.
THEOREM BitmapCorrect == BitmapSpec => []BitmapExact
<1>1. BitmapInit => BitmapInv
  BY DEF BitmapInit, BitmapInv
<1>2. BitmapInv /\ [BitmapNext]_bitmapVars => BitmapInv'
  BY BitmapSteps
<1>3. BitmapInv => BitmapExact
  <2> SUFFICES ASSUME BitmapInv PROVE BitmapExact
    OBVIOUS
  <2>1. NrBits \in Nat /\ MaxRange \in Nat
    BY BitmapConstants
  <2>2. bitmap_find_free(bits, NrBits) = lowest((0 .. NrBits - 1) \ bits)
    BY <2>1, PageFound
  <2>3. ASSUME NEW n \in 1 .. MaxRange
        PROVE  LET clear == (0 .. NrBits - 1) \ bits
                   starts == {p \in clear : p .. p + n - 1 \subseteq clear}
               IN  bitmap_find_free_range(bits, n, NrBits) = lowest(starts)
    BY <2>1, RangeFound
  <2> QED
    BY <2>2, <2>3 DEF BitmapExact, BitmapInv, lowest
<1> QED
  BY <1>1, <1>2, <1>3, PTL DEF BitmapSpec
=============================================================================
