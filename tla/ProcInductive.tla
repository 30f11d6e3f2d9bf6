---------------------------- MODULE ProcInductive ---------------------------
(***************************************************************************)
(* The inductive invariant of Proc, the lemmas about lists of children and *)
(* PIDs, and the steps that start a process, replace its address space or  *)
(* only give the CPU away.                                                 *)
(***************************************************************************)
EXTENDS Proc, WellFoundedInduction, TLAPS

-----------------------------------------------------------------------------
(* The inductive invariant.  That reaping a zombie leaves nobody with a      *)
(* dangling parent needs the lists of children to be right and the zombie's  *)
(* to be empty; that init is there to inherit needs to know who is a child   *)
(* of whom; and which page tables are loaded depends on who runs.  Where the *)
(* boot code does not register init, orphans keep a parent that may be gone: *)
(* what rests on a parent's being there is claimed only while Tended.        *)

Distinct(q) == \A i, j \in 1..Len(q) : q[i] = q[j] => i = j

\* Nobody can be orphaned: init is registered, or nothing has been started.
Tended == init_process # Null \/ ~booted

\* What a process that exists looks like.
Shape ==
    \A p \in Procs : Live(p) =>
        /\ pid[p] # 0
        /\ parent[p] # p
        /\ wait_channel[p] \in {Null, p}
        /\ kthread[p] => /\ parent[p] = Null
                         /\ children[p] = <<>>
                         /\ mm[p] = Null
                         /\ wait_channel[p] = Null
        /\ ~kthread[p] => /\ booted
                          /\ mm[p] = Null <=> state[p] = "ZOMBIE"
        /\ state[p] = "ZOMBIE" => wait_channel[p] = Null
        /\ state[p] = "INTERRUPTIBLE" => wait_channel[p] = p

\* Who runs, and that init exists from when it is started.
Anchors ==
    /\ current # Idle => state[current] = "RUNNING"
    /\ init_process # Null => /\ booted
                              /\ Live(init_process)
                              /\ parent[init_process] = Null
                              /\ ~kthread[init_process]

\* A list of children holds only children, each once.
Lists ==
    \A p \in Procs : Live(p) =>
        /\ \A c \in Members(children[p]) : Live(c) /\ parent[c] = p
        /\ Distinct(children[p])

\* ... and all of them.
Listed ==
    Tended => \A p, c \in Procs :
                 Live(p) /\ Live(c) /\ parent[c] = p => c \in Members(children[p])

\* A parent exists, and has not exited unless it is init.
Reapable ==
    Tended => \A c \in Procs : Live(c) /\ parent[c] # Null =>
                 /\ Live(parent[c])
                 /\ state[parent[c]] = "ZOMBIE" => parent[c] = init_process

\* A process that exited has given its children away.
Childless ==
    Tended => \A p \in Procs :
                 state[p] = "ZOMBIE" => p = init_process \/ children[p] = <<>>

IInv ==
    /\ TypeOK
    /\ Shape
    /\ Anchors
    /\ Lists
    /\ Listed
    /\ Reapable
    /\ Childless
    /\ NoMissedExit
    /\ PidsExact
    /\ SpacesOwned
    /\ LoadedSpaceExists

-----------------------------------------------------------------------------
(* Lists of children *)

\* A list is empty when it has no members.
LEMMA EmptyList ==
    ASSUME NEW q \in Seq(Procs)
    PROVE  /\ Members(q) \subseteq Procs
           /\ q = <<>> <=> Members(q) = {}
           /\ Distinct(<<>>)
           /\ <<>> \in Seq(Procs)
<1>1. q = <<>> => Members(q) = {}
  BY DEF Members
<1>2. q # <<>> => q[1] \in Members(q)
  BY DEF Members
<1>3. Distinct(<<>>)
  BY DEF Distinct
<1>4. Members(q) \subseteq Procs
  BY DEF Members
<1>5. QED  BY <1>1, <1>2, <1>3, <1>4

\* list_add_tail adds one member.
LEMMA AppendList ==
    ASSUME NEW q \in Seq(Procs), NEW c \in Procs
    PROVE  /\ Append(q, c) \in Seq(Procs)
           /\ Members(Append(q, c)) = Members(q) \cup {c}
           /\ Distinct(q) /\ c \notin Members(q) => Distinct(Append(q, c))
  BY DEF Members, Distinct

\* list_del takes the one member away.
LEMMA WithoutList ==
    ASSUME NEW q \in Seq(Procs), NEW c \in Members(q), Distinct(q)
    PROVE  /\ Without(q, c) \in Seq(Procs)
           /\ Members(Without(q, c)) = Members(q) \ {c}
           /\ Distinct(Without(q, c))
<1> DEFINE n == CHOOSE k \in 1..Len(q) : q[k] = c
           w == Without(q, c)
<1>1. n \in 1..Len(q) /\ q[n] = c /\ Len(q) \in Nat
  BY DEF Members
<1>2. w = [k \in 1..(Len(q) - 1) |-> IF k < n THEN q[k] ELSE q[k + 1]]
  BY DEF Without
<1> HIDE DEF n, w
<1>3. w \in Seq(Procs) /\ Len(w) = Len(q) - 1
  <2>1. \A k \in 1..(Len(q) - 1) : (IF k < n THEN q[k] ELSE q[k + 1]) \in Procs
    BY <1>1
  <2>2. Len(q) - 1 \in Nat
    BY <1>1
  <2>3. QED  BY <1>2, <2>1, <2>2
<1>4. \A k \in 1..Len(w) : w[k] = IF k < n THEN q[k] ELSE q[k + 1]
  BY <1>2, <1>3
<1>5. ASSUME NEW x \in Members(q), x # c  PROVE x \in Members(w)
  <2>1. PICK i \in 1..Len(q) : x = q[i]
    BY DEF Members
  <2>2. CASE i < n
    BY <1>1, <1>3, <1>4, <2>1, <2>2 DEF Members
  <2>3. CASE i > n
    <3>1. i - 1 \in 1..Len(w) /\ w[i - 1] = q[i]
      BY <1>1, <1>3, <1>4, <2>3
    <3>2. QED  BY <2>1, <3>1 DEF Members
  <2>4. QED  BY <1>1, <1>5, <2>1, <2>2, <2>3
<1>6. ASSUME NEW k \in 1..Len(w)  PROVE w[k] \in Members(q) /\ w[k] # c
  BY <1>1, <1>3, <1>4 DEF Members, Distinct
<1>7. Members(w) = Members(q) \ {c}
  <2>1. Members(w) \subseteq Members(q) \ {c}
    BY <1>6 DEF Members
  <2>2. QED  BY <1>5, <2>1
<1>8. Distinct(w)
  <2>1. ASSUME NEW i \in 1..Len(w), NEW j \in 1..Len(w), w[i] = w[j]  PROVE i = j
    BY <1>1, <1>3, <1>4, <2>1 DEF Distinct
  <2>2. QED  BY <2>1 DEF Distinct
<1>9. QED  BY <1>3, <1>7, <1>8 DEF w

\* The lists of an exiting process and of init, one after the other.
LEMMA ConcatList ==
    ASSUME NEW q \in Seq(Procs), NEW r \in Seq(Procs)
    PROVE  /\ q \o r \in Seq(Procs)
           /\ Members(q \o r) = Members(q) \cup Members(r)
           /\ Distinct(q) /\ Distinct(r) /\ Members(q) \cap Members(r) = {}
                 => Distinct(q \o r)
<1>1. /\ q \o r \in Seq(Procs)
      /\ Len(q) \in Nat /\ Len(r) \in Nat
      /\ Len(q \o r) = Len(q) + Len(r)
  OBVIOUS
<1>2. /\ \A i \in 1..Len(q) : (q \o r)[i] = q[i]
      /\ \A i \in 1..Len(r) : (q \o r)[Len(q) + i] = r[i]
  OBVIOUS
<1>3. \A i \in 1..Len(q \o r) : \/ i \in 1..Len(q) /\ (q \o r)[i] = q[i]
                                \/ /\ i \notin 1..Len(q)
                                   /\ i - Len(q) \in 1..Len(r)
                                   /\ (q \o r)[i] = r[i - Len(q)]
  BY <1>1, <1>2
<1> DEFINE w == q \o r
<1> HIDE DEF w
<1>4. Members(w) = Members(q) \cup Members(r)
  <2>1. Members(w) \subseteq Members(q) \cup Members(r)
    BY <1>3 DEF Members, w
  <2>2. \A i \in 1..Len(q) : i \in 1..Len(w)
    BY <1>1 DEF w
  <2>3. \A i \in 1..Len(r) : Len(q) + i \in 1..Len(w)
    BY <1>1 DEF w
  <2>4. Members(q) \cup Members(r) \subseteq Members(w)
    BY <1>2, <2>2, <2>3 DEF Members, w
  <2>5. QED  BY <2>1, <2>4
<1>5. ASSUME Distinct(q), Distinct(r), Members(q) \cap Members(r) = {}
      PROVE  Distinct(w)
  <2>1. \A i \in 1..Len(q), j \in 1..Len(r) : q[i] # r[j]
    BY <1>5 DEF Members
  <2>2. ASSUME NEW i \in 1..Len(w), NEW j \in 1..Len(w), w[i] = w[j]  PROVE i = j
    BY <1>1, <1>3, <1>5, <2>1, <2>2 DEF Distinct, w
  <2>3. QED  BY <2>2 DEF Distinct
<1>6. QED  BY <1>1, <1>4, <1>5 DEF w

-----------------------------------------------------------------------------
(* PIDs *)

\* A set of PIDs that is not empty has a least one.
LEMMA LeastPid ==
    ASSUME NEW S \in SUBSET Nat, S # {}
    PROVE  \E m \in S : \A o \in S : m <= o
<1> DEFINE less == OpToRel(<, Nat)
<1>1. IsWellFoundedOn(less, Nat)
  BY NatLessThanWellFounded
<1>2. \A x, y \in Nat : x < y => <<x, y>> \in less
  BY DEF OpToRel
<1> HIDE DEF less
<1>3. PICK m \in S : \A y \in S : ~(<<y, m>> \in less)
  BY <1>1, WFMin
<1>4. ASSUME NEW o \in S  PROVE m <= o
  <2>1. o \in Nat /\ m \in Nat /\ ~(o < m)
    BY <1>2, <1>3
  <2>2. QED  BY <2>1
<1>5. QED  BY <1>4

\* alloc_pid finds a PID that is free, unless there is none.
LEMMA AllocPidFinds ==
    ASSUME NEW b \in SUBSET (0..(PidMax - 1)), NEW n \in 1..(PidMax - 1), 0 \in b
    PROVE  \/ AllocPid(b, n) = -1 /\ b = 0..(PidMax - 1)
           \/ AllocPid(b, n) \in 1..(PidMax - 1) /\ AllocPid(b, n) \notin b
<1> DEFINE above == {i \in n..(PidMax - 1) : i \notin b}
           below == {i \in 1..(n - 1) : i \notin b}
           Lowest(S) == CHOOSE i \in S : \A j \in S : i <= j
<1>1. PidMax \in Nat
  BY ProcAssumption
<1>2. above \in SUBSET Nat /\ below \in SUBSET Nat
  BY <1>1
<1>3. AllocPid(b, n) = IF above # {} THEN Lowest(above)
                       ELSE IF below # {} THEN Lowest(below) ELSE -1
  BY DEF AllocPid
<1>4. above # {} => Lowest(above) \in above
  BY <1>2, LeastPid
<1>5. below # {} => Lowest(below) \in below
  BY <1>2, LeastPid
<1>6. ASSUME above = {}, below = {}  PROVE b = 0..(PidMax - 1)
  <2>1. ASSUME NEW i \in 0..(PidMax - 1), i \notin b  PROVE FALSE
    <3>1. i \in n..(PidMax - 1) \/ i \in 1..(n - 1)
      BY <1>1, <2>1
    <3>2. QED  BY <1>6, <2>1, <3>1
  <2>2. QED  BY <2>1
<1>7. \A i \in above \cup below : i \in 1..(PidMax - 1) /\ i \notin b
  BY <1>1
<1> HIDE DEF above, below, Lowest
<1>8. CASE above # {}
  BY <1>3, <1>4, <1>7, <1>8
<1>9. CASE above = {} /\ below # {}
  BY <1>3, <1>5, <1>7, <1>9
<1>10. CASE above = {} /\ below = {}
  BY <1>3, <1>6, <1>10
<1>11. QED  BY <1>8, <1>9, <1>10

-----------------------------------------------------------------------------
\* process_init and sched_init establish the invariant.
LEMMA InitInv ==
    Init => IInv
<1> SUFFICES ASSUME Init  PROVE IInv
  OBVIOUS
<1> USE ProcAssumption DEF Init
<1>1. TypeOK
  <2>1. [p \in Procs |-> <<>>] \in [Procs -> Seq(Procs)]
    OBVIOUS
  <2>2. pid_bitmap \subseteq 0..(PidMax - 1) /\ next_pid \in 1..(PidMax - 1)
        /\ 0 \in 0..(PidMax - 1)
    OBVIOUS
  <2>3. QED  BY <2>1, <2>2 DEF TypeOK, States
<1>2. \A p \in Procs : ~Live(p)
  BY DEF Live
<1>3. Shape /\ Anchors /\ Lists /\ Listed /\ Reapable /\ Childless
  BY <1>2 DEF Shape, Anchors, Lists, Listed, Reapable, Childless, Live
<1>4. NoMissedExit
  BY DEF NoMissedExit, Overlooks
<1>5. PidsExact
  <2>1. pid_bitmap = {0} \cup {pid[p] : p \in {q \in Procs : Live(q)}}
    BY <1>2
  <2>2. 1 \in 0..(PidMax - 1) /\ 1 \notin pid_bitmap
    OBVIOUS
  <2>3. pid_bitmap # 0..(PidMax - 1)
    BY <2>2
  <2>4. pid_bitmap \in SUBSET (0..(PidMax - 1)) /\ next_pid \in 1..(PidMax - 1)
        /\ 0 \in pid_bitmap
    OBVIOUS
  <2>5. NewPid \in 1..(PidMax - 1)
    BY <2>3, <2>4, AllocPidFinds DEF NewPid
  <2>6. NewPid # -1
    BY <2>5
  <2>7. QED  BY <1>2, <2>1, <2>3, <2>6 DEF PidsExact
<1>6. SpacesOwned
  BY <1>2 DEF SpacesOwned, Live
<1>7. LoadedSpaceExists
  BY DEF LoadedSpaceExists
<1>8. QED  BY <1>1, <1>3, <1>4, <1>5, <1>6, <1>7 DEF IInv

-----------------------------------------------------------------------------
(* What alloc_pid gives in a state that satisfies the invariant, and the     *)
(* consequence for the bitmap whatever happens next.                         *)

\* A new PID is free.
LEMMA NewPidFresh ==
    ASSUME TypeOK, PidsExact, NewPid # -1
    PROVE  /\ NewPid \in 1..(PidMax - 1)
           /\ NewPid \notin pid_bitmap
           /\ PidAfter(NewPid) \in 1..(PidMax - 1)
<1>1. 0 \in pid_bitmap
  BY DEF PidsExact
<1>2. NewPid \in 1..(PidMax - 1) /\ NewPid \notin pid_bitmap
  BY <1>1, AllocPidFinds DEF NewPid, TypeOK
<1>3. QED  BY <1>2, ProcAssumption DEF PidAfter

\* The last part of PidsExact holds wherever the bitmap and next_pid have their
\* types.
LEMMA PidSearchComplete ==
    ASSUME NEW b \in SUBSET (0..(PidMax - 1)), NEW n \in 1..(PidMax - 1), 0 \in b
    PROVE  AllocPid(b, n) = -1 <=> b = 0..(PidMax - 1)
<1>1. CASE AllocPid(b, n) = -1 /\ b = 0..(PidMax - 1)
  BY <1>1
<1>2. CASE AllocPid(b, n) \in 1..(PidMax - 1) /\ AllocPid(b, n) \notin b
  <2>1. AllocPid(b, n) # -1 /\ AllocPid(b, n) \in 0..(PidMax - 1)
    BY <1>2, ProcAssumption
  <2>2. QED  BY <1>2, <2>1
<1>3. QED  BY <1>1, <1>2, AllocPidFinds

-----------------------------------------------------------------------------
(* Starting processes *)

\* What kthread_create, the start of init and process_fork have in common: a new
\* process c with parent p or none, which is a kernel thread or has the new
\* address space m.
Born(c, p, m, kernel) ==
    /\ Create(c, p, m, kernel)
    /\ kernel \in BOOLEAN
    /\ kernel => p = Null /\ m = Null
    /\ ~kernel => m \in Spaces \ spaces
    /\ p # Null => p = current /\ InUser
    /\ children' = LET ch == [children EXCEPT ![c] = <<>>] IN
                   IF p = Null THEN ch ELSE Link(ch, p, c)
    /\ spaces' = IF kernel THEN spaces ELSE spaces \cup {m}
    /\ \/ UNCHANGED bootVars /\ (~kernel => booted)
       \/ ~booted /\ booted' /\ init_process' \in {c, Null} /\ ~kernel /\ p = Null

\* The new process was nothing to anybody.
LEMMA NewIsUnknown ==
    ASSUME IInv, NEW c \in Procs, state[c] = "free"
    PROVE  /\ Tended => \A x \in Procs : Live(x) => parent[x] # c
           /\ \A x \in Procs : Live(x) => c \notin Members(children[x])
           /\ init_process # c
           /\ current # c
<1>1. ~Live(c)
  BY DEF Live
<1>2. Tended => \A x \in Procs : Live(x) => parent[x] # c
  BY <1>1, ProcAssumption DEF IInv, Reapable
<1>3. \A x \in Procs : Live(x) => c \notin Members(children[x])
  BY <1>1 DEF IInv, Lists
<1>4. init_process # c /\ current # c
  BY <1>1, ProcAssumption DEF IInv, Anchors
<1>5. QED  BY <1>2, <1>3, <1>4

\* The effect of a birth, field by field.
LEMMA BornFields ==
    ASSUME IInv, NEW c \in Procs, NEW p, NEW m, NEW kernel, Born(c, p, m, kernel)
    PROVE  /\ state[c] = "free"
           /\ p = Null \/ (p \in Procs /\ p = current /\ p # c /\ ~kthread[p]
                             /\ Live(p) /\ state[p] = "RUNNING")
           /\ \A x \in Procs : x # c => /\ state'[x] = state[x]
                                        /\ wait_channel'[x] = wait_channel[x]
                                        /\ kthread'[x] = kthread[x]
                                        /\ pid'[x] = pid[x]
                                        /\ parent'[x] = parent[x]
                                        /\ mm'[x] = mm[x]
                                        /\ x # p => children'[x] = children[x]
           /\ state'[c] = "RUNNING" /\ wait_channel'[c] = Null
           /\ kthread'[c] = kernel /\ pid'[c] = NewPid /\ parent'[c] = p
           /\ mm'[c] = m /\ children'[c] = <<>>
           /\ p # Null => children'[p] = Append(children[p], c)
           /\ children' \in [Procs -> Seq(Procs)]
<1>1. TypeOK /\ state[c] = "free"
  BY DEF Born, Create, IInv
<1>2. current # c
  BY <1>1, NewIsUnknown
<1>3. p # Null => p \in Procs /\ p = current /\ p # c /\ ~kthread[p]
                  /\ Live(p) /\ state[p] = "RUNNING"
  BY <1>2, ProcAssumption DEF Born, InUser, Executing, IInv, Anchors, Live
<1>4. /\ \A x \in Procs : x # c => /\ state'[x] = state[x]
                                   /\ wait_channel'[x] = wait_channel[x]
                                   /\ kthread'[x] = kthread[x]
                                   /\ pid'[x] = pid[x]
                                   /\ parent'[x] = parent[x]
                                   /\ mm'[x] = mm[x]
      /\ state'[c] = "RUNNING" /\ wait_channel'[c] = Null
      /\ kthread'[c] = kernel /\ pid'[c] = NewPid /\ parent'[c] = p
      /\ mm'[c] = m
  BY <1>1 DEF Born, Create, TypeOK
<1> DEFINE ch == [children EXCEPT ![c] = <<>>]
<1>5. /\ ch \in [Procs -> Seq(Procs)]
      /\ ch[c] = <<>>
      /\ \A x \in Procs : x # c => ch[x] = children[x]
  BY <1>1 DEF TypeOK
<1>6. children' = IF p = Null THEN ch ELSE [ch EXCEPT ![p] = Append(ch[p], c)]
  BY DEF Born, Link
<1> HIDE DEF ch
<1>7. /\ children' \in [Procs -> Seq(Procs)]
      /\ children'[c] = <<>>
      /\ \A x \in Procs : x # c /\ x # p => children'[x] = children[x]
      /\ p # Null => children'[p] = Append(children[p], c)
  <2>1. CASE p = Null
    BY <1>5, <1>6, <2>1
  <2>2. CASE p # Null
    <3>1. Append(ch[p], c) \in Seq(Procs) /\ ch[p] = children[p]
      BY <1>3, <1>5, <2>2
    <3>2. QED  BY <1>3, <1>5, <1>6, <2>2, <3>1
  <2>3. QED  BY <2>1, <2>2
<1>8. QED  BY <1>1, <1>3, <1>4, <1>7

\* A birth keeps the invariant.
LEMMA BornInv ==
    ASSUME IInv, NEW c \in Procs, NEW p, NEW m, NEW kernel, Born(c, p, m, kernel)
    PROVE  IInv'
<1>1. /\ state[c] = "free"
      /\ p = Null \/ (p \in Procs /\ p = current /\ p # c /\ ~kthread[p]
                        /\ Live(p) /\ state[p] = "RUNNING")
      /\ \A x \in Procs : x # c => /\ state'[x] = state[x]
                                   /\ wait_channel'[x] = wait_channel[x]
                                   /\ kthread'[x] = kthread[x]
                                   /\ pid'[x] = pid[x]
                                   /\ parent'[x] = parent[x]
                                   /\ mm'[x] = mm[x]
                                   /\ x # p => children'[x] = children[x]
      /\ state'[c] = "RUNNING" /\ wait_channel'[c] = Null
      /\ kthread'[c] = kernel /\ pid'[c] = NewPid /\ parent'[c] = p
      /\ mm'[c] = m /\ children'[c] = <<>>
      /\ p # Null => children'[p] = Append(children[p], c)
      /\ children' \in [Procs -> Seq(Procs)]
  BY BornFields
<1>2. /\ Tended => \A x \in Procs : Live(x) => parent[x] # c
      /\ \A x \in Procs : Live(x) => c \notin Members(children[x])
      /\ init_process # c
      /\ current # c
  BY <1>1, NewIsUnknown
<1>3. /\ TypeOK /\ Shape /\ Anchors /\ Lists /\ Listed /\ Reapable /\ Childless
      /\ NoMissedExit /\ PidsExact /\ SpacesOwned /\ LoadedSpaceExists
  BY DEF IInv
<1>4. /\ NewPid \in 1..(PidMax - 1) /\ NewPid \notin pid_bitmap
      /\ PidAfter(NewPid) \in 1..(PidMax - 1)
  BY <1>3, NewPidFresh DEF Born, Create
<1>5. /\ pid_bitmap' = pid_bitmap \cup {NewPid} /\ next_pid' = PidAfter(NewPid)
      /\ current' = current /\ cr3' = cr3
      /\ kernel \in BOOLEAN
      /\ kernel => p = Null /\ m = Null
      /\ ~kernel => m \in Spaces \ spaces
      /\ spaces' = IF kernel THEN spaces ELSE spaces \cup {m}
      /\ \/ /\ init_process' = init_process /\ booted' = booted
            /\ ~kernel => booted
         \/ ~booted /\ booted' /\ init_process' \in {c, Null} /\ ~kernel /\ p = Null
  BY DEF Born, Create, bootVars
<1>6. c # Null /\ Null \notin Spaces /\ ~Live(c)
  BY <1>1, ProcAssumption DEF Live
<1>7. Live(c)' /\ \A x \in Procs : x # c => (Live(x)' <=> Live(x))
  BY <1>1 DEF Live
<1>8. TypeOK'
  <2>1. /\ state' \in [Procs -> States] /\ kthread' \in [Procs -> BOOLEAN]
        /\ wait_channel' \in [Procs -> Procs \cup {Null}]
    BY <1>3, <1>5 DEF Born, Create, TypeOK, States
  <2>2. pid' \in [Procs -> 0..(PidMax - 1)]
    <3>1. NewPid \in 0..(PidMax - 1)
      BY <1>4, ProcAssumption
    <3>2. QED  BY <1>3, <3>1 DEF Born, Create, TypeOK
  <2>3. /\ parent' \in [Procs -> Procs \cup {Null}]
        /\ mm' \in [Procs -> Spaces \cup {Null}]
    <3>1. p \in Procs \cup {Null} /\ m \in Spaces \cup {Null}
      BY <1>1, <1>5
    <3>2. QED  BY <1>3, <3>1 DEF Born, Create, TypeOK
  <2>4. pid_bitmap' \subseteq 0..(PidMax - 1) /\ next_pid' \in 1..(PidMax - 1)
    BY <1>3, <1>4, <1>5, ProcAssumption DEF TypeOK
  <2>5. /\ init_process' \in Procs \cup {Null} /\ booted' \in BOOLEAN
        /\ current' \in Procs \cup {Idle} /\ cr3' \in Spaces \cup {KernelSpace}
        /\ spaces' \subseteq Spaces
    BY <1>3, <1>5 DEF TypeOK
  <2>6. QED  BY <1>1, <2>1, <2>2, <2>3, <2>4, <2>5 DEF TypeOK
<1>9. Shape'
  <2> SUFFICES ASSUME NEW x \in Procs, Live(x)'
               PROVE  (/\ pid[x] # 0
                       /\ parent[x] # x
                       /\ wait_channel[x] \in {Null, x}
                       /\ kthread[x] => /\ parent[x] = Null
                                        /\ children[x] = <<>>
                                        /\ mm[x] = Null
                                        /\ wait_channel[x] = Null
                       /\ ~kthread[x] => /\ booted
                                         /\ mm[x] = Null <=> state[x] = "ZOMBIE"
                       /\ state[x] = "ZOMBIE" => wait_channel[x] = Null
                       /\ state[x] = "INTERRUPTIBLE" => wait_channel[x] = x)'
    BY DEF Shape
  <2>1. CASE x = c
    BY <1>1, <1>4, <1>5, <1>6, <2>1
  <2>2. CASE x # c
    <3>1. /\ Live(x) /\ state'[x] = state[x] /\ wait_channel'[x] = wait_channel[x]
          /\ kthread'[x] = kthread[x] /\ pid'[x] = pid[x]
          /\ parent'[x] = parent[x] /\ mm'[x] = mm[x]
      BY <1>1, <1>7, <2>2
    <3>2. booted => booted'
      BY <1>5
    <3>3. x # p => children'[x] = children[x]
      BY <1>1, <2>2
    <3>4. x = p => ~kthread[x] /\ state[x] = "RUNNING"
      BY <1>1, ProcAssumption
    <3>5. /\ pid[x] # 0
          /\ parent[x] # x
          /\ wait_channel[x] \in {Null, x}
          /\ state[x] = "INTERRUPTIBLE" => wait_channel[x] = x
      BY <1>3, <3>1 DEF Shape
    <3>6. kthread[x] => /\ parent[x] = Null
                        /\ children[x] = <<>>
                        /\ mm[x] = Null
                        /\ wait_channel[x] = Null
      BY <1>3, <3>1 DEF Shape
    <3>7. ~kthread[x] => booted /\ (mm[x] = Null <=> state[x] = "ZOMBIE")
      BY <1>3, <3>1 DEF Shape
    <3>8. state[x] = "ZOMBIE" => wait_channel[x] = Null
      BY <1>3, <3>1 DEF Shape
    <3>9. QED  BY <3>1, <3>2, <3>3, <3>4, <3>5, <3>6, <3>7, <3>8
  <2>3. QED  BY <2>1, <2>2
<1>10. Anchors'
  <2>1. (current # Idle => state[current] = "RUNNING")'
    BY <1>1, <1>2, <1>3, <1>5 DEF Anchors, TypeOK
  <2>2. CASE init_process' = Null
    BY <2>1, <2>2 DEF Anchors
  <2>3. CASE init_process' = c
    <3>1. booted' /\ ~kernel /\ p = Null
      BY <1>2, <1>5, <2>3
    <3>2. QED  BY <1>1, <1>7, <2>1, <2>3, <3>1 DEF Anchors
  <2>4. CASE init_process' = init_process /\ init_process # Null
    <3>1. /\ booted /\ Live(init_process) /\ parent[init_process] = Null
          /\ ~kthread[init_process] /\ init_process \in Procs
      BY <1>3, <2>4 DEF Anchors, TypeOK
    <3>2. booted'
      BY <1>5, <3>1
    <3>3. QED  BY <1>1, <1>2, <1>7, <2>1, <2>4, <3>1, <3>2 DEF Anchors
  <2>5. QED  BY <1>5, <2>2, <2>3, <2>4
<1>11. /\ Tended' => Tended
       /\ init_process # Null => init_process' = init_process
  BY <1>3, <1>5 DEF Tended, Anchors
<1>12. Lists'
  <2> SUFFICES ASSUME NEW x \in Procs, Live(x)'
               PROVE  (/\ \A y \in Members(children[x]) : Live(y) /\ parent[y] = x
                       /\ Distinct(children[x]))'
    BY DEF Lists
  <2>1. CASE x = c
    <3>1. Members(<<>>) = {} /\ Distinct(<<>>)
      BY DEF Members, Distinct
    <3>2. QED  BY <1>1, <2>1, <3>1
  <2>2. CASE x # c
    <3>1. Live(x) /\ children[x] \in Seq(Procs)
      BY <1>3, <1>7, <2>2 DEF TypeOK
    <3>2. /\ \A y \in Members(children[x]) : Live(y) /\ parent[y] = x
          /\ Distinct(children[x]) /\ c \notin Members(children[x])
          /\ Members(children[x]) \subseteq Procs
      BY <1>2, <1>3, <3>1, EmptyList DEF Lists
    <3>3. \A y \in Members(children[x]) : Live(y)' /\ parent'[y] = x
      BY <1>1, <1>7, <3>2
    <3>4. CASE x # p
      BY <1>1, <2>2, <3>2, <3>3, <3>4
    <3>5. CASE x = p
      <4>1. children'[x] = Append(children[x], c)
        BY <1>1, <3>5, ProcAssumption
      <4>2. Members(children'[x]) = Members(children[x]) \cup {c}
            /\ Distinct(children'[x])
        BY <3>1, <3>2, <4>1, AppendList
      <4>3. Live(c)' /\ parent'[c] = x
        BY <1>1, <1>7, <3>5
      <4>4. QED  BY <3>3, <4>2, <4>3
    <3>6. QED  BY <3>4, <3>5
  <2>3. QED  BY <2>1, <2>2
<1>13. Listed'
  <2> SUFFICES ASSUME Tended', NEW x \in Procs, NEW y \in Procs,
                      Live(x)', Live(y)', parent'[y] = x
               PROVE  y \in Members(children'[x])
    BY DEF Listed
  <2>1. x = p => /\ children[x] \in Seq(Procs)
                 /\ children'[x] = Append(children[x], c)
                 /\ c \notin Members(children[x]) /\ Distinct(children[x])
    BY <1>1, <1>2, <1>3, ProcAssumption DEF TypeOK, Lists
  <2>2. x = p => Members(children'[x]) = Members(children[x]) \cup {c}
    BY <2>1, AppendList
  <2>3. CASE y = c
    BY <1>1, <2>2, <2>3
  <2>4. CASE y # c
    <3>1. Live(y) /\ parent[y] = x
      BY <1>1, <1>7, <2>4
    <3>2. x # c
      BY <1>2, <1>11, <3>1
    <3>3. Live(x)
      BY <1>7, <3>2
    <3>4. y \in Members(children[x])
      BY <1>3, <1>11, <3>1, <3>3 DEF Listed
    <3>5. QED  BY <1>1, <2>2, <3>2, <3>4
  <2>5. QED  BY <2>3, <2>4
<1>14. Reapable'
  <2> SUFFICES ASSUME Tended', NEW x \in Procs, Live(x)', parent'[x] # Null
               PROVE  (/\ Live(parent[x])
                       /\ state[parent[x]] = "ZOMBIE" => parent[x] = init_process)'
    BY DEF Reapable
  <2>1. CASE x = c
    BY <1>1, <1>7, <2>1 DEF Live
  <2>2. CASE x # c
    <3>1. Live(x) /\ parent'[x] = parent[x] /\ parent[x] \in Procs /\ parent[x] # c
      BY <1>1, <1>2, <1>3, <1>7, <1>11, <2>2 DEF TypeOK
    <3>2. Live(parent[x]) /\ (state[parent[x]] = "ZOMBIE" => parent[x] = init_process)
      BY <1>3, <1>11, <2>2, <3>1 DEF Reapable
    <3>3. state'[parent[x]] = state[parent[x]] /\ Live(parent[x])'
      BY <1>1, <3>1, <3>2 DEF Live
    <3>4. QED  BY <1>11, <3>1, <3>2, <3>3, ProcAssumption
  <2>3. QED  BY <2>1, <2>2
<1>15. Childless'
  <2> SUFFICES ASSUME Tended', NEW x \in Procs, state'[x] = "ZOMBIE"
               PROVE  x = init_process' \/ children'[x] = <<>>
    BY DEF Childless
  <2>1. x # c /\ x # p /\ state[x] = "ZOMBIE" /\ children'[x] = children[x]
    BY <1>1, ProcAssumption
  <2>2. x = init_process \/ children[x] = <<>>
    BY <1>3, <1>11, <2>1 DEF Childless
  <2>3. QED  BY <1>11, <2>1, <2>2, ProcAssumption
<1>16. NoMissedExit'
  <2> SUFFICES ASSUME NEW x \in Procs, state'[x] = "INTERRUPTIBLE"
               PROVE  (/\ x # init_process => ZombieIndices(x) = {}
                       /\ children[x] # <<>>)'
    BY DEF NoMissedExit, Overlooks
  <2>1. x # c /\ x # p /\ state[x] = "INTERRUPTIBLE" /\ children'[x] = children[x] /\ Live(x)
    BY <1>1, <1>7, ProcAssumption DEF Live
  <2>2. \A i \in 1..Len(children[x]) : children[x][i] # c /\ children[x][i] \in Procs
    BY <1>2, <1>3, <2>1 DEF Members, TypeOK
  <2>3. ZombieIndices(x)' = ZombieIndices(x)
    BY <1>1, <2>1, <2>2 DEF ZombieIndices
  <2>4. x = init_process => x = init_process'
    BY <1>3, <1>5, ProcAssumption DEF Anchors
  <2>5. QED  BY <1>3, <2>1, <2>3, <2>4 DEF NoMissedExit, Overlooks
<1>17. PidsExact'
  <2>1. pid_bitmap' = {0} \cup {pid'[x] : x \in {q \in Procs : Live(q)'}}
    <3>1. pid_bitmap = {0} \cup {pid[x] : x \in {q \in Procs : Live(q)}}
      BY <1>3 DEF PidsExact
    <3>2. {pid'[x] : x \in {q \in Procs : Live(q)'}}
            = {pid[x] : x \in {q \in Procs : Live(q)}} \cup {NewPid}
      <4>1. {q \in Procs : Live(q)'} = {q \in Procs : Live(q)} \cup {c}
        BY <1>7
      <4>2. \A x \in {q \in Procs : Live(q)} : pid'[x] = pid[x]
        BY <1>1, <1>6
      <4>3. c \in Procs /\ pid'[c] = NewPid
        BY <1>1
      <4>4. QED  BY <4>1, <4>2, <4>3
    <3>3. QED  BY <1>5, <3>1, <3>2
  <2>2. ASSUME NEW x \in Procs, NEW y \in Procs, Live(x)', Live(y)', pid'[x] = pid'[y]
        PROVE  x = y
    <3>1. \A z \in Procs : Live(z) => pid[z] # NewPid
      BY <1>3, <1>4 DEF PidsExact
    <3>2. \A z \in Procs : z # c /\ Live(z)' => Live(z) /\ pid'[z] = pid[z]
      BY <1>1, <1>7
    <3>3. CASE x = c \/ y = c
      BY <1>1, <2>2, <3>1, <3>2, <3>3
    <3>4. CASE x # c /\ y # c
      <4>1. Live(x) /\ Live(y) /\ pid[x] = pid[y]
        BY <2>2, <3>2, <3>4
      <4>2. QED  BY <1>3, <4>1 DEF PidsExact
    <3>5. QED  BY <3>3, <3>4
  <2>3. (NewPid = -1 <=> pid_bitmap = 0..(PidMax - 1))'
    <3>1. pid_bitmap' \in SUBSET (0..(PidMax - 1)) /\ next_pid' \in 1..(PidMax - 1)
          /\ 0 \in pid_bitmap'
      BY <1>8, <2>1 DEF TypeOK
    <3>2. QED  BY <3>1, PidSearchComplete DEF NewPid
  <2>4. QED  BY <2>1, <2>2, <2>3 DEF PidsExact
<1>18. SpacesOwned'
  <2>1. spaces' = {mm'[x] : x \in {q \in Procs : Live(q)'}} \ {Null}
    <3>1. spaces = {mm[x] : x \in {q \in Procs : Live(q)}} \ {Null}
      BY <1>3 DEF SpacesOwned
    <3>2. {mm'[x] : x \in {q \in Procs : Live(q)'}}
            = {mm[x] : x \in {q \in Procs : Live(q)}} \cup {m}
      <4>1. {q \in Procs : Live(q)'} = {q \in Procs : Live(q)} \cup {c}
        BY <1>7
      <4>2. \A x \in {q \in Procs : Live(q)} : mm'[x] = mm[x]
        BY <1>1, <1>6
      <4>3. QED  BY <1>1, <4>1, <4>2
    <3>3. CASE kernel
      BY <1>5, <3>1, <3>2, <3>3
    <3>4. CASE ~kernel
      BY <1>5, <1>6, <3>1, <3>2, <3>4
    <3>5. QED  BY <3>3, <3>4
  <2>2. ASSUME NEW x \in Procs, NEW y \in Procs, Live(x)', Live(y)',
               mm'[x] = mm'[y], mm'[x] # Null
        PROVE  x = y
    <3>1. \A z \in Procs : Live(z) /\ mm[z] # Null => mm[z] \in spaces
      BY <1>3 DEF SpacesOwned
    <3>2. QED  BY <1>1, <1>3, <1>5, <1>7, <2>2, <3>1 DEF SpacesOwned
  <2>3. \A x \in Procs : state'[x] = "ZOMBIE" => mm'[x] = Null
    BY <1>1, <1>3 DEF SpacesOwned
  <2>4. QED  BY <2>1, <2>2, <2>3 DEF SpacesOwned
<1>19. LoadedSpaceExists'
  BY <1>1, <1>2, <1>3, <1>5 DEF LoadedSpaceExists
<1>20. QED
  BY <1>8, <1>9, <1>10, <1>12, <1>13, <1>14, <1>15, <1>16, <1>17, <1>18, <1>19 DEF IInv

\* kthread_create, the start of init and process_fork are births.
LEMMA BirthInv ==
    ASSUME IInv, NEW c \in Procs,
           KthreadCreate(c) \/ ExecInit(c) \/ ProcessFork(c)
    PROVE  IInv'
<1>1. CASE KthreadCreate(c)
  <2>1. Born(c, Null, Null, TRUE)
    BY <1>1 DEF KthreadCreate, Born
  <2>2. QED  BY <2>1, BornInv
<1>2. CASE ExecInit(c)
  <2>1. PICK m \in Spaces \ spaces : Create(c, Null, m, FALSE) /\ spaces' = spaces \cup {m}
    BY <1>2 DEF ExecInit
  <2>2. Born(c, Null, m, FALSE)
    BY <1>2, <2>1 DEF ExecInit, Born
  <2>3. QED  BY <2>2, BornInv
<1>3. CASE ProcessFork(c)
  <2>1. PICK m \in Spaces \ spaces : Create(c, current, m, FALSE) /\ spaces' = spaces \cup {m}
    BY <1>3 DEF ProcessFork
  <2>2. current \in Procs /\ current # Null /\ booted
    BY <1>3, ProcAssumption
    DEF ProcessFork, InUser, Executing, IInv, Shape, Anchors, Live
  <2>3. Born(c, current, m, FALSE)
    BY <1>3, <2>1, <2>2 DEF ProcessFork, Born
  <2>4. QED  BY <2>3, BornInv
<1>4. QED  BY <1>1, <1>2, <1>3

\* What is said of the tree holds on as long as the tree, the states and init do.
LEMMA TreeKept ==
    ASSUME Lists, Listed, Reapable, Childless, NoMissedExit,
           UNCHANGED <<state, parent, children, init_process, booted>>
    PROVE  Lists' /\ Listed' /\ Reapable' /\ Childless' /\ NoMissedExit'
<1>1. Tended' <=> Tended
  BY DEF Tended
<1>2. \A x \in Procs : Live(x)' <=> Live(x)
  BY DEF Live
<1>3. Lists'
  BY DEF Lists, Live
<1>4. Listed'
  BY <1>1, <1>2 DEF Listed
<1>5. Reapable'
  BY <1>1 DEF Reapable, Live
<1>6. Childless'
  BY <1>1 DEF Childless
<1>7. NoMissedExit'
  BY DEF NoMissedExit, Overlooks, ZombieIndices
<1>8. QED  BY <1>3, <1>4, <1>5, <1>6, <1>7

\* Taking the last one added off the list gives the list back.
LEMMA AppendWithout ==
    ASSUME NEW q \in Seq(Procs), NEW c \in Procs, c \notin Members(q)
    PROVE  Without(Append(q, c), c) = q
<1> DEFINE a == Append(q, c)
           n == CHOOSE k \in 1..Len(a) : a[k] = c
<1>1. Len(a) = Len(q) + 1 /\ Len(q) \in Nat /\ a[Len(q) + 1] = c
  OBVIOUS
<1>2. \A k \in 1..Len(q) : a[k] = q[k] /\ q[k] # c
  BY DEF Members
<1>3. Without(a, c) = [k \in 1..(Len(a) - 1) |-> IF k < n THEN a[k] ELSE a[k + 1]]
  BY DEF Without
<1> HIDE DEF a
<1>4. n = Len(q) + 1
  <2>1. \E k \in 1..Len(a) : a[k] = c
    BY <1>1
  <2>2. n \in 1..Len(a) /\ a[n] = c
    BY <2>1
  <2> HIDE DEF n
  <2>3. QED  BY <1>1, <1>2, <2>2
<1> HIDE DEF n
<1>5. Without(a, c) = [k \in 1..Len(q) |-> q[k]]
  BY <1>1, <1>2, <1>3, <1>4
<1>6. q = [k \in 1..Len(q) |-> q[k]]
  OBVIOUS
<1>7. QED  BY <1>5, <1>6 DEF a

\* A fork that fails leaves everything as it was but the start of the next search.
LEMMA ForkFailsInv ==
    ASSUME IInv, NEW c \in Procs, ProcessForkFails(c)
    PROVE  IInv'
<1>1. /\ TypeOK /\ Shape /\ Anchors /\ Lists /\ Listed /\ Reapable /\ Childless
      /\ NoMissedExit /\ PidsExact /\ SpacesOwned /\ LoadedSpaceExists
  BY DEF IInv
<1>2. current \in Procs /\ Live(current) /\ children[current] \in Seq(Procs)
  BY <1>1, ProcAssumption
  DEF ProcessForkFails, InUser, Executing, Anchors, Live, TypeOK
<1>3. c \notin Members(children[current])
  BY <1>2, NewIsUnknown DEF ProcessForkFails
<1>4. children' = children
  <2>1. Without(Append(children[current], c), c) = children[current]
    BY <1>2, <1>3, AppendWithout
  <2>2. children' = [children EXCEPT ![current] =
                        Without(Append(children[current], c), c)]
    BY <1>1, <1>2 DEF ProcessForkFails, Link, Unlink, TypeOK
  <2>3. QED  BY <1>1, <2>1, <2>2 DEF TypeOK
<1>5. NewPid \notin pid_bitmap /\ PidAfter(NewPid) \in 1..(PidMax - 1)
  BY <1>1, NewPidFresh DEF ProcessForkFails
<1>6. /\ UNCHANGED <<state, wait_channel, kthread, pid, parent, children, pid_bitmap>>
      /\ UNCHANGED <<init_process, booted, mm, cr3, spaces, current>>
      /\ next_pid' \in 1..(PidMax - 1)
  BY <1>4, <1>5 DEF ProcessForkFails, FreePid, bootVars, spaceVars
<1>7. TypeOK' /\ Shape' /\ Anchors' /\ SpacesOwned' /\ LoadedSpaceExists'
  BY <1>1, <1>6
  DEF TypeOK, Shape, Anchors, SpacesOwned, LoadedSpaceExists, Live
<1>8. Lists' /\ Listed' /\ Reapable' /\ Childless' /\ NoMissedExit'
  BY <1>1, <1>6, TreeKept
<1>9. PidsExact'
  <2>1. (NewPid = -1 <=> pid_bitmap = 0..(PidMax - 1))'
    <3>1. pid_bitmap' \in SUBSET (0..(PidMax - 1)) /\ next_pid' \in 1..(PidMax - 1)
          /\ 0 \in pid_bitmap'
      BY <1>1, <1>6 DEF TypeOK, PidsExact
    <3>2. QED  BY <3>1, PidSearchComplete DEF NewPid
  <2>2. QED  BY <1>1, <1>6, <2>1 DEF PidsExact, Live
<1>10. QED  BY <1>7, <1>8, <1>9 DEF IInv

-----------------------------------------------------------------------------
(* Exec, and giving the CPU away *)

\* exec_replace exchanges the address space of the process that runs.
LEMMA ExecInv ==
    ASSUME IInv, ExecReplace
    PROVE  IInv'
<1>1. /\ TypeOK /\ Shape /\ Anchors /\ Lists /\ Listed /\ Reapable /\ Childless
      /\ NoMissedExit /\ PidsExact /\ SpacesOwned /\ LoadedSpaceExists
  BY DEF IInv
<1>2. PICK m \in Spaces \ spaces : /\ mm' = [mm EXCEPT ![current] = m]
                                   /\ cr3' = m
                                   /\ spaces' = (spaces \cup {m}) \ {mm[current]}
  BY DEF ExecReplace
<1>3. /\ UNCHANGED <<state, wait_channel, kthread, pid, parent, children, pid_bitmap>>
      /\ UNCHANGED <<next_pid, init_process, booted, current>>
  BY DEF ExecReplace, treeVars, pidVars, bootVars
<1>4. /\ current \in Procs /\ Live(current) /\ state[current] = "RUNNING"
      /\ ~kthread[current] /\ m # Null
  BY <1>1, <1>2, ProcAssumption DEF ExecReplace, InUser, Executing, Anchors, Live
<1>5. /\ mm'[current] = m
      /\ \A x \in Procs : x # current => mm'[x] = mm[x]
  BY <1>1, <1>2, <1>4 DEF TypeOK
<1>6. mm[current] \in spaces /\ m # mm[current]
  <2>1. mm[current] # Null
    BY <1>1, <1>4 DEF Shape
  <2>2. QED  BY <1>1, <1>2, <1>4, <2>1 DEF SpacesOwned
<1>7. TypeOK'
  BY <1>1, <1>2, <1>3 DEF TypeOK
<1>8. Shape'
  <2> SUFFICES ASSUME NEW x \in Procs, Live(x)  PROVE Shape!(x)!2'
    BY <1>3 DEF Shape, Live
  <2>1. CASE x = current
    BY <1>1, <1>3, <1>4, <1>5, <2>1 DEF Shape
  <2>2. CASE x # current
    BY <1>1, <1>3, <1>5, <2>2 DEF Shape
  <2>3. QED  BY <2>1, <2>2
<1>9. Lists' /\ Listed' /\ Reapable' /\ Childless' /\ NoMissedExit' /\ Anchors'
  <2>1. Anchors'
    BY <1>1, <1>3 DEF Anchors, Live
  <2>2. QED  BY <1>1, <1>3, <2>1, TreeKept
<1>10. PidsExact'
  BY <1>1, <1>3 DEF PidsExact, Live, NewPid
<1>11. SpacesOwned'
  <2>1. \A x \in Procs : Live(x)' <=> Live(x)
    BY <1>3 DEF Live
  <2>2. spaces' = {mm'[x] : x \in {q \in Procs : Live(q)'}} \ {Null}
    <3>1. ASSUME NEW a \in spaces'
          PROVE  a # Null /\ \E x \in Procs : Live(x) /\ mm'[x] = a
      <4>1. CASE a = m
        BY <1>4, <1>5, <4>1
      <4>2. CASE a # m
        <5>1. a \in spaces /\ a # mm[current]
          BY <1>2, <4>2
        <5>2. a # Null /\ \E x \in Procs : Live(x) /\ mm[x] = a
          BY <1>1, <5>1 DEF SpacesOwned
        <5>3. QED  BY <1>5, <5>1, <5>2
      <4>3. QED  BY <4>1, <4>2
    <3>2. ASSUME NEW x \in Procs, Live(x), mm'[x] # Null
          PROVE  mm'[x] \in spaces'
      <4>1. CASE x = current
        BY <1>2, <1>5, <1>6, <4>1
      <4>2. CASE x # current
        <5>1. mm[x] \in spaces /\ mm[x] # mm[current]
          BY <1>1, <1>4, <1>5, <3>2, <4>2 DEF SpacesOwned
        <5>2. QED  BY <1>2, <1>5, <4>2, <5>1
      <4>3. QED  BY <4>1, <4>2
    <3>3. QED  BY <2>1, <3>1, <3>2
  <2>3. ASSUME NEW x \in Procs, NEW y \in Procs, Live(x), Live(y),
               mm'[x] = mm'[y], mm'[x] # Null
        PROVE  x = y
    <3>1. \A z \in Procs : Live(z) => mm[z] # m
      BY <1>1, <1>2, <1>4 DEF SpacesOwned
    <3>2. CASE x = current \/ y = current
      BY <1>5, <2>3, <3>1, <3>2
    <3>3. CASE x # current /\ y # current
      BY <1>1, <1>5, <2>3, <3>3 DEF SpacesOwned
    <3>4. QED  BY <3>2, <3>3
  <2>4. \A x \in Procs : state'[x] = "ZOMBIE" => mm'[x] = Null
    BY <1>1, <1>3, <1>4, <1>5 DEF SpacesOwned
  <2>5. QED  BY <2>1, <2>2, <2>3, <2>4 DEF SpacesOwned
<1>12. LoadedSpaceExists'
  BY <1>2, <1>3, <1>5, <1>6 DEF LoadedSpaceExists
<1>13. QED  BY <1>7, <1>8, <1>9, <1>10, <1>11, <1>12 DEF IInv

\* switch_to leaves the page tables loaded that the next thread needs, provided
\* those that were loaded still exist and a thread that goes on has its own.
LEMMA SwitchInv ==
    ASSUME NEW n, NEW s, NEW m, NEW old, SwitchTo(n, s, m, old),
           TypeOK', Shape', SpacesOwned',
           old \in spaces' \cup {KernelSpace},
           n = current /\ n \in Procs /\ ~kthread'[n] => old = m[n]
    PROVE  /\ current' # Idle => state'[current'] = "RUNNING"
           /\ LoadedSpaceExists'
<1>1. /\ n \in Choices(s) /\ state' = s /\ current' = n /\ mm' = m
      /\ cr3' = IF n # current THEN LoadedFor(n, m, old) ELSE old
  BY DEF SwitchTo
<1>2. n # Idle => n \in Procs /\ state'[n] = "RUNNING"
  BY <1>1 DEF Choices, Runnable
<1>3. n # Idle => Live(n)'
  BY <1>2 DEF Live
<1>4. n # Idle /\ mm'[n] # Null => mm'[n] \in spaces'
  BY <1>2, <1>3 DEF SpacesOwned
<1>5. n \in Procs => n # Idle
  BY ProcAssumption
<1>6. n # Idle /\ ~kthread'[n] => mm'[n] # Null
  BY <1>2, <1>3 DEF Shape
<1>7. cr3' \in spaces' \cup {KernelSpace}
  BY <1>1, <1>4 DEF LoadedFor
<1>8. n \in Procs /\ ~kthread'[n] => cr3' = mm'[n]
  BY <1>1, <1>5, <1>6 DEF LoadedFor
<1>9. QED  BY <1>1, <1>2, <1>7, <1>8 DEF LoadedSpaceExists

\* sched_yield changes who runs and nothing else.
LEMMA YieldInv ==
    ASSUME IInv, NEW n \in Procs \cup {Idle}, Yield(n)
    PROVE  IInv'
<1>1. /\ TypeOK /\ Shape /\ Anchors /\ Lists /\ Listed /\ Reapable /\ Childless
      /\ NoMissedExit /\ PidsExact /\ SpacesOwned /\ LoadedSpaceExists
  BY DEF IInv
<1>2. /\ UNCHANGED <<state, wait_channel, kthread, pid, parent, children, pid_bitmap>>
      /\ UNCHANGED <<next_pid, init_process, booted, mm, spaces>>
      /\ current' = n /\ SwitchTo(n, state, mm, cr3)
      /\ cr3' \in {cr3} \cup {mm[x] : x \in {y \in Procs : mm[y] # Null}}
  BY DEF Yield, SwitchTo, LoadedFor, treeVars, pidVars, bootVars
<1>3. TypeOK' /\ Shape' /\ SpacesOwned'
  BY <1>1, <1>2 DEF TypeOK, Shape, SpacesOwned, Live
<1>4. Lists' /\ Listed' /\ Reapable' /\ Childless' /\ NoMissedExit'
  BY <1>1, <1>2, TreeKept
<1>5. PidsExact'
  BY <1>1, <1>2 DEF PidsExact, Live, NewPid
<1>6. (current' # Idle => state'[current'] = "RUNNING") /\ LoadedSpaceExists'
  <2>1. /\ cr3 \in spaces' \cup {KernelSpace}
        /\ n = current /\ n \in Procs /\ ~kthread'[n] => cr3 = mm[n]
    BY <1>1, <1>2 DEF LoadedSpaceExists
  <2>2. QED  BY <1>2, <1>3, <2>1, SwitchInv
<1>7. Anchors'
  BY <1>1, <1>2, <1>6 DEF Anchors, Live
<1>8. QED  BY <1>3, <1>4, <1>5, <1>6, <1>7 DEF IInv

=============================================================================
