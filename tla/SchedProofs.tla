---------------------------- MODULE SchedProofs ----------------------------
(***************************************************************************)
(* Proofs about Sched, for any number of threads and priority levels.      *)
(***************************************************************************)
EXTENDS Sched, FiniteSetTheorems, WellFoundedInduction, TLAPS

RunQueues == [queue : [Prios -> Seq(Threads)], bitmap : SUBSET Prios,
              nr_running : Nat]

\* Run queue r holds exactly the threads of R, each once and at its priority pr,
\* and its bitmap and count say so.
Holds(r, R, pr) ==
    /\ r \in RunQueues
    /\ R \subseteq Threads
    /\ \A p \in Prios : p \in r.bitmap <=> r.queue[p] # <<>>
    /\ r.nr_running = Cardinality(R)
    /\ \A t \in Threads : t \in R <=> \E p \in Prios : t \in Members(r.queue[p])
    /\ \A p \in Prios : \A i \in 1..Len(r.queue[p]) :
          /\ pr[r.queue[p][i]] = p
          /\ \A j \in 1..Len(r.queue[p]) : r.queue[p][i] = r.queue[p][j] => i = j

-----------------------------------------------------------------------------
\* list_add_tail adds the thread to the members of the queue, at its end.
LEMMA AppendMembers ==
    ASSUME NEW q \in Seq(Threads), NEW t \in Threads
    PROVE  /\ Append(q, t) \in Seq(Threads)
           /\ Append(q, t) # <<>>
           /\ Members(Append(q, t)) = Members(q) \cup {t}
           /\ Len(Append(q, t)) = Len(q) + 1
           /\ \A i \in 1..Len(q) : Append(q, t)[i] = q[i]
           /\ Append(q, t)[Len(q) + 1] = t
  BY DEF Members

\* list_first_entry and list_del_init of it take one member away when none is
\* on the queue twice.
LEMMA TailMembers ==
    ASSUME NEW q \in Seq(Threads), q # <<>>,
           \A i, j \in 1..Len(q) : q[i] = q[j] => i = j
    PROVE  /\ Tail(q) \in Seq(Threads)
           /\ Len(Tail(q)) = Len(q) - 1
           /\ \A i \in 1..Len(Tail(q)) : Tail(q)[i] = q[i + 1]
           /\ Head(q) = q[1]
           /\ 1 \in 1..Len(q)
           /\ Members(Tail(q)) = Members(q) \ {Head(q)}
<1>1. /\ Tail(q) \in Seq(Threads)
      /\ Len(Tail(q)) = Len(q) - 1
      /\ \A i \in 1..Len(Tail(q)) : Tail(q)[i] = q[i + 1]
      /\ Head(q) = q[1]
      /\ 1 \in 1..Len(q)
  OBVIOUS
<1>2. ASSUME NEW x \in Members(Tail(q))  PROVE x \in Members(q) \ {Head(q)}
  <2>1. PICK i \in 1..Len(Tail(q)) : x = Tail(q)[i]
    BY DEF Members
  <2>2. x = q[i + 1] /\ i + 1 \in 1..Len(q) /\ i + 1 # 1
    BY <1>1, <2>1
  <2>3. QED  BY <1>1, <2>2 DEF Members
<1>3. ASSUME NEW x \in Members(q), x # Head(q)  PROVE x \in Members(Tail(q))
  <2>1. PICK i \in 1..Len(q) : x = q[i]
    BY DEF Members
  <2>2. i # 1
    BY <1>1, <1>3, <2>1
  <2>3. i - 1 \in 1..Len(Tail(q)) /\ Tail(q)[i - 1] = q[i]
    BY <1>1, <2>2
  <2>4. QED  BY <2>1, <2>3 DEF Members
<1>4. QED  BY <1>1, <1>2, <1>3

\* list_del_init of a thread anywhere on a queue takes just that member away.
LEMMA WithoutMembers ==
    ASSUME NEW q \in Seq(Threads), NEW t \in Members(q),
           \A i, j \in 1..Len(q) : q[i] = q[j] => i = j
    PROVE  /\ Without(q, t) \in Seq(Threads)
           /\ Members(Without(q, t)) = Members(q) \ {t}
           /\ \A i, j \in 1..Len(Without(q, t)) :
                 Without(q, t)[i] = Without(q, t)[j] => i = j
<1> DEFINE n == CHOOSE k \in 1..Len(q) : q[k] = t
           w == Without(q, t)
<1>1. n \in 1..Len(q) /\ q[n] = t
  BY DEF Members
<1> HIDE DEF n
<1>2. w = [k \in 1..(Len(q) - 1) |-> IF k < n THEN q[k] ELSE q[k + 1]]
  BY DEF Without, n
<1> HIDE DEF w
<1>3. /\ w \in Seq(Threads)
      /\ Len(w) = Len(q) - 1
      /\ \A k \in 1..Len(w) : w[k] = IF k < n THEN q[k] ELSE q[k + 1]
  BY <1>1, <1>2
<1>4. \A i, j \in 1..Len(w) : w[i] = w[j] => i = j
  BY <1>1, <1>3
<1>5. ASSUME NEW x \in Members(w)  PROVE x \in Members(q) \ {t}
  BY <1>1, <1>3 DEF Members
<1>6. ASSUME NEW x \in Members(q), x # t  PROVE x \in Members(w)
  <2>1. PICK i \in 1..Len(q) : x = q[i]
    BY DEF Members
  <2>2. CASE i < n
    BY <1>1, <1>3, <2>1, <2>2 DEF Members
  <2>3. CASE i > n
    <3>1. i - 1 \in 1..Len(w) /\ w[i - 1] = q[i]
      BY <1>1, <1>3, <2>3
    <3>2. QED  BY <2>1, <3>1 DEF Members
  <2>4. QED  BY <1>1, <1>6, <2>1, <2>2, <2>3
<1>7. QED  BY <1>3, <1>4, <1>5, <1>6 DEF w
-----------------------------------------------------------------------------
\* A bitmap that is not empty has a first set bit.
LEMMA LeastPriority ==
    ASSUME NEW b \in SUBSET Prios, b # {}
    PROVE  \E m \in b : \A o \in b : m <= o
<1> DEFINE less == OpToRel(<, Nat)
<1>1. b \subseteq Nat
  BY SchedAssumption DEF Prios
<1>2. IsWellFoundedOn(less, Nat)
  BY NatLessThanWellFounded
<1>3. \A x, y \in Nat : x < y => <<x, y>> \in less
  BY DEF OpToRel
<1> HIDE DEF less
<1>4. PICK m \in b : \A y \in b : ~(<<y, m>> \in less)
  BY <1>1, <1>2, WFMin
<1>5. ASSUME NEW o \in b  PROVE m <= o
  <2>1. o \in Nat /\ m \in Nat
    BY <1>1
  <2>2. ~(o < m)
    BY <1>3, <1>4, <2>1
  <2>3. QED  BY <2>1, <2>2
<1>6. QED  BY <1>5

\* enqueue_thread_locked of a thread that is on no queue adds just it.
LEMMA EnqueueHolds ==
    ASSUME NEW r, NEW R, NEW pr, Holds(r, R, pr),
           NEW t \in Threads, t \notin R, NEW p \in Prios, pr[t] = p
    PROVE  Holds(EnqueueAt(r, t, p), R \cup {t}, pr)
<1> DEFINE q == r.queue[p]
           e == EnqueueAt(r, t, p)
<1>1. q \in Seq(Threads) /\ r.queue \in [Prios -> Seq(Threads)]
      /\ r.bitmap \in SUBSET Prios /\ r.nr_running \in Nat
  BY DEF Holds, RunQueues
<1>2. ~OnQueue(r, t)
  BY DEF Holds, OnQueue
<1>3. e = [queue |-> [r.queue EXCEPT ![p] = Append(q, t)],
           bitmap |-> r.bitmap \cup {p}, nr_running |-> r.nr_running + 1]
  BY <1>2 DEF EnqueueAt
<1>4. /\ Append(q, t) \in Seq(Threads)
      /\ Append(q, t) # <<>>
      /\ Members(Append(q, t)) = Members(q) \cup {t}
      /\ Len(Append(q, t)) = Len(q) + 1
      /\ \A i \in 1..Len(q) : Append(q, t)[i] = q[i]
      /\ Append(q, t)[Len(q) + 1] = t
  BY <1>1, AppendMembers
<1>5. /\ e.queue \in [Prios -> Seq(Threads)]
      /\ e.queue[p] = Append(q, t)
      /\ \A o \in Prios : o # p => e.queue[o] = r.queue[o]
      /\ e.bitmap = r.bitmap \cup {p}
      /\ e.nr_running = r.nr_running + 1
  BY <1>1, <1>3, <1>4
<1>6. e \in RunQueues
  BY <1>1, <1>3, <1>4 DEF RunQueues
<1> HIDE DEF e
<1>7. R \cup {t} \subseteq Threads
  BY DEF Holds
<1>8. \A o \in Prios : o \in e.bitmap <=> e.queue[o] # <<>>
  BY <1>4, <1>5 DEF Holds
<1>9. e.nr_running = Cardinality(R \cup {t})
  <2>1. IsFiniteSet(R)
    BY SchedAssumption, FS_Subset DEF Holds
  <2>2. Cardinality(R \cup {t}) = Cardinality(R) + 1
    BY <2>1, FS_AddElement
  <2>3. QED  BY <1>5, <2>2 DEF Holds
<1>10. \A u \in Threads : u \in R \cup {t} <=> \E o \in Prios : u \in Members(e.queue[o])
  <2> SUFFICES ASSUME NEW u \in Threads
               PROVE  u \in R \cup {t} <=> \E o \in Prios : u \in Members(e.queue[o])
    OBVIOUS
  <2>1. u \in R <=> \E o \in Prios : u \in Members(r.queue[o])
    BY DEF Holds
  <2>2. u \in Members(e.queue[p]) <=> u \in Members(q) \/ u = t
    BY <1>4, <1>5
  <2>3. \A o \in Prios : o # p => (u \in Members(e.queue[o]) <=> u \in Members(r.queue[o]))
    BY <1>5
  <2>4. QED  BY <2>1, <2>2, <2>3
<1>11. ASSUME NEW o \in Prios, NEW i \in 1..Len(e.queue[o])
       PROVE  /\ pr[e.queue[o][i]] = o
              /\ \A j \in 1..Len(e.queue[o]) : e.queue[o][i] = e.queue[o][j] => i = j
  <2>1. CASE o # p
    <3>1. e.queue[o] = r.queue[o]
      BY <1>5, <2>1
    <3>2. QED  BY <1>11, <3>1 DEF Holds
  <2>2. CASE o = p
    <3>1. \A k \in 1..Len(q) : q[k] \in Members(q) /\ q[k] # t
      <4>1. t \notin Members(q)
        BY DEF Holds
      <4>2. QED  BY <4>1 DEF Members
    <3>2. \A k \in 1..Len(q) : pr[q[k]] = p /\ \A l \in 1..Len(q) : q[k] = q[l] => k = l
      BY DEF Holds
    <3>3. Len(q) \in Nat
      BY <1>1
    <3> HIDE DEF q
    <3>4. e.queue[o] = Append(q, t) /\ i \in 1..(Len(q) + 1)
      BY <1>4, <1>5, <1>11, <2>2
    <3>5. ASSUME NEW k \in 1..(Len(q) + 1)
          PROVE  \/ k \in 1..Len(q) /\ Append(q, t)[k] = q[k]
                 \/ k = Len(q) + 1 /\ Append(q, t)[k] = t
      <4>1. k \in 1..Len(q) \/ k = Len(q) + 1
        BY <3>3
      <4>2. QED  BY <1>4, <4>1
    <3>6. pr[Append(q, t)[i]] = p
      BY <3>2, <3>4, <3>5
    <3>7. ASSUME NEW j \in 1..(Len(q) + 1), Append(q, t)[i] = Append(q, t)[j]  PROVE i = j
      <4>1. CASE i \in 1..Len(q) /\ Append(q, t)[i] = q[i]
        BY <3>1, <3>2, <3>5, <3>7, <4>1
      <4>2. CASE i = Len(q) + 1 /\ Append(q, t)[i] = t
        BY <3>1, <3>5, <3>7, <4>2
      <4>3. QED  BY <3>4, <3>5, <4>1, <4>2
    <3>8. QED  BY <1>4, <2>2, <3>4, <3>6, <3>7
  <2>3. QED  BY <2>1, <2>2
<1>12. QED  BY <1>6, <1>7, <1>8, <1>9, <1>10, <1>11 DEF Holds, e

\* pick_next_thread takes a thread of the highest priority off the run queue, or
\* finds none and answers the idle thread.
LEMMA DequeueHolds ==
    ASSUME NEW r, NEW R, NEW pr, Holds(r, R, pr)
    PROVE  /\ R = {} => Picked(r) = Idle /\ Holds(Dequeue(r), R, pr)
           /\ R # {} => /\ Picked(r) \in R
                        /\ Holds(Dequeue(r), R \ {Picked(r)}, pr)
                        /\ \A t \in R : pr[Picked(r)] <= pr[t]
<1>1. /\ r.queue \in [Prios -> Seq(Threads)]
      /\ r.bitmap \in SUBSET Prios /\ r.nr_running \in Nat
  BY DEF Holds, RunQueues
<1>2. \A t \in R : pr[t] \in r.bitmap
  <2> SUFFICES ASSUME NEW t \in R  PROVE pr[t] \in r.bitmap
    OBVIOUS
  <2>1. PICK p \in Prios : t \in Members(r.queue[p])
    BY DEF Holds
  <2>2. PICK i \in 1..Len(r.queue[p]) : t = r.queue[p][i]
    BY <2>1 DEF Members
  <2>3. pr[t] = p
    BY <2>2 DEF Holds
  <2>4. r.queue[p] # <<>>
    BY <1>1, <2>2
  <2>5. QED  BY <2>3, <2>4 DEF Holds
<1>3. CASE r.bitmap = {}
  BY <1>2, <1>3 DEF Picked, Dequeue, Holds
<1>4. CASE r.bitmap # {}
  <2> DEFINE p == Ffs(r.bitmap)
             q == r.queue[p]
             h == Head(q)
             d == Dequeue(r)
  <2>1. p \in r.bitmap /\ \A o \in r.bitmap : p <= o
    <3>1. \E m \in r.bitmap : \A o \in r.bitmap : m <= o
      BY <1>1, <1>4, LeastPriority
    <3>2. QED  BY <3>1 DEF Ffs
  <2> HIDE DEF p
  <2>2. p \in Prios /\ q \in Seq(Threads) /\ q # <<>>
    BY <1>1, <2>1 DEF Holds
  <2>3. \A i, j \in 1..Len(q) : q[i] = q[j] => i = j
    BY <2>2 DEF Holds
  <2>4. /\ Tail(q) \in Seq(Threads)
        /\ Len(Tail(q)) = Len(q) - 1
        /\ \A i \in 1..Len(Tail(q)) : Tail(q)[i] = q[i + 1]
        /\ h = q[1]
        /\ 1 \in 1..Len(q)
        /\ Members(Tail(q)) = Members(q) \ {h}
    BY <2>2, <2>3, TailMembers
  <2>5. Picked(r) = h
    BY <1>4 DEF Picked, p
  <2>6. d = [queue |-> [r.queue EXCEPT ![p] = Tail(q)],
             bitmap |-> IF Tail(q) = <<>> THEN r.bitmap \ {p} ELSE r.bitmap,
             nr_running |-> r.nr_running - 1]
    BY <1>4 DEF Dequeue, BitmapAfter, p
  <2>7. /\ d.queue \in [Prios -> Seq(Threads)]
        /\ d.queue[p] = Tail(q)
        /\ \A o \in Prios : o # p => d.queue[o] = r.queue[o]
        /\ d.bitmap = IF Tail(q) = <<>> THEN r.bitmap \ {p} ELSE r.bitmap
        /\ d.nr_running = r.nr_running - 1
    BY <1>1, <2>2, <2>4, <2>6
  <2>8. h \in Threads /\ h \in Members(q)
    BY <2>2, <2>4 DEF Members
  <2>9. h \in R /\ pr[h] = p
    BY <2>2, <2>4, <2>8 DEF Holds
  <2>10. IsFiniteSet(R)
    BY SchedAssumption, FS_Subset DEF Holds
  <2>11. Cardinality(R \ {h}) = Cardinality(R) - 1 /\ Cardinality(R) \in Nat \ {0}
    BY <2>9, <2>10, FS_RemoveElement, FS_CardinalityType, FS_EmptySet
  <2>12. d.nr_running = Cardinality(R \ {h}) /\ d.nr_running \in Nat
    BY <2>7, <2>11 DEF Holds
  <2>13. d \in RunQueues
    BY <1>1, <2>2, <2>4, <2>6, <2>7, <2>12 DEF RunQueues
  <2> HIDE DEF d
  <2>14. ASSUME NEW o \in Prios  PROVE o \in d.bitmap <=> d.queue[o] # <<>>
    <3>1. o \in r.bitmap <=> r.queue[o] # <<>>
      BY DEF Holds
    <3>2. CASE o # p
      BY <2>7, <3>1, <3>2
    <3>3. CASE o = p
      BY <2>1, <2>7, <3>3
    <3>4. QED  BY <3>2, <3>3
  <2>15. ASSUME NEW u \in Threads
         PROVE  u \in R \ {h} <=> \E o \in Prios : u \in Members(d.queue[o])
    <3>1. u \in R <=> \E o \in Prios : u \in Members(r.queue[o])
      BY DEF Holds
    <3>2. u \in Members(d.queue[p]) <=> u \in Members(q) /\ u # h
      BY <2>4, <2>7
    <3>3. \A o \in Prios : o # p => (u \in Members(d.queue[o]) <=> u \in Members(r.queue[o]))
      BY <2>7
    <3>4. \A o \in Prios : h \in Members(r.queue[o]) => o = p
      BY <2>9 DEF Holds, Members
    <3>5. QED  BY <2>2, <3>1, <3>2, <3>3, <3>4
  <2>16. ASSUME NEW o \in Prios, NEW i \in 1..Len(d.queue[o])
         PROVE  /\ pr[d.queue[o][i]] = o
                /\ \A j \in 1..Len(d.queue[o]) : d.queue[o][i] = d.queue[o][j] => i = j
    <3>1. CASE o # p
      <4>1. d.queue[o] = r.queue[o]
        BY <2>7, <3>1
      <4>2. QED  BY <2>16, <4>1 DEF Holds
    <3>2. CASE o = p
      <4>1. \A k \in 1..Len(q) : pr[q[k]] = p
        BY <2>2 DEF Holds
      <4>2. Len(q) \in Nat
        BY <2>2
      <4> HIDE DEF q
      <4>3. d.queue[o] = Tail(q) /\ i \in 1..(Len(q) - 1)
        BY <2>4, <2>7, <2>16, <3>2
      <4>4. \A k \in 1..(Len(q) - 1) : Tail(q)[k] = q[k + 1] /\ k + 1 \in 1..Len(q)
        BY <2>4, <4>2
      <4>5. pr[Tail(q)[i]] = p
        BY <4>1, <4>3, <4>4
      <4>6. \A j \in 1..(Len(q) - 1) : Tail(q)[i] = Tail(q)[j] => i = j
        BY <2>3, <4>2, <4>3, <4>4
      <4>7. QED  BY <2>4, <3>2, <4>3, <4>5, <4>6
    <3>3. QED  BY <3>1, <3>2
  <2>17. Holds(d, R \ {h}, pr)
    BY <2>12, <2>13, <2>14, <2>15, <2>16 DEF Holds
  <2>18. \A t \in R : p <= pr[t]
    BY <1>2, <2>1
  <2>19. QED  BY <2>5, <2>9, <2>17, <2>18 DEF d
<1>5. QED  BY <1>3, <1>4

\* sched_remove of a queued thread takes just it off.
LEMMA RemoveHolds ==
    ASSUME NEW r, NEW R, Holds(r, R, priority), NEW t \in R
    PROVE  Holds(Remove(r, t), R \ {t}, priority)
<1> DEFINE p == priority[t]
           q == r.queue[p]
           w == Without(q, t)
           d == Remove(r, t)
<1>1. /\ r.queue \in [Prios -> Seq(Threads)]
      /\ r.bitmap \in SUBSET Prios /\ r.nr_running \in Nat
      /\ t \in Threads
  BY DEF Holds, RunQueues
<1>2. p \in Prios /\ t \in Members(q)
  <2>1. PICK o \in Prios : t \in Members(r.queue[o])
    BY DEF Holds
  <2>2. priority[t] = o
    BY <2>1 DEF Holds, Members
  <2>3. QED  BY <2>1, <2>2
<1>3. q \in Seq(Threads) /\ \A i, j \in 1..Len(q) : q[i] = q[j] => i = j
  BY <1>1, <1>2 DEF Holds
<1>4. /\ w \in Seq(Threads)
      /\ Members(w) = Members(q) \ {t}
      /\ \A i, j \in 1..Len(w) : w[i] = w[j] => i = j
  BY <1>2, <1>3, WithoutMembers
<1>5. OnQueue(r, t)
  BY <1>2 DEF OnQueue
<1>6. d = [queue |-> [r.queue EXCEPT ![p] = w],
           bitmap |-> IF w = <<>> THEN r.bitmap \ {p} ELSE r.bitmap,
           nr_running |-> r.nr_running - 1]
  BY <1>5 DEF Remove, BitmapAfter
<1> HIDE DEF w
<1>7. /\ d.queue \in [Prios -> Seq(Threads)]
      /\ d.queue[p] = w
      /\ \A o \in Prios : o # p => d.queue[o] = r.queue[o]
      /\ d.bitmap = IF w = <<>> THEN r.bitmap \ {p} ELSE r.bitmap
      /\ d.nr_running = r.nr_running - 1
  BY <1>1, <1>2, <1>4, <1>6
<1>8. Cardinality(R \ {t}) = Cardinality(R) - 1 /\ Cardinality(R) \in Nat \ {0}
  <2>1. IsFiniteSet(R)
    BY SchedAssumption, FS_Subset DEF Holds
  <2>2. QED  BY <2>1, FS_RemoveElement, FS_CardinalityType, FS_EmptySet
<1>9. d.nr_running = Cardinality(R \ {t}) /\ d.nr_running \in Nat
  BY <1>7, <1>8 DEF Holds
<1>10. d \in RunQueues
  BY <1>1, <1>2, <1>4, <1>6, <1>7, <1>9 DEF RunQueues
<1> HIDE DEF d
<1>11. ASSUME NEW o \in Prios  PROVE o \in d.bitmap <=> d.queue[o] # <<>>
  <2>1. o \in r.bitmap <=> r.queue[o] # <<>>
    BY DEF Holds
  <2>2. CASE o # p
    BY <1>7, <2>1, <2>2
  <2>3. CASE o = p
    <3>1. q # <<>>
      BY <1>2 DEF Members
    <3>2. QED  BY <1>7, <2>1, <2>3, <3>1
  <2>4. QED  BY <2>2, <2>3
<1>12. ASSUME NEW u \in Threads
       PROVE  u \in R \ {t} <=> \E o \in Prios : u \in Members(d.queue[o])
  <2>1. u \in R <=> \E o \in Prios : u \in Members(r.queue[o])
    BY DEF Holds
  <2>2. u \in Members(d.queue[p]) <=> u \in Members(q) /\ u # t
    BY <1>4, <1>7
  <2>3. \A o \in Prios : o # p => (u \in Members(d.queue[o]) <=> u \in Members(r.queue[o]))
    BY <1>7
  <2>4. \A o \in Prios : t \in Members(r.queue[o]) => o = p
    BY DEF Holds, Members
  <2>5. QED  BY <1>2, <2>1, <2>2, <2>3, <2>4
<1>13. ASSUME NEW o \in Prios, NEW i \in 1..Len(d.queue[o])
       PROVE  /\ priority[d.queue[o][i]] = o
              /\ \A j \in 1..Len(d.queue[o]) : d.queue[o][i] = d.queue[o][j] => i = j
  <2>1. CASE o # p
    <3>1. d.queue[o] = r.queue[o]
      BY <1>7, <2>1
    <3>2. QED  BY <1>13, <3>1 DEF Holds
  <2>2. CASE o = p
    <3>1. d.queue[o] = w
      BY <1>7, <2>2
    <3>2. w[i] \in Members(q)
      BY <1>4, <1>13, <3>1 DEF Members
    <3>3. priority[w[i]] = p
      BY <1>2, <3>2 DEF Holds, Members
    <3>4. QED  BY <1>4, <1>13, <2>2, <3>1, <3>3
  <2>3. QED  BY <2>1, <2>2
<1>14. R \ {t} \subseteq Threads
  BY DEF Holds
<1>15. QED  BY <1>9, <1>10, <1>11, <1>12, <1>13, <1>14 DEF Holds, d

\* The priority of a thread that is not queued does not matter to the queue.
LEMMA OtherPriority ==
    ASSUME NEW r, NEW R, NEW pr, Holds(r, R, pr),
           NEW new, \A t \in R : new[t] = pr[t]
    PROVE  Holds(r, R, new)
<1>1. ASSUME NEW p \in Prios, NEW i \in 1..Len(r.queue[p])
      PROVE  r.queue[p][i] \in R
  <2>1. r.queue[p] \in Seq(Threads)
    BY DEF Holds, RunQueues
  <2>2. r.queue[p][i] \in Members(r.queue[p]) /\ r.queue[p][i] \in Threads
    BY <1>1, <2>1 DEF Members
  <2>3. QED  BY <2>2 DEF Holds
<1>2. QED  BY <1>1 DEF Holds

\* sched_set_priority of a queued thread moves it to the tail of its new queue.
LEMMA RequeuedHolds ==
    ASSUME NEW R, Holds(rq, R, priority), NEW t \in R, NEW p \in Prios,
           priority \in [All -> Prios]
    PROVE  Holds(Requeued(t, p), R, [priority EXCEPT ![t] = p])
<1> DEFINE d == Remove(rq, t)
           new == [priority EXCEPT ![t] = p]
           w == Without(rq.queue[priority[t]], t)
<1>1. t \in Threads
  BY DEF Holds
<1>2. Holds(d, R \ {t}, priority)
  BY RemoveHolds
<1>3. Holds(d, R \ {t}, new)
  <2>1. R \subseteq All
    BY DEF Holds, All
  <2>2. \A u \in R \ {t} : new[u] = priority[u]
    BY <2>1
  <2>3. QED  BY <1>2, <2>2, OtherPriority
<1>4. new[t] = p
  BY <1>1 DEF All
<1>5. Holds(EnqueueAt(d, t, p), (R \ {t}) \cup {t}, new)
  <2> HIDE DEF d, new
  <2>1. QED  BY <1>1, <1>3, <1>4, EnqueueHolds
<1>6. EnqueueAt(d, t, p) = Requeued(t, p)
  <2>1. OnQueue(rq, t)
    BY <1>1 DEF Holds, OnQueue
  <2>2. ~OnQueue(d, t)
    BY <1>1, <1>2 DEF Holds, OnQueue
  <2>3. rq = [queue |-> rq.queue, bitmap |-> rq.bitmap, nr_running |-> rq.nr_running]
        /\ rq.nr_running \in Nat
    BY DEF Holds, RunQueues
  <2>4. d = [queue |-> [rq.queue EXCEPT ![priority[t]] = w],
             bitmap |-> BitmapAfter(rq.bitmap, priority[t], w),
             nr_running |-> rq.nr_running - 1]
    BY <2>1 DEF Remove
  <2>5. EnqueueAt(d, t, p) =
           [queue |-> [d.queue EXCEPT ![p] = Append(@, t)],
            bitmap |-> d.bitmap \cup {p}, nr_running |-> d.nr_running + 1]
    BY <2>2 DEF EnqueueAt
  <2>6. Requeued(t, p) =
           [queue |-> [[rq.queue EXCEPT ![priority[t]] = w] EXCEPT ![p] = Append(@, t)],
            bitmap |-> BitmapAfter(rq.bitmap, priority[t], w) \cup {p},
            nr_running |-> rq.nr_running]
    BY DEF Requeued
  <2> HIDE DEF w, d
  <2>7. rq.nr_running - 1 + 1 = rq.nr_running
    BY <2>3
  <2>8. QED  BY <2>4, <2>5, <2>6, <2>7
<1>7. (R \ {t}) \cup {t} = R
  OBVIOUS
<1>8. QED  BY <1>5, <1>6, <1>7

-----------------------------------------------------------------------------
\* Where threads are and what state goes with it: the current thread runs, a
\* thread off the CPU is inside schedule() unless it has not started.
Shape ==
    /\ state[current] = "RUNNING"
    /\ phase[current] \in {"run", "switched"}
    /\ phase[Idle] \in {"run", "switched"} /\ state[Idle] = "RUNNING"
    /\ \A t \in All : /\ t # current => phase[t] \in {"none", "new", "switched", "gone"}
                      /\ phase[t] \in {"none", "new"} => state[t] = "RUNNING"
                      /\ phase[t] = "gone" <=> state[t] = "ZOMBIE"

\* No thread but the idle thread has ever been in schedule().
NothingYet == \A t \in Threads : phase[t] \notin {"switched", "gone"}

\* Before the first context switch schedule() is called without a reschedule
\* pending, and when there is nothing to run.
Quiet ==
    current = Idle /\ phase[Idle] = "switched" /\ NothingYet =>
        /\ ~need_resched[Idle]
        /\ \A t \in Threads : phase[t] = "none"

\* The inductive invariant.
IInv ==
    /\ TypeOK
    /\ Shape
    /\ Holds(rq, Ready, priority)
    /\ PreemptCountExact
    /\ Quiet

\* The threads ready but for the current one, when the states are s.
ReadyIn(s) == {t \in Threads : /\ t # current
                               /\ phase[t] \in {"new", "switched"}
                               /\ s[t] = "RUNNING"}

\* What a caller of schedule() has established.
MayCall(r, s, f) ==
    /\ phase[current] = "run"
    /\ s \in [All -> TaskStates]
    /\ f \in [All -> BOOLEAN]
    /\ s[Idle] = "RUNNING"
    /\ \A t \in All : t # current =>
          /\ phase[t] \in {"none", "new"} => s[t] = "RUNNING"
          /\ phase[t] = "gone" <=> s[t] = "ZOMBIE"
    /\ Holds(r, ReadyIn(s), priority)
    /\ current = Idle /\ f[Idle] => \E t \in Threads : phase[t] # "none"

\* The threads inside schedule() are finitely many.
LEMMA InScheduleFinite ==
    IsFiniteSet(All) /\ \A S : S \subseteq All => IsFiniteSet(S) /\ Cardinality(S) \in Nat
<1>1. IsFiniteSet(All)
  <2>1. IsFiniteSet(Threads \cup {Idle})
    BY SchedAssumption, FS_AddElement
  <2>2. QED  BY <2>1 DEF All
<1>2. ASSUME NEW S, S \subseteq All  PROVE IsFiniteSet(S) /\ Cardinality(S) \in Nat
  BY <1>1, <1>2, FS_Subset, FS_CardinalityType
<1>3. QED  BY <1>1, <1>2

\* schedule(), whoever calls it, keeps the invariant and passes over nobody of
\* higher priority.
LEMMA ScheduleInv ==
    ASSUME IInv, NEW r, NEW s, NEW f, MayCall(r, s, f), Schedule(r, s, f),
           wait_channel' \in [All -> Channels], UNCHANGED <<priority, booting>>
    PROVE  /\ IInv'
           /\ current' # current => \A t \in Ready' :
                 current' # Idle /\ priority[current'] <= priority[t]
<1> DEFINE R == ReadyIn(s)
           q == Requeue(r, s)
           Q == IF s[current] = "RUNNING" /\ current # Idle THEN R \cup {current} ELSE R
           n == Picked(q)
<1>1. /\ current \in All /\ phase \in [All -> Phases] /\ preempt_count \in Nat
      /\ priority \in [All -> Prios] /\ booting \in BOOLEAN
  BY DEF IInv, TypeOK
<1>2. /\ state' = s
      /\ rq' = Dequeue(q)
      /\ current' = n
      /\ need_resched' = IF n = current THEN f ELSE [f EXCEPT ![n] = FALSE]
      /\ phase' = [t \in All |->
                      CASE t = n -> IF phase[t] = "new" THEN "run" ELSE "switched"
                        [] t = current /\ t # n ->
                              IF s[t] = "ZOMBIE" THEN "gone" ELSE "switched"
                        [] OTHER -> phase[t]]
      /\ preempt_count' = preempt_count + 1
  BY DEF Schedule
<1>3. Holds(q, Q, priority)
  <2>1. CASE s[current] = "RUNNING" /\ current # Idle
    <3>1. current \in Threads /\ current \notin R /\ priority[current] \in Prios
      BY <1>1, <2>1 DEF All, ReadyIn
    <3>2. q = EnqueueAt(r, current, priority[current])
      BY <2>1 DEF Requeue, Enqueue
    <3>3. Holds(r, R, priority)
      BY DEF MayCall
    <3> HIDE DEF R
    <3>4. Holds(q, R \cup {current}, priority)
      BY <3>1, <3>2, <3>3, EnqueueHolds
    <3>5. QED  BY <2>1, <3>4
  <2>2. CASE ~(s[current] = "RUNNING" /\ current # Idle)
    BY <2>2 DEF Requeue, MayCall
  <2>3. QED  BY <2>1, <2>2
<1> HIDE DEF q
<1>4. Q \subseteq Threads
  BY <1>3 DEF Holds
<1>5. \A t \in Threads : t \in Q <=>
         /\ s[t] = "RUNNING"
         /\ t = current \/ phase[t] \in {"new", "switched"}
  BY SchedAssumption, <1>1 DEF ReadyIn, All
<1> HIDE DEF Q, n
<1>6. /\ Q = {} => n = Idle /\ Holds(rq', Q, priority)
      /\ Q # {} => /\ n \in Q
                   /\ Holds(rq', Q \ {n}, priority)
                   /\ \A t \in Q : priority[n] <= priority[t]
  BY <1>2, <1>3, DequeueHolds DEF n
<1>7. n \in All /\ (n \in Q \/ (n = Idle /\ Q = {}))
  BY <1>4, <1>6 DEF All
<1>8. Idle \notin Q
  BY <1>4, SchedAssumption
<1>9. Holds(rq', Q \ {n}, priority)
  <2>1. Q = {} => Q \ {n} = Q
    OBVIOUS
  <2>2. QED  BY <1>6, <2>1
<1>10. \A t \in All : phase'[t] =
          IF t = n THEN IF phase[t] = "new" THEN "run" ELSE "switched"
          ELSE IF t = current THEN IF s[t] = "ZOMBIE" THEN "gone" ELSE "switched"
          ELSE phase[t]
  BY <1>2
<1>11. phase' \in [All -> Phases]
  BY <1>1, <1>2 DEF Phases
<1>12. n # current => phase[n] \in {"new", "switched"}
  BY <1>1, <1>4, <1>5, <1>7 DEF IInv, Shape, All
<1>13. s[n] = "RUNNING"
  BY <1>4, <1>5, <1>7 DEF MayCall
<1>14. Ready' = Q \ {n}
  <2>1. ASSUME NEW t \in Threads  PROVE t \in Ready' <=> t \in Q /\ t # n
    <3>1. t \in All
      BY DEF All
    <3>2. t \in Ready' <=> t # n /\ phase'[t] \in {"new", "switched"} /\ s[t] = "RUNNING"
      BY <1>2 DEF Ready
    <3>3. CASE t = n
      BY <3>2, <3>3
    <3>4. CASE t # n /\ t = current
      BY <1>5, <1>10, <3>1, <3>2, <3>4
    <3>5. CASE t # n /\ t # current
      BY <1>5, <1>10, <3>1, <3>2, <3>5
    <3>6. QED  BY <3>3, <3>4, <3>5
  <2>2. Ready' \subseteq Threads
    BY DEF Ready
  <2>3. QED  BY <1>4, <2>1, <2>2
<1>15. Shape'
  <2>1. state'[current'] = "RUNNING" /\ phase'[current'] \in {"run", "switched"}
    BY <1>2, <1>7, <1>10, <1>13
  <2>2. phase'[Idle] \in {"run", "switched"} /\ state'[Idle] = "RUNNING"
    <3>1. Idle \in All
      BY DEF All
    <3>2. s[Idle] = "RUNNING" /\ phase[Idle] \in {"run", "switched"}
      BY DEF MayCall, IInv, Shape
    <3>3. QED  BY <1>2, <1>10, <3>1, <3>2
  <2>3. ASSUME NEW t \in All
        PROVE  /\ t # current' => phase'[t] \in {"none", "new", "switched", "gone"}
               /\ phase'[t] \in {"none", "new"} => state'[t] = "RUNNING"
               /\ phase'[t] = "gone" <=> state'[t] = "ZOMBIE"
    <3>1. CASE t = n
      BY <1>2, <1>10, <1>13, <3>1
    <3>2. CASE t # n /\ t = current
      BY <1>2, <1>10, <3>2
    <3>3. CASE t # n /\ t # current
      BY <1>2, <1>10, <3>3 DEF IInv, Shape, MayCall
    <3>4. QED  BY <3>1, <3>2, <3>3
  <2>4. QED  BY <2>1, <2>2, <2>3 DEF Shape
<1>16. PreemptCountExact'
  <2>1. InSchedule' = InSchedule \cup {current}
    <3>1. ASSUME NEW t \in All
          PROVE  phase'[t] \in {"switched", "gone"} <=>
                    phase[t] \in {"switched", "gone"} \/ t = current
      <4>1. CASE t = n /\ t # current
        BY <1>10, <1>12, <4>1
      <4>2. CASE t = current
        BY <1>10, <4>2 DEF MayCall
      <4>3. CASE t # n /\ t # current
        BY <1>10, <4>3
      <4>4. QED  BY <4>1, <4>2, <4>3
    <3>2. QED  BY <1>1, <3>1 DEF InSchedule
  <2>2. current \notin InSchedule /\ IsFiniteSet(InSchedule) /\ Cardinality(InSchedule) \in Nat
    BY InScheduleFinite DEF InSchedule, MayCall
  <2>3. Cardinality(InSchedule \cup {current}) = Cardinality(InSchedule) + 1
    BY <2>2, FS_AddElement
  <2>4. QED  BY <1>2, <2>1, <2>3 DEF PreemptCountExact, IInv
<1>17. Quiet'
  <2> SUFFICES ASSUME n = Idle, NothingYet'
               PROVE  ~need_resched'[Idle] /\ \A t \in Threads : phase'[t] = "none"
    BY <1>2 DEF Quiet
  <2>1. current = Idle
    <3>1. current # Idle => current \in Threads /\ phase'[current] \in {"switched", "gone"}
      BY <1>1, <1>10 DEF All
    <3>2. QED  BY <3>1 DEF NothingYet
  <2>2. Q = {}
    BY <1>7, <1>8
  <2>3. \A t \in Threads : t \in All /\ phase'[t] = phase[t] /\ t # current
    BY SchedAssumption, <1>10, <2>1 DEF All
  <2>4. ASSUME NEW t \in Threads  PROVE phase[t] = "none"
    <3>1. phase[t] \notin {"switched", "gone"}
      BY <2>3 DEF NothingYet
    <3>2. phase[t] # "new"
      BY <1>5, <2>2, <2>3 DEF MayCall
    <3>3. QED  BY <2>3, <3>1, <3>2 DEF IInv, Shape
  <2>5. ~f[Idle]
    BY <2>1, <2>4 DEF MayCall
  <2>6. QED  BY <1>2, <2>1, <2>3, <2>4, <2>5
<1>18. TypeOK'
  <2>1. n \in All /\ need_resched' \in [All -> BOOLEAN] /\ state' \in [All -> TaskStates]
    BY <1>2, <1>7 DEF MayCall
  <2>2. rq' \in [queue : [Prios -> Seq(Threads)], bitmap : SUBSET Prios, nr_running : Nat]
    BY <1>9 DEF Holds, RunQueues
  <2>3. QED  BY <1>1, <1>2, <1>11, <2>1, <2>2 DEF TypeOK
<1>19. Holds(rq', Ready', priority')
  BY <1>9, <1>14
<1>20. IInv'
  BY <1>15, <1>16, <1>17, <1>18, <1>19 DEF IInv
<1>21. ASSUME current' # current, NEW t \in Ready'
       PROVE  current' # Idle /\ priority[current'] <= priority[t]
  BY <1>2, <1>6, <1>7, <1>8, <1>14, <1>21
<1>22. QED  BY <1>20, <1>21

-----------------------------------------------------------------------------
\* What every step keeps.
StepKeeps ==
    /\ IInv'
    /\ current' # current => \A t \in Ready' :
          current' # Idle /\ priority[current'] <= priority[t]

\* The states, and the current thread's place outside the queues, at a call of
\* schedule().
LEMMA CallerFacts ==
    ASSUME IInv, phase[current] = "run"
    PROVE  /\ current \in All
           /\ state \in [All -> TaskStates]
           /\ need_resched \in [All -> BOOLEAN]
           /\ state[Idle] = "RUNNING"
           /\ ReadyIn(state) = Ready
           /\ current \in Threads => ~OnQueue(rq, current)
           /\ current # Idle => current \in Threads
           /\ Idle \in All
<1>1. state[Idle] = "RUNNING"
  BY DEF IInv, Shape
<1>2. current \in Threads => ~OnQueue(rq, current)
  BY DEF IInv, Holds, OnQueue, Ready
<1>3. QED  BY <1>1, <1>2 DEF IInv, TypeOK, ReadyIn, Ready, All

\* sched_yield calls schedule() with its own reschedule flag set.
LEMMA YieldInv ==
    ASSUME IInv, Yield  PROVE StepKeeps
<1> DEFINE f == [need_resched EXCEPT ![current] = TRUE]
<1>1. phase[current] = "run"
  BY DEF Yield, Running
<1>2. MayCall(rq, state, f)
  <2>1. current = Idle => \E t \in Threads : phase[t] # "none"
    BY DEF Yield
  <2>2. \A t \in All : /\ phase[t] \in {"none", "new"} => state[t] = "RUNNING"
                       /\ phase[t] = "gone" <=> state[t] = "ZOMBIE"
    BY DEF IInv, Shape
  <2>3. Holds(rq, ReadyIn(state), priority)
    BY <1>1, CallerFacts DEF IInv
  <2>4. QED  BY <1>1, <2>1, <2>2, <2>3, CallerFacts DEF MayCall
<1>3. Schedule(rq, state, f) /\ UNCHANGED <<priority, booting>>
      /\ wait_channel' \in [All -> Channels]
  BY DEF Yield, IInv, TypeOK
<1> HIDE DEF f
<1>4. QED  BY <1>2, <1>3, ScheduleInv DEF StepKeeps

\* The idle loop calls schedule() after clearing its reschedule flag.
LEMMA IdleLoopInv ==
    ASSUME IInv, IdleLoop  PROVE StepKeeps
<1> DEFINE f == [need_resched EXCEPT ![Idle] = FALSE]
<1>1. phase[current] = "run"
  BY DEF IdleLoop, Running
<1>2. MayCall(rq, state, f)
  <2>1. \A t \in All : /\ phase[t] \in {"none", "new"} => state[t] = "RUNNING"
                       /\ phase[t] = "gone" <=> state[t] = "ZOMBIE"
    BY DEF IInv, Shape
  <2>2. Holds(rq, ReadyIn(state), priority)
    BY <1>1, CallerFacts DEF IInv
  <2>3. f \in [All -> BOOLEAN] /\ ~f[Idle]
    BY <1>1, CallerFacts
  <2>4. QED  BY <1>1, <2>1, <2>2, <2>3, CallerFacts DEF MayCall
<1>3. Schedule(rq, state, f) /\ UNCHANGED <<priority, booting>>
      /\ wait_channel' \in [All -> Channels]
  BY DEF IdleLoop, IInv, TypeOK
<1> HIDE DEF f
<1>4. QED  BY <1>2, <1>3, ScheduleInv DEF StepKeeps

\* A thread going to sleep is on no queue, and sched_remove has nothing to do.
LEMMA SleepInv ==
    ASSUME IInv, NEW ch \in Channels, Sleep(ch)  PROVE StepKeeps
<1> DEFINE s == [state EXCEPT ![current] = "INTERRUPTIBLE"]
<1>1. phase[current] = "run" /\ current # Idle
  BY DEF Sleep, InThread, Running
<1>2. current \in Threads /\ ~OnQueue(rq, current) /\ ReadyIn(state) = Ready
      /\ state \in [All -> TaskStates] /\ current \in All
  BY <1>1, CallerFacts
<1>3. \A t \in All : t # current => s[t] = state[t]
  BY <1>2
<1>4. ReadyIn(s) = Ready
  BY <1>2, <1>3 DEF ReadyIn, Ready, All
<1>5. MayCall(rq, s, need_resched)
  <2>1. \A t \in All : t # current => /\ phase[t] \in {"none", "new"} => s[t] = "RUNNING"
                                      /\ phase[t] = "gone" <=> s[t] = "ZOMBIE"
    BY <1>3 DEF IInv, Shape
  <2>2. Holds(rq, ReadyIn(s), priority)
    BY <1>4 DEF IInv
  <2>3. s \in [All -> TaskStates] /\ s[Idle] = "RUNNING"
    BY <1>1, <1>2, <1>3, CallerFacts DEF TaskStates
  <2> HIDE DEF s
  <2>4. QED  BY <1>1, <2>1, <2>2, <2>3, CallerFacts DEF MayCall
<1>6. Schedule(rq, s, need_resched) /\ UNCHANGED <<priority, booting>>
  BY <1>2 DEF Sleep, Remove
<1>7. wait_channel' \in [All -> Channels]
  BY DEF Sleep, IInv, TypeOK
<1> HIDE DEF s
<1>8. QED  BY <1>5, <1>6, <1>7, ScheduleInv DEF StepKeeps

\* thread_exit: the woken parent is queued, the zombie is not.
LEMMA ExitInv ==
    ASSUME IInv, NEW parent \in Threads \cup {Null}, Exit(parent)  PROVE StepKeeps
<1> DEFINE z == [state EXCEPT ![current] = "ZOMBIE"]
           w == [z EXCEPT ![parent] = "RUNNING"]
<1>1. phase[current] = "run" /\ current # Idle /\ parent # current
  BY DEF Exit, InThread, Running
<1>2. current \in Threads /\ ReadyIn(state) = Ready
      /\ state \in [All -> TaskStates] /\ current \in All
  BY <1>1, CallerFacts
<1>3. \A t \in All : t # current => z[t] = state[t]
  BY <1>2
<1>4. wait_channel' \in [All -> Channels] /\ UNCHANGED <<priority, booting>>
  BY DEF Exit, IInv, TypeOK
<1>5. CASE ~Waiting(parent)
  <2>1. ReadyIn(z) = Ready
    BY <1>2, <1>3 DEF ReadyIn, Ready, All
  <2>2. MayCall(rq, z, need_resched)
    <3>1. \A t \in All : t # current => /\ phase[t] \in {"none", "new"} => z[t] = "RUNNING"
                                        /\ phase[t] = "gone" <=> z[t] = "ZOMBIE"
      BY <1>3 DEF IInv, Shape
    <3>2. Holds(rq, ReadyIn(z), priority)
      BY <2>1 DEF IInv
    <3>3. z \in [All -> TaskStates] /\ z[Idle] = "RUNNING"
      BY <1>1, <1>2, <1>3, CallerFacts DEF TaskStates
    <3> HIDE DEF z
    <3>4. QED  BY <1>1, <3>1, <3>2, <3>3, CallerFacts DEF MayCall
  <2>3. Schedule(rq, z, need_resched)
    BY <1>5 DEF Exit
  <2> HIDE DEF z
  <2>4. QED  BY <1>4, <2>2, <2>3, ScheduleInv DEF StepKeeps
<1>6. CASE Waiting(parent)
  <2>1. parent \in Threads /\ parent \in All /\ state[parent] = "INTERRUPTIBLE"
    BY <1>6 DEF Waiting, All
  <2>2. phase[parent] = "switched"
    BY <1>1, <2>1 DEF IInv, Shape
  <2>3. parent # Idle /\ parent \notin Ready
    BY <2>1, SchedAssumption DEF Ready
  <2>4. w \in [All -> TaskStates] /\ w[parent] = "RUNNING"
        /\ \A t \in All : t # current /\ t # parent => w[t] = state[t]
    BY <1>2, <1>3, <2>1 DEF TaskStates
  <2> HIDE DEF w
  <2>5. ReadyIn(w) = Ready \cup {parent}
    <3>1. ASSUME NEW t \in Threads  PROVE t \in ReadyIn(w) <=> t \in Ready \/ t = parent
      <4>1. t \in All
        BY DEF All
      <4>2. CASE t = parent
        BY <1>1, <2>2, <2>4, <4>2 DEF ReadyIn
      <4>3. CASE t # parent
        BY <2>4, <4>1, <4>3 DEF ReadyIn, Ready
      <4>4. QED  BY <4>2, <4>3
    <3>2. QED  BY <2>1, <3>1 DEF ReadyIn, Ready
  <2>6. Holds(Enqueue(rq, parent), Ready \cup {parent}, priority)
    <3>1. priority[parent] \in Prios /\ Holds(rq, Ready, priority)
      BY <2>1 DEF IInv, TypeOK
    <3>2. QED  BY <2>1, <2>3, <3>1, EnqueueHolds DEF Enqueue
  <2>7. MayCall(Enqueue(rq, parent), w, need_resched)
    <3>1. \A t \in All : t # current => /\ phase[t] \in {"none", "new"} => w[t] = "RUNNING"
                                        /\ phase[t] = "gone" <=> w[t] = "ZOMBIE"
      BY <2>1, <2>2, <2>4 DEF IInv, Shape
    <3>2. Holds(Enqueue(rq, parent), ReadyIn(w), priority)
      BY <2>5, <2>6
    <3>3. w[Idle] = "RUNNING"
      BY <1>1, <2>3, <2>4, CallerFacts
    <3>4. QED  BY <1>1, <2>4, <3>1, <3>2, <3>3, CallerFacts DEF MayCall
  <2>8. Schedule(Enqueue(rq, parent), w, need_resched)
    BY <1>6 DEF Exit, w
  <2>9. QED  BY <1>4, <2>7, <2>8, ScheduleInv DEF StepKeeps
<1>7. QED  BY <1>5, <1>6

\* preempt_enable, at the end of schedule(), undoes one preempt_disable and does
\* not call schedule() again.
LEMMA ResumeInv ==
    ASSUME IInv, Resume  PROVE StepKeeps
<1> DEFINE n == preempt_count - 1
<1>1. /\ current \in All /\ Idle \in All /\ phase \in [All -> Phases] /\ preempt_count \in Nat
      /\ phase[current] = "switched" /\ preempt_count = Cardinality(InSchedule)
  BY DEF IInv, TypeOK, Resume, All, PreemptCountExact
<1>2. /\ current \in InSchedule
      /\ IsFiniteSet(InSchedule)
      /\ IsFiniteSet(InSchedule \ {current})
      /\ Cardinality(InSchedule \ {current}) = n
      /\ preempt_count > 0
  <2>1. current \in InSchedule /\ IsFiniteSet(InSchedule)
    BY <1>1, InScheduleFinite DEF InSchedule
  <2>2. /\ IsFiniteSet(InSchedule \ {current})
        /\ Cardinality(InSchedule \ {current}) = Cardinality(InSchedule) - 1
    BY <2>1, FS_RemoveElement
  <2>3. Cardinality(InSchedule \ {current}) \in Nat
    BY <2>2, FS_CardinalityType
  <2>4. QED  BY <1>1, <2>1, <2>2, <2>3
<1>3. ~(n = 0 /\ need_resched[current])
  <2> SUFFICES ASSUME n = 0, need_resched[current]  PROVE FALSE
    OBVIOUS
  <2>1. InSchedule \ {current} = {}
    BY <1>2, FS_EmptySet
  <2>2. current = Idle
    BY <1>1, <2>1 DEF IInv, Shape, InSchedule
  <2>3. NothingYet
    BY <2>1, <2>2, SchedAssumption DEF NothingYet, InSchedule, All
  <2>4. QED  BY <1>1, <2>2, <2>3 DEF IInv, Quiet
<1>4. /\ preempt_count' = n
      /\ phase' = [phase EXCEPT ![current] = "run"]
      /\ wait_channel' = [wait_channel EXCEPT ![current] = Null]
      /\ UNCHANGED <<state, priority, need_resched, rq, current, booting>>
  BY <1>1, <1>2, <1>3 DEF Resume
<1>5. /\ phase' \in [All -> Phases]
      /\ phase'[current] = "run"
      /\ \A t \in All : t # current => phase'[t] = phase[t]
  BY <1>1, <1>4 DEF Phases
<1>6. TypeOK'
  BY <1>1, <1>2, <1>4, <1>5 DEF IInv, TypeOK, Channels
<1>7. Shape'
  BY <1>1, <1>4, <1>5 DEF IInv, Shape
<1>8. Ready' = Ready
  BY <1>4, <1>5 DEF Ready, All
<1>9. PreemptCountExact'
  <2>1. InSchedule' = InSchedule \ {current}
    BY <1>5 DEF InSchedule
  <2>2. QED  BY <1>2, <1>4, <2>1 DEF PreemptCountExact
<1>10. Quiet'
  BY <1>4, <1>5 DEF Quiet
<1>11. QED  BY <1>4, <1>6, <1>7, <1>8, <1>9, <1>10 DEF StepKeeps, IInv

\* sched_add of a new thread makes it ready, and nothing else.
LEMMA AddInv ==
    ASSUME IInv, phase[current] = "run", NEW t \in Threads, Add(t),
           rq' = EnqueueAt(rq, t, priority'[t]),
           priority' \in [All -> Prios], need_resched' \in [All -> BOOLEAN],
           \A u \in All : u # t => priority'[u] = priority[u]
    PROVE  StepKeeps
<1>1. /\ state \in [All -> TaskStates] /\ phase \in [All -> Phases] /\ t \in All
      /\ current \in All /\ Idle \in All /\ t # Idle
  BY SchedAssumption DEF IInv, TypeOK, All
<1>2. /\ phase[t] = "none"
      /\ state' = [state EXCEPT ![t] = "RUNNING"]
      /\ phase' = [phase EXCEPT ![t] = "new"]
      /\ UNCHANGED <<wait_channel, current, preempt_count, booting>>
  BY DEF Add
<1>3. t # current /\ t \notin Ready
  BY <1>2 DEF Ready
<1>4. /\ phase' \in [All -> Phases] /\ phase'[t] = "new"
      /\ \A u \in All : u # t => phase'[u] = phase[u]
      /\ state' \in [All -> TaskStates] /\ state'[t] = "RUNNING"
      /\ \A u \in All : u # t => state'[u] = state[u]
  BY <1>1, <1>2 DEF Phases, TaskStates
<1>5. Ready' = Ready \cup {t}
  <2>1. ASSUME NEW u \in Threads  PROVE u \in Ready' <=> u \in Ready \/ u = t
    BY <1>2, <1>3, <1>4 DEF Ready, All
  <2>2. QED  BY <2>1 DEF Ready
<1>6. Holds(rq', Ready', priority')
  <2>1. \A u \in Ready : priority'[u] = priority[u]
    BY <1>3 DEF Ready, All
  <2>2. Holds(rq, Ready, priority')
    BY <2>1, OtherPriority DEF IInv
  <2>3. priority'[t] \in Prios
    BY <1>1
  <2>4. QED  BY <1>3, <1>5, <2>2, <2>3, EnqueueHolds
<1>7. TypeOK'
  <2>1. rq' \in [queue : [Prios -> Seq(Threads)], bitmap : SUBSET Prios, nr_running : Nat]
    BY <1>6 DEF Holds, RunQueues
  <2>2. QED  BY <1>2, <1>4, <2>1 DEF IInv, TypeOK
<1>8. Shape'
  BY <1>1, <1>2, <1>3, <1>4 DEF IInv, Shape
<1>9. PreemptCountExact'
  <2>1. InSchedule' = InSchedule
    BY <1>2, <1>4 DEF InSchedule
  <2>2. QED  BY <1>2, <2>1 DEF PreemptCountExact, IInv
<1>10. Quiet'
  BY <1>1, <1>2, <1>3, <1>4 DEF Quiet
<1>11. QED  BY <1>2, <1>6, <1>7, <1>8, <1>9, <1>10 DEF StepKeeps, IInv

\* thread_start and process_fork add a thread.
LEMMA StartInv ==
    ASSUME IInv, NEW t \in Threads, Start(t) \/ Fork(t)  PROVE StepKeeps
<1>1. /\ phase[current] = "run" /\ Add(t) /\ priority \in [All -> Prios]
      /\ need_resched \in [All -> BOOLEAN] /\ current \in All /\ t \in All
  BY DEF Start, Fork, InThread, Running, IInv, TypeOK, All
<1>2. CASE Start(t)
  <2>1. rq' = EnqueueAt(rq, t, priority'[t]) /\ UNCHANGED <<priority, need_resched>>
    BY <1>2 DEF Start, Enqueue
  <2>2. QED  BY <1>1, <2>1, AddInv
<1>3. CASE Fork(t)
  <2>1. /\ priority' = [priority EXCEPT ![t] = priority[current]]
        /\ need_resched' = [need_resched EXCEPT ![t] = need_resched[current]]
        /\ rq' = EnqueueAt(rq, t, priority[current])
    BY <1>3 DEF Fork
  <2>2. /\ priority' \in [All -> Prios] /\ priority'[t] = priority[current]
        /\ \A u \in All : u # t => priority'[u] = priority[u]
        /\ need_resched' \in [All -> BOOLEAN]
    BY <1>1, <2>1
  <2>3. rq' = EnqueueAt(rq, t, priority'[t])
    BY <2>1, <2>2
  <2>4. QED  BY <1>1, <2>2, <2>3, AddInv
<1>4. QED  BY <1>2, <1>3

\* A step that only moves run queue, priorities or flags.
LEMMA KeepPhases ==
    ASSUME IInv, UNCHANGED <<phase, wait_channel, current, preempt_count>>,
           state' \in [All -> TaskStates], need_resched' \in [All -> BOOLEAN],
           priority' \in [All -> Prios], booting' \in BOOLEAN,
           \A t \in All : state'[t] # state[t] =>
              /\ t # current /\ t # Idle /\ phase[t] = "switched"
              /\ state'[t] # "ZOMBIE" /\ state[t] # "ZOMBIE",
           Holds(rq', Ready', priority'),
           need_resched'[Idle] => \/ need_resched[Idle]
                                  \/ current # Idle
                                  \/ rq.nr_running > 0
    PROVE  StepKeeps
<1>1. TypeOK'
  <2>1. rq' \in [queue : [Prios -> Seq(Threads)], bitmap : SUBSET Prios, nr_running : Nat]
    BY DEF Holds, RunQueues
  <2>2. QED  BY <2>1 DEF IInv, TypeOK
<1>2. Shape'
  <2>1. current \in All /\ Idle \in All
    BY DEF IInv, TypeOK, All
  <2>2. QED  BY <2>1 DEF IInv, Shape
<1>3. PreemptCountExact'
  BY DEF IInv, PreemptCountExact, InSchedule
<1>4. Quiet'
  <2> SUFFICES ASSUME current = Idle, phase[Idle] = "switched", NothingYet
               PROVE  ~need_resched'[Idle] /\ \A t \in Threads : phase[t] = "none"
    BY DEF Quiet, NothingYet
  <2>1. ~need_resched[Idle] /\ \A t \in Threads : phase[t] = "none"
    BY DEF IInv, Quiet
  <2>2. Ready = {}
    BY <2>1 DEF Ready
  <2>3. rq.nr_running = 0
    BY <2>2, FS_EmptySet DEF IInv, Holds
  <2>4. QED  BY <2>1, <2>3
<1>5. QED  BY <1>1, <1>2, <1>3, <1>4 DEF StepKeeps, IInv

\* sched_tick touches only the flag of the current thread.
LEMMA TickInv ==
    ASSUME IInv, Tick \/ EnterIdleLoop  PROVE StepKeeps
<1>1. /\ UNCHANGED <<state, phase, wait_channel, priority, rq, current, preempt_count>>
      /\ booting' \in BOOLEAN
  BY DEF Tick, EnterIdleLoop, IInv, TypeOK
<1>2. Holds(rq', Ready', priority')
  BY <1>1 DEF IInv, Ready
<1>3. /\ state \in [All -> TaskStates] /\ priority \in [All -> Prios]
      /\ need_resched \in [All -> BOOLEAN] /\ current \in All /\ Idle \in All
      /\ rq.nr_running \in Nat
  BY DEF IInv, TypeOK, All
<1>4. /\ need_resched' \in [All -> BOOLEAN]
      /\ need_resched'[Idle] => \/ need_resched[Idle]
                                \/ current # Idle
                                \/ rq.nr_running > 0
  BY <1>3 DEF Tick, EnterIdleLoop
<1>5. QED  BY <1>1, <1>2, <1>3, <1>4, KeepPhases

\* sched_wakeup queues a sleeping thread, and leaves a runnable one alone.
LEMMA WakeupInv ==
    ASSUME IInv, NEW t \in Threads, Wakeup(t)  PROVE StepKeeps
<1>1. /\ t # current /\ phase[t] = "switched" /\ Woken(t) /\ t \in All /\ t # Idle
      /\ UNCHANGED <<phase, wait_channel, priority, need_resched, current,
                     preempt_count, booting>>
  BY SchedAssumption DEF Wakeup, All
<1>2. /\ state \in [All -> TaskStates] /\ priority \in [All -> Prios]
      /\ need_resched \in [All -> BOOLEAN] /\ booting \in BOOLEAN
      /\ Holds(rq, Ready, priority)
  BY DEF IInv, TypeOK
<1>3. CASE state[t] = "RUNNING"
  <2>1. UNCHANGED <<state, rq>>
    BY <1>1, <1>3 DEF Woken
  <2>2. Holds(rq', Ready', priority')
    BY <1>1, <1>2, <2>1 DEF Ready
  <2>3. QED  BY <1>1, <1>2, <2>1, <2>2, KeepPhases
<1>4. CASE state[t] # "RUNNING"
  <2>1. state' = [state EXCEPT ![t] = "RUNNING"] /\ rq' = Enqueue(rq, t)
    BY <1>1, <1>4 DEF Woken
  <2>2. /\ state' \in [All -> TaskStates] /\ state'[t] = "RUNNING"
        /\ \A u \in All : u # t => state'[u] = state[u]
    BY <1>1, <1>2, <2>1 DEF TaskStates
  <2>3. state[t] # "ZOMBIE"
    BY <1>1 DEF IInv, Shape
  <2>4. t \notin Ready
    BY <1>4 DEF Ready
  <2>5. Ready' = Ready \cup {t}
    <3>1. ASSUME NEW u \in Threads  PROVE u \in Ready' <=> u \in Ready \/ u = t
      BY <1>1, <2>2 DEF Ready, All
    <3>2. QED  BY <3>1 DEF Ready
  <2>6. priority[t] \in Prios
    BY <1>1, <1>2
  <2>7. Holds(rq', Ready', priority')
    BY <1>1, <1>2, <2>1, <2>4, <2>5, <2>6, EnqueueHolds DEF Enqueue
  <2>8. QED  BY <1>1, <1>2, <2>2, <2>3, <2>7, KeepPhases
<1>5. QED  BY <1>3, <1>4

\* sched_set_priority keeps a queued thread queued, at its new priority.
LEMMA SetPriorityInv ==
    ASSUME IInv, NEW t \in Threads, NEW prio \in NewPrios, SetPriority(t, prio)
    PROVE  StepKeeps
<1> DEFINE c == Clamp(prio)
<1>1. c \in Prios
  BY SchedAssumption DEF Clamp, Prios
<1> HIDE DEF c
<1>2. /\ priority' = [priority EXCEPT ![t] = c]
      /\ rq' = IF OnQueue(rq, t) THEN Requeued(t, c) ELSE rq
      /\ UNCHANGED <<state, phase, wait_channel, need_resched, current,
                     preempt_count, booting>>
  BY DEF SetPriority, c
<1>3. /\ state \in [All -> TaskStates] /\ priority \in [All -> Prios]
      /\ need_resched \in [All -> BOOLEAN] /\ booting \in BOOLEAN
      /\ Holds(rq, Ready, priority) /\ t \in All
  BY DEF IInv, TypeOK, All
<1>4. priority' \in [All -> Prios] /\ \A u \in All : u # t => priority'[u] = priority[u]
  BY <1>1, <1>2, <1>3
<1>5. Ready' = Ready
  BY <1>2 DEF Ready
<1>6. Holds(rq', Ready, priority')
  <2>1. CASE t \in Ready
    <3>1. OnQueue(rq, t)
      BY <1>3, <2>1 DEF Holds, OnQueue
    <3>2. QED  BY <1>1, <1>2, <1>3, <2>1, <3>1, RequeuedHolds
  <2>2. CASE t \notin Ready
    <3>1. ~OnQueue(rq, t)
      BY <1>3, <2>2 DEF Holds, OnQueue
    <3>2. \A u \in Ready : priority'[u] = priority[u]
      BY <1>4, <2>2 DEF Ready, All
    <3>3. QED  BY <1>2, <1>3, <3>1, <3>2, OtherPriority
  <2>3. QED  BY <2>1, <2>2
<1>7. QED  BY <1>2, <1>3, <1>4, <1>5, <1>6, KeepPhases

-----------------------------------------------------------------------------
\* sched_init sets up an empty run queue with the idle thread running.
LEMMA InitInv == Init => IInv
<1> SUFFICES ASSUME Init  PROVE IInv
  OBVIOUS
<1>1. current = Idle /\ Idle \in All /\ \A t \in Threads : t \in All /\ t # Idle
  BY SchedAssumption DEF Init, All
<1>2. TypeOK
  <2>1. priority \in [All -> Prios]
    <3>1. DefaultPrio \in Prios /\ MaxPrio - 1 \in Prios
      BY SchedAssumption DEF Prios
    <3>2. QED  BY <3>1 DEF Init
  <2>2. rq \in [queue : [Prios -> Seq(Threads)], bitmap : SUBSET Prios, nr_running : Nat]
    <3>1. <<>> \in Seq(Threads)
      OBVIOUS
    <3>2. QED  BY <3>1 DEF Init
  <2>3. QED  BY <1>1, <2>1, <2>2 DEF Init, TypeOK, TaskStates, Phases, Channels
<1>3. Shape
  BY <1>1 DEF Init, Shape
<1>4. Ready = {}
  BY <1>1 DEF Init, Ready
<1>5. Cardinality({}) = 0
  BY FS_EmptySet
<1>6. Holds(rq, {}, priority)
  <2>1. rq \in RunQueues
    BY <1>2 DEF TypeOK, RunQueues
  <2>2. rq.bitmap = {} /\ rq.nr_running = 0 /\ \A p \in Prios : rq.queue[p] = <<>>
    BY DEF Init
  <2>3. QED  BY <1>5, <2>1, <2>2 DEF Holds, Members
<1>7. PreemptCountExact
  <2>1. InSchedule = {}
    BY <1>1 DEF Init, InSchedule, All
  <2>2. QED  BY <1>5, <2>1 DEF Init, PreemptCountExact
<1>8. Quiet
  BY <1>1 DEF Init, Quiet
<1>9. QED  BY <1>2, <1>3, <1>4, <1>6, <1>7, <1>8 DEF IInv

\* Every step keeps the invariant, and no step passes over a thread of higher
\* priority.
LEMMA NextInv ==
    ASSUME IInv, [Next]_vars  PROVE StepKeeps
<1>1. CASE UNCHANGED vars
  <2>1. /\ UNCHANGED <<state, phase, wait_channel, priority, need_resched, rq, current,
                       preempt_count, booting>>
    BY <1>1 DEF vars
  <2>2. TypeOK' /\ Shape'
    BY <2>1 DEF IInv, TypeOK, Shape
  <2>3. Holds(rq, Ready, priority)'
    BY <2>1 DEF IInv, Holds, Ready
  <2>4. PreemptCountExact'
    BY <2>1 DEF IInv, PreemptCountExact, InSchedule
  <2>5. Quiet'
    BY <2>1 DEF IInv, Quiet, NothingYet
  <2>6. QED  BY <2>1, <2>2, <2>3, <2>4, <2>5 DEF IInv, StepKeeps
<1>2. CASE Resume
  BY <1>2, ResumeInv
<1>3. CASE Yield
  BY <1>3, YieldInv
<1>4. CASE \E ch \in Channels : Sleep(ch)
  BY <1>4, SleepInv
<1>5. CASE \E p \in Threads \cup {Null} : Exit(p)
  BY <1>5, ExitInv
<1>6. CASE Tick \/ EnterIdleLoop
  BY <1>6, TickInv
<1>7. CASE IdleLoop
  BY <1>7, IdleLoopInv
<1>8. ASSUME NEW t \in Threads, Start(t) \/ Fork(t)  PROVE StepKeeps
  BY <1>8, StartInv
<1>9. ASSUME NEW t \in Threads, Wakeup(t)  PROVE StepKeeps
  BY <1>9, WakeupInv
<1>10. ASSUME NEW t \in Threads, NEW p \in NewPrios, SetPriority(t, p)  PROVE StepKeeps
  BY <1>10, SetPriorityInv
<1>11. QED
  BY <1>1, <1>2, <1>3, <1>4, <1>5, <1>6, <1>7, <1>8, <1>9, <1>10 DEF Next, Leave

\* The invariant holds throughout.
LEMMA Invariant == Spec => []IInv
<1>1. IInv /\ [Next]_vars => IInv'
  BY NextInv DEF StepKeeps
<1>2. QED  BY <1>1, InitInv, PTL DEF Spec

\* A ready thread is a queued one.
LEMMA QueuedReady == IInv => Queued = Ready
  BY DEF IInv, Holds, Queued, OnQueue, Ready

\* Every variable of the scheduler keeps its type; in particular nr_running and
\* _preempt_count never go below zero.
THEOREM SchedTypeCorrect == Spec => []TypeOK
<1>1. IInv => TypeOK
  BY DEF IInv
<1>2. QED  BY <1>1, Invariant, PTL

\* The bitmap and nr_running describe the queues exactly, for any number of threads
\* and priorities.
THEOREM RunQueueCorrect == Spec => []RunQueueExact
<1>1. IInv => RunQueueExact
  <2> SUFFICES ASSUME IInv  PROVE RunQueueExact
    OBVIOUS
  <2>1. Queued = Ready
    BY QueuedReady
  <2>2. QED  BY <2>1 DEF IInv, Holds, RunQueueExact
<1>2. QED  BY <1>1, Invariant, PTL

\* Exactly the runnable threads other than the current one are queued, each once and
\* at its priority; schedule() does not nest.
THEOREM ReadyThreadsQueued == Spec => []ReadyQueuedOnce
<1>1. IInv => ReadyQueuedOnce
  <2> SUFFICES ASSUME IInv  PROVE ReadyQueuedOnce
    OBVIOUS
  <2>1. Queued = Ready
    BY QueuedReady
  <2>2. NoNestedSchedule
    BY DEF IInv, Shape, NoNestedSchedule
  <2>3. QED  BY <2>1, <2>2 DEF IInv, Holds, ReadyQueuedOnce
<1>2. QED  BY <1>1, Invariant, PTL

\* _preempt_count counts the threads inside schedule(), and preempt_enable never
\* finds it zero with a reschedule pending: schedule() does not recurse.
THEOREM PreemptionCorrect == Spec => [](PreemptCountExact /\ NoNestedSchedule)
<1>1. IInv => PreemptCountExact /\ NoNestedSchedule
  BY DEF IInv, Shape, NoNestedSchedule
<1>2. QED  BY <1>1, Invariant, PTL

\* schedule() never passes over a ready thread of higher priority, and goes idle
\* only when no thread is ready.
THEOREM PriorityRespected == Spec => HighestPriorityRuns
<1> DEFINE A == current' # current => \A t \in Queued' :
                   current' # Idle /\ priority[current'] <= priority[t]
<1>1. IInv /\ [Next]_vars => A
  <2> SUFFICES ASSUME IInv, [Next]_vars  PROVE A
    OBVIOUS
  <2>1. StepKeeps
    BY NextInv
  <2>2. Queued' = Ready'
    <3>1. IInv'
      BY <2>1 DEF StepKeeps
    <3>2. QED  BY <3>1 DEF IInv, Holds, Queued, OnQueue, Ready
  <2>3. QED  BY <2>1, <2>2 DEF StepKeeps
<1>2. IInv /\ [Next]_vars => [A]_vars
  BY <1>1
<1> HIDE DEF A
<1>3. Spec => [][A]_vars
  BY <1>2, Invariant, PTL DEF Spec
<1>4. QED  BY <1>3 DEF HighestPriorityRuns, A
=============================================================================
