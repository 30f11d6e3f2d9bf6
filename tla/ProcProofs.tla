----------------------------- MODULE ProcProofs -----------------------------
(***************************************************************************)
(* Proofs about Proc, for any number of processes, address spaces and      *)
(* PIDs, with init registered or not: process_wait, the end of processes,  *)
(* and the theorems.                                                       *)
(***************************************************************************)
EXTENDS ProcInductive

-----------------------------------------------------------------------------
(* process_wait *)

\* Returning -1 to a process without children only ends its wait.
LEMMA WaitNoChildInv ==
    ASSUME IInv, WaitNoChild
    PROVE  IInv'
<1>1. /\ TypeOK /\ Shape /\ Anchors /\ Lists /\ Listed /\ Reapable /\ Childless
      /\ NoMissedExit /\ PidsExact /\ SpacesOwned /\ LoadedSpaceExists
  BY DEF IInv
<1>2. /\ UNCHANGED <<state, kthread, pid, parent, children, pid_bitmap, next_pid>>
      /\ UNCHANGED <<init_process, booted, mm, cr3, spaces, current>>
      /\ wait_channel' = [wait_channel EXCEPT ![current] = Null]
      /\ current \in Procs /\ ~kthread[current]
  BY DEF WaitNoChild, InWait, treeVars, pidVars, bootVars, spaceVars
<1>3. state[current] = "RUNNING"
  BY <1>1, <1>2, ProcAssumption DEF Anchors
<1>4. \A x \in Procs : wait_channel'[x] = IF x = current THEN Null ELSE wait_channel[x]
  BY <1>1, <1>2 DEF TypeOK
<1>5. TypeOK' /\ SpacesOwned' /\ LoadedSpaceExists' /\ Anchors'
  BY <1>1, <1>2 DEF TypeOK, SpacesOwned, LoadedSpaceExists, Anchors, Live
<1>6. Shape'
  <2> SUFFICES ASSUME NEW x \in Procs, Live(x)  PROVE Shape!(x)!2'
    BY <1>2 DEF Shape, Live
  <2>1. CASE x = current
    BY <1>1, <1>2, <1>3, <1>4, <2>1 DEF Shape
  <2>2. CASE x # current
    BY <1>1, <1>2, <1>4, <2>2 DEF Shape
  <2>3. QED  BY <2>1, <2>2
<1>7. Lists' /\ Listed' /\ Reapable' /\ Childless' /\ NoMissedExit'
  BY <1>1, <1>2, TreeKept
<1>8. PidsExact'
  BY <1>1, <1>2 DEF PidsExact, Live, NewPid
<1>9. QED  BY <1>5, <1>6, <1>7, <1>8 DEF IInv

\* The zombies on a list are the same as long as its members that are zombies are.
LEMMA SameZombies ==
    ASSUME NEW x \in Procs, children[x] \in Seq(Procs), children'[x] = children[x],
           \A y \in Members(children[x]) : state'[y] = "ZOMBIE" <=> state[y] = "ZOMBIE"
    PROVE  ZombieIndices(x)' = ZombieIndices(x)
  BY DEF ZombieIndices, Members

\* What is said of the tree holds on as long as the tree, init, and who exists or
\* is a zombie do.
LEMMA SleepKeepsTree ==
    ASSUME TypeOK, Lists, Listed, Reapable, Childless,
           UNCHANGED <<parent, children, init_process, booted>>,
           \A x \in Procs : /\ Live(x)' <=> Live(x)
                            /\ state'[x] = "ZOMBIE" <=> state[x] = "ZOMBIE"
    PROVE  Lists' /\ Listed' /\ Reapable' /\ Childless'
<1>1. Tended' <=> Tended
  BY DEF Tended
<1>2. Lists'
  <2> SUFFICES ASSUME NEW x \in Procs, Live(x)
               PROVE  /\ \A y \in Members(children[x]) : Live(y)' /\ parent[y] = x
                      /\ Distinct(children[x])
    BY DEF Lists
  <2>1. children[x] \in Seq(Procs)
    BY DEF TypeOK
  <2>2. Members(children[x]) \subseteq Procs
    BY <2>1, EmptyList
  <2>3. QED  BY <2>2 DEF Lists
<1>3. Listed'
  BY <1>1 DEF Listed
<1>4. Reapable'
  <2> SUFFICES ASSUME Tended, NEW x \in Procs, Live(x), parent[x] # Null
               PROVE  /\ Live(parent[x])'
                      /\ state'[parent[x]] = "ZOMBIE" => parent[x] = init_process
    BY <1>1 DEF Reapable
  <2>1. parent[x] \in Procs
    BY DEF TypeOK
  <2>2. QED  BY <2>1 DEF Reapable
<1>5. Childless'
  BY <1>1 DEF Childless
<1>6. QED  BY <1>2, <1>3, <1>4, <1>5

\* A process goes to sleep only after it has seen that no child is a zombie.
LEMMA WaitSleepInv ==
    ASSUME IInv, NEW n \in Procs \cup {Idle}, WaitSleep(n)
    PROVE  IInv'
<1>1. /\ TypeOK /\ Shape /\ Anchors /\ Lists /\ Listed /\ Reapable /\ Childless
      /\ NoMissedExit /\ PidsExact /\ SpacesOwned /\ LoadedSpaceExists
  BY DEF IInv
<1> DEFINE s == [state EXCEPT ![current] = "INTERRUPTIBLE"]
<1>2. /\ UNCHANGED <<kthread, pid, parent, children, pid_bitmap, next_pid>>
      /\ UNCHANGED <<init_process, booted, mm, spaces>>
      /\ wait_channel' = [wait_channel EXCEPT ![current] = current]
      /\ current \in Procs /\ ~kthread[current]
      /\ children[current] # <<>> /\ ZombieIndices(current) = {}
      /\ SwitchTo(n, s, mm, cr3)
  BY DEF WaitSleep, InWait, SwitchTo, treeVars, pidVars, bootVars
<1>3. state' = s /\ current' = n
      /\ cr3' \in {cr3} \cup {mm[x] : x \in {y \in Procs : mm[y] # Null}}
  BY <1>2 DEF SwitchTo, LoadedFor
<1>4. state[current] = "RUNNING" /\ Live(current)
  BY <1>1, <1>2, ProcAssumption DEF Anchors, Live
<1>5. \A x \in Procs :
        /\ state'[x] = IF x = current THEN "INTERRUPTIBLE" ELSE state[x]
        /\ wait_channel'[x] = IF x = current THEN current ELSE wait_channel[x]
  BY <1>1, <1>2, <1>3 DEF TypeOK
<1>6. \A x \in Procs : /\ Live(x)' <=> Live(x)
                       /\ state'[x] = "ZOMBIE" <=> state[x] = "ZOMBIE"
  BY <1>4, <1>5 DEF Live
<1>7. TypeOK'
  BY <1>1, <1>2, <1>3 DEF TypeOK, States
<1> HIDE DEF s
<1>8. Shape'
  <2> SUFFICES ASSUME NEW x \in Procs, Live(x)  PROVE Shape!(x)!2'
    BY <1>6 DEF Shape
  <2>1. CASE x = current
    BY <1>1, <1>2, <1>4, <1>5, <2>1 DEF Shape
  <2>2. CASE x # current
    BY <1>1, <1>2, <1>5, <2>2 DEF Shape
  <2>3. QED  BY <2>1, <2>2
<1>9. Lists' /\ Listed' /\ Reapable' /\ Childless'
  BY <1>1, <1>2, <1>6, SleepKeepsTree
<1>10. NoMissedExit'
  <2> SUFFICES ASSUME NEW x \in Procs, state'[x] = "INTERRUPTIBLE"
               PROVE  /\ x # init_process => ZombieIndices(x)' = {}
                      /\ children[x] # <<>>
    BY <1>2 DEF NoMissedExit, Overlooks
  <2>1. ZombieIndices(x)' = ZombieIndices(x)
    <3>1. children[x] \in Seq(Procs)
      BY <1>1 DEF TypeOK
    <3>2. Members(children[x]) \subseteq Procs
      BY <3>1, EmptyList
    <3>3. QED  BY <1>2, <1>6, <3>1, <3>2, SameZombies
  <2>2. CASE x = current
    BY <1>2, <2>1, <2>2
  <2>3. CASE x # current
    <3>1. state[x] = "INTERRUPTIBLE"
      BY <1>5, <2>3
    <3>2. QED  BY <1>1, <2>1, <3>1 DEF NoMissedExit, Overlooks
  <2>4. QED  BY <2>2, <2>3
<1>11. PidsExact'
  BY <1>1, <1>2, <1>6 DEF PidsExact, NewPid
<1>12. SpacesOwned'
  BY <1>1, <1>2, <1>6 DEF SpacesOwned
<1>13. (current' # Idle => state'[current'] = "RUNNING") /\ LoadedSpaceExists'
  <2>1. /\ cr3 \in spaces' \cup {KernelSpace}
        /\ n = current /\ n \in Procs /\ ~kthread'[n] => cr3 = mm[n]
    BY <1>1, <1>2 DEF LoadedSpaceExists
  <2>2. QED  BY <1>2, <1>7, <1>8, <1>12, <2>1, SwitchInv
<1>14. Anchors'
  BY <1>1, <1>2, <1>6, <1>13 DEF Anchors, TypeOK
<1>15. QED  BY <1>7, <1>8, <1>9, <1>10, <1>11, <1>12, <1>13, <1>14 DEF IInv

\* process_destroy of a zombie, by its parent.
LEMMA WaitReapInv ==
    ASSUME IInv, WaitReap
    PROVE  IInv'
<1>1. /\ TypeOK /\ Shape /\ Anchors /\ Lists /\ Listed /\ Reapable /\ Childless
      /\ NoMissedExit /\ PidsExact /\ SpacesOwned /\ LoadedSpaceExists
  BY DEF IInv
<1>2. PICK i \in ZombieIndices(current) :
        LET z == children[current][i] IN
        /\ state' = [state EXCEPT ![z] = "free"]
        /\ children' = Unlink(children, current, z)
        /\ pid_bitmap' = FreePid(pid_bitmap, pid[z])
  BY DEF WaitReap
<1> DEFINE z == children[current][i]
<1>3. /\ UNCHANGED <<kthread, pid, parent, next_pid>>
      /\ UNCHANGED <<init_process, booted, mm, cr3, spaces, current>>
      /\ wait_channel' = [wait_channel EXCEPT ![current] = Null]
      /\ current \in Procs /\ ~kthread[current]
  BY DEF WaitReap, InWait, bootVars, spaceVars
<1>4. /\ state[current] = "RUNNING" /\ Live(current)
      /\ children[current] \in Seq(Procs)
  BY <1>1, <1>3, ProcAssumption DEF Anchors, Live, TypeOK
<1>5. z \in Members(children[current]) /\ state[z] = "ZOMBIE"
  BY DEF ZombieIndices, Members
<1>6. /\ state' = [state EXCEPT ![z] = "free"]
      /\ children' = [children EXCEPT ![current] = Without(children[current], z)]
      /\ pid_bitmap' = pid_bitmap \ {pid[z]}
  BY <1>2 DEF Unlink, FreePid
<1> HIDE DEF z
<1>7. z \in Procs /\ Live(z) /\ parent[z] = current /\ z # current
  <2>1. z \in Procs
    BY <1>4, <1>5, EmptyList
  <2>2. QED  BY <1>1, <1>3, <1>4, <1>5, <2>1 DEF Lists, Live
<1>8. /\ z # init_process /\ pid[z] # 0 /\ mm[z] = Null
      /\ Tended => children[z] = <<>>
  BY <1>1, <1>3, <1>5, <1>7, ProcAssumption DEF Anchors, Shape, SpacesOwned, Childless
<1>9. Tended => \A x \in Procs : Live(x) => parent[x] # z
  <2>1. Tended => Members(children[z]) = {}
    BY <1>8 DEF Members
  <2>2. QED  BY <1>1, <1>7, <2>1 DEF Listed
<1>10. /\ Without(children[current], z) \in Seq(Procs)
       /\ Members(Without(children[current], z)) = Members(children[current]) \ {z}
       /\ Distinct(Without(children[current], z))
  <2>1. Distinct(children[current])
    BY <1>1, <1>3, <1>4 DEF Lists
  <2>2. QED  BY <1>4, <1>5, <2>1, WithoutList
<1>11. \A x \in Procs :
        /\ state'[x] = IF x = z THEN "free" ELSE state[x]
        /\ wait_channel'[x] = IF x = current THEN Null ELSE wait_channel[x]
        /\ children'[x] = IF x = current THEN Without(children[current], z)
                          ELSE children[x]
  BY <1>1, <1>3, <1>6 DEF TypeOK
<1>12. \A x \in Procs : Live(x)' <=> Live(x) /\ x # z
  BY <1>7, <1>11 DEF Live
<1>13. TypeOK'
  <2>1. state' \in [Procs -> States] /\ children' \in [Procs -> Seq(Procs)]
    BY <1>1, <1>6, <1>10 DEF TypeOK, States
  <2>2. wait_channel' \in [Procs -> Procs \cup {Null}] /\ pid_bitmap' \subseteq 0..(PidMax - 1)
    BY <1>1, <1>3, <1>6 DEF TypeOK
  <2>3. QED  BY <1>1, <1>3, <2>1, <2>2 DEF TypeOK
<1>14. Shape'
  <2> SUFFICES ASSUME NEW x \in Procs, Live(x), x # z  PROVE Shape!(x)!2'
    BY <1>12 DEF Shape
  <2>1. CASE x = current
    BY <1>1, <1>3, <1>4, <1>11, <2>1 DEF Shape
  <2>2. CASE x # current
    BY <1>1, <1>3, <1>11, <2>2 DEF Shape
  <2>3. QED  BY <2>1, <2>2
<1>15. Anchors'
  BY <1>1, <1>3, <1>7, <1>8, <1>11, <1>12 DEF Anchors, TypeOK
<1>16. Lists'
  <2> SUFFICES ASSUME NEW x \in Procs, Live(x), x # z
               PROVE  (/\ \A y \in Members(children[x]) : Live(y) /\ parent[y] = x
                       /\ Distinct(children[x]))'
    BY <1>12 DEF Lists
  <2>1. /\ \A y \in Members(children[x]) : Live(y) /\ parent[y] = x
        /\ Distinct(children[x]) /\ Members(children[x]) \subseteq Procs
    <3>1. children[x] \in Seq(Procs)
      BY <1>1 DEF TypeOK
    <3>2. QED  BY <1>1, <3>1, EmptyList DEF Lists
  <2>2. Members(children'[x]) \subseteq Members(children[x]) \ {z}
        /\ Distinct(children'[x])
    BY <1>7, <1>10, <1>11, <2>1
  <2>3. QED  BY <1>3, <1>12, <2>1, <2>2
<1>17. Listed' /\ Reapable' /\ Childless'
  <2>1. Tended' <=> Tended
    BY <1>3 DEF Tended
  <2>2. ASSUME Tended, NEW x \in Procs, NEW y \in Procs, Live(x)', Live(y)', parent[y] = x
        PROVE  y \in Members(children'[x])
    <3>1. y \in Members(children[x]) /\ y # z
      BY <1>1, <1>12, <2>2 DEF Listed
    <3>2. QED  BY <1>10, <1>11, <3>1
  <2>3. ASSUME Tended, NEW x \in Procs, Live(x)', parent[x] # Null
        PROVE  /\ Live(parent[x])'
               /\ state'[parent[x]] = "ZOMBIE" => parent[x] = init_process
    <3>1. parent[x] \in Procs /\ parent[x] # z /\ Live(x)
      BY <1>1, <1>9, <1>12, <2>3 DEF TypeOK
    <3>2. QED  BY <1>1, <1>3, <1>11, <1>12, <2>3, <3>1 DEF Reapable
  <2>4. ASSUME Tended, NEW x \in Procs, state'[x] = "ZOMBIE"
        PROVE  x = init_process \/ children'[x] = <<>>
    BY <1>1, <1>4, <1>7, <1>11, <2>4 DEF Childless
  <2>5. Listed'
    BY <1>3, <2>1, <2>2 DEF Listed
  <2>6. Reapable'
    BY <1>3, <2>1, <2>3 DEF Reapable
  <2>7. Childless'
    BY <1>3, <2>1, <2>4 DEF Childless
  <2>8. QED  BY <2>5, <2>6, <2>7
<1>18. NoMissedExit'
  <2> SUFFICES ASSUME NEW x \in Procs, state'[x] = "INTERRUPTIBLE"
               PROVE  (/\ x # init_process => ZombieIndices(x) = {}
                       /\ children[x] # <<>>)'
    BY DEF NoMissedExit, Overlooks
  <2>1. x # current /\ x # z /\ state[x] = "INTERRUPTIBLE" /\ Live(x)
    BY <1>4, <1>7, <1>11 DEF Live
  <2>2. children[x] \in Seq(Procs) /\ children'[x] = children[x]
    BY <1>1, <1>11, <2>1 DEF TypeOK
  <2>3. z \notin Members(children[x]) /\ Members(children[x]) \subseteq Procs
    BY <1>1, <1>7, <2>1, <2>2, EmptyList DEF Lists
  <2>4. ZombieIndices(x)' = ZombieIndices(x)
    BY <1>11, <2>2, <2>3, SameZombies
  <2>5. QED  BY <1>1, <1>3, <2>1, <2>2, <2>4 DEF NoMissedExit, Overlooks
<1>19. PidsExact'
  <2>1. \A x, y \in Procs : Live(x) /\ Live(y) /\ pid[x] = pid[y] => x = y
    BY <1>1 DEF PidsExact
  <2>2. pid_bitmap' = {0} \cup {pid[x] : x \in {q \in Procs : Live(q)'}}
    <3>1. pid_bitmap = {0} \cup {pid[x] : x \in {q \in Procs : Live(q)}}
      BY <1>1 DEF PidsExact
    <3>2. {q \in Procs : Live(q)'} = {q \in Procs : Live(q)} \ {z}
      BY <1>12
    <3>3. \A x \in {q \in Procs : Live(q)} \ {z} : pid[x] # pid[z]
      BY <1>7, <2>1
    <3>4. QED  BY <1>6, <1>8, <3>1, <3>2, <3>3
  <2>3. (NewPid = -1 <=> pid_bitmap = 0..(PidMax - 1))'
    <3>1. pid_bitmap' \in SUBSET (0..(PidMax - 1)) /\ next_pid' \in 1..(PidMax - 1)
          /\ 0 \in pid_bitmap'
      BY <1>13, <2>2 DEF TypeOK
    <3>2. QED  BY <3>1, PidSearchComplete DEF NewPid
  <2>4. QED  BY <1>3, <1>12, <2>1, <2>2, <2>3 DEF PidsExact
<1>20. SpacesOwned'
  <2>1. /\ spaces = {mm[x] : x \in {q \in Procs : Live(q)}} \ {Null}
        /\ \A x, y \in Procs :
              Live(x) /\ Live(y) /\ mm[x] = mm[y] /\ mm[x] # Null => x = y
        /\ \A x \in Procs : state[x] = "ZOMBIE" => mm[x] = Null
    BY <1>1 DEF SpacesOwned
  <2>2. spaces = {mm[x] : x \in {q \in Procs : Live(q)'}} \ {Null}
    BY <1>8, <1>12, <2>1
  <2>3. \A x \in Procs : state'[x] = "ZOMBIE" => state[x] = "ZOMBIE"
    BY <1>11
  <2>4. spaces' = {mm'[x] : x \in {q \in Procs : Live(q)'}} \ {Null}
    BY <1>3, <2>2
  <2>5. \A x, y \in Procs :
            Live(x)' /\ Live(y)' /\ mm'[x] = mm'[y] /\ mm'[x] # Null => x = y
    BY <1>3, <1>12, <2>1
  <2>6. \A x \in Procs : state'[x] = "ZOMBIE" => mm'[x] = Null
    BY <1>3, <2>1, <2>3
  <2>7. QED  BY <2>4, <2>5, <2>6 DEF SpacesOwned
<1>21. LoadedSpaceExists'
  BY <1>1, <1>3 DEF LoadedSpaceExists
<1>22. QED
  BY <1>13, <1>14, <1>15, <1>16, <1>17, <1>18, <1>19, <1>20, <1>21 DEF IInv

-----------------------------------------------------------------------------
(* The end of a process *)

\* thread_exit makes the exiting thread a zombie and wakes its parent, if that
\* sleeps in process_wait; nobody else's state changes.
LEMMA ExitedStates ==
    ASSUME IInv, NEW p \in Procs, state[p] = "RUNNING"
    PROVE  /\ Exited(p) \in [Procs -> States]
           /\ Exited(p)[p] = "ZOMBIE"
           /\ \A x \in Procs : x # p =>
                 /\ Exited(p)[x] = "ZOMBIE" <=> state[x] = "ZOMBIE"
                 /\ Exited(p)[x] = "free" <=> state[x] = "free"
                 /\ Exited(p)[x] = "INTERRUPTIBLE" =>
                        state[x] = "INTERRUPTIBLE" /\ x # parent[p]
<1>1. TypeOK /\ Shape
  BY DEF IInv
<1> DEFINE s == [state EXCEPT ![p] = "ZOMBIE"]
<1>2. /\ s \in [Procs -> States] /\ s[p] = "ZOMBIE"
      /\ \A x \in Procs : x # p => s[x] = state[x]
  BY <1>1 DEF TypeOK, States
<1>3. Exited(p) = [x \in Procs |-> IF /\ parent[p] # Null
                                      /\ wait_channel[x] = parent[p]
                                      /\ s[x] = "INTERRUPTIBLE"
                                   THEN "RUNNING" ELSE s[x]]
  BY DEF Exited, Wakeup
<1> HIDE DEF s
<1>4. Exited(p) \in [Procs -> States] /\ Exited(p)[p] = "ZOMBIE"
  BY <1>2, <1>3 DEF States
<1>5. ASSUME NEW x \in Procs, x # p
      PROVE  /\ Exited(p)[x] = "ZOMBIE" <=> state[x] = "ZOMBIE"
             /\ Exited(p)[x] = "free" <=> state[x] = "free"
             /\ Exited(p)[x] = "INTERRUPTIBLE" =>
                    state[x] = "INTERRUPTIBLE" /\ x # parent[p]
  <2>1. state[x] = "INTERRUPTIBLE" => wait_channel[x] = x
    BY <1>1 DEF Shape, Live
  <2>2. x # Null
    BY ProcAssumption
  <2>3. QED  BY <1>2, <1>3, <1>5, <2>1, <2>2
<1>6. QED  BY <1>4, <1>5

\* schedule() never goes back to a thread that exited.
LEMMA NeverBack ==
    ASSUME NEW p \in Procs, NEW s, NEW m, NEW old, NEW n,
           s[p] = "ZOMBIE", SwitchTo(n, s, m, old)
    PROVE  n # p
<1>1. n \in Choices(s)
  BY DEF SwitchTo
<1>2. p \notin Choices(s)
  BY ProcAssumption DEF Choices, Runnable
<1>3. QED  BY <1>1, <1>2

\* A kernel thread that ends becomes a zombie without parent, children or space.
LEMMA KthreadExitInv ==
    ASSUME IInv, NEW n \in Procs \cup {Idle}, KthreadExit(n)
    PROVE  IInv'
<1>1. /\ TypeOK /\ Shape /\ Anchors /\ Lists /\ Listed /\ Reapable /\ Childless
      /\ NoMissedExit /\ PidsExact /\ SpacesOwned /\ LoadedSpaceExists
  BY DEF IInv
<1> DEFINE p == current
<1>2. /\ UNCHANGED <<wait_channel, kthread, pid, parent, children, pid_bitmap, next_pid>>
      /\ UNCHANGED <<init_process, booted, mm, spaces>>
      /\ p \in Procs /\ kthread[p] /\ wait_channel[p] = Null
      /\ state' = Exited(p) /\ SwitchTo(n, Exited(p), mm, cr3) /\ current' = n
      /\ cr3' \in {cr3} \cup {mm[x] : x \in {y \in Procs : mm[y] # Null}}
  BY DEF KthreadExit, Executing, SwitchTo, LoadedFor, treeVars, pidVars, bootVars
<1>3. state[p] = "RUNNING" /\ Live(p)
  BY <1>1, <1>2, ProcAssumption DEF Anchors, Live
<1>4. parent[p] = Null /\ children[p] = <<>> /\ mm[p] = Null /\ p # init_process
  BY <1>1, <1>2, <1>3, ProcAssumption DEF Shape, Anchors
<1> HIDE DEF p
<1>5. /\ state' \in [Procs -> States] /\ state'[p] = "ZOMBIE"
      /\ \A x \in Procs : x # p =>
            /\ state'[x] = "ZOMBIE" <=> state[x] = "ZOMBIE"
            /\ state'[x] = "free" <=> state[x] = "free"
            /\ state'[x] = "INTERRUPTIBLE" => state[x] = "INTERRUPTIBLE"
  BY <1>2, <1>3, ExitedStates
<1>6. \A x \in Procs : Live(x)' <=> Live(x)
  BY <1>3, <1>5 DEF Live
<1>7. \A x \in Procs : Live(x) => p \notin Members(children[x])
                                 /\ (Tended => parent[x] # p)
  <2>1. Members(children[p]) = {}
    BY <1>4 DEF Members
  <2>2. \A x \in Procs : Live(x) => p \notin Members(children[x])
    BY <1>1, <1>2, <1>4, ProcAssumption DEF Lists
  <2>3. QED  BY <1>1, <1>2, <1>3, <2>1, <2>2 DEF Listed
<1>8. TypeOK'
  BY <1>1, <1>2, <1>5 DEF TypeOK
<1>9. Shape'
  <2> SUFFICES ASSUME NEW x \in Procs, Live(x)  PROVE Shape!(x)!2'
    BY <1>6 DEF Shape
  <2>1. CASE x = p
    BY <1>1, <1>2, <1>4, <1>5, <2>1 DEF Shape
  <2>2. CASE x # p
    BY <1>1, <1>2, <1>5, <2>2 DEF Shape
  <2>3. QED  BY <2>1, <2>2
<1>10. Lists'
  <2> SUFFICES ASSUME NEW x \in Procs, Live(x)
               PROVE  /\ \A y \in Members(children[x]) : Live(y)' /\ parent[y] = x
                      /\ Distinct(children[x])
    BY <1>2, <1>6 DEF Lists
  <2>1. children[x] \in Seq(Procs)
    BY <1>1 DEF TypeOK
  <2>2. Members(children[x]) \subseteq Procs
    BY <2>1, EmptyList
  <2>3. QED  BY <1>1, <1>6, <2>2 DEF Lists
<1>11. Listed' /\ Reapable' /\ Childless'
  <2>1. Tended' <=> Tended
    BY <1>2 DEF Tended
  <2>2. Listed'
    BY <1>1, <1>2, <1>6, <2>1 DEF Listed
  <2>3. ASSUME Tended, NEW x \in Procs, Live(x), parent[x] # Null
        PROVE  /\ Live(parent[x])'
               /\ state'[parent[x]] = "ZOMBIE" => parent[x] = init_process
    <3>1. parent[x] \in Procs /\ parent[x] # p
      BY <1>1, <1>7, <2>3 DEF TypeOK
    <3>2. QED  BY <1>1, <1>2, <1>5, <1>6, <2>3, <3>1 DEF Reapable
  <2>4. Reapable'
    BY <1>2, <1>6, <2>1, <2>3 DEF Reapable
  <2>5. Childless'
    BY <1>1, <1>2, <1>4, <1>5, <2>1 DEF Childless
  <2>6. QED  BY <2>2, <2>4, <2>5
<1>12. NoMissedExit'
  <2> SUFFICES ASSUME NEW x \in Procs, state'[x] = "INTERRUPTIBLE"
               PROVE  /\ x # init_process => ZombieIndices(x)' = {}
                      /\ children[x] # <<>>
    BY <1>2 DEF NoMissedExit, Overlooks
  <2>1. x # p /\ state[x] = "INTERRUPTIBLE" /\ Live(x)
    BY <1>5 DEF Live
  <2>2. children[x] \in Seq(Procs) /\ Members(children[x]) \subseteq Procs
        /\ p \notin Members(children[x])
    BY <1>1, <1>7, <2>1, EmptyList DEF TypeOK
  <2>3. ZombieIndices(x)' = ZombieIndices(x)
    BY <1>2, <1>5, <2>2, SameZombies
  <2>4. QED  BY <1>1, <2>1, <2>3 DEF NoMissedExit, Overlooks
<1>13. PidsExact'
  BY <1>1, <1>2, <1>6 DEF PidsExact, NewPid
<1>14. SpacesOwned'
  <2>1. \A x \in Procs : state'[x] = "ZOMBIE" => mm[x] = Null
    BY <1>1, <1>4, <1>5 DEF SpacesOwned
  <2>2. QED  BY <1>1, <1>2, <1>6, <2>1 DEF SpacesOwned
<1>15. (current' # Idle => state'[current'] = "RUNNING") /\ LoadedSpaceExists'
  <2>1. n # p
    BY <1>2, <1>5, NeverBack
  <2>2. cr3 \in spaces' \cup {KernelSpace}
    BY <1>1, <1>2 DEF LoadedSpaceExists
  <2>3. QED  BY <1>2, <1>8, <1>9, <1>14, <2>1, <2>2, SwitchInv DEF p
<1>16. Anchors'
  BY <1>1, <1>2, <1>6, <1>15 DEF Anchors, TypeOK
<1>17. QED  BY <1>8, <1>9, <1>10, <1>11, <1>12, <1>13, <1>14, <1>15, <1>16 DEF IInv

\* process_exit hands the children on: with init registered, it has those of the
\* process that exits besides its own afterwards, the process has none unless it
\* is init, and both representations of the tree still agree.  Otherwise nothing
\* about the tree changes.
LEMMA HandedOn ==
    ASSUME IInv, NEW n, ProcessExit(n)
    PROVE  /\ parent' \in [Procs -> Procs \cup {Null}]
           /\ children' \in [Procs -> Seq(Procs)]
           /\ \A x \in Procs : Live(x) =>
                 /\ parent'[x] = IF Reparents(current) /\ parent[x] = current
                                 THEN init_process ELSE parent[x]
                 /\ \A y \in Members(children'[x]) :
                        y \in Procs /\ Live(y) /\ parent'[y] = x
                 /\ Distinct(children'[x])
                 /\ Tended => \A y \in Procs : Live(y) /\ parent'[y] = x
                                               => y \in Members(children'[x])
           /\ Reparents(current) => children'[current] = <<>>
           /\ \A x \in Procs : x # current /\ x # init_process
                                  => children'[x] = children[x]
           /\ init_process # Null /\ children[init_process] # <<>>
                  => children'[init_process] # <<>>
<1>1. TypeOK /\ Shape /\ Anchors /\ Lists /\ Listed
  BY DEF IInv
<1> DEFINE p == current
           i == init_process
<1>2. p \in Procs /\ Live(p)
  BY <1>1, ProcAssumption
  DEF ProcessExit, InUser, Executing, Anchors, Live
<1>3. \A x \in Procs : children[x] \in Seq(Procs) /\ Members(children[x]) \subseteq Procs
  BY <1>1, EmptyList DEF TypeOK
<1>4. \A x \in Procs : Live(x) =>
          /\ \A y \in Members(children[x]) : y \in Procs /\ Live(y) /\ parent[y] = x
          /\ Distinct(children[x])
          /\ Tended => \A y \in Procs : Live(y) /\ parent[y] = x
                                        => y \in Members(children[x])
  BY <1>1, <1>3 DEF Lists, Listed
<1>5. CASE ~Reparents(p)
  <2>1. parent' = parent /\ children' = children
    BY <1>5 DEF ProcessExit, treeVars
  <2>2. QED  BY <1>1, <1>4, <1>5, <2>1 DEF TypeOK
<1>6. CASE Reparents(p)
  <2>0. /\ i # p /\ i \in Procs /\ i # Null /\ Live(i) /\ parent[i] = Null
        /\ Tended
    BY <1>1, <1>6 DEF Reparents, Anchors, TypeOK, Tended
  <2>1. /\ parent' = [c \in Procs |-> IF c \in Members(children[p]) THEN i ELSE parent[c]]
        /\ children' = [children EXCEPT ![p] = <<>>, ![i] = @ \o children[p]]
    BY <1>6 DEF ProcessExit
  <2> DEFINE q == children[i] \o children[p]
  <2>2. /\ q \in Seq(Procs)
        /\ Members(q) = Members(children[i]) \cup Members(children[p])
        /\ Distinct(q)
    <3>1. Members(children[i]) \cap Members(children[p]) = {}
      BY <1>2, <1>4, <2>0
    <3>2. QED  BY <1>2, <1>3, <1>4, <2>0, <3>1, ConcatList
  <2>3. children' = [[children EXCEPT ![p] = <<>>] EXCEPT ![i] = q]
    BY <1>1, <1>2, <2>0, <2>1 DEF TypeOK
  <2>4. children[i] # <<>> => q # <<>>
    BY <1>2, <1>3, <2>0
  <2> HIDE DEF q
  <2>5. /\ children'[p] = <<>> /\ children'[i] = q
        /\ \A x \in Procs : x # p /\ x # i => children'[x] = children[x]
    BY <1>1, <1>2, <2>0, <2>3 DEF TypeOK
  <2>6. parent' \in [Procs -> Procs \cup {Null}] /\ children' \in [Procs -> Seq(Procs)]
    <3>1. parent' \in [Procs -> Procs \cup {Null}]
      BY <1>1, <2>0, <2>1 DEF TypeOK
    <3>2. <<>> \in Seq(Procs)
      OBVIOUS
    <3>3. children' \in [Procs -> Seq(Procs)]
      BY <1>1, <1>2, <2>0, <2>2, <2>3, <3>2 DEF TypeOK
    <3>4. QED  BY <3>1, <3>3
  <2>7. \A x \in Procs : Live(x) => parent'[x] = IF parent[x] = p THEN i ELSE parent[x]
    BY <1>2, <1>4, <2>0, <2>1
  <2>8. ASSUME NEW x \in Procs, Live(x)
        PROVE  /\ \A y \in Members(children'[x]) :
                      y \in Procs /\ Live(y) /\ parent'[y] = x
               /\ Distinct(children'[x])
               /\ \A y \in Procs : Live(y) /\ parent'[y] = x => y \in Members(children'[x])
    <3>1. CASE x = p
      <4>1. \A y \in Procs : ~(Live(y) /\ parent'[y] = x)
        BY <2>0, <2>7, <3>1
      <4>2. Members(<<>>) = {} /\ Distinct(<<>>)
        BY DEF Members, Distinct
      <4>3. QED  BY <2>5, <3>1, <4>1, <4>2
    <3>2. CASE x = i
      <4>1. \A y \in Procs : (Live(y) /\ parent'[y] = i)
                             <=> (Live(y) /\ (parent[y] = i \/ parent[y] = p))
        BY <2>0, <2>7
      <4>2. Members(q) = {y \in Procs : Live(y) /\ (parent[y] = i \/ parent[y] = p)}
        <5>1. ASSUME NEW y \in Members(q)
              PROVE  y \in Procs /\ Live(y) /\ (parent[y] = i \/ parent[y] = p)
          BY <1>2, <1>4, <2>0, <2>2
        <5>2. ASSUME NEW y \in Procs, Live(y), parent[y] = i \/ parent[y] = p
              PROVE  y \in Members(q)
          BY <1>2, <1>4, <2>0, <2>2, <5>2
        <5>3. QED  BY <5>1, <5>2
      <4>3. QED  BY <2>2, <2>5, <3>2, <4>1, <4>2
    <3>3. CASE x # p /\ x # i
      <4>1. \A y \in Procs : (Live(y) /\ parent'[y] = x) <=> (Live(y) /\ parent[y] = x)
        BY <2>7, <3>3
      <4>2. QED  BY <1>4, <2>0, <2>5, <2>8, <3>3, <4>1
    <3>4. QED  BY <3>1, <3>2, <3>3
  <2>9. QED  BY <1>6, <2>4, <2>5, <2>6, <2>7, <2>8
<1>7. QED  BY <1>5, <1>6

\* process_exit keeps the invariant: the address space goes with its owner, the
\* parent is woken before anybody can find the zombie, and init inherits.
LEMMA ProcessExitInv ==
    ASSUME IInv, NEW n \in Procs \cup {Idle}, ProcessExit(n)
    PROVE  IInv'
<1>1. /\ TypeOK /\ Shape /\ Anchors /\ Lists /\ Listed /\ Reapable /\ Childless
      /\ NoMissedExit /\ PidsExact /\ SpacesOwned /\ LoadedSpaceExists
  BY DEF IInv
<1> DEFINE p == current
           i == init_process
           m == [mm EXCEPT ![p] = Null]
<1>2. /\ UNCHANGED <<wait_channel, kthread, pid, pid_bitmap, next_pid>>
      /\ UNCHANGED <<init_process, booted>>
      /\ p \in Procs /\ ~kthread[p] /\ wait_channel[p] = Null
      /\ spaces' = spaces \ {mm[p]} /\ mm' = m
      /\ state' = Exited(p) /\ SwitchTo(n, Exited(p), m, KernelSpace) /\ current' = n
      /\ cr3' \in {KernelSpace} \cup {m[x] : x \in {y \in Procs : m[y] # Null}}
  BY DEF ProcessExit, InUser, Executing, SwitchTo, LoadedFor, pidVars, bootVars
<1>3. /\ state[p] = "RUNNING" /\ Live(p) /\ booted
      /\ i # Null => i \in Procs /\ Live(i) /\ parent[i] = Null /\ ~kthread[i]
  BY <1>1, <1>2, ProcAssumption DEF Anchors, Live, Shape, TypeOK
<1>4. /\ mm'[p] = Null /\ m \in [Procs -> Spaces \cup {Null}]
      /\ \A x \in Procs : x # p => mm'[x] = mm[x]
  BY <1>1, <1>2 DEF TypeOK
<1> HIDE DEF m
<1>5. /\ state' \in [Procs -> States] /\ state'[p] = "ZOMBIE"
      /\ \A x \in Procs : x # p =>
            /\ state'[x] = "ZOMBIE" <=> state[x] = "ZOMBIE"
            /\ state'[x] = "free" <=> state[x] = "free"
            /\ state'[x] = "INTERRUPTIBLE" =>
                   state[x] = "INTERRUPTIBLE" /\ x # parent[p]
  BY <1>2, <1>3, ExitedStates
<1>6. \A x \in Procs : Live(x)' <=> Live(x)
  BY <1>3, <1>5 DEF Live
<1>7. /\ parent' \in [Procs -> Procs \cup {Null}]
      /\ children' \in [Procs -> Seq(Procs)]
      /\ \A x \in Procs : Live(x) =>
            /\ parent'[x] = IF Reparents(p) /\ parent[x] = p THEN i ELSE parent[x]
            /\ \A y \in Members(children'[x]) :
                   y \in Procs /\ Live(y) /\ parent'[y] = x
            /\ Distinct(children'[x])
            /\ Tended => \A y \in Procs : Live(y) /\ parent'[y] = x
                                          => y \in Members(children'[x])
      /\ Reparents(p) => children'[p] = <<>>
      /\ \A x \in Procs : x # p /\ x # i => children'[x] = children[x]
      /\ i # Null /\ children[i] # <<>> => children'[i] # <<>>
  BY HandedOn
<1>8. TypeOK'
  <2>1. cr3' \in Spaces \cup {KernelSpace} /\ spaces' \subseteq Spaces
    BY <1>1, <1>2, <1>4 DEF TypeOK
  <2>2. QED  BY <1>1, <1>2, <1>4, <1>5, <1>7, <2>1 DEF TypeOK
<1>9. Shape'
  <2> SUFFICES ASSUME NEW x \in Procs, Live(x)  PROVE Shape!(x)!2'
    BY <1>6 DEF Shape
  <2>1. parent'[x] # x /\ (kthread[x] => parent'[x] = Null)
    <3>1. parent'[x] = IF Reparents(p) /\ parent[x] = p THEN i ELSE parent[x]
      BY <1>7
    <3>2. parent[x] # x /\ (kthread[x] => parent[x] = Null) /\ p # Null
      BY <1>1, <1>2, ProcAssumption DEF Shape
    <3>3. Reparents(p) => i # Null
      BY DEF Reparents
    <3>4. QED  BY <1>3, <3>1, <3>2, <3>3
  <2>2. CASE x = p
    BY <1>1, <1>2, <1>3, <1>4, <1>5, <1>7, <2>1, <2>2 DEF Shape
  <2>3. CASE x # p
    <3>1. kthread[x] \/ x # i => children'[x] = children[x]
      BY <1>3, <1>7, <2>3, ProcAssumption
    <3>2. QED  BY <1>1, <1>2, <1>4, <1>5, <2>1, <2>3, <3>1 DEF Shape
  <2>4. QED  BY <2>2, <2>3
<1>10. Lists'
  BY <1>6, <1>7 DEF Lists
<1>11. Listed' /\ Reapable' /\ Childless'
  <2>1. (Tended' <=> Tended) /\ (Tended => i # Null)
    BY <1>2, <1>3 DEF Tended
  <2>2. Listed'
    BY <1>6, <1>7, <2>1 DEF Listed
  <2>3. ASSUME Tended, NEW x \in Procs, Live(x), parent'[x] # Null
        PROVE  /\ Live(parent[x])'
               /\ state'[parent'[x]] = "ZOMBIE" => parent'[x] = i
    <3>1. CASE parent[x] = p
      <4>1. parent'[x] = i
        BY <1>7, <2>1, <2>3, <3>1 DEF Reparents
      <4>2. QED  BY <1>3, <1>6, <2>1, <2>3, <4>1
    <3>2. CASE parent[x] # p
      <4>1. parent'[x] = parent[x] /\ parent[x] \in Procs
        BY <1>1, <1>7, <2>3, <3>2 DEF TypeOK
      <4>2. Live(parent[x]) /\ (state[parent[x]] = "ZOMBIE" => parent[x] = i)
        BY <1>1, <2>3, <4>1 DEF Reapable
      <4>3. QED  BY <1>5, <1>6, <3>2, <4>1, <4>2
    <3>3. QED  BY <3>1, <3>2
  <2>4. Reapable'
    BY <1>2, <1>6, <2>1, <2>3 DEF Reapable
  <2>5. ASSUME Tended, NEW x \in Procs, state'[x] = "ZOMBIE"
        PROVE  x = i \/ children'[x] = <<>>
    <3>1. CASE x = p
      BY <1>7, <2>1, <2>5, <3>1 DEF Reparents
    <3>2. CASE x # p
      <4>1. state[x] = "ZOMBIE"
        BY <1>5, <2>5, <3>2
      <4>2. QED  BY <1>1, <1>7, <2>5, <3>2, <4>1 DEF Childless
    <3>3. QED  BY <3>1, <3>2
  <2>6. Childless'
    BY <1>2, <2>1, <2>5 DEF Childless
  <2>7. QED  BY <2>2, <2>4, <2>6
<1>12. NoMissedExit'
  <2> SUFFICES ASSUME NEW x \in Procs, state'[x] = "INTERRUPTIBLE"
               PROVE  /\ x # i => ZombieIndices(x)' = {}
                      /\ children'[x] # <<>>
    BY <1>2 DEF NoMissedExit, Overlooks
  <2>1. x # p /\ x # parent[p] /\ state[x] = "INTERRUPTIBLE" /\ Live(x)
    BY <1>5 DEF Live
  <2>2. children[x] # <<>> /\ (x # i => ZombieIndices(x) = {})
    BY <1>1, <2>1 DEF NoMissedExit, Overlooks
  <2>3. CASE x = i
    BY <1>7, <2>2, <2>3, ProcAssumption
  <2>4. CASE x # i
    <3>1. children[x] \in Seq(Procs) /\ children'[x] = children[x]
      BY <1>1, <1>7, <2>1, <2>4 DEF TypeOK
    <3>2. p \notin Members(children[x]) /\ Members(children[x]) \subseteq Procs
      BY <1>1, <2>1, <3>1, EmptyList DEF Lists
    <3>3. ZombieIndices(x)' = ZombieIndices(x)
      BY <1>5, <3>1, <3>2, SameZombies
    <3>4. QED  BY <2>2, <2>4, <3>1, <3>3
  <2>5. QED  BY <2>3, <2>4
<1>13. PidsExact'
  BY <1>1, <1>2, <1>6 DEF PidsExact, NewPid
<1>14. SpacesOwned'
  <2>1. /\ \A x \in Procs : Live(x) /\ mm[x] # Null => mm[x] \in spaces
        /\ \A a \in spaces : a # Null /\ \E x \in Procs : Live(x) /\ mm[x] = a
        /\ \A x, y \in Procs :
              Live(x) /\ Live(y) /\ mm[x] = mm[y] /\ mm[x] # Null => x = y
        /\ \A x \in Procs : state[x] = "ZOMBIE" => mm[x] = Null
    BY <1>1 DEF SpacesOwned
  <2>2. \A a \in spaces' : a # Null /\ \E x \in Procs : Live(x) /\ mm'[x] = a
    BY <1>2, <1>4, <2>1
  <2>3. \A x \in Procs : Live(x) /\ mm'[x] # Null => mm'[x] \in spaces'
    BY <1>2, <1>3, <1>4, <2>1
  <2>4. spaces' = {mm'[x] : x \in {q \in Procs : Live(q)'}} \ {Null}
    BY <1>6, <2>2, <2>3
  <2>5. \A x, y \in Procs :
            Live(x) /\ Live(y) /\ mm'[x] = mm'[y] /\ mm'[x] # Null => x = y
    BY <1>4, <2>1
  <2>6. \A x \in Procs : state'[x] = "ZOMBIE" => mm'[x] = Null
    BY <1>4, <1>5, <2>1
  <2>7. QED  BY <1>6, <2>4, <2>5, <2>6 DEF SpacesOwned
<1>15. (current' # Idle => state'[current'] = "RUNNING") /\ LoadedSpaceExists'
  <2>1. n # p
    BY <1>2, <1>5, NeverBack
  <2>2. QED  BY <1>2, <1>8, <1>9, <1>14, <2>1, SwitchInv
<1>16. Anchors'
  <2>1. i # Null => parent'[i] = Null
    BY <1>2, <1>3, <1>7, ProcAssumption
  <2>2. QED  BY <1>1, <1>2, <1>3, <1>6, <1>15, <2>1 DEF Anchors
<1>17. QED  BY <1>8, <1>9, <1>10, <1>11, <1>12, <1>13, <1>14, <1>15, <1>16 DEF IInv

-----------------------------------------------------------------------------
(* The theorems *)

\* Nothing changes when nothing happens.
LEMMA StutterInv ==
    ASSUME IInv, UNCHANGED vars
    PROVE  IInv'
<1>1. /\ UNCHANGED <<state, wait_channel, kthread, pid, parent, children, pid_bitmap>>
      /\ UNCHANGED <<next_pid, init_process, booted, mm, cr3, spaces, current>>
  BY DEF vars, treeVars, pidVars, bootVars, spaceVars
<1>2. TypeOK' /\ Shape' /\ Anchors' /\ SpacesOwned' /\ LoadedSpaceExists'
  BY <1>1
  DEF IInv, TypeOK, Shape, Anchors, SpacesOwned, LoadedSpaceExists, Live
<1>3. Lists' /\ Listed' /\ Reapable' /\ Childless' /\ NoMissedExit'
  BY <1>1, TreeKept DEF IInv
<1>4. PidsExact'
  BY <1>1 DEF IInv, PidsExact, Live, NewPid
<1>5. QED  BY <1>2, <1>3, <1>4 DEF IInv

\* Every step of process.c and exec.c keeps the invariant.
LEMMA StepInv ==
    ASSUME IInv, [Next]_vars
    PROVE  IInv'
<1>1. CASE UNCHANGED vars
  BY <1>1, StutterInv
<1>2. ASSUME NEW c \in Procs, KthreadCreate(c) \/ ExecInit(c) \/ ProcessFork(c)
      PROVE  IInv'
  BY <1>2, BirthInv
<1>3. ASSUME NEW c \in Procs, ProcessForkFails(c)  PROVE IInv'
  BY <1>3, ForkFailsInv
<1>4. CASE ExecReplace
  BY <1>4, ExecInv
<1>5. CASE WaitNoChild
  BY <1>5, WaitNoChildInv
<1>6. CASE WaitReap
  BY <1>6, WaitReapInv
<1>7. ASSUME NEW n \in Procs \cup {Idle}, Step(n)  PROVE IInv'
  BY <1>7, ProcessExitInv, KthreadExitInv, WaitSleepInv, YieldInv DEF Step
<1>8. QED  BY <1>1, <1>2, <1>3, <1>4, <1>5, <1>6, <1>7 DEF Next

\* The inductive invariant holds in every state that can be reached.
LEMMA Invariance == Spec => []IInv
<1>1. IInv /\ [Next]_vars => IInv'
  BY StepInv
<1>2. QED  BY <1>1, InitInv, PTL DEF Spec

\* The two representations of the process tree agree, whatever processes fork,
\* fail to fork, exit and are reaped (process_fork, process_exit, process_wait,
\* process_destroy): a list of children holds only children that exist, each
\* once, with init registered or not, and all of them if it is.
THEOREM FamilyIsConsistent == Spec => [](TypeOK /\ FamilyConsistent)
<1>1. IInv => TypeOK
  BY DEF IInv
<1>2. IInv => FamilyConsistent
  BY DEF IInv, Lists, Listed, Distinct, Tended, FamilyConsistent
<1>3. QED  BY <1>1, <1>2, Invariance, PTL

\* "Reparent children to init so someone can always reap them": once init is
\* registered (exec_init), no process is ever left with a parent that is gone,
\* or that exited and is not init.
THEOREM SomeoneCanReap == Spec => []ReaperExists
<1>1. IInv => ReaperExists
  BY DEF IInv, Reapable, Tended, ReaperExists
<1>2. QED  BY <1>1, Invariance, PTL

\* "A child cannot exit and miss our wait_channel publication": no process but
\* a registered init sleeps in process_wait beside a zombie, and none without
\* children.
THEOREM NoExitIsMissed == Spec => []NoMissedExit
<1>1. IInv => NoMissedExit
  BY DEF IInv
<1>2. QED  BY <1>1, Invariance, PTL

\* alloc_pid and free_pid: a PID is taken exactly while a process has it, no two
\* have the same, and the search fails only when there is none left.
THEOREM PidsAreExact == Spec => []PidsExact
<1>1. IInv => PidsExact
  BY DEF IInv
<1>2. QED  BY <1>1, Invariance, PTL

\* exec_replace, process_exit and switch_to: every address space has one owner,
\* and the page tables that are loaded exist and are those of who runs.
THEOREM SpacesAreSafe == Spec => [](SpacesOwned /\ LoadedSpaceExists)
<1>1. IInv => SpacesOwned /\ LoadedSpaceExists
  BY DEF IInv
<1>2. QED  BY <1>1, Invariance, PTL

=============================================================================
