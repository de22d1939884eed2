--------------------------- MODULE RuntimeProofs ---------------------------
(***************************************************************************)
(* Proofs about Scheduler.tla, for every set of addresses: the properties  *)
(* that MCScheduler checks on a small instance, and that the scheduler     *)
(* implements FifoScheduler.  Then proofs about Runtime.tla, for every     *)
(* number of coroutines, cells, words and slots, and every length of       *)
(* freelist and bound on mark pushes.                                      *)
(*                                                                         *)
(* ReadyListOK, OwnedOnce and StackSafe are not inductive alone: what a    *)
(* step may assume depends on where the thread is.  Control records that,  *)
(* and MappedOwned that every mapping has an owner.                        *)
(***************************************************************************)
EXTENDS Runtime, IntervalFacts, TLAPS

Control ==
    /\ pc \in {"setup", "spawnMain", "worker", "dispatch", "teardown", "exited"}
          => current = NULL /\ sp = NULL
    /\ pc = "coroReturn" => current = NULL
    /\ pc \in {"setup", "spawnMain", "dispatch", "coro", "teardown", "exited"}
          => cleanup = NULL
    /\ pc \in {"setup", "spawnMain", "teardown", "exited"} => live = {}
    /\ pc \in {"setup", "exited"} => altStack = NULL
    /\ pc \in {"spawnMain", "worker", "dispatch", "coro", "coroReturn", "teardown"}
          => altStack # NULL

MappedOwned ==
    \A s \in mapped : s = altStack \/ \E c \in live : stackOf[c] = s

\* The inductive invariant.
IInv == TypeOK /\ ReadyListOK /\ OwnedOnce /\ StackSafe /\ Control /\ MappedOwned

ListTypeOK ==
    /\ next \in [Coro -> Coro \cup {NULL}]
    /\ prev \in [Coro -> Coro \cup {NULL}]
    /\ readyHead \in Coro \cup {NULL}
    /\ readyTail \in Coro \cup {NULL}
    /\ order \in Seq(Coro)
-----------------------------------------------------------------------------
\* coroQueue appends a coroutine that is not in the list and keeps the links
\* of all the others.
LEMMA QueueAppends ==
    ASSUME ListTypeOK, ReadyListOK, NEW c \in Coro, ~ Queued(c), coroQueue(c)
    PROVE  /\ ListTypeOK'
           /\ ReadyListOK'
           /\ \A d \in Coro : Queued(d)' <=> (Queued(d) \/ d = c)
<1> USE NullAssumption
<1>1. /\ order' = Append(order, c)
      /\ order' \in Seq(Coro)
      /\ Len(order') = Len(order) + 1
      /\ Len(order) \in Nat
      /\ order' # <<>>
      /\ \A i \in 1 .. Len(order) : order'[i] = order[i] /\ order[i] \in Coro
      /\ order'[Len(order) + 1] = c
  BY DEF ListTypeOK, coroQueue
<1>2. \A d \in Coro : Queued(d)' <=> (Queued(d) \/ d = c)
  BY <1>1 DEF Queued
<1>3. \A i, j \in 1 .. Len(order') : order'[i] = order'[j] => i = j
  BY <1>1 DEF Queued, ReadyListOK
<1>4. CASE order = <<>>
  <2>1. /\ readyTail = NULL
        /\ Len(order) = 0
    BY <1>4 DEF ReadyListOK
  <2>2. /\ prev' = [prev EXCEPT ![c] = NULL]
        /\ next' = [next EXCEPT ![c] = NULL]
        /\ readyHead' = c
        /\ readyTail' = c
    BY <2>1 DEF coroQueue
  <2> QED BY <1>1, <1>2, <1>3, <2>1, <2>2 DEF ReadyListOK, ListTypeOK
<1>5. CASE order # <<>>
  <2>a. PICK n : n = Len(order)
    OBVIOUS
  <2>1. n \in Nat \ {0} /\ readyTail = order[n] /\ readyTail \in Coro
    BY <2>a, <1>1, <1>5 DEF ListTypeOK, ReadyListOK
  <2>2. /\ prev' = [prev EXCEPT ![c] = readyTail]
        /\ next' = [next EXCEPT ![c] = NULL, ![readyTail] = c]
        /\ readyTail' = c
        /\ readyHead' = readyHead
    BY <2>1 DEF coroQueue
  <2>3. ListTypeOK'
    BY <1>1, <2>1, <2>2 DEF ListTypeOK
  <2>4. readyTail # c
    BY <2>a, <2>1 DEF Queued
  <2>5. next'[c] = NULL /\ prev'[c] = order[n] /\ next'[order[n]] = c
    BY <2>1, <2>2, <2>4 DEF ListTypeOK
  <2>6. \A i \in 1 .. n : /\ order[i] # c
                          /\ prev'[order[i]] = prev[order[i]]
                          /\ i # n => next'[order[i]] = next[order[i]]
    <3> TAKE i \in 1 .. n
    <3>1. order[i] # c /\ order[i] \in Coro
      BY <2>a, <1>1 DEF Queued
    <3>2. i # n => order[i] # readyTail
      BY <2>a, <2>1 DEF ReadyListOK
    <3> QED BY <2>1, <2>2, <3>1, <3>2 DEF ListTypeOK
  <2>7. \A i \in 1 .. n + 1 :
          /\ next'[order'[i]] = IF i = n + 1 THEN NULL ELSE order'[i + 1]
          /\ prev'[order'[i]] = IF i = 1 THEN NULL ELSE order'[i - 1]
    <3> TAKE i \in 1 .. n + 1
    <3>1. CASE i = n + 1
      BY <2>a, <1>1, <2>1, <2>5, <3>1
    <3>2. CASE i = n
      <4>1. order'[i] = order[n] /\ order'[i + 1] = c /\ i # n + 1
        BY <2>a, <1>1, <2>1, <3>2
      <4>2. i # 1 => order'[i - 1] = order[i - 1]
        BY <2>a, <1>1, <2>1, <3>2
      <4>3. prev[order[n]] = IF n = 1 THEN NULL ELSE order[n - 1]
        BY <2>a, <2>1 DEF ReadyListOK
      <4> QED BY <4>1, <4>2, <4>3, <2>1, <2>5, <2>6, <3>2
    <3>3. CASE i \in 1 .. n /\ i # n
      <4>1. order'[i] = order[i] /\ order'[i + 1] = order[i + 1]
        BY <2>a, <1>1, <2>1, <3>3
      <4>2. i # 1 => order'[i - 1] = order[i - 1]
        BY <2>a, <1>1, <2>1, <3>3
      <4>3. /\ next[order[i]] = order[i + 1]
            /\ prev[order[i]] = IF i = 1 THEN NULL ELSE order[i - 1]
        BY <2>a, <2>1, <3>3 DEF ReadyListOK
      <4> QED BY <4>1, <4>2, <4>3, <2>1, <2>6, <3>3
    <3> QED BY <2>1, <3>1, <3>2, <3>3
  <2>8. readyHead' = order'[1]
    BY <1>1, <2>1, <2>2, <1>5 DEF ReadyListOK
  <2>9. n + 1 = Len(order')
    BY <2>a, <1>1
  <2>10. readyHead' = IF order' = <<>> THEN NULL ELSE order'[1]
    BY <1>1, <2>8
  <2>11. readyTail' = IF order' = <<>> THEN NULL ELSE order'[Len(order')]
    BY <1>1, <2>2
  <2>12. \A i \in 1 .. Len(order') :
          /\ next'[order'[i]] = IF i = Len(order') THEN NULL ELSE order'[i + 1]
          /\ prev'[order'[i]] = IF i = 1 THEN NULL ELSE order'[i - 1]
    BY <2>7, <2>9
  <2>13. ReadyListOK'
    BY <1>3, <2>10, <2>11, <2>12 DEF ReadyListOK
  <2> QED BY <1>2, <2>3, <2>13
<1> QED BY <1>4, <1>5

\* coroDispatch takes the first coroutine of the list and leaves the list of
\* the others, in the same order.
LEMMA UnlinkTakesHead ==
    ASSUME ListTypeOK, ReadyListOK, readyHead # NULL, coroUnlinkHead
    PROVE  /\ order # <<>> /\ readyHead = order[1] /\ readyHead \in Coro
           /\ order' = Tail(order)
           /\ ListTypeOK'
           /\ ReadyListOK'
           /\ \A d \in Coro : Queued(d)' <=> (Queued(d) /\ d # readyHead)
<1> USE NullAssumption
<1>a. PICK n : n = Len(order)
  OBVIOUS
<1>1. order # <<>> /\ readyHead = order[1] /\ readyHead \in Coro /\ n \in Nat \ {0}
  BY <1>a DEF ListTypeOK, ReadyListOK
<1>2. /\ order' = Tail(order)
      /\ order' \in Seq(Coro)
      /\ Len(order') = n - 1
      /\ \A i \in 1 .. n - 1 : order'[i] = order[i + 1]
      /\ \A i \in 1 .. n : order[i] \in Coro
  BY <1>a, <1>1 DEF ListTypeOK, coroUnlinkHead
<1>3. \A i, j \in 1 .. n : order[i] = order[j] => i = j
  BY <1>a DEF ReadyListOK
<1>4. \A i, j \in 1 .. n - 1 : order'[i] = order'[j] => i = j
  BY <1>1, <1>2, <1>3
<1>5. \A d \in Coro : Queued(d)' <=> (Queued(d) /\ d # readyHead)
  <2> TAKE d \in Coro
  <2>1. ASSUME Queued(d)' PROVE Queued(d) /\ d # readyHead
    <3>1. PICK i \in 1 .. n - 1 : order'[i] = d
      BY <1>2, <2>1 DEF Queued
    <3>2. i + 1 \in 1 .. n /\ order[i + 1] = d /\ i + 1 # 1
      BY <1>1, <1>2, <3>1
    <3> QED BY <1>a, <1>1, <1>3, <3>2 DEF Queued
  <2>2. ASSUME Queued(d), d # readyHead PROVE Queued(d)'
    <3>1. PICK i \in 1 .. n : order[i] = d
      BY <1>a, <2>2 DEF Queued
    <3>2. i # 1
      BY <1>1, <2>2, <3>1
    <3>3. i - 1 \in 1 .. n - 1 /\ order'[i - 1] = d
      BY <1>1, <1>2, <3>1, <3>2
    <3> QED BY <1>2, <3>3 DEF Queued
  <2> QED BY <2>1, <2>2
<1>6. next[readyHead] = IF n = 1 THEN NULL ELSE order[2]
  BY <1>a, <1>1 DEF ReadyListOK
<1>7. CASE n = 1
  <2>1. readyHead' = NULL /\ readyTail' = NULL /\ next' = next /\ prev' = prev
    BY <1>6, <1>7 DEF coroUnlinkHead
  <2>2. order' = <<>>
    BY <1>2, <1>7
  <2>3. Len(order') = 0 /\ 1 .. 0 = {}
    BY <2>2
  <2>4. ReadyListOK'
    BY <2>1, <2>2, <2>3 DEF ReadyListOK
  <2>5. ListTypeOK'
    BY <1>2, <2>1 DEF ListTypeOK
  <2> QED BY <1>1, <1>2, <1>5, <2>4, <2>5
<1>8. CASE n # 1
  <2>1. 2 \in 1 .. n /\ order[2] \in Coro /\ order[2] # readyHead /\ order' # <<>>
    BY <1>1, <1>2, <1>3, <1>8
  <2>2. /\ prev' = [prev EXCEPT ![order[2]] = NULL]
        /\ readyHead' = order[2]
        /\ next' = [next EXCEPT ![readyHead] = NULL]
        /\ readyTail' = readyTail
    BY <1>6, <1>8, <2>1 DEF coroUnlinkHead
  <2>3. ListTypeOK'
    BY <1>1, <1>2, <2>1, <2>2 DEF ListTypeOK
  <2>4. readyHead' = order'[1] /\ readyTail' = order'[n - 1]
    BY <1>a, <1>1, <1>2, <1>8, <2>2 DEF ReadyListOK
  <2>5. \A i \in 1 .. n - 1 :
          /\ next'[order'[i]] = IF i = n - 1 THEN NULL ELSE order'[i + 1]
          /\ prev'[order'[i]] = IF i = 1 THEN NULL ELSE order'[i - 1]
    <3> TAKE i \in 1 .. n - 1
    <3>1. /\ i + 1 \in 1 .. n
          /\ order'[i] = order[i + 1]
          /\ i # n - 1 => order'[i + 1] = order[i + 2]
          /\ i # 1 => order'[i - 1] = order[i]
      BY <1>1, <1>2
    <3>2. order[i + 1] # readyHead /\ order[i + 1] \in Coro
      BY <1>1, <1>2, <1>3, <3>1
    <3>3. i # 1 => order[i + 1] # order[2]
      BY <1>3, <2>1, <3>1
    <3>4. /\ next[order[i + 1]] = IF i + 1 = n THEN NULL ELSE order[i + 2]
          /\ prev[order[i + 1]] = order[i]
      BY <1>a, <1>1, <3>1 DEF ReadyListOK
    <3>5. next'[order'[i]] = next[order[i + 1]]
      BY <1>1, <2>2, <3>1, <3>2 DEF ListTypeOK
    <3>6. prev'[order'[i]] = IF i = 1 THEN NULL ELSE prev[order[i + 1]]
      BY <2>1, <2>2, <3>1, <3>2, <3>3 DEF ListTypeOK
    <3> QED BY <1>1, <3>1, <3>4, <3>5, <3>6
  <2>6. n - 1 = Len(order')
    BY <1>2
  <2>7. readyHead' = IF order' = <<>> THEN NULL ELSE order'[1]
    BY <2>1, <2>4
  <2>8. readyTail' = IF order' = <<>> THEN NULL ELSE order'[Len(order')]
    BY <2>1, <2>4, <2>6
  <2>9. /\ \A i, j \in 1 .. Len(order') : order'[i] = order'[j] => i = j
        /\ \A i \in 1 .. Len(order') :
             /\ next'[order'[i]] = IF i = Len(order') THEN NULL ELSE order'[i + 1]
             /\ prev'[order'[i]] = IF i = 1 THEN NULL ELSE order'[i - 1]
    BY <1>4, <2>5, <2>6
  <2>10. ReadyListOK'
    BY <2>7, <2>8, <2>9 DEF ReadyListOK
  <2> QED BY <1>1, <1>2, <1>5, <2>3, <2>10
<1> QED BY <1>1, <1>2, <1>5, <1>7, <1>8
-----------------------------------------------------------------------------
\* A step that leaves the list alone leaves its contents alone.
LEMMA ListUnchanged ==
    ASSUME ReadyListOK, UNCHANGED listVars
    PROVE  ReadyListOK' /\ \A d \in Coro : Queued(d)' <=> Queued(d)
BY DEF ReadyListOK, listVars, Queued

\* Everything that spawn does to the invariant, wherever it is called from.
LEMMA SpawnKeeps ==
    ASSUME TypeOK, ReadyListOK, OwnedOnce, StackSafe, MappedOwned,
           NEW c \in Coro, NEW s \in Stack, spawn(c, s),
           UNCHANGED <<sp, altStack, current, cleanup>>,
           pc' = "coro" => pc = "coro"
    PROVE  /\ ListTypeOK'
           /\ live' \subseteq Coro /\ mapped' \subseteq Stack
           /\ stackOf' \in [Coro -> Stack \cup {NULL}]
           /\ rsp' \in [Coro -> Stack \cup {NULL}]
           /\ ReadyListOK' /\ OwnedOnce' /\ StackSafe' /\ MappedOwned'
<1> USE NullAssumption
<1>1. ListTypeOK
  BY DEF TypeOK, ListTypeOK
<1>2. /\ c \notin live /\ s \notin mapped
      /\ live' = live \cup {c}
      /\ mapped' = mapped \cup {s}
      /\ stackOf' = [stackOf EXCEPT ![c] = s]
      /\ rsp' = [rsp EXCEPT ![c] = s]
  BY DEF spawn
<1>3. ~ Queued(c) /\ c # current /\ c # cleanup
  BY <1>2 DEF OwnedOnce
<1>4. /\ ListTypeOK' /\ ReadyListOK'
      /\ \A d \in Coro : Queued(d)' <=> (Queued(d) \/ d = c)
  BY <1>1, <1>3, QueueAppends DEF spawn
<1>5. OwnedOnce'
  BY <1>2, <1>3, <1>4 DEF OwnedOnce, TypeOK
<1>6. \A d \in live : d \in Coro /\ d # c /\ stackOf'[d] = stackOf[d] /\ rsp'[d] = rsp[d]
  BY <1>2 DEF TypeOK
<1>7. stackOf'[c] = s /\ rsp'[c] = s
  BY <1>2 DEF TypeOK
<1>8. \A d \in live : stackOf[d] # s
  BY <1>2 DEF StackSafe
<1>9. StackSafe'
  <2>1. sp' # NULL => sp' \in mapped'
    BY <1>2 DEF StackSafe
  <2>2. \A d \in live' : stackOf'[d] \in mapped' /\ stackOf'[d] # altStack' /\ rsp'[d] = stackOf'[d]
    BY <1>2, <1>6, <1>7 DEF StackSafe, TypeOK
  <2>3. \A d, e \in live' : stackOf'[d] = stackOf'[e] => d = e
    BY <1>2, <1>6, <1>7, <1>8 DEF StackSafe
  <2>4. altStack' # NULL => altStack' \in mapped'
    BY <1>2 DEF StackSafe
  <2>5. pc' = "coro" => current' \in live' /\ sp' = stackOf'[current'] /\ altStack' # NULL
    BY <1>2, <1>6 DEF StackSafe
  <2> QED BY <2>1, <2>2, <2>3, <2>4, <2>5 DEF StackSafe
<1>10. MappedOwned'
  BY <1>2, <1>6, <1>7 DEF MappedOwned
<1> QED BY <1>2, <1>4, <1>5, <1>9, <1>10 DEF TypeOK

\* The initial state satisfies the inductive invariant.
LEMMA InitIInv == Init => IInv
<1> SUFFICES ASSUME Init PROVE IInv
  OBVIOUS
<1> USE NullAssumption DEF Init
<1>1. TypeOK
  BY DEF TypeOK, PC
<1>2. Len(order) = 0 /\ 1 .. Len(order) = {}
  OBVIOUS
<1>3. ReadyListOK
  BY <1>2 DEF ReadyListOK
<1>4. OwnedOnce
  BY <1>2 DEF OwnedOnce, Queued
<1>5. StackSafe /\ MappedOwned /\ Control
  BY DEF StackSafe, MappedOwned, Control
<1> QED BY <1>1, <1>3, <1>4, <1>5 DEF IInv

\* Every step preserves the inductive invariant.
LEMMA NextIInv == IInv /\ [Next]_vars => IInv'
<1> SUFFICES ASSUME IInv, [Next]_vars PROVE IInv'
  OBVIOUS
<1> USE NullAssumption
<1>0. ListTypeOK
  BY DEF IInv, TypeOK, ListTypeOK
<1>1. CASE SignalSetup
  <2>1. ReadyListOK' /\ \A d \in Coro : Queued(d)' <=> Queued(d)
    BY <1>1, ListUnchanged DEF IInv, SignalSetup
  <2>2. PICK s \in Stack \ mapped : mapped' = mapped \cup {s} /\ altStack' = s
    BY <1>1 DEF SignalSetup
  <2>3. live = {} /\ live' = {} /\ pc' = "spawnMain" /\ pc = "setup" /\ mapped = {}
    BY <1>1 DEF SignalSetup, IInv, Control, MappedOwned, TypeOK
  <2>4. UNCHANGED <<sp, stackOf, rsp, current, cleanup, next, prev, readyHead, readyTail, order>>
    BY <1>1 DEF SignalSetup, listVars
  <2>5. TypeOK'
    BY <2>2, <2>3, <2>4 DEF IInv, TypeOK, PC
  <2>6. OwnedOnce'
    BY <2>1, <2>3, <2>4 DEF IInv, OwnedOnce, TypeOK
  <2>7. StackSafe' /\ MappedOwned' /\ Control'
    BY <2>2, <2>3, <2>4 DEF IInv, StackSafe, MappedOwned, Control
  <2> QED BY <2>1, <2>5, <2>6, <2>7 DEF IInv
<1>2. CASE SpawnMain
  <2>1. PICK c \in Coro, s \in Stack : spawn(c, s)
    BY <1>2 DEF SpawnMain
  <2>2. pc = "spawnMain" /\ pc' = "worker" /\ UNCHANGED <<sp, altStack, current, cleanup>>
    BY <1>2 DEF SpawnMain
  <2>3. /\ ListTypeOK' /\ ReadyListOK' /\ OwnedOnce' /\ StackSafe' /\ MappedOwned'
        /\ live' \subseteq Coro /\ mapped' \subseteq Stack
        /\ stackOf' \in [Coro -> Stack \cup {NULL}]
        /\ rsp' \in [Coro -> Stack \cup {NULL}]
    BY <2>1, <2>2, SpawnKeeps DEF IInv
  <2>4. TypeOK' /\ Control'
    BY <2>2, <2>3 DEF IInv, TypeOK, PC, ListTypeOK, Control
  <2> QED BY <2>3, <2>4 DEF IInv
<1>3. CASE Spawn
  <2>1. PICK c \in Coro, s \in Stack : spawn(c, s)
    BY <1>3 DEF Spawn
  <2>2. pc = "coro" /\ UNCHANGED <<pc, sp, altStack, current, cleanup>>
    BY <1>3 DEF Spawn
  <2>3. /\ ListTypeOK' /\ ReadyListOK' /\ OwnedOnce' /\ StackSafe' /\ MappedOwned'
        /\ live' \subseteq Coro /\ mapped' \subseteq Stack
        /\ stackOf' \in [Coro -> Stack \cup {NULL}]
        /\ rsp' \in [Coro -> Stack \cup {NULL}]
    BY <2>1, <2>2, SpawnKeeps DEF IInv
  <2>4. TypeOK' /\ Control'
    BY <2>2, <2>3 DEF IInv, TypeOK, PC, ListTypeOK, Control
  <2> QED BY <2>3, <2>4 DEF IInv
<1>4. CASE Reap
  <2>1. ReadyListOK' /\ \A d \in Coro : Queued(d)' <=> Queued(d)
    BY <1>4, ListUnchanged DEF IInv, Reap
  <2>2. /\ pc = "worker" /\ pc' = "dispatch"
        /\ UNCHANGED <<sp, altStack, stackOf, rsp, current>>
        /\ UNCHANGED <<next, prev, readyHead, readyTail, order>>
    BY <1>4 DEF Reap, listVars
  <2>3. CASE cleanup = NULL
    <3>1. UNCHANGED <<mapped, live, cleanup>>
      BY <1>4, <2>3 DEF Reap
    <3>2. OwnedOnce'
      BY <2>1, <2>2, <3>1 DEF IInv, OwnedOnce, TypeOK
    <3>3. TypeOK' /\ Control' /\ StackSafe' /\ MappedOwned'
      BY <2>2, <2>3, <3>1 DEF IInv, TypeOK, PC, Control, StackSafe, MappedOwned
    <3> QED BY <2>1, <3>2, <3>3 DEF IInv
  <2>4. CASE cleanup # NULL
    <3>1. /\ mapped' = mapped \ {stackOf[cleanup]}
          /\ live' = live \ {cleanup}
          /\ cleanup' = NULL
      BY <1>4, <2>4 DEF Reap
    <3>2. /\ cleanup \in live /\ cleanup \in Coro /\ ~ Queued(cleanup) /\ cleanup # current
          /\ current = NULL /\ sp = NULL
      BY <2>2, <2>4 DEF IInv, OwnedOnce, TypeOK, Control
    <3>3. OwnedOnce'
      BY <2>1, <2>2, <3>1, <3>2 DEF IInv, OwnedOnce, TypeOK
    <3>4. stackOf[cleanup] # altStack /\ \A d \in live' : stackOf[d] # stackOf[cleanup]
      BY <3>1, <3>2 DEF IInv, StackSafe
    <3>5. StackSafe'
      BY <2>2, <3>1, <3>2, <3>4 DEF IInv, StackSafe
    <3>6. MappedOwned'
      BY <2>2, <3>1, <3>2, <3>4 DEF IInv, MappedOwned
    <3>7. TypeOK' /\ Control'
      BY <2>2, <3>1, <3>2 DEF IInv, TypeOK, PC, Control
    <3> QED BY <2>1, <3>3, <3>5, <3>6, <3>7 DEF IInv
  <2> QED BY <2>3, <2>4
<1>5. CASE Dispatch
  <2>1. /\ readyHead \in Coro
        /\ ListTypeOK' /\ ReadyListOK'
        /\ \A d \in Coro : Queued(d)' <=> (Queued(d) /\ d # readyHead)
        /\ order # <<>> /\ readyHead = order[1]
    BY <1>0, <1>5, UnlinkTakesHead DEF IInv, Dispatch
  <2>2. /\ pc = "dispatch" /\ pc' = "coro"
        /\ current' = readyHead
        /\ sp' = rsp[readyHead]
        /\ UNCHANGED <<altStack, rsp, cleanup, live, mapped, stackOf>>
    BY <1>5 DEF Dispatch, memVars
  <2>3. Queued(readyHead)
    BY <2>1 DEF Queued, IInv, TypeOK
  <2>4. current = NULL /\ cleanup = NULL /\ readyHead \in live
    BY <2>1, <2>2, <2>3 DEF IInv, Control, OwnedOnce
  <2>5. OwnedOnce'
    BY <2>1, <2>2, <2>3, <2>4 DEF IInv, OwnedOnce, TypeOK
  <2>6. StackSafe'
    BY <2>2, <2>4 DEF IInv, StackSafe, Control
  <2>7. MappedOwned' /\ Control'
    BY <2>2, <2>4 DEF IInv, MappedOwned, Control
  <2>8. TypeOK'
    BY <2>1, <2>2 DEF IInv, TypeOK, PC, ListTypeOK
  <2> QED BY <2>1, <2>5, <2>6, <2>7, <2>8 DEF IInv
<1>6. CASE Yield
  <2>1. /\ pc = "coro" /\ pc' = "coroReturn"
        /\ current' = NULL
        /\ rsp' = [rsp EXCEPT ![current] = sp]
        /\ UNCHANGED <<sp, altStack, cleanup, live, mapped, stackOf>>
    BY <1>6 DEF Yield, memVars
  <2>2. /\ current \in live /\ current \in Coro /\ ~ Queued(current) /\ current # NULL
        /\ sp = stackOf[current] /\ rsp[current] = sp
    BY <2>1 DEF IInv, StackSafe, OwnedOnce, TypeOK
  <2>3. /\ ListTypeOK' /\ ReadyListOK'
        /\ \A d \in Coro : Queued(d)' <=> (Queued(d) \/ d = current)
    BY <1>0, <1>6, <2>2, QueueAppends DEF IInv, Yield
  <2>4. rsp' = rsp
    BY <2>1, <2>2 DEF IInv, TypeOK
  <2>5. OwnedOnce'
    BY <2>1, <2>2, <2>3 DEF IInv, OwnedOnce, TypeOK
  <2>6. StackSafe' /\ MappedOwned' /\ Control'
    BY <2>1, <2>4 DEF IInv, StackSafe, MappedOwned, Control
  <2>7. TypeOK'
    BY <2>1, <2>3, <2>4, ZenonT(40) DEF IInv, TypeOK, PC, ListTypeOK
  <2> QED BY <2>3, <2>5, <2>6, <2>7 DEF IInv
<1>7. CASE CoroEntryEnd
  <2>1. ReadyListOK' /\ \A d \in Coro : Queued(d)' <=> Queued(d)
    BY <1>7, ListUnchanged DEF IInv, CoroEntryEnd
  <2>2. /\ pc = "coro" /\ pc' = "coroReturn"
        /\ current' = NULL /\ cleanup' = current
        /\ UNCHANGED <<sp, altStack, rsp, live, mapped, stackOf>>
        /\ UNCHANGED <<next, prev, readyHead, readyTail, order>>
    BY <1>7 DEF CoroEntryEnd, memVars, listVars
  <2>3. cleanup = NULL /\ current \in live /\ current \in Coro
    BY <2>2 DEF IInv, Control, StackSafe, TypeOK
  <2>4. OwnedOnce'
    BY <2>1, <2>2, <2>3 DEF IInv, OwnedOnce, TypeOK
  <2>5. StackSafe' /\ MappedOwned' /\ Control'
    BY <2>2, <2>3 DEF IInv, StackSafe, MappedOwned, Control
  <2>6. TypeOK'
    BY <2>2 DEF IInv, TypeOK, PC
  <2> QED BY <2>1, <2>4, <2>5, <2>6 DEF IInv
<1>8. CASE SignalTeardown
  <2>1. ReadyListOK' /\ \A d \in Coro : Queued(d)' <=> Queued(d)
    BY <1>8, ListUnchanged DEF IInv, SignalTeardown
  <2>2. /\ pc = "teardown" /\ pc' = "exited"
        /\ altStack' = NULL /\ mapped' = mapped \ {altStack}
        /\ UNCHANGED <<sp, live, stackOf, rsp, current, cleanup>>
        /\ UNCHANGED <<next, prev, readyHead, readyTail, order>>
    BY <1>8 DEF SignalTeardown, listVars
  <2>3. live = {} /\ sp = NULL
    BY <2>2 DEF IInv, Control
  <2>4. OwnedOnce'
    BY <2>1, <2>2 DEF IInv, OwnedOnce, TypeOK
  <2>5. StackSafe' /\ MappedOwned' /\ Control'
    BY <2>2, <2>3 DEF IInv, StackSafe, MappedOwned, Control
  <2>6. TypeOK'
    BY <2>2 DEF IInv, TypeOK, PC
  <2> QED BY <2>1, <2>4, <2>5, <2>6 DEF IInv
<1>9. CASE SchedulerReturns
  <2>1. ReadyListOK' /\ \A d \in Coro : Queued(d)' <=> Queued(d)
    BY <1>9, ListUnchanged DEF IInv, SchedulerReturns
  <2>2. /\ pc = "dispatch" /\ pc' = "teardown" /\ readyHead = NULL
        /\ UNCHANGED <<sp, altStack, rsp, current, cleanup, live, mapped, stackOf>>
        /\ UNCHANGED <<next, prev, readyHead, readyTail, order>>
    BY <1>9 DEF SchedulerReturns, listVars, memVars
  <2>3. order = <<>>
    <3>1. SUFFICES ASSUME order # <<>> PROVE FALSE
      OBVIOUS
    <3>2. order[1] \in Coro
      BY <3>1 DEF IInv, TypeOK
    <3> QED BY <2>2, <3>1, <3>2 DEF IInv, ReadyListOK
  <2>4. \A d \in Coro : ~ Queued(d)
    BY <2>3 DEF Queued
  <2>5. live = {}
    BY <2>2, <2>4 DEF IInv, OwnedOnce, Control, TypeOK
  <2>6. OwnedOnce'
    BY <2>1, <2>2 DEF IInv, OwnedOnce, TypeOK
  <2>7. StackSafe' /\ MappedOwned' /\ Control'
    BY <2>2, <2>5 DEF IInv, StackSafe, MappedOwned, Control
  <2>8. TypeOK'
    BY <2>2 DEF IInv, TypeOK, PC
  <2> QED BY <2>1, <2>6, <2>7, <2>8 DEF IInv
<1>10. CASE CoroReturn \/ OutOfMemory \/ Fault \/ Stopped \/ UNCHANGED vars
  <2>1. /\ UNCHANGED <<altStack, rsp, current, cleanup, live, mapped, stackOf>>
        /\ UNCHANGED <<next, prev, readyHead, readyTail, order>>
        /\ UNCHANGED listVars
    BY <1>10 DEF CoroReturn, OutOfMemory, Fault, Stopped, vars, listVars, memVars
  <2>2. ReadyListOK' /\ \A d \in Coro : Queued(d)' <=> Queued(d)
    BY <2>1, ListUnchanged DEF IInv
  <2>3. \/ pc = "coroReturn" /\ pc' = "worker" /\ sp' = NULL
        \/ pc' = "aborted" /\ sp' = sp
        \/ UNCHANGED <<pc, sp>>
    BY <1>10 DEF CoroReturn, OutOfMemory, Fault, Stopped, vars
  <2>4. OwnedOnce'
    BY <2>1, <2>2 DEF IInv, OwnedOnce, TypeOK
  <2>5. StackSafe' /\ MappedOwned' /\ Control'
    BY <2>1, <2>3 DEF IInv, StackSafe, MappedOwned, Control
  <2>6. TypeOK'
    BY <2>1, <2>3 DEF IInv, TypeOK, PC
  <2> QED BY <2>2, <2>4, <2>5, <2>6 DEF IInv
<1> QED BY <1>1, <1>2, <1>3, <1>4, <1>5, <1>6, <1>7, <1>8, <1>9, <1>10 DEF Next

\* The inductive invariant holds in every reachable state.
LEMMA Invariance == Spec => []IInv
<1>1. Init => IInv
  BY InitIInv
<1>2. IInv /\ [Next]_vars => IInv'
  BY NextIInv
<1> QED BY <1>1, <1>2, PTL DEF Spec
-----------------------------------------------------------------------------
\* What the runs check on small instances, for every set of addresses.

\* The types of the scheduler's variables, in every reachable state.
THEOREM TypeCorrect == Spec => []TypeOK
<1>1. IInv => TypeOK
  BY DEF IInv
<1> QED BY <1>1, Invariance, PTL

\* The doubly linked list of coroQueue and coroDispatch always is the queue of
\* the ready coroutines, with correct links in both directions.
THEOREM ReadyListCorrect == Spec => []ReadyListOK
<1>1. IInv => ReadyListOK
  BY DEF IInv
<1> QED BY <1>1, Invariance, PTL

\* No coroutine is lost, duplicated or used after it was freed.
THEOREM Ownership == Spec => []OwnedOnce
<1>1. IInv => OwnedOnce
  BY DEF IInv
<1> QED BY <1>1, Invariance, PTL

\* The thread only ever executes on mapped stacks, and no stack has two users.
THEOREM StackSafety == Spec => []StackSafe
<1>1. IInv => StackSafe
  BY DEF IInv
<1> QED BY <1>1, Invariance, PTL

\* No assert of scheduler.cpp fails.
THEOREM AssertsNeverFail == Spec => []AssertionsHold
<1>1. IInv => AssertionsHold
  <2> SUFFICES ASSUME IInv PROVE AssertionsHold
    OBVIOUS
  <2> USE NullAssumption
  <2>1. order # <<>> => /\ Len(order) \in Nat \ {0}
                        /\ order[1] \in Coro
                        /\ order[Len(order)] \in Coro
    BY DEF IInv, TypeOK
  <2>2. readyTail = NULL => readyHead = NULL
    BY <2>1 DEF IInv, ReadyListOK
  <2>3. readyHead # NULL => prev[readyHead] = NULL /\ order # <<>>
    BY <2>1 DEF IInv, ReadyListOK
  <2>4. ASSUME readyHead # NULL, next[readyHead] = NULL PROVE readyTail = readyHead
    <3>1. PICK n : n = Len(order)
      OBVIOUS
    <3>2. n \in Nat \ {0} /\ readyHead = order[1] /\ readyTail = order[n]
      BY <2>1, <2>3, <2>4, <3>1 DEF IInv, ReadyListOK
    <3>3. next[order[1]] = IF 1 = n THEN NULL ELSE order[2]
      BY <3>1, <3>2 DEF IInv, ReadyListOK
    <3>4. n # 1 => order[2] \in Coro
      BY <3>1, <3>2 DEF IInv, TypeOK
    <3> QED BY <2>4, <3>2, <3>3, <3>4
  <2>5. pc = "dispatch" => current = NULL
    BY DEF IInv, Control
  <2>6. pc = "coro" => current # NULL /\ cleanup = NULL
    BY DEF IInv, Control, StackSafe, TypeOK
  <2> QED BY <2>2, <2>3, <2>4, <2>5, <2>6 DEF AssertionsHold
<1> QED BY <1>1, Invariance, PTL

\* A process that returns from aikeEntry has freed and unmapped everything.
THEOREM NothingLeaks == Spec => []NoLeakAtExit
<1>1. IInv => NoLeakAtExit
  BY NullAssumption DEF IInv, NoLeakAtExit, Control, MappedOwned, TypeOK
<1> QED BY <1>1, Invariance, PTL

\* The scheduler implements the abstract FIFO scheduler: each step of the code
\* is one step of FifoScheduler, or changes neither the queue nor current.
THEOREM Refinement == Spec => ImplementsFifo
<1>1. Init => Fifo!FifoInit
  BY DEF Init, Fifo!FifoInit
<1>2. IInv /\ [Next]_vars => [Fifo!FifoNext]_(Fifo!fifoVars)
  <2> SUFFICES ASSUME IInv, [Next]_vars PROVE [Fifo!FifoNext]_(Fifo!fifoVars)
    OBVIOUS
  <2> USE NullAssumption
  <2>1. ASSUME NEW c \in Coro, NEW s \in Stack, spawn(c, s), UNCHANGED current
        PROVE  Fifo!FifoNext
    <3>1. ~ Queued(c) /\ c # current
      BY <2>1 DEF spawn, IInv, OwnedOnce
    <3>2. Fifo!FifoSpawn(c)
      BY <2>1, <3>1 DEF Fifo!FifoSpawn, spawn, coroQueue, Queued
    <3> QED BY <3>2 DEF Fifo!FifoNext
  <2>2. CASE SpawnMain \/ Spawn
    BY <2>1, <2>2 DEF SpawnMain, Spawn
  <2>3. CASE Dispatch
    <3>1. order # <<>> /\ readyHead = order[1] /\ order' = Tail(order)
      <4>1. ListTypeOK
        BY DEF IInv, TypeOK, ListTypeOK
      <4> QED BY <2>3, <4>1, UnlinkTakesHead DEF Dispatch, IInv
    <3>2. current = NULL /\ current' = readyHead
      BY <2>3 DEF IInv, Control, Dispatch
    <3> QED BY <3>1, <3>2 DEF Fifo!FifoNext, Fifo!FifoRun
  <2>4. CASE Yield
    <3>1. current # NULL
      BY <2>4 DEF Yield, IInv, StackSafe, TypeOK
    <3>2. order' = Append(order, current) /\ current' = NULL
      BY <2>4 DEF Yield, coroQueue
    <3> QED BY <3>1, <3>2 DEF Fifo!FifoNext, Fifo!FifoYield
  <2>5. CASE CoroEntryEnd
    <3>1. current # NULL
      BY <2>5 DEF CoroEntryEnd, IInv, StackSafe, TypeOK
    <3> QED BY <2>5, <3>1 DEF CoroEntryEnd, listVars, Fifo!FifoNext, Fifo!FifoFinish
  <2>6. CASE \/ SignalSetup \/ Reap \/ SchedulerReturns \/ SignalTeardown
             \/ OutOfMemory \/ CoroReturn \/ Fault \/ Stopped \/ UNCHANGED vars
    BY <2>6 DEF SignalSetup, Reap, SchedulerReturns, SignalTeardown, OutOfMemory,
                CoroReturn, Fault, Stopped, vars, listVars, Fifo!fifoVars
  <2> QED BY <2>2, <2>3, <2>4, <2>5, <2>6 DEF Next
<1> QED BY <1>1, <1>2, Invariance, PTL DEF Spec, ImplementsFifo, Fifo!FifoSpec

-----------------------------------------------------------------------------
(* The scheduler inside the composition *)

\* No step of the composition is a step that the scheduler does not have: the
\* collector's calls leave its state alone, and a panic is a fault.
THEOREM RuntimeIsScheduler == RuntimeSpec => Spec
<1>1. RuntimeInit => Init
  BY DEF RuntimeInit
<1>2. [RuntimeNext]_rvars => [Next]_vars
  <2> SUFFICES ASSUME [RuntimeNext]_rvars PROVE Next \/ UNCHANGED vars
    OBVIOUS
  <2>1. CASE SpawnWithStack
    BY <2>1 DEF SpawnWithStack, Next
  <2>2. CASE SchedulerStep
    BY <2>2 DEF SchedulerStep, Next
  <2>3. CASE New \/ Mutate \/ Collect \/ CollectStep
    BY <2>3 DEF New, Mutate, Collect, CollectStep
  <2>4. CASE NewPanics
    <3>1. Fault
      BY <2>4 DEF NewPanics, Fault
    <3> QED BY <3>1 DEF Next
  <2>5. CASE UNCHANGED rvars
    BY <2>5 DEF rvars
  <2> QED BY <2>1, <2>2, <2>3, <2>4, <2>5 DEF RuntimeNext
<1> QED BY <1>1, <1>2, PTL DEF RuntimeSpec, Spec
-----------------------------------------------------------------------------
(* The lazy sweep.                                                         *)

\* HandedOutOnce without the types.
FreeApart ==
    /\ \A j, k \in 1 .. Len(freelist) : freelist[j] = freelist[k] => j = k
    /\ \A k \in 1 .. Len(freelist) : /\ freelist[k] <= freeptr
                                     /\ freelist[k] \notin markstart + 1 .. markend
    /\ markstart <= markend /\ markend <= freeptr

\* The new freelist has exactly the cells found, each once.
LEMMA ThreadedLists ==
    ASSUME GCTypeOK
    PROVE  /\ Found \in SUBSET Cell
           /\ Threaded \in Seq(Found)
           /\ \A j, k \in 1 .. Len(Threaded) : Threaded[j] = Threaded[k] => j = k
           /\ \A c \in Found : \E k \in 1 .. Len(Threaded) : Threaded[k] = c
<1> USE GCAssumption
<1> DEFINE n == Cardinality(Found)
           Rank(c) == Cardinality({d \in Found : d >= c})
<1>1. Found \in SUBSET Cell /\ Cells \in Nat
  BY DEF Found, UnmarkedTo, GCTypeOK, Cell, Pointer
<1>2. n \in Nat
  <2>1. Found \in SUBSET Found
    OBVIOUS
  <2> QED BY <1>1, <2>1, BoundedFinite DEF Cell
<1>3. \A k \in 1 .. n : Threaded[k] \in Found /\ Rank(Threaded[k]) = k
  <2> TAKE k \in 1 .. n
  <2>1. \E c \in Found : Rank(c) = k
    BY <1>1, RankReached, ZenonT(40) DEF Cell
  <2>2. Threaded[k] = CHOOSE c \in Found : Rank(c) = k
    BY DEF Threaded
  <2> HIDE DEF Rank
  <2> QED BY <2>1, <2>2
<1>4. Threaded \in Seq(Found) /\ Len(Threaded) = n
  <2>1. Threaded = [k \in 1 .. n |-> Threaded[k]]
    BY DEF Threaded
  <2>2. Threaded \in [1 .. n -> Found]
    BY <1>3, <2>1
  <2> HIDE DEF n
  <2> QED BY <1>2, <2>2
<1>5. \A c \in Found : \E k \in 1 .. n : Threaded[k] = c
  <2> TAKE c \in Found
  <2>1. {d \in Found : d >= c} \in SUBSET Found /\ c \in {d \in Found : d >= c}
    BY <1>1 DEF Cell
  <2>2. Rank(c) \in 1 .. n
    <3>1. /\ IsFiniteSet({d \in Found : d >= c})
          /\ Rank(c) \in Nat /\ Rank(c) <= n
      BY <1>1, <2>1, BoundedFinite DEF Cell
    <3>2. Rank(c) # 0
      BY <2>1, <3>1, FS_EmptySet
    <3> HIDE DEF Rank, n
    <3> QED BY <1>2, <3>1, <3>2
  <2>3. PICK e \in Found : e = Threaded[Rank(c)] /\ Rank(e) = Rank(c)
    <3> HIDE DEF Rank, n
    <3> QED BY <1>3, <2>2
  <2>4. e = c
    BY <1>1, <2>3, RankInjective DEF Cell
  <2> HIDE DEF Rank, n
  <2> QED BY <2>2, <2>3, <2>4
<1>6. \A j, k \in 1 .. n : Threaded[j] = Threaded[k] => j = k
  <2> HIDE DEF Rank, n
  <2> QED BY <1>3
<1> QED BY <1>1, <1>4, <1>5, <1>6

\* The search stops behind the last cell found, and every unmarked cell that
\* it has not found is still in front of it.
LEMMA SearchStops ==
    ASSUME GCTypeOK, FreeApart
    PROVE  /\ SearchedTo \in markstart .. markend
           /\ \A c \in Found : c \in markstart + 1 .. SearchedTo /\ c \notin marked
           /\ \A c \in markstart + 1 .. markend :
                 c \notin marked /\ c \notin Found => c > SearchedTo
<1> USE GCAssumption
<1>1. /\ Cells \in Nat /\ FreelistLen \in Nat \ {0}
      /\ markstart \in 0 .. Cells /\ markend \in 0 .. Cells /\ markstart <= markend
  BY DEF GCTypeOK, FreeApart, Pointer
<1>2. \A c \in Found : c \in markstart + 1 .. markend /\ c \notin marked
  BY DEF Found, UnmarkedTo
<1>3. Found \in SUBSET (1 .. Cells)
  BY <1>1, <1>2
<1>4. \A c \in 0 .. Cells : UnmarkedTo(c) \in SUBSET (1 .. Cells)
  BY <1>1 DEF UnmarkedTo
<1>5. \A c \in 0 .. Cells : IsFiniteSet(UnmarkedTo(c)) /\ Cardinality(UnmarkedTo(c)) \in Nat
  <2>1. \A c \in 0 .. Cells : UnmarkedTo(c) \in SUBSET UnmarkedTo(c)
    OBVIOUS
  <2> QED BY <1>1, <1>4, <2>1, BoundedFinite
<1>6. \A c, d \in 0 .. Cells : c <= d =>
          Cardinality(UnmarkedTo(c)) <= Cardinality(UnmarkedTo(d))
  <2> TAKE c, d \in 0 .. Cells
  <2> HAVE c <= d
  <2>1. UnmarkedTo(c) \in SUBSET UnmarkedTo(d)
    BY <1>1 DEF UnmarkedTo
  <2> QED BY <1>1, <1>4, <2>1, BoundedFinite
<1>7. CASE Cardinality(Found) < FreelistLen
  <2>1. SearchedTo = markend
    BY <1>7 DEF SearchedTo
  <2>2. ASSUME NEW c \in markstart + 1 .. markend, c \notin marked, c \notin Found
        PROVE  FALSE
    <3>1. c \in UnmarkedTo(markend) /\ c \in 1 .. Cells
      BY <1>1, <2>2 DEF UnmarkedTo
    <3>2. FreelistLen \in 1 .. Cardinality(UnmarkedTo(markend))
      <4>1. ~ (Cardinality(UnmarkedTo(c)) <= FreelistLen)
        BY <2>2, <3>1 DEF Found
      <4>2. Cardinality(UnmarkedTo(c)) <= Cardinality(UnmarkedTo(markend))
        BY <1>1, <1>6, <3>1
      <4> QED BY <1>1, <1>5, <3>1, <4>1, <4>2
    <3>3. PICK m \in UnmarkedTo(markend) :
             Cardinality({d \in UnmarkedTo(markend) : d <= m}) = FreelistLen
      <4>1. UnmarkedTo(markend) \in SUBSET (1 .. Cells) /\ Cells \in Nat
        BY <1>1, <1>4
      <4> QED BY <3>2, <4>1, RankBelow
    <3>4. {d \in UnmarkedTo(markend) : d <= m} = UnmarkedTo(m)
      BY <1>1, <3>3 DEF UnmarkedTo
    <3>5. UnmarkedTo(m) \in SUBSET Found
      <4> SUFFICES ASSUME NEW d \in UnmarkedTo(m) PROVE d \in Found
        OBVIOUS
      <4>1. d \in UnmarkedTo(markend) /\ d <= m /\ d \in 0 .. Cells /\ m \in 0 .. Cells
        BY <1>1, <1>4, <3>3, <3>4
      <4>2. Cardinality(UnmarkedTo(d)) <= FreelistLen
        BY <1>6, <3>3, <3>4, <4>1
      <4> QED BY <4>1, <4>2 DEF Found
    <3>6. Cardinality(UnmarkedTo(m)) <= Cardinality(Found) /\ Cardinality(Found) \in Nat
      <4>1. Found \in SUBSET Found
        OBVIOUS
      <4> QED BY <1>1, <1>3, <3>5, <4>1, BoundedFinite
    <3> QED BY <1>1, <1>7, <3>3, <3>4, <3>6
  <2> QED BY <1>1, <1>2, <2>1, <2>2
<1>8. CASE ~ (Cardinality(Found) < FreelistLen)
  <2>1. SearchedTo = Max(Found)
    BY <1>8 DEF SearchedTo
  <2>2. Found # {}
    BY <1>1, <1>8, FS_EmptySet
  <2>3. SearchedTo \in Found /\ \A c \in Found : c <= SearchedTo
    <3>1. Found \in SUBSET (0 .. Cells)
      BY <1>1, <1>3
    <3> QED BY <1>1, <2>1, <2>2, <3>1, Greatest
  <2>4. ASSUME NEW c \in markstart + 1 .. markend, c \notin marked, c <= SearchedTo
        PROVE  c \in Found
    <3>1. c \in UnmarkedTo(markend) /\ c \in 0 .. Cells /\ SearchedTo \in 0 .. Cells
      BY <1>1, <1>3, <2>3, <2>4 DEF UnmarkedTo
    <3>2. Cardinality(UnmarkedTo(c)) <= Cardinality(UnmarkedTo(SearchedTo))
      BY <1>6, <2>4, <3>1
    <3>3. Cardinality(UnmarkedTo(SearchedTo)) <= FreelistLen
      BY <2>3 DEF Found
    <3>4. Cardinality(UnmarkedTo(c)) <= FreelistLen
      BY <1>1, <1>5, <3>1, <3>2, <3>3
    <3> QED BY <3>1, <3>4 DEF Found
  <2>5. SearchedTo \in markstart .. markend
    BY <1>1, <1>2, <2>3
  <2> QED BY <1>1, <1>2, <2>3, <2>4, <2>5
<1> QED BY <1>7, <1>8
-----------------------------------------------------------------------------
(* Marking.                                                                *)

\* A word is still to be looked at by gc_mark.
Pending(src, pos) == \E e \in Entries : e.src = src /\ e.pos <= pos

\* The tri-colour invariant: during a collection only cells of the used part
\* that words lead to are marked, and whatever the stack or a marked cell points to in
\* the used part is marked or is pointed to by a word still to be looked at.
TriColour ==
    phase # "idle" =>
        /\ pc = "coro"
        /\ marked \subseteq Retained(Roots(current))
        /\ \A src \in {0} \cup marked : \A pos \in 1 .. WordsOf(src) :
              WordAt(src, pos) \in (1 .. freeptr) \ marked =>
                  phase = "mark" /\ Pending(src, pos)

\* No cell has two entries, and an exchange stays inside the mark stack.
EntriesApart ==
    phase = "mark" =>
        /\ \A e \in Entries : /\ e.src \in {0} \cup marked
                              /\ e.pos \in 1 .. WordsOf(e.src) + 1
        /\ \A j, k \in 1 .. Len(markStack) : markStack[j].src = markStack[k].src => j = k
        /\ \A k \in 1 .. Len(markStack) : markStack[k].src # scanning.src
        /\ pushed <= Len(markStack)

\* The inductive invariant of the collector.
GInv == GCTypeOK /\ FreeApart /\ TriColour /\ EntriesApart

LEMMA InitGInv == RuntimeInit => GInv
<1> SUFFICES ASSUME RuntimeInit PROVE GInv
  OBVIOUS
<1> USE GCAssumption DEF RuntimeInit, GCInit
<1>1. 0 \in Pointer /\ 0 \in 0 .. Cells
  BY DEF Pointer
<1>2. NoSlots \in [1 .. Slots -> Pointer] /\ NoWords \in [1 .. Words -> Pointer]
  BY <1>1 DEF NoSlots, NoWords
<1>3. NoScan \in Scan
  BY <1>1 DEF NoScan, Scan
<1>4. GCTypeOK
  <2>1. frames \in [Coro -> [1 .. Slots -> Pointer]] /\ heap \in [Cell -> [1 .. Words -> Pointer]]
    BY <1>2
  <2>2. /\ freelist \in Seq(Cell) /\ markStack \in Seq(Scan)
        /\ extent \in [Cell -> 0 .. Words]
    OBVIOUS
  <2> QED BY <1>1, <1>3, <2>1, <2>2 DEF GCTypeOK
<1>5. FreeApart /\ TriColour /\ EntriesApart
  BY DEF FreeApart, TriColour, EntriesApart
<1> QED BY <1>4, <1>5 DEF GInv

\* What GC_malloc_index has after its search: the cells that were free before,
\* those it threaded now on the freelist.
LEMMA SearchKeeps ==
    ASSUME GCTypeOK, FreeApart
    PROVE  LET list == FreelistAfterSearch
               from == MarkstartAfterSearch IN
           /\ list \in Seq(Cell)
           /\ \A j, k \in 1 .. Len(list) : list[j] = list[k] => j = k
           /\ \A k \in 1 .. Len(list) : list[k] <= freeptr /\ list[k] \notin from + 1 .. markend
           /\ from \in Pointer /\ markstart <= from /\ from <= markend
           /\ \A k \in 1 .. Len(list) :
                 \/ \E j \in 1 .. Len(freelist) : list[k] = freelist[j]
                 \/ list[k] \in markstart + 1 .. markend /\ list[k] \notin marked
           /\ \A c \in Cell :
                 (\/ \E j \in 1 .. Len(freelist) : c = freelist[j]
                  \/ c \in markstart + 1 .. markend /\ c \notin marked)
                 => (\/ \E k \in 1 .. Len(list) : c = list[k]
                     \/ c \in from + 1 .. markend /\ c \notin marked)
<1> USE GCAssumption
<1>1. /\ Cells \in Nat /\ markstart \in 0 .. Cells /\ markend \in 0 .. Cells /\ freeptr \in 0 .. Cells
      /\ markstart <= markend /\ markend <= freeptr /\ freelist \in Seq(Cell)
  BY DEF GCTypeOK, FreeApart, Pointer
<1>2. CASE freelist # <<>>
  <2>1. FreelistAfterSearch = freelist /\ MarkstartAfterSearch = markstart
    BY <1>2 DEF FreelistAfterSearch, MarkstartAfterSearch
  <2> QED BY <1>1, <2>1 DEF FreeApart, Pointer
<1>3. CASE freelist = <<>>
  <2> DEFINE list == FreelistAfterSearch
             from == MarkstartAfterSearch
  <2>1. list = Threaded /\ from = SearchedTo /\ Len(freelist) = 0
    BY <1>3 DEF FreelistAfterSearch, MarkstartAfterSearch
  <2>2. from \in markstart .. markend
    BY <2>1, SearchStops
  <2>3. \A c \in Found : c \in markstart + 1 .. from /\ c \notin marked
    BY <2>1, SearchStops
  <2>4. \A c \in markstart + 1 .. markend : c \notin marked /\ c \notin Found => c > from
    BY <2>1, SearchStops
  <2>5. /\ Found \in SUBSET Cell /\ list \in Seq(Found)
        /\ \A j, k \in 1 .. Len(list) : list[j] = list[k] => j = k
        /\ \A c \in Found : \E k \in 1 .. Len(list) : list[k] = c
    BY <2>1, ThreadedLists
  <2> HIDE DEF list, from
  <2>6. list \in Seq(Cell) /\ \A k \in 1 .. Len(list) : list[k] \in Found
    BY <2>5
  <2>7. \A k \in 1 .. Len(list) : list[k] \in markstart + 1 .. from /\ list[k] \notin marked
    BY <2>3, <2>6
  <2>8. \A k \in 1 .. Len(list) : list[k] <= freeptr /\ list[k] \notin from + 1 .. markend
    BY <1>1, <2>2, <2>7
  <2>9. \A k \in 1 .. Len(list) : list[k] \in markstart + 1 .. markend
    BY <1>1, <2>2, <2>7
  <2>10. \A c \in Cell : c \in markstart + 1 .. markend /\ c \notin marked
            => (\/ \E k \in 1 .. Len(list) : c = list[k]
                \/ c \in from + 1 .. markend /\ c \notin marked)
    <3> TAKE c \in Cell
    <3> HAVE c \in markstart + 1 .. markend /\ c \notin marked
    <3>1. CASE c \in Found
      BY <2>5, <3>1
    <3>2. CASE c \notin Found
      <4>1. c > from
        BY <2>4, <3>2
      <4> QED BY <1>1, <2>2, <4>1
    <3> QED BY <3>1, <3>2
  <2>11. from \in Pointer /\ markstart <= from /\ from <= markend
    BY <1>1, <2>2 DEF Pointer
  <2> QED BY <2>1, <2>5, <2>6, <2>7, <2>8, <2>9, <2>10, <2>11 DEF list, from
<1> QED BY <1>2, <1>3

\* Delivering a cell keeps the types of what it writes, and clears the words of
\* the new block.
LEMMA DeliverTypes ==
    ASSUME GCTypeOK, current \in Coro, NEW cell \in Cell, NEW i \in 1 .. Slots,
           Deliver(cell, i)
    PROVE  /\ frames' \in [Coro -> [1 .. Slots -> Pointer]]
           /\ heap' \in [Cell -> [1 .. Words -> Pointer]]
           /\ extent' \in [Cell -> 0 .. Words]
           /\ \A d \in Cell \ {cell} : heap'[d] = heap[d] /\ extent'[d] = extent[d]
           /\ \A w \in 1 .. extent'[cell] : heap'[cell][w] = 0
<1> USE GCAssumption
<1>1. /\ frames \in [Coro -> [1 .. Slots -> Pointer]] /\ heap \in [Cell -> [1 .. Words -> Pointer]]
      /\ extent \in [Cell -> 0 .. Words]
  BY DEF GCTypeOK
<1>2. cell \in Pointer /\ 0 \in Pointer
  BY DEF Cell, Pointer
<1>3. frames' = [frames EXCEPT ![current] = [frames[current] EXCEPT ![i] = cell]]
  BY DEF Deliver
<1>4. [frames[current] EXCEPT ![i] = cell] \in [1 .. Slots -> Pointer]
  BY <1>1, <1>2
<1>5. PICK n \in 0 .. Words :
         /\ heap' = [heap EXCEPT ![cell] =
                        [w \in 1 .. Words |-> IF w <= n THEN 0 ELSE heap[cell][w]]]
         /\ extent' = [extent EXCEPT ![cell] = n]
  BY DEF Deliver
<1>6. [w \in 1 .. Words |-> IF w <= n THEN 0 ELSE heap[cell][w]] \in [1 .. Words -> Pointer]
  BY <1>1, <1>2
<1>7. heap' \in [Cell -> [1 .. Words -> Pointer]] /\ extent' \in [Cell -> 0 .. Words]
  BY <1>1, <1>5, <1>6
<1>8. extent'[cell] = n /\ \A w \in 1 .. n : heap'[cell][w] = 0
  BY <1>1, <1>5
<1> QED BY <1>1, <1>3, <1>4, <1>5, <1>7, <1>8

\* gcNew takes a cell from one of the three sources and leaves them apart.
LEMMA AllocKeeps ==
    ASSUME GCTypeOK, FreeApart, current \in Coro, NEW i \in 1 .. Slots,
           AllocFromFreelist(i) \/ AllocFromRegion(i)
    PROVE  GCTypeOK' /\ FreeApart' /\ phase' = "idle"
<1> USE GCAssumption
<1> DEFINE list == FreelistAfterSearch
           from == MarkstartAfterSearch
<1>1. /\ list \in Seq(Cell)
      /\ \A j, k \in 1 .. Len(list) : list[j] = list[k] => j = k
      /\ \A k \in 1 .. Len(list) : list[k] <= freeptr /\ list[k] \notin from + 1 .. markend
      /\ from \in Pointer /\ from <= markend
  BY SearchKeeps
<1>2. CASE AllocFromFreelist(i)
  <2>1. /\ list # <<>> /\ Deliver(Head(list), i) /\ freelist' = Tail(list) /\ markstart' = from
        /\ phase = "idle"
        /\ UNCHANGED <<freeptr, markend, marked, phase, markVars, wrapped>>
    BY <1>2 DEF AllocFromFreelist
  <2> HIDE DEF list, from
  <2>2. Head(list) \in Cell /\ Tail(list) \in Seq(Cell) /\ Len(Tail(list)) = Len(list) - 1
        /\ Len(list) \in Nat \ {0}
        /\ \A k \in 1 .. Len(list) - 1 : Tail(list)[k] = list[k + 1]
    BY <1>1, <2>1
  <2>3. GCTypeOK'
    BY <1>1, <2>1, <2>2, DeliverTypes DEF GCTypeOK, markVars
  <2>4. FreeApart'
    BY <1>1, <2>1, <2>2 DEF FreeApart
  <2> QED BY <2>1, <2>3, <2>4
<1>3. CASE AllocFromRegion(i)
  <2>1. /\ list = <<>> /\ Deliver(freeptr + 1, i) /\ freeptr < Cells
        /\ freeptr' = freeptr + 1 /\ markstart' = from /\ phase = "idle"
        /\ UNCHANGED <<freelist, markend, marked, phase, markVars, wrapped>>
    BY <1>3 DEF AllocFromRegion
  <2>2. freelist = <<>>
    BY <2>1 DEF FreelistAfterSearch
  <2> HIDE DEF list, from
  <2>3. freeptr \in 0 .. Cells /\ Cells \in Nat /\ markend \in Pointer /\ markend <= freeptr
    BY DEF GCTypeOK, FreeApart
  <2>4. freeptr + 1 \in Cell /\ freeptr + 1 \in 0 .. Cells
    BY <2>1, <2>3 DEF Cell
  <2>5. GCTypeOK'
    BY <1>1, <2>1, <2>4, DeliverTypes DEF GCTypeOK, markVars
  <2>6. FreeApart'
    BY <1>1, <2>1, <2>2, <2>3 DEF FreeApart, Pointer
  <2> QED BY <2>1, <2>5, <2>6
<1> QED BY <1>2, <1>3

\* The roots, and what the blocks in reachable cells point to, are reachable.
LEMMA ReachableCloses ==
    ASSUME GCTypeOK, NEW R \in SUBSET Pointer
    PROVE  /\ Reachable(R) \subseteq Cell
           /\ \A p \in R : p = 0 \/ p \in Reachable(R)
           /\ \A d \in Reachable(R) : \A w \in 1 .. extent[d] :
                 heap[d][w] = 0 \/ heap[d][w] \in Reachable(R)
<1> USE GCAssumption
<1>1. Reachable(R) \subseteq Cell
  BY DEF Reachable
<1>2. \A p \in R : p = 0 \/ p \in Reachable(R)
  <2> TAKE p \in R
  <2>1. p \in Pointer
    OBVIOUS
  <2>2. p # 0 => p \in Cell
    BY <2>1 DEF Pointer, Cell
  <2> QED BY <2>2 DEF Reachable
<1>3. ASSUME NEW d \in Reachable(R), NEW w \in 1 .. extent[d]
      PROVE  heap[d][w] = 0 \/ heap[d][w] \in Reachable(R)
  <2>1. d \in Cell /\ heap[d][w] \in Pointer
    <3>1. d \in Cell /\ heap[d] \in [1 .. Words -> Pointer] /\ extent[d] \in 0 .. Words
      BY <1>1 DEF GCTypeOK
    <3>2. w \in 1 .. Words
      BY <3>1
    <3> QED BY <3>1, <3>2
  <2>2. SUFFICES ASSUME heap[d][w] # 0 PROVE heap[d][w] \in Reachable(R)
    OBVIOUS
  <2>3. heap[d][w] \in Cell
    BY <2>1, <2>2 DEF Pointer, Cell
  <2>4. SUFFICES ASSUME NEW T \in SUBSET Cell, R \subseteq T \cup {0},
                        \A e \in T : \A v \in 1 .. extent[e] : heap[e][v] \in T \cup {0}
                 PROVE  heap[d][w] \in T
    BY <2>3 DEF Reachable
  <2>5. d \in T
    BY <2>4 DEF Reachable
  <2> QED BY <2>2, <2>4, <2>5
<1> QED BY <1>1, <1>2, <1>3

\* And nothing else: a set that has the roots and what its cells point to has
\* every reachable cell.
LEMMA ReachableLeast ==
    ASSUME NEW R, NEW T \in SUBSET Cell, R \subseteq T \cup {0},
           \A d \in T : \A w \in 1 .. extent[d] : heap[d][w] \in T \cup {0}
    PROVE  Reachable(R) \subseteq T
BY DEF Reachable

\* The same for the cells that words lead to: the used cells among the roots
\* and among all words of a retained cell are retained, and nothing else.
LEMMA RetainedCloses ==
    ASSUME NEW R
    PROVE  /\ Retained(R) \subseteq 1 .. freeptr
           /\ \A p \in R : p \in 1 .. freeptr => p \in Retained(R)
           /\ \A d \in Retained(R), w \in 1 .. Words :
                 heap[d][w] \in 1 .. freeptr => heap[d][w] \in Retained(R)
<1>1. Retained(R) \subseteq 1 .. freeptr
  BY DEF Retained
<1>2. \A p \in R : p \in 1 .. freeptr => p \in Retained(R)
  BY DEF Retained
<1>3. ASSUME NEW d \in Retained(R), NEW w \in 1 .. Words, heap[d][w] \in 1 .. freeptr
      PROVE  heap[d][w] \in Retained(R)
  <2>1. SUFFICES ASSUME NEW T \in SUBSET (1 .. freeptr), R \cap (1 .. freeptr) \subseteq T,
                        \A e \in T : \A v \in 1 .. Words :
                            heap[e][v] \in 1 .. freeptr => heap[e][v] \in T
                 PROVE  heap[d][w] \in T
    BY <1>3 DEF Retained
  <2>2. d \in T
    BY <2>1 DEF Retained
  <2> QED BY <1>3, <2>1, <2>2
<1> QED BY <1>1, <1>2, <1>3

LEMMA RetainedLeast ==
    ASSUME NEW R, NEW T \in SUBSET (1 .. freeptr), R \cap (1 .. freeptr) \subseteq T,
           \A d \in T : \A w \in 1 .. Words : heap[d][w] \in 1 .. freeptr => heap[d][w] \in T
    PROVE  Retained(R) \subseteq T
BY DEF Retained

\* The word that gc_mark looks at is a word of the stack or of a marked cell.
LEMMA ScanWordReachable ==
    ASSUME GInv, current \in Coro, phase = "mark", scanning.pos <= ScanEnd
    PROVE  /\ scanning \in Entries /\ scanning.src \in {0} \cup marked
           /\ scanning.pos \in 1 .. WordsOf(scanning.src)
           /\ ScanWord \in Pointer
           /\ ScanWord \in 1 .. freeptr => ScanWord \in Retained(Roots(current))
<1> USE GCAssumption
<1>1. scanning \in Entries
  BY DEF Entries
<1>2. /\ scanning.src \in {0} \cup marked
      /\ scanning.pos \in 1 .. WordsOf(scanning.src) + 1
  BY <1>1 DEF GInv, EntriesApart
<1>3. WordsOf(scanning.src) \in Nat
  BY DEF WordsOf
<1>4. scanning.pos \in 1 .. WordsOf(scanning.src)
  BY <1>2, <1>3 DEF ScanEnd
<1>5. /\ frames[current] \in [1 .. Slots -> Pointer]
      /\ heap \in [Cell -> [1 .. Words -> Pointer]]
      /\ marked \subseteq Cell
  BY DEF GInv, GCTypeOK
<1>6. 0 \notin Cell
  BY DEF Cell
<1>7. \A p \in Roots(current) : p \in Pointer
  BY <1>5 DEF Roots
<1>8. CASE scanning.src = 0
  <2>1. ScanWord \in Roots(current)
    BY <1>4, <1>8 DEF ScanWord, WordAt, WordsOf, Roots
  <2> QED BY <1>1, <1>2, <1>4, <1>7, <2>1, RetainedCloses
<1>9. CASE scanning.src \in marked
  <2>1. scanning.src # 0 /\ scanning.pos \in 1 .. Words
    BY <1>4, <1>5, <1>6, <1>9 DEF WordsOf
  <2>2. ScanWord = heap[scanning.src][scanning.pos] /\ ScanWord \in Pointer
    BY <1>5, <1>9, <2>1 DEF ScanWord, WordAt
  <2>3. scanning.src \in Retained(Roots(current))
    BY <1>9 DEF GInv, TriColour
  <2> QED BY <1>1, <1>2, <1>4, <2>1, <2>2, <2>3, RetainedCloses
<1> QED BY <1>2, <1>8, <1>9

\* Pushing a cell, with or without the exchange, marks it and gives it an entry,
\* and leaves the rest of the entry that was being scanned.
LEMMA PushSplits ==
    ASSUME GInv, current \in Coro, MarkPush \/ MarkExchange
    PROVE  /\ ScanWord \in (1 .. freeptr) \ marked
           /\ marked' = marked \cup {ScanWord}
           /\ markStack' \in Seq(Scan) /\ scanning' \in Scan /\ pushed' \in Nat
           /\ Entries' = {NewScan, ScanRest} \cup {markStack[k] : k \in 1 .. Len(markStack)}
           /\ \A j, k \in 1 .. Len(markStack') : markStack'[j].src = markStack'[k].src => j = k
           /\ \A k \in 1 .. Len(markStack') : markStack'[k].src # scanning'.src
           /\ pushed' <= Len(markStack')
<1> USE GCAssumption
<1>1. /\ phase = "mark" /\ scanning.pos <= ScanEnd
      /\ ScanWord \in (1 .. freeptr) \ marked
      /\ marked' = marked \cup {ScanWord}
  BY DEF MarkPush, MarkExchange
<1>2. /\ scanning.src \in {0} \cup marked /\ scanning.pos \in 1 .. WordsOf(scanning.src)
      /\ ScanWord \in Pointer
  BY <1>1, ScanWordReachable
<1>3. /\ markStack \in Seq(Scan) /\ scanning \in Scan /\ pushed \in Nat
      /\ pushed <= Len(markStack) /\ 0 \notin 1 .. freeptr
      /\ \A j, k \in 1 .. Len(markStack) : markStack[j].src = markStack[k].src => j = k
      /\ \A k \in 1 .. Len(markStack) : markStack[k].src # scanning.src
      /\ \A k \in 1 .. Len(markStack) : markStack[k].src \in {0} \cup marked
  <2>1. markStack \in Seq(Scan) /\ scanning \in Scan /\ pushed \in Nat
    BY DEF GInv, GCTypeOK
  <2>2. \A k \in 1 .. Len(markStack) : markStack[k] \in Entries
    BY DEF Entries
  <2>3. 0 \notin 1 .. freeptr
    BY DEF GInv, GCTypeOK
  <2> QED BY <1>1, <2>1, <2>2, <2>3 DEF GInv, EntriesApart
<1>4. /\ NewScan \in Scan /\ NewScan.src = ScanWord
      /\ ScanRest \in Scan /\ ScanRest.src = scanning.src
  <2>1. NewScan \in Scan /\ NewScan.src = ScanWord
    BY <1>2 DEF NewScan, Scan
  <2>2. scanning.src \in Pointer /\ scanning.pos \in Nat
    BY <1>3 DEF Scan
  <2>3. ScanRest = [src |-> scanning.src, pos |-> scanning.pos + 1]
    <3>1. scanning \in Scan
      BY <1>3
    <3> QED BY <3>1 DEF ScanRest, Scan
  <2> QED BY <2>1, <2>2, <2>3 DEF Scan
<1> DEFINE n == Len(markStack)
           stack == <<NewScan>> \o markStack
<1>5. /\ n \in Nat /\ stack \in Seq(Scan) /\ Len(stack) = n + 1 /\ stack[1] = NewScan
      /\ \A k \in 2 .. n + 1 : stack[k] = markStack[k - 1]
      /\ \A k \in 1 .. n : markStack[k] = stack[k + 1]
  BY <1>3, <1>4
<1>6. ScanWord \notin {0} \cup marked
  BY <1>1, <1>3
<1>a. \A k \in 1 .. n : markStack[k].src \in {0} \cup marked
  BY <1>3
<1>b. \A j, k \in 1 .. n : markStack[j].src = markStack[k].src => j = k
  BY <1>3
<1>c. n = Len(markStack)
  OBVIOUS
<1> HIDE DEF stack, n
<1>7. \A k \in 1 .. n + 1 : stack[k].src # scanning.src
  <2> TAKE k \in 1 .. n + 1
  <2>1. CASE k = 1
    BY <1>2, <1>4, <1>5, <1>6, <2>1
  <2>2. CASE k \in 2 .. n + 1
    <3>1. k - 1 \in 1 .. n /\ stack[k] = markStack[k - 1]
      BY <1>5, <2>2
    <3> QED BY <1>3, <1>c, <3>1
  <2> QED BY <1>5, <2>1, <2>2
<1>8. \A j, k \in 1 .. n + 1 : stack[j].src = stack[k].src => j = k
  <2> TAKE j, k \in 1 .. n + 1
  <2>1. \A m \in 2 .. n + 1 : m - 1 \in 1 .. n /\ stack[m] = markStack[m - 1]
    BY <1>5
  <2>2. \A m \in 2 .. n + 1 : stack[m].src \in {0} \cup marked
    BY <1>a, <2>1
  <2>3. stack[1].src \notin {0} \cup marked
    BY <1>4, <1>5, <1>6
  <2>4. CASE j = 1 \/ k = 1
    BY <1>5, <2>2, <2>3, <2>4
  <2>5. CASE j \in 2 .. n + 1 /\ k \in 2 .. n + 1
    <3>1. stack[j].src = stack[k].src => j - 1 = k - 1
      BY <1>b, <2>1, <2>5
    <3> QED BY <1>5, <2>5, <3>1
  <2> QED BY <1>5, <2>4, <2>5
<1>9. {stack[k] : k \in 1 .. n + 1} = {NewScan} \cup {markStack[k] : k \in 1 .. n}
  <2>1. \A k \in 1 .. n + 1 : k = 1 \/ (k - 1 \in 1 .. n /\ stack[k] = markStack[k - 1])
    BY <1>5
  <2>2. \A k \in 1 .. n : k + 1 \in 1 .. n + 1 /\ stack[k + 1] = markStack[k]
    BY <1>5
  <2>3. 1 \in 1 .. n + 1
    BY <1>5
  <2>4. stack[1] = NewScan
    BY <1>5
  <2>5. \A k \in 1 .. n + 1 : stack[k] \in {NewScan} \cup {markStack[m] : m \in 1 .. n}
    BY <2>1, <2>4
  <2>6. \A k \in 1 .. n : markStack[k] \in {stack[m] : m \in 1 .. n + 1}
    BY <2>2
  <2>7. NewScan \in {stack[m] : m \in 1 .. n + 1}
    BY <2>3, <2>4
  <2> QED BY <2>5, <2>6, <2>7
<1>10. CASE MarkPush
  <2>1. markStack' = stack /\ scanning' = ScanRest /\ pushed' = pushed + 1
    BY <1>10 DEF MarkPush, stack
  <2>2. Entries' = {NewScan, ScanRest} \cup {markStack[k] : k \in 1 .. n}
    <3>1. Entries' = {scanning'} \cup {markStack'[k] : k \in 1 .. Len(markStack')}
      BY DEF Entries
    <3>2. {markStack'[k] : k \in 1 .. Len(markStack')} = {stack[k] : k \in 1 .. n + 1}
      BY <1>5, <2>1
    <3> QED BY <1>9, <2>1, <3>1, <3>2
  <2>3. pushed' <= n + 1 /\ pushed' \in Nat
    BY <1>3, <1>5, <1>c, <2>1
  <2> QED BY <1>1, <1>4, <1>5, <1>7, <1>8, <1>c, <2>1, <2>2, <2>3
<1>11. CASE MarkExchange
  <2> DEFINE x == pushed + 1
  <2>1. markStack' = [stack EXCEPT ![x] = ScanRest] /\ scanning' = stack[x] /\ pushed' = 1
    BY <1>11 DEF MarkExchange, stack
  <2>2. x \in 1 .. n + 1
    BY <1>3, <1>5, <1>c
  <2> HIDE DEF x
  <2>3. /\ markStack' \in Seq(Scan) /\ Len(markStack') = n + 1 /\ scanning' \in Scan
        /\ markStack'[x] = ScanRest
        /\ \A k \in 1 .. n + 1 : k # x => markStack'[k] = stack[k]
    BY <1>4, <1>5, <2>1, <2>2
  <2>4. \A k \in 1 .. n + 1 : k # x => markStack'[k].src # ScanRest.src
    BY <1>4, <1>7, <2>3
  <2>5. \A j, k \in 1 .. n + 1 : markStack'[j].src = markStack'[k].src => j = k
    <3> TAKE j, k \in 1 .. n + 1
    <3>1. CASE j = x \/ k = x
      BY <2>3, <2>4, <3>1
    <3>2. CASE j # x /\ k # x
      BY <1>8, <2>3, <3>2
    <3> QED BY <3>1, <3>2
  <2>6. \A k \in 1 .. n + 1 : markStack'[k].src # scanning'.src
    <3> TAKE k \in 1 .. n + 1
    <3>1. CASE k = x
      BY <1>4, <1>7, <2>1, <2>2, <2>3, <3>1
    <3>2. CASE k # x
      BY <1>8, <2>1, <2>2, <2>3, <3>2
    <3> QED BY <3>1, <3>2
  <2>7. Entries' = {NewScan, ScanRest} \cup {markStack[k] : k \in 1 .. n}
    <3>1. Entries' = {scanning'} \cup {markStack'[k] : k \in 1 .. n + 1}
      BY <2>3 DEF Entries
    <3>2. {scanning'} \cup {markStack'[k] : k \in 1 .. n + 1}
            = {ScanRest} \cup {stack[k] : k \in 1 .. n + 1}
      <4>1. \A k \in 1 .. n + 1 : markStack'[k] \in {ScanRest, stack[k]}
        BY <2>3
      <4>2. \A k \in 1 .. n + 1 : stack[k] \in {scanning', markStack'[k]}
        BY <2>1, <2>3
      <4> QED BY <2>1, <2>2, <2>3, <4>1, <4>2
    <3> QED BY <1>9, <3>1, <3>2
  <2> QED BY <1>1, <1>5, <1>c, <2>1, <2>3, <2>5, <2>6, <2>7
<1> QED BY <1>10, <1>11

\* What a marking step leaves alone, the invariant's terms depend on.
LEMMA MarkingReadsOnly ==
    ASSUME UNCHANGED <<frames, heap, extent, freeptr, current>>
    PROVE  /\ Roots(current)' = Roots(current)
           /\ \A R : Retained(R)' = Retained(R)
           /\ \A src, pos : WordAt(src, pos)' = WordAt(src, pos)
           /\ \A src : WordsOf(src)' = WordsOf(src)
BY DEF Roots, Retained, WordAt, WordsOf

\* A push keeps the tri-colour invariant: the new cell's words are all still to
\* be looked at, and those of every other marked cell that were still are, but
\* for the word that points to it.
LEMMA PushKeeps ==
    ASSUME GInv, current \in Coro, MarkPush \/ MarkExchange, UNCHANGED vars
    PROVE  GInv'
<1> USE GCAssumption
<1>1. /\ phase = "mark" /\ scanning.pos <= ScanEnd
      /\ UNCHANGED <<frames, heap, extent, freeptr, freelist, markstart, markend, phase, wrapped>>
      /\ UNCHANGED <<pc, current>>
  BY DEF MarkPush, MarkExchange, vars
<1>2. /\ scanning.src \in {0} \cup marked /\ scanning.pos \in 1 .. WordsOf(scanning.src)
      /\ ScanWord \in Pointer
      /\ ScanWord \in 1 .. freeptr => ScanWord \in Retained(Roots(current))
  BY <1>1, ScanWordReachable
<1>3. /\ ScanWord \in (1 .. freeptr) \ marked /\ marked' = marked \cup {ScanWord}
      /\ markStack' \in Seq(Scan) /\ scanning' \in Scan /\ pushed' \in Nat
      /\ Entries' = {NewScan, ScanRest} \cup {markStack[k] : k \in 1 .. Len(markStack)}
      /\ \A j, k \in 1 .. Len(markStack') : markStack'[j].src = markStack'[k].src => j = k
      /\ \A k \in 1 .. Len(markStack') : markStack'[k].src # scanning'.src
      /\ pushed' <= Len(markStack')
  BY PushSplits
<1>4. freeptr \in 0 .. Cells /\ marked \subseteq Cell /\ scanning \in Scan
  BY DEF GInv, GCTypeOK
<1>5. ScanWord # 0 /\ ScanWord \in Cell
  BY <1>3, <1>4 DEF Cell
<1>6. /\ NewScan.src = ScanWord /\ NewScan.pos = 1
      /\ ScanRest.src = scanning.src /\ ScanRest.pos = scanning.pos + 1
  <2>1. ScanRest = [src |-> scanning.src, pos |-> scanning.pos + 1]
    BY <1>4 DEF ScanRest, Scan
  <2> QED BY <2>1 DEF NewScan
<1>7. GCTypeOK'
  BY <1>1, <1>3, <1>4, <1>5 DEF GInv, GCTypeOK
<1>8. FreeApart'
  BY <1>1 DEF GInv, FreeApart
<1>9. /\ Roots(current)' = Roots(current)
      /\ \A R : Retained(R)' = Retained(R)
      /\ \A src, pos : WordAt(src, pos)' = WordAt(src, pos)
      /\ \A src : WordsOf(src)' = WordsOf(src)
  BY <1>1, MarkingReadsOnly
<1>10. TriColour'
  <2>1. pc = "coro" /\ marked \subseteq Retained(Roots(current))
    BY <1>1 DEF GInv, TriColour
  <2>2. (marked \subseteq Retained(Roots(current)))'
    BY <1>1, <1>2, <1>3, <1>5, <1>9, <2>1
  <2>3. ASSUME NEW src \in {0} \cup marked', NEW pos \in 1 .. WordsOf(src),
               WordAt(src, pos) \in (1 .. freeptr) \ marked'
        PROVE  Pending(src, pos)'
    <3>1. CASE src = ScanWord
      <4>1. NewScan \in Entries' /\ NewScan.src = src /\ NewScan.pos <= pos
        BY <1>3, <1>6, <2>3, <3>1
      <4> QED BY <4>1 DEF Pending
    <3>2. CASE src # ScanWord
      <4>1. src \in {0} \cup marked /\ WordAt(src, pos) \in (1 .. freeptr) \ marked
        BY <1>3, <2>3, <3>2
      <4>2. PICK e \in Entries : e.src = src /\ e.pos <= pos
        BY <1>1, <4>1, <2>3 DEF GInv, TriColour, Pending
      <4>3. CASE e = scanning
        <5>1. pos # scanning.pos
          BY <1>3, <2>3, <4>2, <4>3 DEF ScanWord
        <5>2. scanning.pos + 1 <= pos
          BY <1>2, <2>3, <4>2, <4>3, <5>1 DEF WordsOf
        <5>3. ScanRest \in Entries' /\ ScanRest.src = src /\ ScanRest.pos <= pos
          BY <1>3, <1>6, <4>2, <4>3, <5>2
        <5> QED BY <5>3 DEF Pending
      <4>4. CASE e # scanning
        <5>1. e \in Entries'
          BY <1>3, <4>2, <4>4 DEF Entries
        <5> QED BY <4>2, <5>1 DEF Pending
      <4> QED BY <4>3, <4>4
    <3> QED BY <3>1, <3>2
  <2> QED BY <1>1, <1>9, <2>1, <2>2, <2>3 DEF TriColour
<1>11. EntriesApart'
  <2>1. ASSUME NEW e \in Entries'
        PROVE  e.src \in {0} \cup marked' /\ e.pos \in 1 .. WordsOf(e.src) + 1
    <3>1. CASE e = NewScan
      BY <1>3, <1>6, <3>1 DEF WordsOf
    <3>2. CASE e = ScanRest
      BY <1>2, <1>3, <1>6, <3>2, SMTT(20) DEF WordsOf
    <3>3. CASE e \in Entries
      BY <1>1, <1>3, <3>3 DEF GInv, EntriesApart
    <3> QED BY <1>3, <2>1, <3>1, <3>2, <3>3 DEF Entries
  <2> QED BY <1>3, <1>9, <2>1 DEF EntriesApart
<1> QED BY <1>7, <1>8, <1>10, <1>11 DEF GInv

\* The other steps of gc_mark: a word with nothing to mark is behind its entry,
\* and an entry is popped when nothing of the one before it is left.
LEMMA MarkKeeps ==
    ASSUME GInv, current \in Coro, MarkSkip \/ MarkPop \/ MarkEnd, UNCHANGED vars
    PROVE  GInv'
<1> USE GCAssumption
<1>1. /\ phase = "mark"
      /\ UNCHANGED <<frames, heap, extent, freeptr, freelist, markstart, markend, marked, wrapped>>
      /\ UNCHANGED <<pc, current>>
  BY DEF MarkSkip, MarkPop, MarkEnd, heapVars, vars
<1>2. /\ Roots(current)' = Roots(current)
      /\ \A R : Retained(R)' = Retained(R)
      /\ \A src, pos : WordAt(src, pos)' = WordAt(src, pos)
      /\ \A src : WordsOf(src)' = WordsOf(src)
  BY <1>1, MarkingReadsOnly
<1>3. FreeApart'
  BY <1>1 DEF GInv, FreeApart
<1>4. /\ markStack \in Seq(Scan) /\ scanning \in Scan /\ pushed \in Nat
      /\ freeptr \in 0 .. Cells /\ marked \subseteq Cell /\ NoScan \in Scan
  BY DEF GInv, GCTypeOK, NoScan, Scan, Pointer
<1>5. pc = "coro" /\ marked \subseteq Retained(Roots(current))
  BY <1>1 DEF GInv, TriColour
<1>6. /\ \A e \in Entries : /\ e.src \in {0} \cup marked
                            /\ e.pos \in 1 .. WordsOf(e.src) + 1
      /\ \A j, k \in 1 .. Len(markStack) : markStack[j].src = markStack[k].src => j = k
      /\ \A k \in 1 .. Len(markStack) : markStack[k].src # scanning.src
      /\ pushed <= Len(markStack)
  BY <1>1 DEF GInv, EntriesApart
<1>7. \A src \in {0} \cup marked : \A pos \in 1 .. WordsOf(src) :
         WordAt(src, pos) \in (1 .. freeptr) \ marked => Pending(src, pos)
  BY <1>1 DEF GInv, TriColour
<1>8. CASE MarkSkip
  <2>1. /\ scanning.pos <= ScanEnd /\ scanning' = ScanRest
        /\ ScanWord = 0 \/ ScanWord > freeptr \/ ScanWord \in marked
        /\ UNCHANGED <<phase, markStack, pushed>>
    BY <1>8 DEF MarkSkip
  <2>2. /\ scanning.src \in {0} \cup marked /\ scanning.pos \in 1 .. WordsOf(scanning.src)
        /\ ScanWord \in Pointer
    BY <1>1, <2>1, ScanWordReachable
  <2>3. ScanRest = [src |-> scanning.src, pos |-> scanning.pos + 1]
    BY <1>4 DEF ScanRest, Scan
  <2>4. ScanRest \in Scan /\ ScanRest.src = scanning.src /\ ScanRest.pos = scanning.pos + 1
    BY <1>4, <2>3 DEF Scan
  <2>5. GCTypeOK'
    BY <1>1, <2>1, <2>4 DEF GInv, GCTypeOK
  <2>6. Entries' = {ScanRest} \cup {markStack[k] : k \in 1 .. Len(markStack)}
    BY <2>1 DEF Entries
  <2>7. ASSUME NEW src \in {0} \cup marked, NEW pos \in 1 .. WordsOf(src),
               WordAt(src, pos) \in (1 .. freeptr) \ marked
        PROVE  Pending(src, pos)'
    <3>1. PICK e \in Entries : e.src = src /\ e.pos <= pos
      BY <1>7, <2>7 DEF Pending
    <3>2. CASE e = scanning
      <4>1. pos # scanning.pos
        BY <1>4, <2>1, <2>7, <3>1, <3>2 DEF ScanWord
      <4>2. scanning.pos + 1 <= pos
        BY <2>2, <2>7, <3>1, <3>2, <4>1 DEF WordsOf
      <4>3. ScanRest \in Entries' /\ ScanRest.src = src /\ ScanRest.pos <= pos
        BY <2>4, <2>6, <3>1, <3>2, <4>2
      <4> QED BY <4>3 DEF Pending
    <3>3. CASE e # scanning
      <4>1. e \in Entries'
        BY <2>6, <3>1, <3>3 DEF Entries
      <4> QED BY <3>1, <4>1 DEF Pending
    <3> QED BY <3>2, <3>3
  <2>8. TriColour'
    BY <1>1, <1>2, <1>5, <2>1, <2>7 DEF TriColour
  <2>9. ASSUME NEW e \in Entries'
        PROVE  e.src \in {0} \cup marked /\ e.pos \in 1 .. WordsOf(e.src) + 1
    <3>1. CASE e = ScanRest
      BY <2>2, <2>4, <3>1 DEF WordsOf
    <3>2. CASE e \in Entries
      BY <1>6, <3>2
    <3> QED BY <2>6, <2>9, <3>1, <3>2 DEF Entries
  <2>10. EntriesApart'
    BY <1>1, <1>2, <1>6, <2>1, <2>4, <2>9 DEF EntriesApart
  <2> QED BY <1>3, <2>5, <2>8, <2>10 DEF GInv
<1>9. ASSUME scanning.pos > ScanEnd, NEW src \in {0} \cup marked, NEW pos \in 1 .. WordsOf(src),
             WordAt(src, pos) \in (1 .. freeptr) \ marked
      PROVE  \E k \in 1 .. Len(markStack) : markStack[k].src = src /\ markStack[k].pos <= pos
  <2>1. PICK e \in Entries : e.src = src /\ e.pos <= pos
    BY <1>7, <1>9 DEF Pending
  <2>2. e # scanning
    BY <1>4, <1>9, <2>1 DEF ScanEnd, WordsOf, Scan
  <2> QED BY <2>1, <2>2 DEF Entries
<1>10. CASE MarkPop
  <2>1. /\ scanning.pos > ScanEnd /\ markStack # <<>>
        /\ scanning' = Head(markStack) /\ markStack' = Tail(markStack)
        /\ pushed' = 0 /\ phase' = phase
    BY <1>10 DEF MarkPop
  <2> DEFINE n == Len(markStack)
  <2>2. /\ n \in Nat \ {0} /\ scanning' = markStack[1] /\ scanning' \in Scan
        /\ markStack' \in Seq(Scan) /\ Len(markStack') = n - 1
        /\ \A k \in 1 .. n - 1 : markStack'[k] = markStack[k + 1]
    BY <1>4, <2>1
  <2>3. GCTypeOK'
    BY <1>1, <2>1, <2>2 DEF GInv, GCTypeOK
  <2>4. \A k \in 1 .. n : markStack[k] \in Entries'
    <3> TAKE k \in 1 .. n
    <3>1. CASE k = 1
      BY <2>2, <3>1 DEF Entries
    <3>2. CASE k # 1
      <4>1. k - 1 \in 1 .. n - 1 /\ markStack'[k - 1] = markStack[k]
        BY <2>2, <3>2
      <4> QED BY <2>2, <4>1 DEF Entries
    <3> QED BY <3>1, <3>2
  <2>5. TriColour'
    <3>1. ASSUME NEW src \in {0} \cup marked, NEW pos \in 1 .. WordsOf(src),
                 WordAt(src, pos) \in (1 .. freeptr) \ marked
          PROVE  Pending(src, pos)'
      BY <1>9, <2>1, <2>4, <3>1 DEF Pending
    <3> QED BY <1>1, <1>2, <1>5, <2>1, <3>1 DEF TriColour
  <2>6. \A e \in Entries' : e \in Entries
    <3>1. \A k \in 1 .. n - 1 : k + 1 \in 1 .. n /\ markStack'[k] = markStack[k + 1]
      BY <2>2
    <3>2. 1 \in 1 .. n
      BY <2>2
    <3> QED BY <2>2, <3>1, <3>2 DEF Entries
  <2>7. \A j, k \in 1 .. n - 1 : markStack'[j].src = markStack'[k].src => j = k
    <3>1. \A m \in 1 .. n - 1 : m + 1 \in 1 .. n /\ markStack'[m] = markStack[m + 1]
      BY <2>2
    <3> TAKE j, k \in 1 .. n - 1
    <3>2. markStack[j + 1].src = markStack[k + 1].src => j + 1 = k + 1
      BY <1>6, <3>1
    <3> QED BY <2>2, <3>1, <3>2
  <2>8. \A k \in 1 .. n - 1 : markStack'[k].src # scanning'.src
    <3> TAKE k \in 1 .. n - 1
    <3>1. k + 1 \in 1 .. n /\ 1 \in 1 .. n /\ k + 1 # 1 /\ markStack'[k] = markStack[k + 1]
      BY <2>2, SMTT(20)
    <3> QED BY <1>6, <2>2, <3>1
  <2>9. EntriesApart'
    BY <1>2, <1>1, <1>6, <2>1, <2>2, <2>6, <2>7, <2>8 DEF EntriesApart
  <2> QED BY <1>3, <2>3, <2>5, <2>9 DEF GInv
<1>11. CASE MarkEnd
  <2>1. /\ scanning.pos > ScanEnd /\ markStack = <<>> /\ phase' = "sweep"
        /\ scanning' = NoScan /\ pushed' = 0 /\ markStack' = markStack
    BY <1>11 DEF MarkEnd
  <2>2. GCTypeOK'
    BY <1>1, <1>4, <2>1 DEF GInv, GCTypeOK
  <2>3. \A src \in {0} \cup marked : \A pos \in 1 .. WordsOf(src) :
           WordAt(src, pos) \notin (1 .. freeptr) \ marked
    <3>1. Len(markStack) = 0
      BY <2>1
    <3>2. ~ \E k \in 1 .. Len(markStack) : TRUE
      BY <3>1
    <3> QED BY <1>9, <2>1, <3>2
  <2>4. TriColour'
    BY <1>1, <1>2, <1>5, <2>3 DEF TriColour
  <2>5. EntriesApart'
    BY <2>1 DEF EntriesApart
  <2> QED BY <1>3, <2>2, <2>4, <2>5 DEF GInv
<1> QED BY <1>8, <1>10, <1>11

\* Where gc_sweep cuts: no marked cell of the used part is behind it.
LEMMA SweepToFacts ==
    ASSUME GCTypeOK, freeptr # 0
    PROVE  /\ SweepTo \in 0 .. freeptr
           /\ \A c \in marked : c <= freeptr => c <= SweepTo
<1> USE GCAssumption
<1> DEFINE S == {(freeptr - 1) \div 2} \cup {c \in marked : c <= freeptr}
<1>1. freeptr \in Nat \ {0} /\ marked \subseteq Nat
  BY DEF GCTypeOK, Cell
<1>2. (freeptr - 1) \div 2 \in 0 .. freeptr
  BY <1>1
<1>3. S \in SUBSET (0 .. freeptr) /\ S # {}
  <2>1. \A c \in marked : c <= freeptr => c \in 0 .. freeptr
    BY <1>1
  <2> QED BY <1>2, <2>1
<1>4. SweepTo = Max(S)
  BY DEF SweepTo
<1>5. SweepTo \in S /\ \A c \in S : c <= SweepTo
  <2> HIDE DEF S
  <2> QED BY <1>1, <1>3, <1>4, Greatest
<1> QED BY <1>3, <1>5

\* A remainder is no greater than the number.
LEMMA ModBound ==
    ASSUME NEW a \in Nat, NEW b \in Nat \ {0}
    PROVE  (a % b) \in Nat /\ (a % b) <= a /\ (a < b => (a % b) = a)
BY Z3

LEMMA SweepKeeps ==
    ASSUME GInv, Sweep
    PROVE  GInv'
<1> USE GCAssumption
<1>1. phase' = "idle" /\ UNCHANGED <<frames, heap, extent, marked, markVars>>
  BY DEF Sweep
<1>2. CASE freeptr = 0
  <2>1. UNCHANGED <<freeptr, freelist, markstart, markend, wrapped>>
    BY <1>2 DEF Sweep
  <2> QED BY <1>1, <2>1 DEF GInv, GCTypeOK, FreeApart, TriColour, EntriesApart, markVars
<1>3. CASE freeptr # 0
  <2>1. /\ freeptr' = (SweepTo % OffsetRange) /\ freelist' = <<>> /\ markstart' = 0
        /\ markend' = (SweepTo % OffsetRange) /\ wrapped' \in BOOLEAN
    BY <1>3 DEF Sweep, GInv, GCTypeOK
  <2>2. (SweepTo % OffsetRange) \in 0 .. Cells
    <3>1. SweepTo \in Nat /\ SweepTo <= Cells
      BY <1>3, SweepToFacts DEF GInv, GCTypeOK
    <3> QED BY <3>1, ModBound
  <2>3. GCTypeOK'
    BY <1>1, <2>1, <2>2 DEF GInv, GCTypeOK, markVars, Pointer
  <2>4. FreeApart'
    BY <2>1, <2>2 DEF FreeApart
  <2> QED BY <1>1, <2>3, <2>4 DEF GInv, TriColour, EntriesApart
<1> QED BY <1>2, <1>3

\* Every step keeps the collector's invariant.
LEMMA NextGInv == IInv /\ GInv /\ [RuntimeNext]_rvars => GInv'
<1> SUFFICES ASSUME IInv, GInv, [RuntimeNext]_rvars PROVE GInv'
  OBVIOUS
<1> USE GCAssumption
<1>1. pc = "coro" => current \in Coro
  BY DEF IInv, TypeOK, StackSafe
<1>2. CASE SpawnWithStack
  <2>1. /\ phase = "idle" /\ UNCHANGED <<heap, extent, heapVars, phase, markVars, wrapped>>
        /\ frames' = [c \in Coro |-> IF c \in live' \ live THEN NoSlots ELSE frames[c]]
    BY <1>2 DEF SpawnWithStack
  <2>2. 0 \in Pointer /\ frames \in [Coro -> [1 .. Slots -> Pointer]]
    BY DEF GInv, GCTypeOK, Pointer
  <2>3. NoSlots \in [1 .. Slots -> Pointer]
    BY <2>2 DEF NoSlots
  <2>4. frames' \in [Coro -> [1 .. Slots -> Pointer]]
    BY <2>1, <2>2, <2>3
  <2> QED BY <2>1, <2>4
       DEF GInv, GCTypeOK, FreeApart, TriColour, EntriesApart, heapVars, markVars
<1>3. CASE SchedulerStep \/ NewPanics
  <2>1. phase = "idle" /\ UNCHANGED gcVars
    BY <1>3 DEF SchedulerStep, NewPanics, AllocFails
  <2> QED BY <2>1
       DEF GInv, GCTypeOK, FreeApart, TriColour, EntriesApart, gcVars, heapVars, markVars
<1>4. CASE New
  <2>1. PICK i \in 1 .. Slots : AllocFromFreelist(i) \/ AllocFromRegion(i)
    BY <1>4 DEF New
  <2>2. GCTypeOK' /\ FreeApart' /\ phase' = "idle"
    BY <1>1, <1>4, <2>1, AllocKeeps DEF New, GInv
  <2> QED BY <2>2 DEF GInv, TriColour, EntriesApart
<1>5. CASE Mutate
  <2>1. current \in Coro
    BY <1>1, <1>5 DEF Mutate
  <2>2. /\ frames \in [Coro -> [1 .. Slots -> Pointer]] /\ heap \in [Cell -> [1 .. Words -> Pointer]]
    BY DEF GInv, GCTypeOK
  <2>3. /\ \A j \in 1 .. Slots : frames[current][j] \in Pointer
        /\ \A j \in 1 .. Slots : frames[current][j] # 0 => frames[current][j] \in Cell
    <3>1. frames[current] \in [1 .. Slots -> Pointer]
      BY <2>1, <2>2
    <3>2. \A p \in Pointer : p # 0 => p \in Cell
      BY DEF Pointer, Cell
    <3> QED BY <3>1, <3>2
  <2>4. /\ phase = "idle" /\ UNCHANGED <<heapVars, phase, markVars, wrapped>>
        /\ frames' \in [Coro -> [1 .. Slots -> Pointer]] /\ heap' \in [Cell -> [1 .. Words -> Pointer]]
        /\ extent' = extent
    <3>1. CASE \E i \in 1 .. Slots : Assign(i)
      <4>1. PICK i \in 1 .. Slots : Assign(i)
        BY <3>1
      <4>2. PICK p \in Pointer : frames' = [frames EXCEPT ![current][i] = p]
        BY <4>1 DEF Assign
      <4>4. frames' \in [Coro -> [1 .. Slots -> Pointer]]
        <5>1. [frames[current] EXCEPT ![i] = p] \in [1 .. Slots -> Pointer]
          BY <2>1, <2>2
        <5>2. frames' = [frames EXCEPT ![current] = [frames[current] EXCEPT ![i] = p]]
          BY <4>2
        <5> QED BY <2>1, <2>2, <5>1, <5>2
      <4> QED BY <2>2, <4>1, <4>4 DEF Assign
    <3>2. CASE \E i, j \in 1 .. Slots, w \in 1 .. Words : StoreWord(i, j, w)
      <4>1. PICK i \in 1 .. Slots, j \in 1 .. Slots, w \in 1 .. Words : StoreWord(i, j, w)
        BY <3>2
      <4>2. frames[current][j] \in Cell /\ frames[current][i] \in Pointer
        BY <2>3, <4>1 DEF StoreWord
      <4>3. PICK d \in Cell : d = frames[current][j]
        BY <4>2
      <4>4. heap' = [heap EXCEPT ![d] = [heap[d] EXCEPT ![w] = frames[current][i]]]
        BY <4>1, <4>3 DEF StoreWord
      <4>5. [heap[d] EXCEPT ![w] = frames[current][i]] \in [1 .. Words -> Pointer]
        BY <2>2, <4>2
      <4> QED BY <2>2, <4>1, <4>4, <4>5 DEF StoreWord
    <3> QED BY <1>5, <3>1, <3>2 DEF Mutate
  <2> QED BY <2>4
       DEF GInv, GCTypeOK, FreeApart, TriColour, EntriesApart, heapVars, markVars
<1>6. CASE Collect
  <2>1. /\ pc = "coro" /\ pc' = pc /\ phase' = "mark" /\ marked' = {} /\ markStack' = <<>>
        /\ scanning' = NoScan /\ pushed' = 0
        /\ UNCHANGED <<frames, heap, extent, freeptr, freelist, markstart, markend, wrapped>>
    BY <1>6 DEF Collect, CollectBegin, vars
  <2>2. NoScan \in Scan /\ NoScan.src = 0 /\ NoScan.pos = 1
    BY DEF NoScan, Scan, Pointer
  <2>3. GCTypeOK'
    BY <2>1, <2>2 DEF GInv, GCTypeOK
  <2>4. FreeApart'
    BY <2>1 DEF GInv, FreeApart
  <2>5. Entries' = {NoScan}
    BY <2>1 DEF Entries
  <2>6. TriColour'
    <3>1. ASSUME NEW src \in {0} \cup marked', NEW pos \in 1 .. WordsOf(src)'
          PROVE  Pending(src, pos)'
      BY <2>1, <2>2, <2>5, <3>1 DEF Pending, WordsOf
    <3> QED BY <2>1, <3>1 DEF TriColour
  <2>7. EntriesApart'
    BY <2>1, <2>2, <2>5 DEF EntriesApart, WordsOf
  <2> QED BY <2>3, <2>4, <2>6, <2>7 DEF GInv
<1>7. CASE CollectStep
  <2>1. UNCHANGED vars
    BY <1>7 DEF CollectStep
  <2>2. CASE Sweep
    BY <2>2, SweepKeeps
  <2>3. ASSUME phase = "mark" PROVE current \in Coro
    BY <1>1, <2>3 DEF GInv, TriColour
  <2>4. CASE MarkPush \/ MarkExchange
    <3>1. phase = "mark"
      BY <2>4 DEF MarkPush, MarkExchange
    <3> QED BY <2>1, <2>3, <2>4, <3>1, PushKeeps
  <2>5. CASE MarkSkip \/ MarkPop \/ MarkEnd
    <3>1. phase = "mark"
      BY <2>5 DEF MarkSkip, MarkPop, MarkEnd
    <3> QED BY <2>1, <2>3, <2>5, <3>1, MarkKeeps
  <2> QED BY <1>7, <2>2, <2>4, <2>5 DEF CollectStep
<1>8. CASE UNCHANGED rvars
  <2>1. /\ UNCHANGED <<pc, current, frames, heap, extent, freeptr, freelist, markstart, markend>>
        /\ UNCHANGED <<marked, phase, markStack, scanning, pushed, wrapped>>
    BY <1>8 DEF rvars, vars, gcVars, heapVars, markVars
  <2>2. /\ Roots(current)' = Roots(current)
        /\ \A R : Retained(R)' = Retained(R)
        /\ \A src, pos : WordAt(src, pos)' = WordAt(src, pos)
        /\ \A src : WordsOf(src)' = WordsOf(src)
    BY <2>1, MarkingReadsOnly
  <2>3. Entries' = Entries
    BY <2>1 DEF Entries
  <2>4. GCTypeOK' /\ FreeApart'
    BY <2>1 DEF GInv, GCTypeOK, FreeApart
  <2>5. TriColour'
    BY <2>1, <2>2, <2>3 DEF GInv, TriColour, Pending
  <2>6. EntriesApart'
    BY <2>1, <2>2, <2>3 DEF GInv, EntriesApart
  <2> QED BY <2>4, <2>5, <2>6 DEF GInv
<1> QED BY <1>2, <1>3, <1>4, <1>5, <1>6, <1>7, <1>8 DEF RuntimeNext

\* The invariants of the scheduler and of the collector, together.
THEOREM RuntimeInvariant == RuntimeSpec => [](IInv /\ GInv)
<1>1. RuntimeSpec => []IInv
  BY RuntimeIsScheduler, Invariance, PTL
<1> QED BY <1>1, InitGInv, NextGInv, PTL DEF RuntimeSpec

\* No cell can be handed out twice.
THEOREM CellsHandedOutOnce == RuntimeSpec => []HandedOutOnce
<1>1. IInv /\ GInv => HandedOutOnce
  BY DEF IInv, GInv, FreeApart, HandedOutOnce
<1> QED BY <1>1, RuntimeInvariant, PTL
-----------------------------------------------------------------------------
(* A collection ends.                                                      *)

\* A step with these effects on the marks and the entries leaves less to do:
\* the position that gc_mark is at is left before the step and not after it.
LEMMA LessLeft ==
    ASSUME GInv, phase = "mark", marked \subseteq marked', \A src : WordsOf(src)' = WordsOf(src),
           \A e \in Entries' :
              \/ e \in Entries /\ e.src # scanning.src
              \/ e.src \in Cell \ marked /\ e.pos = 1
              \/ e.src = scanning.src /\ e.pos = scanning.pos + 1
    PROVE  LeftToMark' \subseteq LeftToMark /\ LeftToMark' # LeftToMark
<1> USE GCAssumption
<1>1. /\ scanning \in Entries /\ scanning.src \in {0} \cup marked /\ marked \subseteq Cell
      /\ scanning.pos \in 1 .. WordsOf(scanning.src) + 1
      /\ 0 \notin Cell
  BY DEF GInv, GCTypeOK, EntriesApart, Entries, Cell
<1>2. \A src : WordsOf(src) \in Nat /\ (src \in Cell => WordsOf(src) = Words)
  BY <1>1 DEF WordsOf
<1>3. ASSUME NEW at \in LeftToMark'
      PROVE  at \in LeftToMark /\ (at.src = scanning.src => at.pos # scanning.pos)
  <2>1. CASE at \in [src : Cell \ marked', pos : 1 .. Words + 1]
    <3>1. at.src \in Cell \ marked' /\ at \in [src : Cell \ marked, pos : 1 .. Words + 1]
      BY <2>1
    <3> QED BY <1>1, <3>1 DEF LeftToMark
  <2>2. ASSUME NEW e \in Entries',
               at \in [src : {e.src}, pos : e.pos .. WordsOf(e.src)' + 1]
        PROVE  at \in LeftToMark /\ (at.src = scanning.src => at.pos # scanning.pos)
    <3>1. /\ at = [src |-> at.src, pos |-> at.pos] /\ at.src = e.src
          /\ at.pos \in e.pos .. WordsOf(e.src) + 1
      BY <2>2
    <3>2. CASE e \in Entries /\ e.src # scanning.src
      <4>1. at \in [src : {e.src}, pos : e.pos .. WordsOf(e.src) + 1]
        BY <3>1
      <4> QED BY <3>1, <3>2, <4>1 DEF LeftToMark
    <3>3. CASE e.src \in Cell \ marked /\ e.pos = 1
      <4>1. at \in [src : Cell \ marked, pos : 1 .. Words + 1]
        BY <1>2, <3>1, <3>3
      <4> QED BY <1>1, <3>1, <3>3, <4>1 DEF LeftToMark
    <3>4. CASE e.src = scanning.src /\ e.pos = scanning.pos + 1
      <4>1. at.pos \in scanning.pos .. WordsOf(scanning.src) + 1 /\ at.pos # scanning.pos
        BY <1>1, <1>2, <3>1, <3>4
      <4>2. at \in [src : {scanning.src}, pos : scanning.pos .. WordsOf(scanning.src) + 1]
        BY <3>1, <3>4, <4>1
      <4> QED BY <1>1, <4>1, <4>2 DEF LeftToMark
    <3> QED BY <3>2, <3>3, <3>4
  <2> QED BY <2>1, <2>2 DEF LeftToMark
<1>4. [src |-> scanning.src, pos |-> scanning.pos] \in LeftToMark
  <2>1. [src |-> scanning.src, pos |-> scanning.pos] \in
            [src : {scanning.src}, pos : scanning.pos .. WordsOf(scanning.src) + 1]
    BY <1>1, <1>2
  <2> QED BY <1>1, <2>1 DEF LeftToMark
<1> QED BY <1>3, <1>4

\* Every step of a collection leaves less to do.
THEOREM CollectionsShrink == RuntimeSpec => CollectShrinks
<1>1. IInv /\ GInv /\ [RuntimeNext]_rvars =>
        [phase = "mark" /\ phase' = "mark" =>
            LeftToMark' \subseteq LeftToMark /\ LeftToMark' # LeftToMark]_rvars
  <2> SUFFICES ASSUME IInv, GInv, RuntimeNext, phase = "mark", phase' = "mark"
               PROVE  LeftToMark' \subseteq LeftToMark /\ LeftToMark' # LeftToMark
    OBVIOUS
  <2> USE GCAssumption
  <2>1. CollectStep /\ UNCHANGED vars /\ ~ Sweep /\ ~ MarkEnd
    BY DEF RuntimeNext, SpawnWithStack, SchedulerStep, New, NewPanics, Mutate, Collect, CollectStep,
           AllocFromFreelist, AllocFromRegion, AllocFails, Assign, StoreWord, CollectBegin,
           Sweep, MarkEnd
  <2>2. current \in Coro
    BY DEF IInv, GInv, TypeOK, StackSafe, TriColour
  <2>3. \A src : WordsOf(src)' = WordsOf(src)
    BY DEF WordsOf
  <2>4. \A k \in 1 .. Len(markStack) :
           markStack[k] \in Entries /\ markStack[k].src # scanning.src
    BY DEF GInv, EntriesApart, Entries
  <2>5. scanning \in Scan /\ markStack \in Seq(Scan)
    BY DEF GInv, GCTypeOK
  <2>6. ScanRest.src = scanning.src /\ ScanRest.pos = scanning.pos + 1
    <3>1. ScanRest = [src |-> scanning.src, pos |-> scanning.pos + 1]
      BY <2>5 DEF ScanRest, Scan
    <3> QED BY <3>1
  <2>7. CASE MarkSkip
    <3>1. marked' = marked /\ Entries' = {ScanRest} \cup {markStack[k] : k \in 1 .. Len(markStack)}
      BY <2>7 DEF MarkSkip, heapVars, Entries
    <3> QED BY <2>3, <2>4, <2>6, <3>1, LessLeft
  <2>8. CASE MarkPush \/ MarkExchange
    <3>1. /\ ScanWord \in (1 .. freeptr) \ marked /\ marked' = marked \cup {ScanWord}
          /\ Entries' = {NewScan, ScanRest} \cup {markStack[k] : k \in 1 .. Len(markStack)}
      BY <2>2, <2>8, PushSplits
    <3>2. NewScan.src = ScanWord /\ NewScan.pos = 1 /\ ScanWord \in Cell
      BY <3>1 DEF NewScan, GInv, GCTypeOK, Cell
    <3> QED BY <2>3, <2>4, <2>6, <3>1, <3>2, LessLeft
  <2>9. CASE MarkPop
    <3>1. marked' = marked /\ markStack # <<>> /\ scanning' = Head(markStack)
          /\ markStack' = Tail(markStack)
      BY <2>9 DEF MarkPop, heapVars
    <3>2. /\ scanning' = markStack[1] /\ 1 \in 1 .. Len(markStack)
          /\ \A k \in 1 .. Len(markStack') :
                k + 1 \in 1 .. Len(markStack) /\ markStack'[k] = markStack[k + 1]
      BY <2>5, <3>1
    <3>3. \A e \in Entries' : e \in Entries /\ e.src # scanning.src
      <4>1. \A e \in Entries' : e = scanning' \/ \E k \in 1 .. Len(markStack') : e = markStack'[k]
        BY DEF Entries
      <4>2. \A e \in Entries' : \E k \in 1 .. Len(markStack) : e = markStack[k]
        BY <3>2, <4>1
      <4> QED BY <2>4, <4>2
    <3> QED BY <2>3, <3>1, <3>3, LessLeft
  <2> QED BY <2>1, <2>7, <2>8, <2>9 DEF CollectStep
<1> QED BY <1>1, RuntimeInvariant, PTL DEF RuntimeSpec, CollectShrinks
-----------------------------------------------------------------------------
(* A collection is exact.                                                  *)

\* At the end of marking the marked cells are those that words lead to, and the
\* sweep makes all the others available.
LEMMA SweepExact ==
    ASSUME IInv, GInv, Sweep, ~ wrapped'
    PROVE  /\ Available' = Cell \ Retained(Roots(current))
           /\ Retained(Roots(current)) \subseteq 1 .. freeptr'
<1> USE GCAssumption
<1>1. phase = "sweep"
  BY DEF Sweep
<1>2. pc = "coro" /\ current \in Coro
  BY <1>1, NullAssumption DEF GInv, TriColour, IInv, TypeOK, StackSafe
<1>3. /\ marked \subseteq Retained(Roots(current))
      /\ \A src \in {0} \cup marked : \A pos \in 1 .. WordsOf(src) :
            WordAt(src, pos) \notin (1 .. freeptr) \ marked
  BY <1>1 DEF GInv, TriColour
<1>4. freeptr \in 0 .. Cells /\ marked \subseteq Cell
  BY DEF GInv, GCTypeOK
<1>5. Retained(Roots(current)) \subseteq 1 .. freeptr
  BY RetainedCloses
<1>7. Retained(Roots(current)) = marked
  <2>1. ASSUME NEW p \in Roots(current), p \in 1 .. freeptr PROVE p \in marked
    <3>1. PICK i \in 1 .. Slots : p = frames[current][i]
      BY DEF Roots
    <3>2. p = WordAt(0, i) /\ i \in 1 .. WordsOf(0)
      BY <3>1 DEF WordAt, WordsOf
    <3> QED BY <1>3, <2>1, <3>2
  <2>2. ASSUME NEW d \in marked, NEW w \in 1 .. Words, heap[d][w] \in 1 .. freeptr
        PROVE  heap[d][w] \in marked
    <3>1. d # 0
      BY <1>4 DEF Cell
    <3>2. heap[d][w] = WordAt(d, w) /\ w \in 1 .. WordsOf(d)
      BY <3>1 DEF WordAt, WordsOf
    <3> QED BY <1>3, <2>2, <3>2
  <2>3. Roots(current) \cap (1 .. freeptr) \subseteq marked /\ marked \in SUBSET (1 .. freeptr)
    BY <1>3, <1>5, <2>1
  <2>5. Retained(Roots(current)) \subseteq marked
    BY <2>2, <2>3, RetainedLeast
  <2> QED BY <1>3, <2>5
<1>8. marked' = marked
  BY DEF Sweep
<1>9. CASE freeptr = 0
  <2>1. UNCHANGED <<freeptr, freelist, markstart, markend>>
    BY <1>9 DEF Sweep
  <2>2. marked = {}
    BY <1>5, <1>7, <1>9
  <2>3. freelist \in Seq(Cell) /\ \A k \in 1 .. Len(freelist) : freelist[k] <= 0
    BY <1>9 DEF GInv, GCTypeOK, FreeApart
  <2>4. 1 .. Len(freelist) = {}
    <3>1. \A k \in 1 .. Len(freelist) : freelist[k] \in Cell /\ freelist[k] <= 0
      BY <2>3
    <3> QED BY <3>1 DEF Cell
  <2>5. {freelist[k] : k \in 1 .. Len(freelist)} = {}
    BY <2>4
  <2>6. markstart \in Nat /\ markend \in Nat /\ markend <= 0
    BY <1>9 DEF GInv, GCTypeOK, FreeApart, Pointer
  <2>7. markstart + 1 .. markend = {} /\ freeptr + 1 .. Cells = Cell
    BY <1>9, <2>6 DEF Cell
  <2>8. Available' = Cell
    BY <2>1, <2>5, <2>7 DEF Available
  <2> QED BY <1>7, <2>2, <2>8
<1>10. CASE freeptr # 0
  <2>1. /\ freeptr' = (SweepTo % OffsetRange) /\ markend' = (SweepTo % OffsetRange)
        /\ freelist' = <<>> /\ markstart' = 0 /\ ~ (SweepTo >= OffsetRange)
    BY <1>10 DEF Sweep
  <2>2. SweepTo \in 0 .. freeptr /\ \A c \in marked : c <= freeptr => c <= SweepTo
    BY <1>10, SweepToFacts DEF GInv
  <2>3. (SweepTo % OffsetRange) = SweepTo
    BY <1>4, <2>1, <2>2, ModBound
  <2>4. \A c \in marked : c \in 1 .. SweepTo
    BY <1>4, <1>5, <1>7, <2>2
  <2>5. Available' = {c \in 1 .. SweepTo : c \notin marked} \cup (SweepTo + 1 .. Cells)
    <3>1. {freelist'[k] : k \in 1 .. Len(freelist')} = {}
      BY <2>1
    <3>2. markstart' + 1 = 1
      BY <2>1
    <3> QED BY <1>8, <2>1, <2>3, <3>1, <3>2 DEF Available
  <2>6. Available' = Cell \ marked
    <3>1. \A c \in Cell : c \in 1 .. SweepTo \/ c \in SweepTo + 1 .. Cells
      BY <1>4, <2>2 DEF Cell
    <3>2. \A c \in 1 .. SweepTo : c \in Cell /\ c \notin SweepTo + 1 .. Cells
      BY <1>4, <2>2 DEF Cell
    <3>3. \A c \in SweepTo + 1 .. Cells : c \in Cell
      BY <1>4, <2>2 DEF Cell
    <3> QED BY <2>4, <2>5, <3>1, <3>2, <3>3
  <2> QED BY <1>7, <2>1, <2>3, <2>4, <2>6
<1> QED BY <1>9, <1>10

\* Whatever coroutines there are, a collection, unless a sweep offset wraps,
\* makes available exactly the cells that no word leads to from the stack of the
\* coroutine calling gcCollect.
THEOREM CollectionsExact == RuntimeSpec => CollectExact
<1>1. IInv /\ GInv /\ [RuntimeNext]_rvars =>
        [phase = "sweep" /\ ~ wrapped' => Available' = Cell \ Retained(Roots(current))]_rvars
  <2> SUFFICES ASSUME IInv, GInv, RuntimeNext, phase = "sweep", ~ wrapped'
               PROVE  Available' = Cell \ Retained(Roots(current))
    OBVIOUS
  <2>1. Sweep
    BY DEF RuntimeNext, SpawnWithStack, SchedulerStep, New, NewPanics, Mutate, Collect, CollectStep,
           AllocFromFreelist, AllocFromRegion, AllocFails, Assign, StoreWord, CollectBegin,
           MarkSkip, MarkPush, MarkExchange, MarkPop, MarkEnd
  <2> QED BY <2>1, SweepExact
<1> QED BY <1>1, RuntimeInvariant, PTL DEF RuntimeSpec, CollectExact
-----------------------------------------------------------------------------
(* A collection keeps what the program can reach.                          *)

\* gc_mark knows no stack but the current one.  Whatever is proved of what a
\* collection keeps is proved of programs that collect only when no other
\* coroutine exists; the run runtime_suspended_roots shows why.
CollectsAlone == [][phase = "idle" /\ phase' = "mark" => live = {current}]_rvars

\* A program that spawns nothing is such a program.
THEOREM OneCoroutine ==
    ASSUME NEW c, Coro = {c}
    PROVE  RuntimeSpec => CollectsAlone
<1>1. IInv /\ GInv /\ [RuntimeNext]_rvars =>
        [phase = "idle" /\ phase' = "mark" => live = {current}]_rvars
  <2> SUFFICES ASSUME IInv, RuntimeNext, phase = "idle", phase' = "mark"
               PROVE  live = {current}
    OBVIOUS
  <2>1. pc = "coro"
    BY DEF RuntimeNext, SpawnWithStack, SchedulerStep, New, NewPanics, Mutate, Collect, CollectStep,
           AllocFromFreelist, AllocFromRegion, AllocFails, Assign, StoreWord, gcVars,
           MarkSkip, MarkPush, MarkExchange, MarkPop, MarkEnd, Sweep
  <2>2. current \in live /\ live \subseteq Coro
    BY <2>1 DEF IInv, TypeOK, StackSafe
  <2> QED BY <2>2
<1> QED BY <1>1, RuntimeInvariant, PTL DEF RuntimeSpec, CollectsAlone

\* What coroutines can reach is never available, and used as long as a
\* collection is going on, which no coroutine but the current one sees.
Kept ==
    ~ wrapped =>
        /\ phase # "idle" => live = {current}
        /\ \A c \in live \ {cleanup} :
              /\ Reachable(Roots(c)) \subseteq 1 .. freeptr
              /\ phase = "idle" => Reachable(Roots(c)) \cap Available = {}

\* What a lone coroutine can reach is among what a collection keeps.
LEMMA ReachableRetained ==
    ASSUME IInv, GInv, Kept, phase = "sweep", ~ wrapped
    PROVE  live = {current} /\ Reachable(Roots(current)) \subseteq Retained(Roots(current))
<1>1. /\ pc = "coro" /\ live = {current} /\ current \in Coro /\ cleanup # current
  BY NullAssumption DEF GInv, TriColour, Kept, IInv, TypeOK, StackSafe, Control
<1> DEFINE R == Reachable(Roots(current))
           K == Retained(Roots(current))
<1>2. R \subseteq 1 .. freeptr
  BY <1>1 DEF Kept
<1>3. /\ frames[current] \in [1 .. Slots -> Pointer]
      /\ \A d \in Cell : extent[d] \in 0 .. Words
  BY <1>1 DEF GInv, GCTypeOK
<1>4. Roots(current) \in SUBSET Pointer
  BY <1>3 DEF Roots
<1>5. /\ R \subseteq Cell
      /\ \A p \in Roots(current) : p = 0 \/ p \in R
      /\ \A d \in R : \A w \in 1 .. extent[d] : heap[d][w] = 0 \/ heap[d][w] \in R
  BY <1>4, ReachableCloses DEF GInv
<1>6. /\ \A p \in Roots(current) : p \in 1 .. freeptr => p \in K
      /\ \A d \in K, w \in 1 .. Words : heap[d][w] \in 1 .. freeptr => heap[d][w] \in K
  BY RetainedCloses
<1> HIDE DEF R, K
<1>7. \A d \in R \cap K : \A w \in 1 .. extent[d] : heap[d][w] \in (R \cap K) \cup {0}
  <2> TAKE d \in R \cap K
  <2> TAKE w \in 1 .. extent[d]
  <2>1. w \in 1 .. Words
    BY GCAssumption, <1>3, <1>5
  <2> QED BY <1>2, <1>5, <1>6, <2>1
<1>8. Roots(current) \subseteq (R \cap K) \cup {0}
  BY <1>2, <1>5, <1>6
<1>9. R \subseteq R \cap K
  <2>1. R \cap K \in SUBSET Cell
    BY <1>5
  <2> QED BY <1>7, <1>8, <2>1, ReachableLeast DEF R
<1> QED BY <1>1, <1>9 DEF R, K

\* A set that has the roots and is closed has every reachable cell, in the
\* next state too.
LEMMA ReachableLeastNext ==
    ASSUME NEW c, NEW T \in SUBSET Cell, Roots(c)' \subseteq T \cup {0},
           \A d \in T : \A w \in 1 .. extent'[d] : heap'[d][w] \in T \cup {0}
    PROVE  Reachable(Roots(c))' \subseteq T
BY DEF Reachable

\* A coroutine that can run may use no available cell.
LEMMA KeptFacts ==
    ASSUME IInv, GInv, Kept, phase = "idle", ~ wrapped, NEW c \in live \ {cleanup}
    PROVE  /\ c \in Coro /\ Roots(c) \in SUBSET Pointer
           /\ Reachable(Roots(c)) \subseteq Cell \cap (1 .. freeptr)
           /\ Reachable(Roots(c)) \cap Available = {}
           /\ \A p \in Roots(c) : p = 0 \/ p \in Reachable(Roots(c))
           /\ \A d \in Reachable(Roots(c)) : \A w \in 1 .. extent[d] :
                 heap[d][w] = 0 \/ heap[d][w] \in Reachable(Roots(c))
<1>1. c \in Coro
  BY DEF IInv, TypeOK
<1>2. frames[c] \in [1 .. Slots -> Pointer]
  BY <1>1 DEF GInv, GCTypeOK
<1>3. Roots(c) \in SUBSET Pointer
  BY <1>2 DEF Roots
<1>4. /\ Reachable(Roots(c)) \subseteq Cell
      /\ \A p \in Roots(c) : p = 0 \/ p \in Reachable(Roots(c))
      /\ \A d \in Reachable(Roots(c)) : \A w \in 1 .. extent[d] :
            heap[d][w] = 0 \/ heap[d][w] \in Reachable(Roots(c))
  BY <1>3, ReachableCloses DEF GInv
<1> QED BY <1>1, <1>3, <1>4 DEF Kept

LEMMA InitKept == RuntimeInit => Kept
BY DEF RuntimeInit, Init, GCInit, Kept

\* A new coroutine has no pointers, and nobody else sees it.
LEMMA SpawnKept ==
    ASSUME IInv, GInv, Kept, SpawnWithStack
    PROVE  Kept'
<1> USE GCAssumption
<1>1. /\ phase = "idle"
      /\ UNCHANGED <<heap, extent, freeptr, freelist, markstart, markend, marked, phase, wrapped>>
  BY DEF SpawnWithStack, heapVars
<1>2. UNCHANGED cleanup /\ live' \subseteq Coro
  BY DEF SpawnWithStack, SpawnMain, Spawn, spawn, IInv, TypeOK
<1>3. SUFFICES ASSUME ~ wrapped, NEW c \in live' \ {cleanup'}
               PROVE  /\ Reachable(Roots(c))' \subseteq 1 .. freeptr'
                      /\ Reachable(Roots(c))' \cap Available' = {}
  BY <1>1 DEF Kept
<1>4. CASE c \in live
  <2>1. Reachable(Roots(c)) \subseteq 1 .. freeptr /\ Reachable(Roots(c)) \cap Available = {}
    BY <1>1, <1>2, <1>3, <1>4 DEF Kept
  <2>2. frames'[c] = frames[c]
    BY <1>2, <1>3, <1>4 DEF SpawnWithStack
  <2>3. Reachable(Roots(c))' = Reachable(Roots(c))
    BY <1>1, <2>2 DEF Reachable, Roots
  <2>4. Available' = Available
    BY <1>1 DEF Available
  <2> QED BY <1>1, <2>1, <2>3, <2>4
<1>5. CASE c \notin live
  <2>1. frames'[c] = NoSlots
    BY <1>2, <1>3, <1>5 DEF SpawnWithStack
  <2>2. Roots(c)' \subseteq {} \cup {0}
    BY <2>1 DEF Roots, NoSlots
  <2>3. Reachable(Roots(c))' \subseteq {}
    <3>1. PICK T \in SUBSET Cell : T = {}
      OBVIOUS
    <3>2. \A d \in T : \A w \in 1 .. extent'[d] : heap'[d][w] \in T \cup {0}
      BY <3>1
    <3> QED BY <2>2, <3>1, <3>2, ReachableLeastNext
  <2> QED BY <2>3
<1> QED BY <1>4, <1>5

\* A coroutine that ends stops counting, and the others keep what they have.
LEMMA SchedulerKept ==
    ASSUME IInv, Kept, SchedulerStep
    PROVE  Kept'
<1>1. /\ phase = "idle"
      /\ UNCHANGED <<frames, heap, extent, freeptr, freelist, markstart, markend, marked, phase, wrapped>>
  BY DEF SchedulerStep, gcVars, heapVars
<1>2. live' \ {cleanup'} \subseteq live \ {cleanup}
  <2>1. CASE Reap
    BY <2>1 DEF Reap
  <2>2. CASE CoroEntryEnd
    BY <2>2, NullAssumption DEF CoroEntryEnd, memVars, IInv, Control, TypeOK
  <2>3. CASE ~ Reap /\ ~ CoroEntryEnd
    <3>1. UNCHANGED <<live, cleanup>>
      BY <2>3 DEF SchedulerStep, SignalSetup, Dispatch, SchedulerReturns, SignalTeardown,
                  OutOfMemory, Yield, CoroReturn, Fault, Stopped, memVars, vars
    <3> QED BY <3>1
  <2> QED BY <2>1, <2>2, <2>3
<1>3. \A c : Reachable(Roots(c))' = Reachable(Roots(c))
  BY <1>1 DEF Reachable, Roots
<1>4. Available' = Available
  BY <1>1 DEF Available
<1> QED BY <1>1, <1>2, <1>3, <1>4 DEF Kept

\* gcNew hands out a cell that was available, and is not any more.
LEMMA AllocTakes ==
    ASSUME GCTypeOK, FreeApart, NEW i \in 1 .. Slots,
           AllocFromFreelist(i) \/ AllocFromRegion(i)
    PROVE  /\ UNCHANGED <<phase, wrapped>> /\ phase = "idle"
           /\ \E cell \in Cell : /\ Deliver(cell, i)
                                 /\ cell <= freeptr' /\ freeptr <= freeptr'
                                 /\ Available' \subseteq Available \ {cell}
<1> USE GCAssumption
<1> DEFINE list == FreelistAfterSearch
           from == MarkstartAfterSearch
<1>1. /\ list \in Seq(Cell)
      /\ \A j, k \in 1 .. Len(list) : list[j] = list[k] => j = k
      /\ \A k \in 1 .. Len(list) : list[k] <= freeptr /\ list[k] \notin from + 1 .. markend
      /\ from \in Pointer /\ markstart <= from /\ from <= markend
      /\ \A k \in 1 .. Len(list) :
            \/ \E j \in 1 .. Len(freelist) : list[k] = freelist[j]
            \/ list[k] \in markstart + 1 .. markend /\ list[k] \notin marked
  BY SearchKeeps
<1>2. /\ freeptr \in 0 .. Cells /\ markstart \in 0 .. Cells /\ markend \in 0 .. Cells
      /\ markend <= freeptr
  BY DEF GCTypeOK, FreeApart, Pointer
<1>3. \A k \in 1 .. Len(list) : list[k] \in Available
  <2> HIDE DEF list, from
  <2> QED BY <1>1 DEF Available
<1>4. {c \in from + 1 .. markend : c \notin marked} \subseteq Available
  <2> HIDE DEF list, from
  <2>1. \A c \in from + 1 .. markend : c \in markstart + 1 .. markend
    BY <1>1, <1>2 DEF Pointer
  <2> QED BY <2>1 DEF Available
<1>5. CASE AllocFromFreelist(i)
  <2>1. /\ list # <<>> /\ Deliver(Head(list), i) /\ freelist' = Tail(list) /\ markstart' = from
        /\ phase = "idle" /\ UNCHANGED <<freeptr, markend, marked, phase, wrapped>>
    BY <1>5 DEF AllocFromFreelist
  <2> HIDE DEF list, from
  <2>2. /\ Head(list) = list[1] /\ 1 \in 1 .. Len(list) /\ list[1] \in Cell
        /\ \A k \in 1 .. Len(freelist') : k + 1 \in 1 .. Len(list) /\ freelist'[k] = list[k + 1]
    BY <1>1, <2>1
  <2>3. ASSUME NEW c \in Available' PROVE c \in Available /\ c # list[1]
    <3>1. \/ \E k \in 1 .. Len(freelist') : c = freelist'[k]
          \/ c \in from + 1 .. markend /\ c \notin marked
          \/ c \in freeptr + 1 .. Cells
      BY <2>1, <2>3 DEF Available
    <3>2. CASE \E k \in 1 .. Len(freelist') : c = freelist'[k]
      <4>1. PICK k \in 1 .. Len(freelist') : c = freelist'[k]
        BY <3>2
      <4>2. k + 1 \in 1 .. Len(list) /\ c = list[k + 1] /\ k + 1 # 1
        BY <2>2, <4>1
      <4> QED BY <1>1, <1>3, <2>2, <4>2
    <3>3. CASE c \in from + 1 .. markend /\ c \notin marked
      BY <1>1, <1>4, <2>2, <3>3
    <3>4. CASE c \in freeptr + 1 .. Cells
      <4>1. c # list[1]
        BY <1>1, <1>2, <2>2, <3>4 DEF Cell
      <4> QED BY <3>4, <4>1 DEF Available
    <3> QED BY <3>1, <3>2, <3>3, <3>4
  <2>4. list[1] <= freeptr' /\ freeptr <= freeptr'
    BY <1>1, <1>2, <2>1, <2>2
  <2> QED BY <2>1, <2>2, <2>3, <2>4
<1>6. CASE AllocFromRegion(i)
  <2>1. /\ list = <<>> /\ Deliver(freeptr + 1, i) /\ freeptr < Cells /\ freeptr' = freeptr + 1
        /\ markstart' = from /\ phase = "idle"
        /\ UNCHANGED <<freelist, markend, marked, phase, wrapped>>
    BY <1>6 DEF AllocFromRegion
  <2>2. freelist = <<>>
    BY <2>1 DEF FreelistAfterSearch
  <2> HIDE DEF list, from
  <2>3. ASSUME NEW c \in Available' PROVE c \in Available /\ c # freeptr + 1
    <3>1. \/ c \in from + 1 .. markend /\ c \notin marked
          \/ c \in freeptr + 1 + 1 .. Cells
      BY <2>1, <2>2, <2>3 DEF Available
    <3>2. CASE c \in from + 1 .. markend /\ c \notin marked
      <4>1. c # freeptr + 1
        BY <1>1, <1>2, <3>2 DEF Pointer
      <4> QED BY <1>4, <3>2, <4>1
    <3>3. CASE c \in freeptr + 1 + 1 .. Cells
      <4>1. c # freeptr + 1 /\ c \in freeptr + 1 .. Cells
        BY <1>2, <3>3
      <4> QED BY <4>1 DEF Available
    <3> QED BY <3>1, <3>2, <3>3
  <2>4. freeptr + 1 \in Cell /\ freeptr + 1 <= freeptr' /\ freeptr <= freeptr'
    BY <1>2, <2>1 DEF Cell
  <2> QED BY <2>1, <2>3, <2>4
<1> QED BY <1>5, <1>6

\* The new cell is the only one that anybody can newly reach.
LEMMA NewKept ==
    ASSUME IInv, GInv, Kept, New
    PROVE  Kept'
<1> USE GCAssumption
<1>1. PICK i \in 1 .. Slots : AllocFromFreelist(i) \/ AllocFromRegion(i)
  BY DEF New
<1>2. /\ UNCHANGED <<phase, wrapped>> /\ phase = "idle"
      /\ \E cell \in Cell : /\ Deliver(cell, i)
                            /\ cell <= freeptr' /\ freeptr <= freeptr'
                            /\ Available' \subseteq Available \ {cell}
  BY <1>1, AllocTakes DEF GInv
<1>3. PICK cell \in Cell : /\ Deliver(cell, i)
                           /\ cell <= freeptr' /\ freeptr <= freeptr'
                           /\ Available' \subseteq Available \ {cell}
  BY <1>2
<1>4. UNCHANGED <<live, cleanup, current>> /\ current \in Coro
  BY NullAssumption DEF New, vars, IInv, TypeOK, StackSafe
<1>5. SUFFICES ASSUME ~ wrapped, NEW c \in live \ {cleanup}
               PROVE  /\ Reachable(Roots(c))' \subseteq 1 .. freeptr'
                      /\ Reachable(Roots(c))' \cap Available' = {}
  BY <1>2, <1>4 DEF Kept
<1> DEFINE R == Reachable(Roots(c))
<1>6. /\ c \in Coro /\ R \subseteq Cell \cap (1 .. freeptr) /\ R \cap Available = {}
      /\ \A p \in Roots(c) : p = 0 \/ p \in R
      /\ \A d \in R : \A w \in 1 .. extent[d] : heap[d][w] = 0 \/ heap[d][w] \in R
  BY <1>2, <1>5, KeptFacts
<1> HIDE DEF R
<1>7. /\ frames \in [Coro -> [1 .. Slots -> Pointer]] /\ heap \in [Cell -> [1 .. Words -> Pointer]]
      /\ freeptr \in Nat /\ freeptr' \in Nat /\ cell \in Nat
  BY <1>1, <1>4, AllocKeeps, SMTT(20) DEF GInv, GCTypeOK, Cell
<1>8. Roots(c)' \subseteq R \cup {cell} \cup {0}
  <2>1. \A k \in 1 .. Slots : frames'[c][k] = cell \/ frames'[c][k] = frames[c][k]
    BY <1>3, <1>4, <1>6, <1>7 DEF Deliver
  <2>2. \A k \in 1 .. Slots : frames[c][k] \in Roots(c)
    BY DEF Roots
  <2> QED BY <1>6, <2>1, <2>2 DEF Roots
<1>9. \A d \in R \cup {cell} : \A w \in 1 .. extent'[d] : heap'[d][w] \in R \cup {cell} \cup {0}
  <2> TAKE d \in R \cup {cell}
  <2> TAKE w \in 1 .. extent'[d]
  <2>1. /\ \A e \in Cell \ {cell} : heap'[e] = heap[e] /\ extent'[e] = extent[e]
        /\ \A v \in 1 .. extent'[cell] : heap'[cell][v] = 0
    BY <1>1, <1>3, <1>4, DeliverTypes DEF GInv
  <2> QED BY <1>6, <2>1
<1>10. R \cup {cell} \in SUBSET Cell
  BY <1>6
<1>11. Reachable(Roots(c))' \subseteq R \cup {cell}
  BY <1>8, <1>9, <1>10, ReachableLeastNext
<1>12. R \cup {cell} \subseteq 1 .. freeptr'
  <2>1. freeptr <= freeptr' /\ cell <= freeptr' /\ cell \in Cell
    BY <1>3
  <2>2. cell \in 1 .. freeptr'
    BY <1>7, <2>1 DEF Cell
  <2>3. \A d \in 1 .. freeptr : d \in 1 .. freeptr'
    BY <1>7, <2>1
  <2> QED BY <1>6, <2>2, <2>3
<1> QED BY <1>3, <1>6, <1>11, <1>12

\* The program copies only pointers to what it can reach.
LEMMA MutateKept ==
    ASSUME IInv, GInv, Kept, Mutate
    PROVE  Kept'
<1> USE GCAssumption
<1>1. UNCHANGED <<live, cleanup, current>> /\ current \in live \ {cleanup} /\ current \in Coro
  BY NullAssumption DEF Mutate, vars, IInv, TypeOK, StackSafe, Control
<1>2. /\ phase = "idle"
      /\ UNCHANGED <<freeptr, freelist, markstart, markend, marked, phase, wrapped>>
  BY DEF Mutate, Assign, StoreWord, heapVars
<1>3. SUFFICES ASSUME ~ wrapped, NEW c \in live \ {cleanup}
               PROVE  /\ Reachable(Roots(c))' \subseteq 1 .. freeptr
                      /\ Reachable(Roots(c))' \cap Available = {}
  <2>1. Available' = Available
    BY <1>2 DEF Available
  <2> QED BY <1>1, <1>2, <1>3, <2>1 DEF Kept
<1> DEFINE R == Reachable(Roots(c))
           S == Reachable(Roots(current))
<1>4. /\ c \in Coro /\ R \subseteq Cell \cap (1 .. freeptr) /\ R \cap Available = {}
      /\ \A p \in Roots(c) : p = 0 \/ p \in R
      /\ \A d \in R : \A w \in 1 .. extent[d] : heap[d][w] = 0 \/ heap[d][w] \in R
  BY <1>2, <1>3, KeptFacts
<1>5. /\ S \subseteq Cell \cap (1 .. freeptr) /\ S \cap Available = {}
      /\ \A p \in Roots(current) : p = 0 \/ p \in S
      /\ \A d \in S : \A w \in 1 .. extent[d] : heap[d][w] = 0 \/ heap[d][w] \in S
  BY <1>1, <1>2, <1>3, KeptFacts
<1> HIDE DEF R, S
<1>6. frames \in [Coro -> [1 .. Slots -> Pointer]] /\ heap \in [Cell -> [1 .. Words -> Pointer]]
  BY DEF GInv, GCTypeOK
<1>7. CASE \E i \in 1 .. Slots : Assign(i)
  <2>1. PICK i \in 1 .. Slots : Assign(i)
    BY <1>7
  <2>2. PICK p \in Pointer :
           /\ \/ p \in {0} \cup Roots(current)
              \/ \E e \in Roots(current) \ {0} : \E w \in 1 .. extent[e] : p = heap[e][w]
           /\ frames' = [frames EXCEPT ![current][i] = p]
    BY <2>1 DEF Assign
  <2>3. heap' = heap /\ extent' = extent
    BY <2>1 DEF Assign
  <2>4. p = 0 \/ p \in S
    BY <1>5, <2>2
  <2>5. \A k \in 1 .. Slots : frames'[c][k] = frames[c][k] \/ (frames'[c][k] = p /\ c = current)
    <3>1. frames[c] \in [1 .. Slots -> Pointer]
      BY <1>4, <1>6
    <3>2. frames' = [frames EXCEPT ![current] = [frames[current] EXCEPT ![i] = p]]
      BY <2>2
    <3>3. c # current => frames'[c] = frames[c]
      BY <1>4, <1>6, <3>2
    <3>4. c = current => frames'[c] = [frames[c] EXCEPT ![i] = p]
      BY <1>4, <1>6, <3>2
    <3> QED BY <3>1, <3>3, <3>4
  <2>6. \A k \in 1 .. Slots : frames[c][k] \in Roots(c)
    BY DEF Roots
  <2>7. Roots(c)' \subseteq R \cup {0}
    <3>1. c = current => R = S
      BY DEF R, S
    <3>2. \A k \in 1 .. Slots : frames'[c][k] = 0 \/ frames'[c][k] \in R
      BY <1>4, <2>4, <2>5, <2>6, <3>1
    <3> QED BY <3>2 DEF Roots
  <2>8. R \in SUBSET Cell /\ \A d \in R : \A w \in 1 .. extent'[d] : heap'[d][w] \in R \cup {0}
    BY <1>4, <2>3
  <2>9. Reachable(Roots(c))' \subseteq R
    BY <2>7, <2>8, ReachableLeastNext
  <2> QED BY <1>4, <2>9
<1>8. CASE \E i, j \in 1 .. Slots, w \in 1 .. Words : StoreWord(i, j, w)
  <2>1. PICK i \in 1 .. Slots, j \in 1 .. Slots, w \in 1 .. Words : StoreWord(i, j, w)
    BY <1>8
  <2> DEFINE e == frames[current][j]
             p == frames[current][i]
  <2>2. heap' = [heap EXCEPT ![e][w] = p] /\ frames' = frames /\ extent' = extent
    BY <2>1 DEF StoreWord
  <2>3. p = 0 \/ p \in S
    BY <1>5 DEF Roots
  <2> HIDE DEF e, p
  <2>4. \A d \in Cell, u \in 1 .. Words : heap'[d][u] = heap[d][u] \/ heap'[d][u] = p
    BY <1>6, <2>2
  <2>5. \A d \in R \cup S : \A u \in 1 .. extent'[d] : heap'[d][u] \in R \cup S \cup {0}
    <3> TAKE d \in R \cup S
    <3> TAKE u \in 1 .. extent'[d]
    <3>1. heap[d][u] = 0 \/ heap[d][u] \in R \cup S
      BY <1>4, <1>5, <2>2
    <3>2. d \in Cell /\ extent[d] \in 0 .. Words
      BY <1>4, <1>5 DEF GInv, GCTypeOK
    <3>3. u \in 1 .. Words
      BY <2>2, <3>2
    <3> QED BY <2>3, <2>4, <3>1, <3>2, <3>3
  <2>6. Roots(c)' \subseteq R \cup S \cup {0} /\ R \cup S \in SUBSET Cell
    <3>1. Roots(c)' = Roots(c)
      BY <2>2 DEF Roots
    <3> QED BY <1>4, <1>5, <3>1
  <2>7. Reachable(Roots(c))' \subseteq R \cup S
    BY <2>5, <2>6, ReachableLeastNext
  <2> QED BY <1>4, <1>5, <2>7
<1> QED BY <1>7, <1>8 DEF Mutate

\* Programs that collect only when no other coroutine exists keep what their
\* coroutines can reach.
LEMMA NextKept ==
    IInv /\ GInv /\ Kept /\ [RuntimeNext]_rvars
    /\ [phase = "idle" /\ phase' = "mark" => live = {current}]_rvars => Kept'
<1> SUFFICES ASSUME IInv, GInv, Kept, [RuntimeNext]_rvars,
                    [phase = "idle" /\ phase' = "mark" => live = {current}]_rvars
             PROVE  Kept'
  OBVIOUS
<1>1. CASE SpawnWithStack
  BY <1>1, SpawnKept
<1>2. CASE SchedulerStep
  BY <1>2, SchedulerKept
<1>3. CASE New
  BY <1>3, NewKept
<1>4. CASE Mutate
  BY <1>4, MutateKept
<1>5. CASE NewPanics \/ Collect \/ (CollectStep /\ ~ Sweep) \/ UNCHANGED rvars
  <2>1. UNCHANGED <<frames, heap, extent, freeptr, wrapped, live, current, cleanup>>
    BY <1>5 DEF NewPanics, Collect, CollectBegin, CollectStep, MarkSkip, MarkPush, MarkExchange,
                MarkPop, MarkEnd, rvars, vars, gcVars, heapVars, memVars
  <2>2. \A c : Reachable(Roots(c))' = Reachable(Roots(c))
    BY <2>1 DEF Reachable, Roots
  <2>3. phase' # "idle" => live' = {current'} \/ wrapped
    BY <1>5, <2>1 DEF NewPanics, AllocFails, Collect, CollectBegin, CollectStep, MarkSkip, MarkPush,
                      MarkExchange, MarkPop, MarkEnd, rvars, gcVars, Kept
  <2>4. phase' = "idle" => phase = "idle" /\ Available' = Available
    BY <1>5 DEF NewPanics, AllocFails, Collect, CollectBegin, CollectStep, MarkSkip, MarkPush,
                MarkExchange, MarkPop, MarkEnd, rvars, gcVars, heapVars, Available
  <2> QED BY <2>1, <2>2, <2>3, <2>4 DEF Kept
<1>6. CASE CollectStep /\ Sweep
  <2> SUFFICES ASSUME ~ wrapped' PROVE Kept'
    BY DEF Kept
  <2>1. /\ Available' = Cell \ Retained(Roots(current))
        /\ Retained(Roots(current)) \subseteq 1 .. freeptr'
        /\ phase = "sweep" /\ ~ wrapped
    <3>1. phase = "sweep" /\ ~ wrapped
      BY <1>6 DEF Sweep
    <3> QED BY <1>6, <3>1, SweepExact
  <2>4. live = {current} /\ Reachable(Roots(current)) \subseteq Retained(Roots(current))
    BY <2>1, ReachableRetained
  <2>2. UNCHANGED <<live, current, cleanup, frames, heap, extent>> /\ phase' = "idle"
    BY <1>6 DEF CollectStep, Sweep, vars
  <2>3. Reachable(Roots(current))' = Reachable(Roots(current))
    BY <2>2 DEF Reachable, Roots
  <2> QED BY <2>1, <2>2, <2>3, <2>4 DEF Kept
<1> QED BY <1>1, <1>2, <1>3, <1>4, <1>5, <1>6 DEF RuntimeNext

\* As long as no offset in gc_sweep has wrapped, a program that collects only
\* when no other coroutine exists never has a cell available for allocation
\* that a coroutine which can still run may use.
THEOREM LiveCellsKept == RuntimeSpec /\ CollectsAlone => []ReachableKept
<1>1. RuntimeSpec => []IInv /\ []GInv
  BY RuntimeInvariant, PTL
<1>2. Kept => ReachableKept
  BY DEF Kept, ReachableKept
<1> QED BY <1>1, <1>2, InitKept, NextKept, PTL DEF RuntimeSpec, CollectsAlone
=============================================================================
