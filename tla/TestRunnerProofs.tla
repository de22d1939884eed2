-------------------------- MODULE TestRunnerProofs --------------------------
(***************************************************************************)
(* Proofs about TestRunner.tla, for every number of threads, every list of *)
(* test files, every behaviour of the children and every size of pipes and *)
(* reads: the three invariants that MCTestRunner checks.                   *)
(*                                                                         *)
(* Work is the part about the shared index and the counters, Plumbing the  *)
(* part about processes and pipes; each is inductive given TypeOK.         *)
(***************************************************************************)
EXTENDS TestRunner, FiniteSetTheorems, SequenceTheorems, TLAPS

Collecting == {"select", "readOut", "readErr"}
Forked     == {"closeOut", "closeErr", "wait"} \cup Collecting
InSystem   == {"pipeOut", "pipeErr", "fork"} \cup Forked
Working    == InSystem \cup {"count"}

\* A thread at work has a test of its own, taken and not yet judged.
OwnFile ==
    /\ \A t \in Threads : pc[t] \in Working =>
          file[t] \in Tests /\ file[t] <= index /\ verdict[file[t]] = {}
    /\ \A t, u \in Threads :
          pc[t] \in Working /\ pc[u] \in Working /\ file[t] = file[u] => t = u
    /\ \A t \in Threads : pc[t] \in InSystem => Test(t).type \in {"OK", "ERROR", "XFAIL"}
    /\ \A t \in Threads : pc[t] = "count" => result[t] \in Results

\* A test that was taken is judged, once, or some thread is at work on it.
Judged ==
    /\ \A f \in DOMAIN Files : verdict[f] # {} =>
          f \in Tests /\ f <= index /\ \E r \in Results : verdict[f] = {r}
    /\ \A f \in Tests : f <= index =>
          verdict[f] # {} \/ \E t \in Threads : pc[t] \in Working /\ file[t] = f
    /\ \A t \in Threads : pc[t] = "done" => index > Len(Files)

Taken      == {f \in Tests : f <= index}
Having(r)  == {f \in Tests : verdict[f] = {r}}

\* The counters count.
Counted ==
    /\ stats.total = Cardinality(Taken)
    /\ stats.passed = Cardinality(Having("Pass"))
    /\ stats.failed = Cardinality(Having("Fail"))
    /\ stats.xfail = Cardinality(Having("XFail"))

Work == OwnFile /\ Judged /\ Counted

\* Which thread has a child, and which descriptors of its pipes are open.
Descriptors(t) ==
    /\ pc[t] \in Forked <=> child[t] # "none"
    /\ pc[t] = "pipeErr" => Runner \in readers[t]["out"] /\ Runner \in writers[t]["out"]
    /\ pc[t] = "fork" => \A s \in Streams : Runner \in writers[t][s]
    /\ pc[t] \in {"fork", "closeOut", "closeErr"} \cup Collecting => \A s \in Streams : Runner \in readers[t][s]
    /\ child[t] = "running" => \A s \in Streams : t \in writers[t][s]

\* What is printed is in the pipe until it is captured.
Conserved(t) ==
    /\ pc[t] \notin Forked => wrote[t] = Empty /\ ~cut[t]
    /\ pc[t] = "pipeErr" => got[t] = Empty /\ buf[t]["out"] = <<>>
    /\ pc[t] = "fork" => got[t] = Empty /\ buf[t] = Empty
    /\ pc[t] \in Forked => \A s \in Streams : wrote[t][s] = got[t][s] \o buf[t][s]

\* What select left in the set can still be read without blocking when the
\* loop comes to it, and unless a call has failed the set is empty only after the
\* end of a stream.
SelectSet(t) ==
    /\ pc[t] = "readOut" => \A s \in set[t] : Readable(t, s)
    /\ pc[t] = "readErr" => ("err" \in set[t] => Readable(t, "err"))
    /\ pc[t] \in Collecting /\ set[t] = {} /\ ~cut[t] => child[t] = "exited"
    /\ pc[t] = "wait" => set[t] = {} /\ (cut[t] \/ child[t] = "exited")

\* A stream that has left the set is exhausted, or the other is not silent.
Dropped(t) ==
    pc[t] \in Collecting \cup {"wait"} /\ ~cut[t] =>
        \A s \in Streams \ set[t] :
            \/ child[t] = "exited" /\ buf[t][s] = <<>>
            \/ \E r \in Streams \ {s} : wrote[t][r] # <<>>

Pipes(t) == Descriptors(t) /\ Conserved(t) /\ SelectSet(t) /\ Dropped(t)
Plumbing == \A t \in Threads : Pipes(t)

\* The inductive invariant.
IInv == TypeOK /\ Work /\ Plumbing

-----------------------------------------------------------------------------
(* What parseTest and runTest return. *)

LEMMA FilesType ==
    /\ DOMAIN Files = 1 .. Len(Files)
    /\ Len(Files) \in Nat
    /\ \A f \in DOMAIN Files : /\ Files[f].aike \in BOOLEAN
                               /\ Files[f].lines \in Seq(STRING)
<1> DEFINE R == [aike : BOOLEAN, lines : Seq(STRING)]
<1>1. Files \in Seq(R)
  BY InputsAssumption
<1>2. \A r \in R : r.aike \in BOOLEAN /\ r.lines \in Seq(STRING)
  OBVIOUS
<1> HIDE DEF R
<1>3. \A f \in 1 .. Len(Files) : Files[f] \in R
  BY <1>1
<1> QED BY <1>1, <1>2, <1>3

\* Changing one entry of a table of tables.
LEMMA UpdateType ==
    ASSUME NEW A, NEW B, NEW S, NEW f \in [A -> [B -> S]], NEW a \in A, NEW b \in B, NEW v \in S
    PROVE  /\ [f EXCEPT ![a][b] = v] \in [A -> [B -> S]]
           /\ [f EXCEPT ![a][b] = v][a][b] = v
           /\ \A c \in A, d \in B : c # a \/ d # b => [f EXCEPT ![a][b] = v][c][d] = f[c][d]
OBVIOUS

\* A file has one of the three types, or is rejected.
LEMMA TestTypes ==
    ASSUME NEW lines \in Seq(STRING)
    PROVE  parseTest(lines).type \in {"OK", "ERROR", "XFAIL", "Unknown"}
<1> DEFINE types == {i \in DOMAIN lines : lines[i] \in {"OK", "ERROR", "XFAIL"}}
<1>1. CASE Cardinality(types) = 1
  <2>1. types # {}
    <3> SUFFICES ASSUME types = {} PROVE FALSE
      OBVIOUS
    <3>1. Cardinality({}) = 0
      BY FS_EmptySet
    <3> HIDE DEF types
    <3> QED BY <1>1, <3>1
  <2>2. PICK i : i \in types
    BY <2>1
  <2> HIDE DEF types
  <2>3. (CHOOSE j \in types : TRUE) \in types
    BY <2>2, Zenon
  <2>4. lines[CHOOSE j \in types : TRUE] \in {"OK", "ERROR", "XFAIL"}
    BY <2>3 DEF types
  <2> QED BY <2>4, Zenon DEF parseTest, types
<1>2. CASE Cardinality(types) # 1
  BY <1>2 DEF parseTest
<1> QED BY <1>1, <1>2

\* runTest returns a verdict, or goes on to run the compiled program.
LEMMA RunTestResult ==
    ASSUME NEW type \in {"OK", "ERROR", "XFAIL"}, NEW expected,
           NEW stg \in {"compile", "run"}, NEW rc, NEW captured
    PROVE  runTest(type, expected, stg, rc, captured) \in Results \cup {"none"}
BY DEF runTest, Results

\* system returns: the thread counts a verdict or calls system once more.
LEMMA ReturnResult ==
    ASSUME TypeOK, OwnFile, NEW t \in Threads, pc[t] \in InSystem,
           NEW rc, NEW captured, Return(t, rc, captured)
    PROVE  /\ result' \in [Threads -> Results \cup {"none"}]
           /\ stage' \in [Threads -> {"compile", "run"}]
           /\ \/ pc' = [pc EXCEPT ![t] = "pipeOut"]
              \/ pc' = [pc EXCEPT ![t] = "count"] /\ result'[t] \in Results
           /\ \A u \in Threads \ {t} : result'[u] = result[u]
           /\ UNCHANGED <<index, file, stats, verdict>>
<1> DEFINE r == runTest(Test(t).type, Test(t).expected, stage[t], rc, captured)
<1>1. stage[t] \in {"compile", "run"} /\ Test(t).type \in {"OK", "ERROR", "XFAIL"}
  BY DEF TypeOK, OwnFile
<1>2. r \in Results \cup {"none"}
  BY <1>1, RunTestResult
<1>3. /\ result' = [result EXCEPT ![t] = r]
      /\ stage' = [stage EXCEPT ![t] = IF r = "none" THEN "run" ELSE @]
      /\ pc' = [pc EXCEPT ![t] = IF r = "none" THEN "pipeOut" ELSE "count"]
      /\ UNCHANGED <<index, file, stats, verdict>>
  BY DEF Return
<1> HIDE DEF r
<1> QED BY <1>2, <1>3 DEF TypeOK

-----------------------------------------------------------------------------
(* Type correctness *)

LEMMA InitType == Init => TypeOK
BY FilesType DEF Init, TypeOK, Empty, Streams, Items

Counters == {"total", "passed", "failed", "xfail"}

LEMMA CounterStep ==
    ASSUME NEW st \in [Counters -> Nat], NEW k \in Counters
    PROVE  /\ [st EXCEPT ![k] = @ + 1] \in [Counters -> Nat]
           /\ [st EXCEPT ![k] = @ + 1][k] = st[k] + 1
           /\ \A l \in Counters \ {k} : [st EXCEPT ![k] = @ + 1][l] = st[l]
OBVIOUS

\* A step keeps the types, given that a verdict is one of the three.
LEMMA TypeNext ==
    ASSUME TypeOK, OwnFile, [Next]_vars
    PROVE  TypeOK'
<1> USE FilesType
<1>e. Empty \in [Streams -> Seq(Items)] /\ "out" \in Streams /\ "err" \in Streams
  BY DEF Empty, Streams
<1>1. ASSUME NEW t \in Threads, Take(t)
      PROVE  TypeOK'
  <2>1. index >= Len(Files) \/ index + 1 \in DOMAIN Files
    BY DEF TypeOK
  <2>2. CASE index >= Len(Files) \/ ~Files[index + 1].aike
    <3>1. /\ pc' = pc \/ pc' = [pc EXCEPT ![t] = "done"]
          /\ index' = index + 1
          /\ UNCHANGED <<file, stage, result, stats, set, got, pipeVars, childVars, cut, verdict>>
      BY <1>1, <2>2 DEF Take
    <3>2. pc' \in [Threads -> {"take", "done", "pipeOut", "pipeErr", "fork", "closeOut",
                              "closeErr", "select", "readOut", "readErr", "wait", "count"}]
      BY <3>1 DEF TypeOK
    <3> QED BY <3>1, <3>2 DEF TypeOK, pipeVars, childVars
  <2>3. CASE ~(index >= Len(Files) \/ ~Files[index + 1].aike)
    <3>1. /\ index + 1 \in DOMAIN Files /\ index' = index + 1
          /\ file' = [file EXCEPT ![t] = index + 1]
          /\ stats' = [stats EXCEPT !["total"] = @ + 1]
          /\ stage' = [stage EXCEPT ![t] = "compile"]
          /\ UNCHANGED <<set, got, pipeVars, childVars, cut, verdict>>
      BY <1>1, <2>1, <2>3 DEF Take
    <3>2. /\ \E x \in {"Fail", "none"} : result' = [result EXCEPT ![t] = x]
          /\ \E x \in {"count", "pipeOut"} : pc' = [pc EXCEPT ![t] = x]
      BY <1>1, <2>1, <2>3 DEF Take
    <3>3. stats' \in [Counters -> Nat]
      BY <3>1, CounterStep DEF TypeOK, Counters
    <3>4. file' \in [Threads -> 0 .. Len(Files)] /\ stage' \in [Threads -> {"compile", "run"}]
      BY <3>1 DEF TypeOK
    <3>5. result' \in [Threads -> Results \cup {"none"}]
      BY <3>2 DEF TypeOK, Results
    <3> QED BY <3>1, <3>2, <3>3, <3>4, <3>5 DEF TypeOK, pipeVars, childVars, Counters
  <2> QED BY <2>2, <2>3
<1>2. ASSUME NEW t \in Threads, Count(t)
      PROVE  TypeOK'
  <2>1. file[t] \in DOMAIN Files /\ result[t] \in Results
    BY <1>2 DEF OwnFile, Count, Working, Tests
  <2>2. verdict' \in [DOMAIN Files -> SUBSET Results]
    BY <1>2, <2>1 DEF TypeOK, Count
  <2>3. stats' \in [{"total", "passed", "failed", "xfail"} -> Nat]
    <3>1. \E k \in {"passed", "failed", "xfail"} : stats' = [stats EXCEPT ![k] = @ + 1]
      BY <1>2, <2>1 DEF Count, Results
    <3> QED BY <3>1, CounterStep, SMTT(20) DEF TypeOK, Counters
  <2> QED BY <1>2, <2>2, <2>3 DEF TypeOK, Count, pipeVars, childVars
<1>3. ASSUME NEW t \in Threads, NEW s \in Streams, MakePipe(t, s)
      PROVE  /\ buf' \in [Threads -> [Streams -> Seq(Items)]]
             /\ writers' \in [Threads -> [Streams -> SUBSET (Threads \cup {Runner})]]
             /\ readers' \in [Threads -> [Streams -> SUBSET (Threads \cup {Runner})]]
  <2>1. <<>> \in Seq(Items) /\ {Runner} \in SUBSET (Threads \cup {Runner})
    OBVIOUS
  <2> QED BY <1>3, <2>1, UpdateType DEF TypeOK, MakePipe
<1>4. ASSUME NEW t \in Threads, PipeOut(t) \/ PipeErr(t)
      PROVE  TypeOK'
  <2>1. got' \in [Threads -> [Streams -> Seq(Items)]]
    BY <1>e, <1>4, ZenonT(40) DEF TypeOK, PipeOut, PipeErr
  <2> QED BY <1>e, <1>3, <1>4, <2>1 DEF TypeOK, PipeOut, PipeErr, threadVars, childVars
<1>5. ASSUME NEW t \in Threads, SystemFails(t)
      PROVE  TypeOK'
  <2>1. pc[t] \in InSystem /\ Return(t, -1, Empty)
    BY <1>5 DEF SystemFails, InSystem
  <2>2. got' \in [Threads -> [Streams -> Seq(Items)]]
    BY <1>e, <1>5 DEF TypeOK, SystemFails
  <2>3. pc' \in [Threads -> {"take", "done", "pipeOut", "pipeErr", "fork", "closeOut",
                            "closeErr", "select", "readOut", "readErr", "wait", "count"}]
    BY <2>1, ReturnResult, ZenonT(40) DEF TypeOK
  <2> QED BY <1>5, <2>1, <2>2, <2>3, ReturnResult DEF TypeOK, SystemFails, pipeVars, childVars
<1>6. ASSUME NEW t \in Threads, Fork(t)
      PROVE  TypeOK'
  <2>1. PICK script \in Scripts : todo' = [todo EXCEPT ![t] = script.writes]
                                 /\ status' = [status EXCEPT ![t] = script.status]
    BY <1>6 DEF Fork
  <2>2. script.writes \in Seq(Items) /\ script.status \in {0, 1}
    BY InputsAssumption
  <2>3. todo' \in [Threads -> Seq(Items)] /\ status' \in [Threads -> {0, 1}]
    BY <2>1, <2>2 DEF TypeOK
  <2>4. writers' \in [Threads -> [Streams -> SUBSET (Threads \cup {Runner})]]
    <3>1. \A u \in Threads, s \in Streams : writers[u][s] \in SUBSET (Threads \cup {Runner})
      BY DEF TypeOK
    <3> QED BY <1>6, <3>1 DEF Fork
  <2>5. readers' \in [Threads -> [Streams -> SUBSET (Threads \cup {Runner})]]
    <3>1. \A u \in Threads, s \in Streams : readers[u][s] \in SUBSET (Threads \cup {Runner})
      BY DEF TypeOK
    <3> QED BY <1>6, <3>1 DEF Fork
  <2> QED BY <1>6, <2>3, <2>4, <2>5 DEF TypeOK, Fork, threadVars
<1>w. ASSUME NEW t \in Threads, NEW s \in Streams,
             writers' = [writers EXCEPT ![t][s] = @ \ {Runner}]
      PROVE  writers' \in [Threads -> [Streams -> SUBSET (Threads \cup {Runner})]]
  <2>1. writers[t][s] \ {Runner} \in SUBSET (Threads \cup {Runner})
    BY DEF TypeOK
  <2> QED BY <1>w, <2>1, UpdateType DEF TypeOK
<1>x. ASSUME NEW t \in Threads, CloseOut(t) \/ CloseErr(t)
      PROVE  TypeOK'
  <2>1. writers' \in [Threads -> [Streams -> SUBSET (Threads \cup {Runner})]]
    BY <1>e, <1>w, <1>x DEF CloseOut, CloseErr, CloseWrite
  <2>2. set' \in [Threads -> SUBSET Streams]
    BY <1>x DEF TypeOK, CloseOut, CloseErr
  <2>3. \E x \in {"closeErr", "select"} : pc' = [pc EXCEPT ![t] = x]
    BY <1>x DEF CloseOut, CloseErr, CloseWrite
  <2>4. UNCHANGED <<threadVars, got, buf, readers, childVars, cut>>
    BY <1>x DEF CloseOut, CloseErr, CloseWrite
  <2> QED BY <2>1, <2>2, <2>3, <2>4 DEF TypeOK, threadVars, childVars
<1>7. ASSUME NEW t \in Threads, Select(t)
      PROVE  TypeOK'
  BY <1>7 DEF TypeOK, Select, threadVars, pipeVars, childVars
<1>8. ASSUME NEW t \in Threads, ReadOut(t) \/ ReadErr(t)
      PROVE  TypeOK'
  <2>1. PICK s \in Streams, to \in {"readErr", "select"} :
           ReadStream(t, s, pc[t], to)
    BY <1>e, <1>8 DEF ReadOut, ReadErr, ReadStream
  <2> DEFINE n == Lesser(ReadMax, Len(buf[t][s]))
  <2>2. /\ buf[t][s] \in Seq(Items) /\ got[t][s] \in Seq(Items)
        /\ n \in 0 .. Len(buf[t][s])
    BY RunnerAssumption DEF TypeOK, Lesser
  <2>3. /\ got[t][s] \o SubSeq(buf[t][s], 1, n) \in Seq(Items)
        /\ SubSeq(buf[t][s], n + 1, Len(buf[t][s])) \in Seq(Items)
    BY <2>2
  <2>4. /\ got' \in [Threads -> [Streams -> Seq(Items)]]
        /\ buf' \in [Threads -> [Streams -> Seq(Items)]]
        /\ set' \in [Threads -> SUBSET Streams]
    <3>1. CASE s \in set[t]
      <4>1. /\ got' = [got EXCEPT ![t][s] = got[t][s] \o SubSeq(buf[t][s], 1, n)]
            /\ buf' = [buf EXCEPT ![t][s] = SubSeq(buf[t][s], n + 1, Len(buf[t][s]))]
            /\ set' = [set EXCEPT ![t] = IF n = 0 THEN @ \ {s} ELSE @]
        BY <2>1, <3>1 DEF ReadStream, TypeOK
      <4> HIDE DEF n
      <4>2. got \in [Threads -> [Streams -> Seq(Items)]] /\ buf \in [Threads -> [Streams -> Seq(Items)]]
        BY DEF TypeOK
      <4>3. got' \in [Threads -> [Streams -> Seq(Items)]]
        BY <2>3, <4>1, <4>2, UpdateType
      <4>4. buf' \in [Threads -> [Streams -> Seq(Items)]]
        BY <2>3, <4>1, <4>2, UpdateType
      <4>5. set' \in [Threads -> SUBSET Streams]
        BY <4>1 DEF TypeOK
      <4> QED BY <4>3, <4>4, <4>5
    <3>2. CASE s \notin set[t]
      BY <2>1, <3>2 DEF ReadStream, TypeOK
    <3> QED BY <3>1, <3>2
  <2> QED BY <2>1, <2>4 DEF TypeOK, ReadStream, threadVars, childVars
<1>9. ASSUME NEW t \in Threads, CloseRead(t) \/ SelectFails(t)
      PROVE  TypeOK'
  <2>1. LeaveLoop(t) /\ cut' \in [Threads -> BOOLEAN]
    BY <1>9 DEF TypeOK, CloseRead, SelectFails
  <2>2. readers' \in [Threads -> [Streams -> SUBSET (Threads \cup {Runner})]]
    <3>1. \A s \in Streams : readers[t][s] \ {Runner} \in SUBSET (Threads \cup {Runner})
      BY DEF TypeOK
    <3> QED BY <2>1, <3>1 DEF TypeOK, LeaveLoop
  <2> QED BY <2>1, <2>2 DEF TypeOK, LeaveLoop, threadVars, childVars
<1>y. ASSUME NEW t \in Threads, ReadFails(t)
      PROVE  TypeOK'
  <2>1. UNCHANGED <<threadVars, got, pipeVars, childVars>> /\ cut' \in [Threads -> BOOLEAN]
    BY <1>y DEF TypeOK, ReadFails
  <2>2. \E x \in {"readErr", "select"} : pc' = [pc EXCEPT ![t] = x]
    BY <1>y DEF ReadFails
  <2>3. \E s \in Streams : set' = [set EXCEPT ![t] = @ \ {s}]
    BY <1>e, <1>y DEF ReadFails
  <2>4. set' \in [Threads -> SUBSET Streams]
    BY <2>3 DEF TypeOK
  <2>5. pc' \in [Threads -> {"take", "done", "pipeOut", "pipeErr", "fork", "closeOut",
                            "closeErr", "select", "readOut", "readErr", "wait", "count"}]
    BY <2>2 DEF TypeOK
  <2> QED BY <2>1, <2>4, <2>5 DEF TypeOK, threadVars, pipeVars, childVars
<1>10. ASSUME NEW t \in Threads, WaitPid(t)
       PROVE  TypeOK'
  <2>1. pc[t] \in InSystem /\ Return(t, status[t], got[t])
    BY <1>10 DEF WaitPid, InSystem, Forked
  <2>2. pc' \in [Threads -> {"take", "done", "pipeOut", "pipeErr", "fork", "closeOut",
                            "closeErr", "select", "readOut", "readErr", "wait", "count"}]
    BY <2>1, ReturnResult, ZenonT(40) DEF TypeOK
  <2>3. wrote' \in [Threads -> [Streams -> Seq(Items)]] /\ cut' \in [Threads -> BOOLEAN]
    BY <1>e, <1>10 DEF TypeOK, WaitPid
  <2> QED BY <1>10, <2>1, <2>2, <2>3, ReturnResult DEF TypeOK, WaitPid, pipeVars
<1>11. ASSUME NEW t \in Threads, ChildWrite(t)
       PROVE  TypeOK'
  <2> DEFINE item == Head(todo[t])
             s == StreamOf(item)
  <2>1. item \in Items /\ s \in Streams /\ Tail(todo[t]) \in Seq(Items)
    BY <1>11 DEF TypeOK, ChildWrite, StreamOf, Streams
  <2>2. Append(buf[t][s], item) \in Seq(Items) /\ Append(wrote[t][s], item) \in Seq(Items)
    BY <2>1 DEF TypeOK
  <2>3. /\ buf' = [buf EXCEPT ![t][s] = Append(buf[t][s], item)]
        /\ wrote' = [wrote EXCEPT ![t][s] = Append(wrote[t][s], item)]
        /\ todo' = [todo EXCEPT ![t] = Tail(todo[t])]
    BY <1>11 DEF ChildWrite, TypeOK
  <2> HIDE DEF item, s
  <2>4. /\ buf' \in [Threads -> [Streams -> Seq(Items)]]
        /\ wrote' \in [Threads -> [Streams -> Seq(Items)]]
        /\ todo' \in [Threads -> Seq(Items)]
    BY <2>1, <2>2, <2>3, UpdateType, SMTT(20) DEF TypeOK
  <2> QED BY <1>11, <2>4 DEF TypeOK, ChildWrite, threadVars
<1>12. ASSUME NEW t \in Threads, ChildExit(t) \/ BrokenPipe(t) \/ ExecFails(t)
       PROVE  TypeOK'
  <2>e. Exit(t)
    BY <1>12 DEF ChildExit, BrokenPipe, ExecFails
  <2>1. /\ writers' \in [Threads -> [Streams -> SUBSET (Threads \cup {Runner})]]
        /\ readers' \in [Threads -> [Streams -> SUBSET (Threads \cup {Runner})]]
    <3>1. \A u \in Threads, r \in Streams : /\ writers[u][r] \in SUBSET (Threads \cup {Runner})
                                            /\ readers[u][r] \in SUBSET (Threads \cup {Runner})
      BY DEF TypeOK
    <3> QED BY <2>e, <3>1 DEF Exit
  <2>2. todo' \in [Threads -> Seq(Items)] /\ status' \in [Threads -> {0, 1}]
    <3>1. <<>> \in Seq(Items)
      OBVIOUS
    <3>2. CASE UNCHANGED <<todo, status>>
      BY <3>2 DEF TypeOK
    <3>3. CASE todo' = [todo EXCEPT ![t] = <<>>] /\ status' = [status EXCEPT ![t] = 1]
      BY <3>1, <3>3 DEF TypeOK
    <3> QED BY <1>12, <3>2, <3>3 DEF ChildExit, BrokenPipe, ExecFails
  <2> QED BY <2>e, <2>1, <2>2, ZenonT(40) DEF TypeOK, Exit, threadVars
<1>13. CASE UNCHANGED vars
  BY <1>13 DEF TypeOK, vars
<1> QED BY <1>1, <1>2, <1>4, <1>5, <1>6, <1>x, <1>7, <1>8, <1>9, <1>y, <1>10, <1>11, <1>12, <1>13
        DEF Next, ThreadStep, ChildStep

-----------------------------------------------------------------------------
(* The shared index and the counters *)

LEMMA TestsFinite == Tests \subseteq 1 .. Len(Files) /\ IsFiniteSet(Tests)
<1>1. Tests \subseteq 1 .. Len(Files)
  BY FilesType DEF Tests
<1>2. IsFiniteSet(1 .. Len(Files))
  BY FilesType, FS_Interval
<1> QED BY <1>1, <1>2, FS_Subset

LEMMA InitWork == Init => Work
<1> SUFFICES ASSUME Init PROVE Work
  OBVIOUS
<1>1. OwnFile /\ Judged
  BY TestsFinite, FilesType
     DEF Init, OwnFile, Judged, Working, InSystem, Forked, Collecting, Tests
<1>2. Taken = {}
  <2>1. \A f \in Tests : ~(f <= index)
    BY TestsFinite, FilesType DEF Init
  <2> QED BY <2>1 DEF Taken
<1>3. \A r \in Results : Having(r) = {}
  BY FilesType DEF Init, Having, Tests
<1> QED BY <1>1, <1>2, <1>3, FS_EmptySet DEF Init, Work, Counted, Results

\* Work speaks of the program counters only as far as they say whether a
\* thread has a file.
LEMMA WorkKept ==
    ASSUME Work, UNCHANGED <<index, file, stats, verdict>>,
           \A u \in Threads : /\ pc'[u] \in Working <=> pc[u] \in Working
                              /\ pc'[u] \in InSystem => pc[u] \in InSystem
                              /\ pc'[u] = "count" => result'[u] \in Results
                              /\ pc'[u] = "done" => pc[u] = "done"
    PROVE  Work'
<1>1. OwnFile'
  <2>1. \A t \in Threads : pc'[t] \in Working =>
           file'[t] \in Tests /\ file'[t] <= index' /\ verdict'[file'[t]] = {}
    BY DEF Work, OwnFile
  <2>2. \A t, u \in Threads :
          pc'[t] \in Working /\ pc'[u] \in Working /\ file'[t] = file'[u] => t = u
    BY DEF Work, OwnFile
  <2>3. \A t \in Threads : pc'[t] \in InSystem => Test(t)'.type \in {"OK", "ERROR", "XFAIL"}
    BY DEF Work, OwnFile, Test
  <2> QED BY <2>1, <2>2, <2>3 DEF OwnFile
<1>2. Judged'
  <2>1. \A f \in Tests : f <= index' =>
           verdict'[f] # {} \/ \E t \in Threads : pc'[t] \in Working /\ file'[t] = f
    <3> TAKE f \in Tests
    <3>1. f <= index => verdict[f] # {} \/ \E t \in Threads : pc[t] \in Working /\ file[t] = f
      BY DEF Work, Judged
    <3> QED BY <3>1
  <2>2. \A t \in Threads : pc'[t] = "done" => index' > Len(Files)
    BY DEF Work, Judged
  <2> QED BY <2>1, <2>2 DEF Work, Judged
<1>3. Counted'
  BY DEF Work, Counted, Taken, Having
<1> QED BY <1>1, <1>2, <1>3 DEF Work

\* Only the step that takes a test and the one that counts it matter.
LEMMA WorkNext ==
    ASSUME TypeOK, TypeOK', Work, [Next]_vars
    PROVE  Work'
<1> USE FilesType
<1>o. OwnFile
  BY DEF Work
<1>1. ASSUME NEW t \in Threads, Take(t)
      PROVE  Work'
  <2>0. pc[t] = "take" /\ index' = index + 1 /\ index \in Nat /\ verdict' = verdict
        /\ pc[t] \notin Working
    BY <1>1 DEF Take, TypeOK, Working, InSystem, Forked, Collecting
  <2>1. CASE index >= Len(Files) \/ ~Files[index + 1].aike
    <3>1. /\ pc' = pc \/ (pc' = [pc EXCEPT ![t] = "done"] /\ index' > Len(Files))
          /\ UNCHANGED <<file, stage, result, stats>>
      BY <1>1, <2>0, <2>1 DEF Take
    <3>2. \A u \in Threads : /\ pc'[u] \in Working <=> pc[u] \in Working
                             /\ pc'[u] \in Working => pc'[u] = pc[u]
                             /\ pc'[u] = "done" => index' > Len(Files)
      BY <2>0, <3>1 DEF TypeOK, Work, Judged, Working, InSystem, Forked, Collecting
    <3>3. \A f \in Tests : f <= index' <=> f <= index
      BY <2>0, <2>1, TestsFinite DEF Tests
    <3>4. OwnFile'
      BY <1>o, <2>0, <3>1, <3>2, <3>3 DEF OwnFile, Test, Working
    <3>5. Judged'
      BY <2>0, <3>1, <3>2, <3>3 DEF Work, Judged
    <3>6. Counted'
      BY <2>0, <3>1, <3>3 DEF Work, Counted, Taken, Having
    <3> QED BY <3>4, <3>5, <3>6 DEF Work
  <2>2. CASE ~(index >= Len(Files) \/ ~Files[index + 1].aike)
    <3> DEFINE f == index + 1
    <3>1. /\ f \in Tests /\ f \in Nat /\ ~(f <= index)
          /\ file' = [file EXCEPT ![t] = f]
          /\ stats' = [stats EXCEPT !["total"] = @ + 1]
          /\ \/ pc' = [pc EXCEPT ![t] = "count"] /\ result' = [result EXCEPT ![t] = "Fail"]
             \/ /\ parseTest(Files[f].lines).type # "Unknown"
                /\ pc' = [pc EXCEPT ![t] = "pipeOut"]
                /\ result' = [result EXCEPT ![t] = "none"]
      BY <1>1, <2>0, <2>2 DEF Take, Tests
    <3> HIDE DEF f
    <3>2. verdict[f] = {} /\ \A u \in Threads : pc[u] \in Working => file[u] # f
      BY <3>1 DEF Work, Judged, OwnFile, Tests
    <3>3. \A g \in Tests : g <= index' <=> g <= index \/ g = f
      BY <2>0, <3>1, TestsFinite DEF f
    <3>4. OwnFile'
      <4>1. /\ pc'[t] \in Working /\ file'[t] = f
            /\ \A u \in Threads \ {t} : pc'[u] = pc[u] /\ file'[u] = file[u] /\ result'[u] = result[u]
        BY <3>1 DEF TypeOK, Working, InSystem
      <4>2. pc'[t] \in InSystem => Test(t)'.type \in {"OK", "ERROR", "XFAIL"}
        <5>1. parseTest(Files[f].lines).type \in {"OK", "ERROR", "XFAIL", "Unknown"}
          BY <3>1, TestTypes DEF Tests
        <5> QED BY <3>1, <4>1, <5>1 DEF TypeOK, InSystem, Forked, Collecting, Test
      <4>3. pc'[t] = "count" => result'[t] \in Results
        BY <3>1 DEF TypeOK, Results
      <4>4. \A u \in Threads : pc'[u] \in Working =>
              file'[u] \in Tests /\ file'[u] <= index' /\ verdict'[file'[u]] = {}
        BY <1>o, <2>0, <3>1, <3>2, <3>3, <4>1 DEF OwnFile
      <4>5. \A u, v \in Threads :
              pc'[u] \in Working /\ pc'[v] \in Working /\ file'[u] = file'[v] => u = v
        BY <1>o, <3>2, <4>1 DEF OwnFile
      <4>6. \A u \in Threads \ {t} : pc'[u] \in InSystem => Test(u)'.type \in {"OK", "ERROR", "XFAIL"}
        BY <1>o, <4>1 DEF OwnFile, Test
      <4>7. \A u \in Threads \ {t} : pc'[u] = "count" => result'[u] \in Results
        BY <1>o, <4>1 DEF OwnFile
      <4> QED BY <4>2, <4>3, <4>4, <4>5, <4>6, <4>7 DEF OwnFile
    <3>5. Judged'
      <4>1. \A u \in Threads : pc[u] \in Working => pc'[u] \in Working /\ file'[u] = file[u]
        BY <2>0, <3>1 DEF TypeOK
      <4>2. pc'[t] \in Working /\ file'[t] = f /\ pc'[t] # "done"
        BY <3>1 DEF TypeOK, Working, InSystem
      <4>3. \A u \in Threads \ {t} : pc'[u] = pc[u]
        BY <3>1, SMTT(20) DEF TypeOK
      <4>4. \A g \in DOMAIN Files : verdict'[g] # {} =>
               g \in Tests /\ g <= index' /\ \E r \in Results : verdict'[g] = {r}
        BY <2>0, <3>3 DEF Work, Judged
      <4>5. \A g \in Tests : g <= index' =>
               verdict'[g] # {} \/ \E u \in Threads : pc'[u] \in Working /\ file'[u] = g
        BY <2>0, <3>3, <4>1, <4>2 DEF Work, Judged
      <4>6. \A u \in Threads : pc'[u] = "done" => index' > Len(Files)
        BY <2>0, <4>2, <4>3 DEF Work, Judged
      <4> QED BY <4>4, <4>5, <4>6 DEF Judged
    <3>6. Counted'
      <4>1. Taken' = Taken \cup {f} /\ f \notin Taken
        BY <3>1, <3>3 DEF Taken
      <4>2. IsFiniteSet(Taken)
        BY TestsFinite, FS_Subset DEF Taken
      <4>3. Cardinality(Taken') = Cardinality(Taken) + 1
        BY <4>1, <4>2, FS_AddElement
      <4>4. /\ stats'.total = stats.total + 1
            /\ stats'.passed = stats.passed /\ stats'.failed = stats.failed
            /\ stats'.xfail = stats.xfail
        BY <3>1 DEF TypeOK
      <4> QED BY <2>0, <4>3, <4>4 DEF Work, Counted, Having
    <3> QED BY <3>4, <3>5, <3>6 DEF Work
  <2> QED BY <2>1, <2>2
<1>2. ASSUME NEW t \in Threads, Count(t)
      PROVE  Work'
  <2> DEFINE f == file[t]
             r == result[t]
  <2>1. /\ pc[t] = "count" /\ pc' = [pc EXCEPT ![t] = "take"]
        /\ r \in Results /\ f \in Tests /\ f <= index /\ verdict[f] = {}
        /\ UNCHANGED <<index, file, stage, result>>
        /\ verdict' = [verdict EXCEPT ![f] = @ \cup {r}]
    BY <1>o, <1>2 DEF Count, OwnFile, Working
  <2>2. verdict'[f] = {r} /\ \A g \in DOMAIN Files \ {f} : verdict'[g] = verdict[g]
    BY <2>1 DEF TypeOK, Tests
  <2>3. /\ pc'[t] = "take" /\ pc'[t] \notin Working
        /\ \A u \in Threads \ {t} : pc'[u] = pc[u] /\ (pc[u] \in Working => file[u] # f)
    BY <1>o, <2>1 DEF TypeOK, OwnFile, Working, InSystem, Forked, Collecting
  <2> HIDE DEF f, r
  <2>4. OwnFile'
    <3>1. \A u \in Threads : pc'[u] \in Working => u # t /\ pc'[u] = pc[u] /\ file[u] # f
      BY <2>3
    <3>2. \A u \in Threads : pc'[u] \in Working =>
             file'[u] \in Tests /\ file'[u] <= index' /\ verdict'[file'[u]] = {}
      BY <1>o, <2>1, <2>2, <3>1 DEF OwnFile, Tests
    <3>3. \A u, v \in Threads :
            pc'[u] \in Working /\ pc'[v] \in Working /\ file'[u] = file'[v] => u = v
      BY <1>o, <2>1, <3>1 DEF OwnFile
    <3>4. \A u \in Threads : pc'[u] \in InSystem => Test(u)'.type \in {"OK", "ERROR", "XFAIL"}
      BY <1>o, <2>1, <3>1 DEF OwnFile, Test, Working
    <3>5. \A u \in Threads : pc'[u] = "count" => result'[u] \in Results
      BY <1>o, <2>1, <3>1 DEF OwnFile, Working
    <3> QED BY <3>2, <3>3, <3>4, <3>5 DEF OwnFile
  <2>5. Judged'
    <3>1. \A g \in DOMAIN Files : verdict'[g] # {} =>
             g \in Tests /\ g <= index' /\ \E q \in Results : verdict'[g] = {q}
      BY <2>1, <2>2 DEF Work, Judged
    <3>2. \A g \in Tests : g <= index' =>
             verdict'[g] # {} \/ \E u \in Threads : pc'[u] \in Working /\ file'[u] = g
      <4> SUFFICES ASSUME NEW g \in Tests, g <= index, g # f
                   PROVE  verdict[g] # {} \/ \E u \in Threads : pc'[u] \in Working /\ file[u] = g
        BY <2>1, <2>2 DEF Tests
      <4>1. CASE verdict[g] # {}
        BY <4>1
      <4>2. CASE verdict[g] = {}
        <5>1. PICK u \in Threads : pc[u] \in Working /\ file[u] = g
          BY <4>2 DEF Work, Judged
        <5>2. u # t
          BY <5>1 DEF f
        <5> QED BY <2>3, <5>1, <5>2
      <4> QED BY <4>1, <4>2
    <3>3. \A u \in Threads : pc'[u] = "done" => index' > Len(Files)
      BY <2>1, <2>3 DEF Work, Judged
    <3> QED BY <3>1, <3>2, <3>3 DEF Judged
  <2>6. Counted'
    <3>1. ASSUME NEW q \in Results
          PROVE  /\ q # r => Having(q)' = Having(q)
                 /\ q = r => Cardinality(Having(q)') = Cardinality(Having(q)) + 1
      <4>1. CASE q # r
        BY <2>1, <2>2, <4>1 DEF Having, Tests
      <4>2. CASE q = r
        <5>1. Having(q)' = Having(q) \cup {f} /\ f \notin Having(q)
          BY <2>1, <2>2, <4>2 DEF Having, Tests
        <5>2. IsFiniteSet(Having(q))
          BY TestsFinite, FS_Subset DEF Having
        <5> QED BY <4>2, <5>1, <5>2, FS_AddElement
      <4> QED BY <4>1, <4>2
    <3>2. Taken' = Taken
      BY <2>1 DEF Taken
    <3>3. CASE r = "Pass"
      <4>1. stats' = [stats EXCEPT !["passed"] = @ + 1]
        BY <1>2, <3>3 DEF Count, r
      <4>2. /\ stats'.passed = stats.passed + 1 /\ stats'.total = stats.total
            /\ stats'.failed = stats.failed /\ stats'.xfail = stats.xfail
        BY <4>1 DEF TypeOK
      <4> QED BY <3>1, <3>2, <3>3, <4>2 DEF Work, Counted, Results
    <3>4. CASE r = "Fail"
      <4>1. stats' = [stats EXCEPT !["failed"] = @ + 1]
        BY <1>2, <3>4 DEF Count, r
      <4>2. /\ stats'.failed = stats.failed + 1 /\ stats'.total = stats.total
            /\ stats'.passed = stats.passed /\ stats'.xfail = stats.xfail
        BY <4>1 DEF TypeOK
      <4> QED BY <3>1, <3>2, <3>4, <4>2 DEF Work, Counted, Results
    <3>5. CASE r = "XFail"
      <4>1. stats' = [stats EXCEPT !["xfail"] = @ + 1]
        BY <1>2, <3>5 DEF Count, r
      <4>2. /\ stats'.xfail = stats.xfail + 1 /\ stats'.total = stats.total
            /\ stats'.passed = stats.passed /\ stats'.failed = stats.failed
        BY <4>1 DEF TypeOK
      <4> QED BY <3>1, <3>2, <3>5, <4>2 DEF Work, Counted, Results
    <3> QED BY <2>1, <3>3, <3>4, <3>5 DEF Results
  <2> QED BY <2>4, <2>5, <2>6 DEF Work
<1>3. ASSUME NEW t \in Threads, PipeOut(t) \/ PipeErr(t) \/ Fork(t) \/ CloseOut(t) \/ CloseErr(t)
                \/ Select(t) \/ ReadOut(t) \/ ReadErr(t) \/ ReadFails(t)
                \/ CloseRead(t) \/ SelectFails(t)
      PROVE  Work'
  <2>1. /\ pc[t] \in InSystem
        /\ \E x \in InSystem : pc' = [pc EXCEPT ![t] = x]
        /\ UNCHANGED threadVars
    BY <1>3 DEF PipeOut, PipeErr, Fork, CloseOut, CloseErr, CloseWrite, Select, ReadOut, ReadErr,
                ReadStream, ReadFails, CloseRead, SelectFails, LeaveLoop, InSystem, Forked, Collecting
  <2>2. \A u \in Threads : /\ pc'[u] \in Working <=> pc[u] \in Working
                           /\ pc'[u] \in InSystem => pc[u] \in InSystem
                           /\ pc'[u] \in {"count", "done"} => pc'[u] = pc[u]
    <3>1. PICK x \in InSystem : pc' = [pc EXCEPT ![t] = x]
      BY <2>1
    <3>2. x \in Working /\ x \notin {"count", "done"} /\ pc[t] \in Working
      BY <2>1 DEF Working, InSystem, Forked, Collecting
    <3>3. pc'[t] = x /\ \A u \in Threads \ {t} : pc'[u] = pc[u]
      BY <3>1 DEF TypeOK
    <3> QED BY <2>1, <3>2, <3>3
  <2> QED BY <1>o, <2>1, <2>2, WorkKept DEF threadVars, OwnFile
<1>4. ASSUME NEW t \in Threads, SystemFails(t) \/ WaitPid(t)
      PROVE  Work'
  <2>1. pc[t] \in InSystem /\ \E rc, captured : Return(t, rc, captured)
    BY <1>4 DEF SystemFails, WaitPid, InSystem, Forked
  <2>2. /\ \/ pc' = [pc EXCEPT ![t] = "pipeOut"]
           \/ pc' = [pc EXCEPT ![t] = "count"] /\ result'[t] \in Results
        /\ \A u \in Threads \ {t} : result'[u] = result[u]
        /\ UNCHANGED <<index, file, stats, verdict>>
    BY <1>o, <2>1, ReturnResult
  <2>3. \A u \in Threads \ {t} : pc'[u] = pc[u]
    BY <2>2 DEF TypeOK
  <2>4. /\ pc'[t] \in Working /\ pc'[t] # "done" /\ pc[t] \in Working
        /\ pc'[t] = "count" => result'[t] \in Results
    BY <2>1, <2>2 DEF TypeOK, Working, InSystem
  <2> QED BY <1>o, <2>1, <2>2, <2>3, <2>4, WorkKept DEF OwnFile
<1>5. ASSUME UNCHANGED <<pc, threadVars>>
      PROVE  Work'
  BY <1>o, <1>5, WorkKept DEF threadVars, OwnFile
<1>6. ASSUME NEW t \in Threads, ChildStep(t) \/ ExecFails(t)
      PROVE  Work'
  BY <1>5, <1>6 DEF ChildStep, ChildWrite, ChildExit, BrokenPipe, ExecFails, Exit
<1>7. CASE UNCHANGED vars
  BY <1>5, <1>7 DEF vars, threadVars
<1> QED BY <1>1, <1>2, <1>3, <1>4, <1>6, <1>7 DEF Next, ThreadStep
-----------------------------------------------------------------------------
(* Processes and pipes *)

LEMMA InitPlumbing == Init => Plumbing
BY DEF Init, Plumbing, Pipes, Descriptors, Conserved, SelectSet, Dropped, Forked, Collecting

\* A step of another thread can only open and close ends in processes that are
\* neither the runner nor the thread's own child, and never opens a write end of a
\* pipe that nobody can write to.
LEMMA OthersKept ==
    ASSUME NEW u \in Threads, Pipes(u), set[u] \subseteq Streams,
           pc'[u] = pc[u], child'[u] = child[u], got'[u] = got[u], buf'[u] = buf[u],
           wrote'[u] = wrote[u], set'[u] = set[u], cut'[u] = cut[u],
           \A s \in Streams : Runner \in readers[u][s] => Runner \in readers'[u][s],
           \A s \in Streams : /\ Runner \in writers[u][s] => Runner \in writers'[u][s]
                              /\ u \in writers[u][s] => u \in writers'[u][s]
                              /\ writers[u][s] = {} => writers'[u][s] = {}
    PROVE  Pipes(u)'
<1>s. "out" \in Streams /\ "err" \in Streams
  BY DEF Streams
<1>1. Descriptors(u)'
  BY <1>s DEF Pipes, Descriptors
<1>2. Conserved(u)'
  BY DEF Pipes, Conserved
<1>3. \A s \in Streams : Readable(u, s) => Readable(u, s)'
  BY DEF Readable
<1>4. SelectSet(u)'
  BY <1>s, <1>3 DEF Pipes, SelectSet
<1>5. Dropped(u)'
  BY DEF Pipes, Dropped
<1> QED BY <1>1, <1>2, <1>4, <1>5 DEF Pipes

\* What a step of one thread or its child leaves alone in every other.
Untouched(u) ==
    /\ pc'[u] = pc[u] /\ child'[u] = child[u] /\ set'[u] = set[u] /\ cut'[u] = cut[u]
    /\ got'[u] = got[u] /\ buf'[u] = buf[u] /\ wrote'[u] = wrote[u]

OneStep(t) == \/ ThreadStep(t) \/ ChildStep(t)
              \/ SystemFails(t) \/ SelectFails(t) \/ ReadFails(t) \/ ExecFails(t)

LEMMA LocalSteps ==
    ASSUME TypeOK, OwnFile, NEW t \in Threads, NEW u \in Threads \ {t},
           OneStep(t)
    PROVE  /\ Untouched(u)
           /\ \/ Fork(t) \/ Exit(t)
              \/ writers'[u] = writers[u] /\ readers'[u] = readers[u]
<1>1. CASE Take(t)
  <2>1. pc'[u] = pc[u]
    BY <1>1 DEF TypeOK, Take
  <2> QED BY <1>1, <2>1 DEF Take, Untouched, pipeVars, childVars
<1>2. CASE Count(t)
  BY <1>2 DEF TypeOK, Count, Untouched, pipeVars, childVars
<1>3. CASE PipeOut(t) \/ PipeErr(t)
  BY <1>3 DEF TypeOK, PipeOut, PipeErr, MakePipe, Untouched, childVars
<1>4. CASE SystemFails(t) \/ WaitPid(t)
  <2>1. pc[t] \in InSystem /\ \E rc, captured : Return(t, rc, captured)
    BY <1>4 DEF SystemFails, WaitPid, InSystem, Forked
  <2>2. pc' \in {[pc EXCEPT ![t] = "pipeOut"], [pc EXCEPT ![t] = "count"]}
    BY <2>1, ReturnResult
  <2>3. pc'[u] = pc[u]
    BY <2>2 DEF TypeOK
  <2>4. CASE SystemFails(t)
    BY <2>3, <2>4 DEF TypeOK, SystemFails, Untouched, pipeVars, childVars
  <2>5. CASE WaitPid(t)
    BY <2>3, <2>5 DEF TypeOK, WaitPid, Untouched, pipeVars, childVars
  <2> QED BY <1>4, <2>4, <2>5
<1>5. CASE Fork(t)
  BY <1>5, ZenonT(40) DEF TypeOK, Fork, Untouched
<1>6. CASE CloseOut(t)
  BY <1>6 DEF TypeOK, CloseOut, CloseWrite, Untouched, childVars
<1>7. CASE CloseErr(t)
  BY <1>7 DEF TypeOK, CloseErr, CloseWrite, Untouched, childVars
<1>8. CASE Select(t)
  BY <1>8 DEF TypeOK, Select, Untouched, pipeVars, childVars
<1>9. ASSUME NEW s, NEW from, NEW to, ReadStream(t, s, from, to)
      PROVE  Untouched(u) /\ writers' = writers /\ readers' = readers
  <2>1. UNCHANGED <<writers, readers, childVars, cut>> /\ pc'[u] = pc[u]
    BY <1>9 DEF TypeOK, ReadStream
  <2>2. got'[u] = got[u] /\ buf'[u] = buf[u] /\ set'[u] = set[u]
    BY <1>9 DEF TypeOK, ReadStream
  <2> QED BY <2>1, <2>2 DEF Untouched, childVars
<1>10. CASE ReadOut(t) \/ ReadErr(t)
  BY <1>9, <1>10 DEF ReadOut, ReadErr
<1>11. CASE CloseRead(t) \/ SelectFails(t)
  BY <1>11 DEF TypeOK, CloseRead, SelectFails, LeaveLoop, Untouched, childVars
<1>14. CASE ReadFails(t)
  BY <1>14 DEF TypeOK, ReadFails, Untouched, pipeVars, childVars
<1>12. CASE ChildWrite(t)
  BY <1>12 DEF TypeOK, ChildWrite, Untouched
<1>13. CASE ChildExit(t) \/ BrokenPipe(t) \/ ExecFails(t)
  BY <1>13 DEF TypeOK, ChildExit, BrokenPipe, ExecFails, Exit, Untouched
<1> QED BY <1>1, <1>2, <1>3, <1>4, <1>5, <1>6, <1>7, <1>8, <1>10, <1>11, <1>12, <1>13, <1>14
        DEF OneStep, ThreadStep, ChildStep

\* Reading moves a prefix of the pipe behind what is captured.
LEMMA MovePrefix ==
    ASSUME NEW S, NEW g \in Seq(S), NEW b \in Seq(S), NEW n \in 0 .. Len(b)
    PROVE  (g \o SubSeq(b, 1, n)) \o SubSeq(b, n + 1, Len(b)) = g \o b
<1>1. SubSeq(b, 1, n) \in Seq(S) /\ SubSeq(b, n + 1, Len(b)) \in Seq(S)
  OBVIOUS
<1>2. SubSeq(b, 1, n) \o SubSeq(b, n + 1, Len(b)) = SubSeq(b, 1, Len(b))
  <2>1. 1 \in 1 .. Len(b) + 1 /\ n \in 1 - 1 .. Len(b) /\ Len(b) \in n .. Len(b)
    OBVIOUS
  <2> QED BY <2>1, ConcatAdjacentSubSeq
<1>3. SubSeq(b, 1, Len(b)) = b
  OBVIOUS
<1>4. (g \o SubSeq(b, 1, n)) \o SubSeq(b, n + 1, Len(b))
         = g \o (SubSeq(b, 1, n) \o SubSeq(b, n + 1, Len(b)))
  <2> DEFINE x == SubSeq(b, 1, n)
             y == SubSeq(b, n + 1, Len(b))
  <2>1. x \in Seq(S) /\ y \in Seq(S)
    BY <1>1
  <2> HIDE DEF x, y
  <2>2. (g \o x) \o y = g \o (x \o y)
    BY <2>1, ConcatAssociative, SMTT(20)
  <2> QED BY <2>2 DEF x, y
<1> QED BY <1>2, <1>3, <1>4

LEMMA PlumbingNext ==
    ASSUME TypeOK, TypeOK', Plumbing, Work, [Next]_vars
    PROVE  Plumbing'
<1>s. /\ "out" \in Streams /\ "err" \in Streams /\ \A s \in Streams : s = "out" \/ s = "err"
      /\ "out" # "err"
  BY DEF Streams
<1>r. \A t \in Threads : t # Runner
  BY RunnerAssumption
<1>p. \A t \in Threads : /\ Descriptors(t) /\ Conserved(t) /\ SelectSet(t) /\ Dropped(t)
                         /\ set[t] \subseteq Streams
  BY DEF Plumbing, Pipes, TypeOK
<1>k. ASSUME NEW t \in Threads, Pipes(t)', OneStep(t)
      PROVE  Plumbing'
  <2> SUFFICES ASSUME NEW u \in Threads \ {t} PROVE Pipes(u)'
    BY <1>k DEF Plumbing
  <2>1. /\ Untouched(u)
        /\ \/ Fork(t) \/ Exit(t)
           \/ writers'[u] = writers[u] /\ readers'[u] = readers[u]
    BY <1>k, LocalSteps DEF Work
  <2>2. Pipes(u) /\ set[u] \subseteq Streams
    BY <1>p DEF Pipes
  <2>3. CASE Fork(t)
    <3>1. \A s \in Streams :
             /\ writers'[u][s] = writers[u][s] \cup (IF Runner \in writers[u][s] THEN {t} ELSE {})
             /\ readers[u][s] \subseteq readers'[u][s]
      BY <2>3 DEF Fork
    <3> QED BY <2>1, <2>2, <3>1, OthersKept DEF Untouched
  <2>4. CASE Exit(t)
    <3>1. \A s \in Streams : /\ writers'[u][s] = writers[u][s] \ {t}
                             /\ readers'[u][s] = readers[u][s] \ {t}
      BY <2>4 DEF Exit
    <3> QED BY <1>r, <2>1, <2>2, <3>1, OthersKept DEF Untouched
  <2>5. CASE writers'[u] = writers[u] /\ readers'[u] = readers[u]
    BY <2>1, <2>2, <2>5, OthersKept DEF Untouched
  <2> QED BY <2>1, <2>3, <2>4, <2>5
<1>1. ASSUME NEW t \in Threads, Take(t) \/ Count(t)
      PROVE  Plumbing'
  <2>1. /\ UNCHANGED <<child, readers, got, buf, wrote, set, writers, cut>>
        /\ pc'[t] \in {"take", "done", "count", "pipeOut"} /\ pc[t] \in {"take", "count"}
       
    BY <1>1, SMTT(20) DEF TypeOK, Take, Count, pipeVars, childVars
  <2>2. Pipes(t)'
    BY <1>p, <2>1 DEF Pipes, Descriptors, Conserved, SelectSet, Dropped, Forked, Collecting
  <2> QED BY <1>k, <1>1, <2>2 DEF OneStep, ThreadStep
<1>2. ASSUME NEW t \in Threads, PipeOut(t)
      PROVE  Plumbing'
  <2>1. /\ pc[t] = "pipeOut" /\ pc'[t] = "pipeErr"
        /\ got'[t] = Empty /\ buf'[t]["out"] = <<>> /\ Runner \in readers'[t]["out"]
        /\ writers'[t]["out"] = {Runner} /\ child' = child /\ wrote' = wrote /\ cut' = cut
    BY <1>s, <1>2 DEF TypeOK, PipeOut, MakePipe, childVars
  <2>2. child[t] = "none" /\ wrote[t] = Empty /\ ~cut[t]
    BY <1>p, <2>1 DEF Descriptors, Conserved, Forked, Collecting
  <2>3. Pipes(t)'
    BY <2>1, <2>2 DEF Pipes, Descriptors, Conserved, SelectSet, Dropped, Forked, Collecting
  <2> QED BY <1>k, <1>2, <2>1, <2>3 DEF OneStep, ThreadStep, ChildStep
<1>3. ASSUME NEW t \in Threads, PipeErr(t)
      PROVE  Plumbing'
  <2>1. /\ pc[t] = "pipeErr" /\ pc'[t] = "fork"
        /\ UNCHANGED <<got, child, wrote, cut>>
    BY <1>3 DEF TypeOK, PipeErr, childVars
  <2>2. /\ child[t] = "none" /\ got[t] = Empty /\ buf[t]["out"] = <<>>
        /\ wrote[t] = Empty /\ ~cut[t]
        /\ Runner \in readers[t]["out"] /\ Runner \in writers[t]["out"]
    BY <1>p, <2>1 DEF Descriptors, Conserved, Forked, Collecting
  <2>3. \A s \in Streams : buf'[t][s] = <<>> /\ Runner \in readers'[t][s] /\ Runner \in writers'[t][s]
    BY <1>s, <1>3, <2>2 DEF TypeOK, PipeErr, MakePipe
  <2>4. buf'[t] = Empty
    BY <2>3 DEF TypeOK, Empty
  <2>5. Pipes(t)'
    BY <2>1, <2>2, <2>3, <2>4 DEF Pipes, Descriptors, Conserved, SelectSet, Dropped, Forked, Collecting
  <2> QED BY <1>k, <1>3, <2>1, <2>5 DEF OneStep, ThreadStep, ChildStep
<1>4. ASSUME NEW t \in Threads, SystemFails(t) \/ WaitPid(t)
      PROVE  Plumbing'
  <2>1. pc[t] \in InSystem /\ \E rc, captured : Return(t, rc, captured)
    BY <1>4 DEF SystemFails, WaitPid, InSystem, Forked
  <2>2. pc' \in {[pc EXCEPT ![t] = "pipeOut"], [pc EXCEPT ![t] = "count"]}
    BY <2>1, ReturnResult DEF Work
  <2>3. pc'[t] \in {"pipeOut", "count"}
    BY <2>2 DEF TypeOK
  <2>4. child'[t] = "none" /\ wrote'[t] = Empty /\ ~cut'[t]
    <3>1. CASE SystemFails(t)
      <4>1. pc[t] \notin Forked /\ child' = child /\ wrote' = wrote /\ cut' = cut
        BY <3>1 DEF SystemFails, childVars, Forked, Collecting
      <4> QED BY <1>p, <4>1 DEF TypeOK, Descriptors, Conserved
    <3>2. CASE WaitPid(t)
      BY <3>2 DEF TypeOK, WaitPid
    <3> QED BY <1>4, <3>1, <3>2
  <2>5. Pipes(t)'
    BY <2>3, <2>4 DEF Pipes, Descriptors, Conserved, SelectSet, Dropped, Forked, Collecting
  <2> QED BY <1>k, <1>4, <2>3, <2>5 DEF OneStep, ThreadStep, ChildStep
<1>5. ASSUME NEW t \in Threads, Fork(t)
      PROVE  Plumbing'
  <2>1. /\ pc[t] = "fork" /\ pc'[t] = "closeOut"
        /\ child'[t] = "running" /\ wrote' = wrote
        /\ UNCHANGED <<set, got, buf, cut>>
        /\ \A s \in Streams : writers'[t][s] = writers[t][s] \cup (IF Runner \in writers[t][s] THEN {t} ELSE {})
        /\ \A s \in Streams : readers[t][s] \subseteq readers'[t][s]
    BY <1>5 DEF TypeOK, Fork
  <2>2. /\ got[t] = Empty /\ buf[t] = Empty /\ wrote[t] = Empty /\ ~cut[t]
        /\ \A s \in Streams : Runner \in readers[t][s] /\ Runner \in writers[t][s]
    BY <1>p, <2>1 DEF Descriptors, Conserved, Forked, Collecting
  <2>3. \A s \in Streams : wrote'[t][s] = got'[t][s] \o buf'[t][s] /\ t \in writers'[t][s]
    BY <2>1, <2>2 DEF Empty
  <2>4. Pipes(t)'
    BY <2>1, <2>2, <2>3 DEF Pipes, Descriptors, Conserved, SelectSet, Dropped, Forked, Collecting
  <2> QED BY <1>k, <1>5, <2>1, <2>4 DEF OneStep, ThreadStep, ChildStep
<1>6. ASSUME NEW t \in Threads, CloseOut(t) \/ CloseErr(t)
      PROVE  Plumbing'
  <2>1. /\ pc[t] \in {"closeOut", "closeErr"}
        /\ \/ pc'[t] = "closeErr"
           \/ pc'[t] = "select" /\ set'[t] = Streams
        /\ UNCHANGED <<got, buf, readers, child, wrote, cut>>
    BY <1>6 DEF TypeOK, CloseOut, CloseErr, CloseWrite, childVars
  <2>2. \A s \in Streams : t \in writers[t][s] => t \in writers'[t][s]
    <3>1. PICK r \in Streams : writers' = [writers EXCEPT ![t][r] = @ \ {Runner}]
      BY <1>s, <1>6 DEF CloseOut, CloseErr, CloseWrite
    <3>2. \A s \in Streams : writers'[t][s] \in {writers[t][s], writers[t][s] \ {Runner}}
      BY <3>1 DEF TypeOK
    <3> QED BY <1>r, <3>2
  <2>3. /\ child[t] # "none" /\ \A s \in Streams : Runner \in readers[t][s] /\ wrote[t][s] = got[t][s] \o buf[t][s]
        /\ child[t] = "running" => \A s \in Streams : t \in writers[t][s]
    BY <1>p, <2>1 DEF Descriptors, Conserved, Forked
  <2>4. Pipes(t)'
    BY <1>s, <2>1, <2>2, <2>3 DEF Pipes, Descriptors, Conserved, SelectSet, Dropped, Forked, Collecting
  <2> QED BY <1>k, <1>6, <2>1, <2>4 DEF OneStep, ThreadStep, ChildStep
<1>7. ASSUME NEW t \in Threads, Select(t)
      PROVE  Plumbing'
  <2>1. /\ pc[t] = "select" /\ pc'[t] = "readOut"
        /\ set'[t] = {s \in set[t] : Readable(t, s)}
        /\ UNCHANGED <<got, buf, writers, readers, child, wrote, cut>>
    BY <1>7 DEF TypeOK, Select, pipeVars, childVars
  <2>2. PICK r \in set[t] : Readable(t, r)
    BY <1>7 DEF Select
  <2>3. Descriptors(t)' /\ Conserved(t)'
    BY <1>p, <2>1 DEF Descriptors, Conserved, Forked, Collecting
  <2>4. SelectSet(t)'
    BY <2>1, <2>2 DEF SelectSet, Readable
  <2>5. Dropped(t)'
    <3> SUFFICES ASSUME ~cut[t], NEW s \in Streams \ set'[t]
                 PROVE  \/ child'[t] = "exited" /\ buf'[t][s] = <<>>
                        \/ \E q \in Streams \ {s} : wrote'[t][q] # <<>>
      BY <2>1 DEF Dropped, Collecting
    <3>1. CASE s \notin set[t]
      BY <1>p, <2>1, <3>1 DEF Dropped, Collecting
    <3>2. CASE s \in set[t]
      <4>1. ~ Readable(t, s) /\ s # r /\ r \in Streams
        BY <1>p, <2>1, <2>2, <3>2
      <4>2. buf[t][s] = <<>>
        BY <4>1 DEF Readable
      <4>3. CASE writers[t][r] = {}
        BY <1>p, <2>1, <4>1, <4>2, <4>3 DEF TypeOK, Descriptors, Forked, Collecting
      <4>4. CASE buf[t][r] # <<>>
        <5>1. wrote[t][r] = got[t][r] \o buf[t][r]
          BY <1>p, <2>1, <4>1 DEF Conserved, Forked, Collecting
        <5>2. wrote[t][r] # <<>>
          BY <4>1, <4>4, <5>1 DEF TypeOK
        <5> QED BY <2>1, <4>1, <5>2
      <4> QED BY <2>2, <4>3, <4>4 DEF Readable
    <3> QED BY <3>1, <3>2
  <2>6. Pipes(t)'
    BY <2>3, <2>4, <2>5 DEF Pipes
  <2> QED BY <1>k, <1>7, <2>1, <2>6 DEF OneStep, ThreadStep, ChildStep
<1>8. ASSUME NEW t \in Threads, ReadOut(t) \/ ReadErr(t)
      PROVE  Plumbing'
  <2>1. PICK s \in Streams :
           /\ s = "out" => pc[t] = "readOut" /\ pc'[t] = "readErr"
           /\ s = "err" => pc[t] = "readErr" /\ pc'[t] = "select"
           /\ ReadStream(t, s, pc[t], pc'[t])
    <3>1. CASE ReadOut(t)
      <4>1. pc[t] = "readOut" /\ pc'[t] = "readErr"
        BY <3>1 DEF TypeOK, ReadOut, ReadStream
      <4> QED BY <1>s, <3>1, <4>1 DEF ReadOut
    <3>2. CASE ReadErr(t)
      <4>1. pc[t] = "readErr" /\ pc'[t] = "select"
        BY <3>2 DEF TypeOK, ReadErr, ReadStream
      <4> QED BY <1>s, <3>2, <4>1 DEF ReadErr
    <3> QED BY <1>8, <3>1, <3>2
  <2> DEFINE n == Lesser(ReadMax, Len(buf[t][s]))
  <2>2.
        /\ UNCHANGED <<writers, readers, child, wrote, cut>>
        /\ pc[t] \in Collecting /\ pc'[t] \in Collecting
    BY <1>s, <1>8, <2>1 DEF TypeOK, ReadOut, ReadErr, ReadStream, childVars, Collecting
  <2>3. /\ buf[t][s] \in Seq(Items) /\ got[t][s] \in Seq(Items)
        /\ n \in 0 .. Len(buf[t][s]) /\ (n = 0 => buf[t][s] = <<>>)
    <3>1. buf[t][s] \in Seq(Items) /\ got[t][s] \in Seq(Items)
      BY DEF TypeOK
    <3>2. Len(buf[t][s]) \in Nat /\ (Len(buf[t][s]) = 0 => buf[t][s] = <<>>)
      BY <3>1
    <3> QED BY <3>1, <3>2, RunnerAssumption DEF Lesser
  <2>4. CASE s \in set[t]
    <3>1. /\ got' = [got EXCEPT ![t][s] = got[t][s] \o SubSeq(buf[t][s], 1, n)]
          /\ buf' = [buf EXCEPT ![t][s] = SubSeq(buf[t][s], n + 1, Len(buf[t][s]))]
          /\ set' = [set EXCEPT ![t] = IF n = 0 THEN @ \ {s} ELSE @]
      BY <2>1, <2>4 DEF ReadStream, TypeOK
    <3> HIDE DEF n
    <3>2. /\ got'[t][s] = got[t][s] \o SubSeq(buf[t][s], 1, n)
          /\ buf'[t][s] = SubSeq(buf[t][s], n + 1, Len(buf[t][s]))
          /\ \A r \in Streams \ {s} : got'[t][r] = got[t][r] /\ buf'[t][r] = buf[t][r]
          /\ set'[t] = IF n = 0 THEN set[t] \ {s} ELSE set[t]
      <4> DEFINE g == got[t][s] \o SubSeq(buf[t][s], 1, n)
                 b == SubSeq(buf[t][s], n + 1, Len(buf[t][s]))
      <4>1. got \in [Threads -> [Streams -> Seq(Items)]] /\ buf \in [Threads -> [Streams -> Seq(Items)]]
        BY DEF TypeOK
      <4>2. g \in Seq(Items) /\ b \in Seq(Items)
        BY <2>3
      <4>3. got' = [got EXCEPT ![t][s] = g] /\ buf' = [buf EXCEPT ![t][s] = b]
        BY <3>1
      <4> HIDE DEF g, b
      <4>5. /\ got'[t][s] = g /\ \A r \in Streams \ {s} : got'[t][r] = got[t][r]
            /\ buf'[t][s] = b /\ \A r \in Streams \ {s} : buf'[t][r] = buf[t][r]
        BY <4>1, <4>2, <4>3, UpdateType
      <4>4. set'[t] = IF n = 0 THEN set[t] \ {s} ELSE set[t]
        BY <3>1 DEF TypeOK
      <4> QED BY <4>4, <4>5 DEF g, b
    <3>3. Readable(t, s)
      BY <1>s, <1>p, <2>1, <2>4 DEF SelectSet
    <3>4. n = 0 => child[t] = "exited" /\ buf[t][s] = <<>> /\ buf'[t][s] = <<>>
      <4>1. n = 0 => writers[t][s] = {} /\ buf[t][s] = <<>>
        BY <2>3, <3>3 DEF Readable
      <4>2. writers[t][s] = {} => child[t] = "exited"
        BY <1>p, <2>2 DEF TypeOK, Descriptors, Forked
      <4> QED BY <3>2, <4>1, <4>2
    <3>5. Descriptors(t)'
      BY <1>p, <2>2 DEF Descriptors, Forked, Collecting
    <3>6. Conserved(t)'
      <4>1. got'[t][s] \o buf'[t][s] = got[t][s] \o buf[t][s]
        <5>1. (got[t][s] \o SubSeq(buf[t][s], 1, n)) \o SubSeq(buf[t][s], n + 1, Len(buf[t][s]))
                 = got[t][s] \o buf[t][s]
          BY <2>3, MovePrefix
        <5> QED BY <3>2, <5>1
      <4> QED BY <1>p, <2>2, <3>2, <4>1 DEF Conserved, Forked, Collecting
    <3>7. SelectSet(t)'
      <4>1. s = "out" => ("err" \in set'[t] => Readable(t, "err")')
        BY <1>s, <1>p, <2>1, <2>2, <3>2 DEF SelectSet, Readable
      <4>2. set'[t] = {} => child'[t] = "exited"
        BY <1>p, <2>2, <2>4, <3>2, <3>4
      <4> QED BY <1>s, <2>1, <2>2, <4>1, <4>2 DEF SelectSet, Collecting
    <3>8. Dropped(t)'
      <4> SUFFICES ASSUME ~cut[t], NEW r \in Streams \ set'[t]
                   PROVE  \/ child'[t] = "exited" /\ buf'[t][r] = <<>>
                          \/ \E q \in Streams \ {r} : wrote'[t][q] # <<>>
        BY <2>2 DEF Dropped
      <4>1. CASE r = s
        BY <2>2, <2>4, <3>2, <3>4, <4>1
      <4>2. CASE r # s
        BY <1>p, <2>2, <3>2, <4>2 DEF Dropped
      <4> QED BY <4>1, <4>2
    <3> QED BY <1>k, <1>8, <2>2, <3>5, <3>6, <3>7, <3>8 DEF Pipes, OneStep, ThreadStep, ChildStep
  <2>5. CASE s \notin set[t]
    <3>1. UNCHANGED <<got, buf, set>>
      BY <2>1, <2>5 DEF ReadStream
    <3>2. Descriptors(t)' /\ Conserved(t)' /\ Dropped(t)'
      BY <1>p, <2>2, <3>1 DEF Descriptors, Conserved, Dropped, Forked, Collecting
    <3>3. SelectSet(t)'
      BY <1>s, <1>p, <2>1, <2>2, <3>1 DEF SelectSet, Readable, Collecting
    <3> QED BY <1>k, <1>8, <2>2, <3>2, <3>3 DEF Pipes, OneStep, ThreadStep, ChildStep
  <2> QED BY <2>4, <2>5
<1>9. ASSUME NEW t \in Threads, CloseRead(t) \/ SelectFails(t)
      PROVE  Plumbing'
  <2>1. /\ pc[t] = "select" /\ pc'[t] = "wait" /\ set'[t] = {}
        /\ UNCHANGED <<got, buf, writers, child, wrote>>
        /\ \/ set[t] = {} /\ cut'[t] = cut[t]
           \/ cut'[t]
    BY <1>9 DEF TypeOK, CloseRead, SelectFails, LeaveLoop, childVars
  <2>2. Pipes(t)'
    <3>1. pc[t] \in Forked /\ pc[t] \in Collecting /\ (cut'[t] \/ child[t] = "exited")
      BY <1>p, <2>1 DEF SelectSet, Forked, Collecting
    <3>2. Descriptors(t)' /\ SelectSet(t)'
      BY <1>p, <2>1, <3>1 DEF Descriptors, SelectSet, Forked, Collecting
    <3>3. Conserved(t)'
      BY <1>p, <2>1, <3>1 DEF Conserved, Forked
    <3>4. Dropped(t)'
      BY <1>p, <2>1, <3>1 DEF Dropped
    <3> QED BY <3>2, <3>3, <3>4 DEF Pipes
  <2> QED BY <1>k, <1>9, <2>2 DEF OneStep, ThreadStep
<1>14. ASSUME NEW t \in Threads, ReadFails(t)
       PROVE  Plumbing'
  <2>1. /\ \/ pc[t] = "readOut" /\ pc'[t] = "readErr" /\ set'[t] = set[t] \ {"out"}
           \/ pc[t] = "readErr" /\ pc'[t] = "select"
        /\ cut'[t]
        /\ UNCHANGED <<got, buf, writers, readers, child, wrote>>
    BY <1>14, SMTT(20) DEF TypeOK, ReadFails, pipeVars, childVars
  <2>2. Descriptors(t)' /\ Conserved(t)' /\ Dropped(t)'
    BY <1>p, <2>1 DEF Descriptors, Conserved, Dropped, Forked, Collecting
  <2>3. SelectSet(t)'
    BY <1>s, <1>p, <2>1 DEF SelectSet, Readable
  <2> QED BY <1>k, <1>14, <2>2, <2>3 DEF Pipes, OneStep
<1>10. ASSUME NEW t \in Threads, ChildWrite(t)
       PROVE  Plumbing'
  <2> DEFINE item == Head(todo[t])
             s == StreamOf(item)
  <2>1. item \in Items /\ s \in Streams
    BY <1>10 DEF TypeOK, ChildWrite, StreamOf, Streams
  <2>2. /\ buf' = [buf EXCEPT ![t][s] = Append(buf[t][s], item)]
        /\ wrote' = [wrote EXCEPT ![t][s] = Append(wrote[t][s], item)]
        /\ UNCHANGED <<pc, set, got, writers, readers, child, cut>>
        /\ child[t] = "running"
    BY <1>10 DEF ChildWrite, TypeOK
  <2> HIDE DEF item, s
  <2>3. /\ buf'[t][s] = Append(buf[t][s], item) /\ wrote'[t][s] = Append(wrote[t][s], item)
        /\ \A r \in Streams \ {s} : buf'[t][r] = buf[t][r] /\ wrote'[t][r] = wrote[t][r]
    <3>1. buf \in [Threads -> [Streams -> Seq(Items)]] /\ wrote \in [Threads -> [Streams -> Seq(Items)]]
      BY DEF TypeOK
    <3>2. buf'[t] = [buf[t] EXCEPT ![s] = Append(buf[t][s], item)]
      BY <2>1, <2>2, <3>1
    <3>3. wrote'[t] = [wrote[t] EXCEPT ![s] = Append(wrote[t][s], item)]
      BY <2>1, <2>2, <3>1
    <3>4. buf[t] \in [Streams -> Seq(Items)] /\ wrote[t] \in [Streams -> Seq(Items)]
      BY <3>1
    <3> QED BY <2>1, <3>2, <3>3, <3>4
  <2>4. \A r \in Streams : /\ buf[t][r] \in Seq(Items) /\ got[t][r] \in Seq(Items)
                           /\ wrote[t][r] \in Seq(Items)
    BY DEF TypeOK
  <2>5. buf'[t][s] # <<>> /\ wrote'[t][s] # <<>>
    BY <2>1, <2>3, <2>4
  <2>6. pc[t] \in Forked
    BY <1>p, <2>2 DEF Descriptors
  <2>7. Conserved(t)'
    <3>1. wrote[t][s] = got[t][s] \o buf[t][s]
      BY <1>p, <2>1, <2>6 DEF Conserved
    <3>2. wrote'[t][s] = got[t][s] \o buf'[t][s]
      <4>1. Append(got[t][s] \o buf[t][s], item) = got[t][s] \o Append(buf[t][s], item)
        <5> DEFINE g == got[t][s]
                   b == buf[t][s]
        <5>1. g \in Seq(Items) /\ b \in Seq(Items)
          BY <2>1, <2>4
        <5> HIDE DEF g, b
        <5>2. Append(g \o b, item) = g \o Append(b, item)
          BY <2>1, <5>1
        <5> QED BY <5>2 DEF g, b
      <4> QED BY <2>3, <3>1, <4>1
    <3> QED BY <1>p, <2>2, <2>3, <2>6, <3>2 DEF Conserved, Forked, Collecting
  <2>8. SelectSet(t)'
    <3>1. \A r \in Streams : Readable(t, r) => Readable(t, r)'
      BY <2>2, <2>3, <2>5 DEF Readable
    <3> QED BY <1>s, <1>p, <2>2, <3>1 DEF SelectSet
  <2>9. Dropped(t)'
    <3> SUFFICES ASSUME pc[t] \in Collecting \cup {"wait"}, ~cut[t], NEW r \in Streams \ set[t]
                 PROVE  \E q \in Streams \ {r} : wrote'[t][q] # <<>>
      BY <2>2 DEF Dropped
    <3>1. \E q \in Streams \ {r} : wrote[t][q] # <<>>
      BY <1>p, <2>2 DEF Dropped
    <3> QED BY <2>3, <2>5, <3>1
  <2>10. Descriptors(t)'
    BY <1>p, <2>2 DEF Descriptors
  <2> QED BY <1>k, <1>10, <2>2, <2>7, <2>8, <2>9, <2>10 DEF Pipes, OneStep, ThreadStep, ChildStep
<1>11. ASSUME NEW t \in Threads, ChildExit(t) \/ BrokenPipe(t) \/ ExecFails(t)
       PROVE  Plumbing'
  <2>1. /\ UNCHANGED <<pc, set, got, buf, wrote, cut>>
        /\ child[t] = "running" /\ child'[t] = "exited"
        /\ \A s \in Streams : /\ writers'[t][s] = writers[t][s] \ {t}
                             /\ readers'[t][s] = readers[t][s] \ {t}
    BY <1>11, SMTT(20) DEF TypeOK, ChildExit, BrokenPipe, ExecFails, Exit
  <2>2. pc[t] \in Forked
    BY <1>p, <2>1 DEF Descriptors
  <2>3. Descriptors(t)'
    BY <1>p, <1>r, <2>1, <2>2 DEF Descriptors, Forked, Collecting
  <2>4. Conserved(t)' /\ Dropped(t)'
    BY <1>p, <2>1 DEF Conserved, Dropped
  <2>5. SelectSet(t)'
    BY <1>s, <1>p, <2>1 DEF SelectSet, Readable
  <2> QED BY <1>k, <1>11, <2>1, <2>3, <2>4, <2>5 DEF Pipes, OneStep, ThreadStep, ChildStep
<1>12. CASE UNCHANGED vars
  <2> SUFFICES ASSUME NEW u \in Threads PROVE Pipes(u)'
    BY DEF Plumbing
  <2>1. Pipes(u) /\ set[u] \subseteq Streams
    BY <1>p DEF Pipes
  <2> QED BY <1>12, <2>1, OthersKept DEF vars
<1> QED BY <1>1, <1>2, <1>3, <1>4, <1>5, <1>6, <1>7, <1>8, <1>9, <1>10, <1>11, <1>12, <1>14
        DEF Next, ThreadStep, ChildStep
-----------------------------------------------------------------------------
(* The theorems *)

LEMMA IInvNext == ASSUME IInv, [Next]_vars PROVE IInv'
<1>1. TypeOK'
  BY TypeNext DEF IInv, Work
<1>2. Work'
  BY <1>1, WorkNext DEF IInv
<1>3. Plumbing'
  BY <1>1, PlumbingNext DEF IInv
<1> QED BY <1>1, <1>2, <1>3 DEF IInv

\* The runner's bookkeeping and plumbing, in every state: the verdicts counted
\* so far, who holds which end of which pipe, and what was read of each stream.
THEOREM InductiveInvariant == Spec => []IInv
<1>1. Init => IInv
  BY InitType, InitWork, InitPlumbing DEF IInv
<1>2. IInv /\ [Next]_vars => IInv'
  BY IInvNext
<1> QED BY <1>1, <1>2, PTL DEF Spec

\* runTests and main: when the last thread has left the loop every test has
\* exactly one verdict and the counters are those verdicts, whatever the order
\* in which the threads took and counted the files.
THEOREM SummaryIsExact == Spec => []SummaryExact
<1>1. ASSUME IInv PROVE SummaryExact
  <2> SUFFICES ASSUME AllDone, Threads # {}
               PROVE  /\ \A f \in DOMAIN Files : Cardinality(verdict[f]) = IF f \in Tests THEN 1 ELSE 0
                      /\ stats.total = Cardinality(Tests)
                      /\ stats.passed = Cardinality({f \in Tests : verdict[f] = {"Pass"}})
                      /\ stats.failed = Cardinality({f \in Tests : verdict[f] = {"Fail"}})
                      /\ stats.xfail = Cardinality({f \in Tests : verdict[f] = {"XFail"}})
    BY <1>1 DEF SummaryExact, IInv
  <2>1. PICK t \in Threads : TRUE
    OBVIOUS
  <2>2. index > Len(Files) /\ index \in Nat
    BY <1>1 DEF AllDone, IInv, Work, Judged, TypeOK
  <2>3. \A f \in Tests : f <= index
    BY <2>2, TestsFinite, FilesType
  <2>4. \A f \in Tests : verdict[f] # {}
    <3>1. \A u \in Threads : pc[u] \notin Working
      BY DEF AllDone, Working, InSystem, Forked, Collecting
    <3> QED BY <1>1, <2>3, <3>1 DEF IInv, Work, Judged
  <2>5. \A f \in DOMAIN Files : Cardinality(verdict[f]) = IF f \in Tests THEN 1 ELSE 0
    <3> TAKE f \in DOMAIN Files
    <3>1. CASE f \in Tests
      <4>1. PICK r \in Results : verdict[f] = {r}
        BY <1>1, <2>4, <3>1 DEF IInv, Work, Judged
      <4>2. Cardinality({r}) = 1
        BY FS_Singleton
      <4> QED BY <3>1, <4>1, <4>2
    <3>2. CASE f \notin Tests
      <4>1. verdict[f] = {}
        BY <1>1, <3>2 DEF IInv, Work, Judged
      <4> QED BY <3>2, <4>1, FS_EmptySet
    <3> QED BY <3>1, <3>2
  <2>6. Taken = Tests
    BY <2>3 DEF Taken
  <2> QED BY <1>1, <2>5, <2>6 DEF IInv, Work, Counted, Having
<1> QED BY <1>1, InductiveInvariant, PTL

\* system: as long as no select and no read fails, the read ends of a pipe are
\* never closed under a child that may still write to it.
THEOREM ReaderStays == Spec => []ReaderOutlivesChild
<1>1. ASSUME IInv PROVE ReaderOutlivesChild
  <2> SUFFICES ASSUME NEW t \in Threads, child[t] = "running", ~cut[t], NEW s \in Streams
               PROVE  Runner \in readers[t][s]
    BY DEF ReaderOutlivesChild
  <2>1. Descriptors(t) /\ SelectSet(t)
    BY <1>1 DEF IInv, Plumbing, Pipes
  <2>2. pc[t] \in Forked /\ pc[t] # "wait"
    BY <2>1 DEF Descriptors, SelectSet
  <2> QED BY <2>1, <2>2 DEF Descriptors, Forked
<1> QED BY <1>1, InductiveInvariant, PTL

\* system: what was captured when the select loop has ended is a prefix of
\* what the child printed, and all of it if one of the streams was silent and no
\* select and no read has failed.
THEOREM CaptureIsComplete == Spec => []CaptureComplete
<1>1. ASSUME IInv PROVE CaptureComplete
  <2> SUFFICES ASSUME NEW t \in Threads, pc[t] = "wait"
               PROVE  /\ \A s \in Streams : /\ Len(got[t][s]) <= Len(wrote[t][s])
                                            /\ got[t][s] = SubSeq(wrote[t][s], 1, Len(got[t][s]))
                      /\ (\E s \in Streams : wrote[t][s] = <<>>) /\ ~cut[t] => got[t] = wrote[t]
    BY DEF CaptureComplete
  <2>1. Conserved(t) /\ SelectSet(t) /\ Dropped(t)
    BY <1>1 DEF IInv, Plumbing, Pipes
  <2>2. \A s \in Streams : wrote[t][s] = got[t][s] \o buf[t][s]
    BY <2>1 DEF Conserved, Forked
  <2>3. \A s \in Streams : got[t][s] \in Seq(Items) /\ buf[t][s] \in Seq(Items)
    BY <1>1 DEF IInv, TypeOK
  <2>4. ASSUME NEW s \in Streams
        PROVE  Len(got[t][s]) <= Len(wrote[t][s]) /\ got[t][s] = SubSeq(wrote[t][s], 1, Len(got[t][s]))
    <3> DEFINE g == got[t][s]
               b == buf[t][s]
    <3>1. g \in Seq(Items) /\ b \in Seq(Items) /\ wrote[t][s] = g \o b
      BY <2>2, <2>3
    <3> HIDE DEF g, b
    <3>2. Len(g) <= Len(g \o b) /\ g = SubSeq(g \o b, 1, Len(g))
      BY <3>1
    <3> QED BY <3>1, <3>2 DEF g, b
  <2>5. ASSUME NEW q \in Streams, wrote[t][q] = <<>>, ~cut[t]
        PROVE  got[t] = wrote[t]
    <3>1. ASSUME NEW s \in Streams
          PROVE  buf[t][s] = <<>>
      <4>1. CASE s = q
        <5> DEFINE g == got[t][s]
                   b == buf[t][s]
        <5>1. g \in Seq(Items) /\ b \in Seq(Items) /\ g \o b = <<>>
          BY <2>2, <2>3, <2>5, <4>1
        <5> HIDE DEF g, b
        <5>2. b = <<>>
          BY <5>1, ConcatEqualIffEmpty
        <5> QED BY <5>2 DEF b
      <4>2. CASE s # q
        <5>1. \A r \in Streams \ {s} : r = q
          BY <4>2 DEF Streams
        <5>2. s \notin set[t]
          BY <2>1 DEF SelectSet
        <5> QED BY <2>1, <2>5, <5>1, <5>2 DEF Dropped
      <4> QED BY <4>1, <4>2
    <3>2. \A s \in Streams : got[t][s] = wrote[t][s]
      <4> TAKE s \in Streams
      <4> DEFINE g == got[t][s]
      <4>1. g \in Seq(Items) /\ wrote[t][s] = g \o <<>>
        BY <2>2, <2>3, <3>1
      <4> HIDE DEF g
      <4>2. g \o <<>> = g
        BY <4>1
      <4> QED BY <4>1, <4>2 DEF g
    <3> QED BY <1>1, <3>2 DEF IInv, TypeOK
  <2> QED BY <2>4, <2>5
<1> QED BY <1>1, InductiveInvariant, PTL
=============================================================================
