----------------------------- MODULE TestRunner -----------------------------
(***************************************************************************)
(* The parallel test runner (tests/runner.cpp): worker threads take test   *)
(* files from a shared atomic index, run the compiler and the compiled     *)
(* program as child processes, collect what they print through two pipes   *)
(* with select, and count verdicts.                                        *)
(*                                                                         *)
(* Everything that can interleave is a step of its own: the threads, the   *)
(* children and, because fork copies every descriptor the process has open *)
(* at that instant, the single calls of pipe, fork and close.  A thread    *)
(* has at most one child and one pair of pipes, so they carry its name.    *)
(*                                                                         *)
(* A printed line is one item: "out" on the standard output, "own" or      *)
(* "foreign" on the standard error, where an own line starts with the path *)
(* of the tested source.  Every system call of the runner but close and    *)
(* waitpid may fail; a child dies of SIGPIPE when it writes to a pipe that *)
(* nobody can read.                                                        *)
(***************************************************************************)
EXTENDS Integers, Sequences, FiniteSets

CONSTANTS
    Threads,    \* hardware_concurrency() worker threads
    Runner,     \* the runner's own process, as the owner of descriptors
    Files,      \* what gatherFilesRec found: [aike, lines] in readdir order
    Scripts,    \* what a child may do: [writes, status]
    PipeCap,    \* lines a pipe holds
    ReadMax     \* lines one read returns at most (the 4096-byte buffer)

ASSUME RunnerAssumption ==
    /\ Runner \notin Threads
    /\ PipeCap \in Nat \ {0} /\ ReadMax \in Nat \ {0}

VARIABLES
    pc,         \* where each thread is
    index,      \* the shared atomic counter of runTests (from 0)
    file,       \* the index into Files a thread works on; 0: none yet
    stage,      \* which of runTest's calls of system: "compile" or "run"
    result,     \* what runTest returned
    stats,      \* struct Stats
    set,        \* the fd_set of system
    got,        \* system's output and error
    buf,        \* what is in a pipe
    writers,    \* the processes that have a pipe's write end open
    readers,    \* the processes that have a pipe's read end open
    child,      \* "none", "running" or "exited"
    todo,       \* lines the child has still to print
    status,     \* its exit status (0 or 1)
    cut,        \* history: a select or read has failed in this call of system
    wrote,      \* history: what the child printed on each stream
    verdict     \* history: the results counted for each file

threadVars == <<index, file, stage, result, stats, verdict>>
pipeVars   == <<buf, writers, readers>>
childVars  == <<child, todo, status, wrote>>
vars == <<pc, index, file, stage, result, stats, set, got, buf, writers, readers,
          child, todo, status, cut, wrote, verdict>>

Streams   == {"out", "err"}
Items     == {"out", "own", "foreign"}
Results   == {"Pass", "Fail", "XFail"}
StreamOf(item) == IF item = "out" THEN "out" ELSE "err"
IsOwn(item) == item = "own"

Empty == [s \in Streams |-> <<>>]

\* Lines are told apart as far as parseTest does; a child is killed or exits
\* with a status that the runner only compares with 0.
ASSUME InputsAssumption ==
    /\ Files \in Seq([aike : BOOLEAN, lines : Seq(STRING)])
    /\ Scripts \subseteq [writes : Seq(Items), status : {0, 1}]

TypeOK ==
    /\ pc \in [Threads -> {"take", "done", "pipeOut", "pipeErr", "fork",
                           "closeOut", "closeErr", "select", "readOut",
                           "readErr", "wait", "count"}]
    /\ index \in Nat
    /\ file \in [Threads -> 0 .. Len(Files)]
    /\ stage \in [Threads -> {"compile", "run"}]
    /\ result \in [Threads -> Results \cup {"none"}]
    /\ stats \in [{"total", "passed", "failed", "xfail"} -> Nat]
    /\ set \in [Threads -> SUBSET Streams]
    /\ got \in [Threads -> [Streams -> Seq(Items)]]
    /\ buf \in [Threads -> [Streams -> Seq(Items)]]
    /\ writers \in [Threads -> [Streams -> SUBSET (Threads \cup {Runner})]]
    /\ readers \in [Threads -> [Streams -> SUBSET (Threads \cup {Runner})]]
    /\ child \in [Threads -> {"none", "running", "exited"}]
    /\ todo \in [Threads -> Seq(Items)]
    /\ status \in [Threads -> {0, 1}]
    /\ cut \in [Threads -> BOOLEAN]
    /\ wrote \in [Threads -> [Streams -> Seq(Items)]]
    /\ verdict \in [DOMAIN Files -> SUBSET Results]

Init ==
    /\ pc = [t \in Threads |-> "take"]
    /\ index = 0
    /\ file = [t \in Threads |-> 0]
    /\ stage = [t \in Threads |-> "compile"]
    /\ result = [t \in Threads |-> "none"]
    /\ stats = [total |-> 0, passed |-> 0, failed |-> 0, xfail |-> 0]
    /\ set = [t \in Threads |-> {}]
    /\ got = [t \in Threads |-> Empty]
    /\ buf = [t \in Threads |-> Empty]
    /\ writers = [t \in Threads |-> [s \in Streams |-> {}]]
    /\ readers = [t \in Threads |-> [s \in Streams |-> {}]]
    /\ child = [t \in Threads |-> "none"]
    /\ todo = [t \in Threads |-> <<>>]
    /\ status = [t \in Threads |-> 0]
    /\ cut = [t \in Threads |-> FALSE]
    /\ wrote = [t \in Threads |-> Empty]
    /\ verdict = [f \in DOMAIN Files |-> {}]

-----------------------------------------------------------------------------
(* What the test file says. *)

\* parseTest: the type line must be the only one and no other "##" line may
\* occur, else the type is Unknown; "# " lines after it are expected output.
\* FLAGS only adds to the command line of the compiler.
parseTest(lines) ==
    LET types == {i \in DOMAIN lines : lines[i] \in {"OK", "ERROR", "XFAIL"}}
    IN  [type |-> IF Cardinality(types) = 1 /\ \A i \in DOMAIN lines : lines[i] # "##"
                  THEN lines[CHOOSE i \in types : TRUE]
                  ELSE "Unknown",
         expected |-> Cardinality({i \in DOMAIN lines :
                          lines[i] = "# " /\ \E j \in types : j < i})]

Test(t) == parseTest(Files[file[t]].lines)

\* sanitizeErrors keeps the lines that start with the path of the source.
sanitizeErrors(error) == SelectSeq(error, IsOwn)

\* runTest after a call of system that returned rc with the given captures:
\* the verdict, or "none" when the compiled program is still to be run.
runTest(type, expected, stg, rc, captured) ==
    CASE stg = "run"      -> IF rc # 0 \/ Len(captured["out"]) # expected
                             THEN "Fail" ELSE "Pass"
      [] type = "OK"      -> IF rc # 0 THEN "Fail" ELSE "none"
      [] type = "ERROR"   -> IF rc = 0 \/ Len(sanitizeErrors(captured["err"])) # expected
                             THEN "Fail" ELSE "Pass"
      [] type = "XFAIL"   -> IF rc = 0 THEN "Fail" ELSE "XFail"

-----------------------------------------------------------------------------
(* The loop of a worker thread in runTests. *)

\* index++ and the file it denotes.  Files that are not tests are skipped; a
\* file without a valid type fails without running anything.
Take(t) ==
    /\ pc[t] = "take"
    /\ index' = index + 1
    /\ IF index >= Len(Files)
       THEN /\ pc' = [pc EXCEPT ![t] = "done"]
            /\ UNCHANGED <<file, stage, result, stats>>
       ELSE LET f == index + 1
                unknown == parseTest(Files[f].lines).type = "Unknown"
            IN IF ~Files[f].aike
               THEN UNCHANGED <<pc, file, stage, result, stats>>
               ELSE /\ file' = [file EXCEPT ![t] = f]
                    /\ stats' = [stats EXCEPT !.total = @ + 1]
                    /\ stage' = [stage EXCEPT ![t] = "compile"]
                    /\ result' = [result EXCEPT ![t] = IF unknown THEN "Fail" ELSE "none"]
                    /\ pc' = [pc EXCEPT ![t] = IF unknown THEN "count" ELSE "pipeOut"]
    /\ UNCHANGED <<set, got, pipeVars, childVars, cut, verdict>>

\* system returns rc to runTest, which returns or runs the compiled program.
Return(t, rc, captured) ==
    LET r == runTest(Test(t).type, Test(t).expected, stage[t], rc, captured)
    IN  /\ result' = [result EXCEPT ![t] = r]
        /\ stage' = [stage EXCEPT ![t] = IF r = "none" THEN "run" ELSE @]
        /\ pc' = [pc EXCEPT ![t] = IF r = "none" THEN "pipeOut" ELSE "count"]
        /\ UNCHANGED <<index, file, stats, verdict>>

\* Mutant: the break after case TestResult::Pass is missing.
CountFallsThrough(t) ==
    /\ pc[t] = "count"
    /\ stats' = CASE result[t] = "Pass"  -> [stats EXCEPT !.passed = @ + 1, !.failed = @ + 1]
                  [] result[t] = "Fail"  -> [stats EXCEPT !.failed = @ + 1]
                  [] result[t] = "XFail" -> [stats EXCEPT !.xfail = @ + 1]
    /\ verdict' = [verdict EXCEPT ![file[t]] = @ \cup {result[t]}]
    /\ pc' = [pc EXCEPT ![t] = "take"]
    /\ UNCHANGED <<index, file, stage, result, set, got, pipeVars, childVars, cut>>

\* The switch on the result of runTest.
Count(t) ==
    /\ pc[t] = "count"
    /\ stats' = CASE result[t] = "Pass"  -> [stats EXCEPT !.passed = @ + 1]
                  [] result[t] = "Fail"  -> [stats EXCEPT !.failed = @ + 1]
                  [] result[t] = "XFail" -> [stats EXCEPT !.xfail = @ + 1]
    /\ verdict' = [verdict EXCEPT ![file[t]] = @ \cup {result[t]}]
    /\ pc' = [pc EXCEPT ![t] = "take"]
    /\ UNCHANGED <<index, file, stage, result, set, got, pipeVars, childVars, cut>>

-----------------------------------------------------------------------------
(* system: pipe, pipe, fork, close, close, select loop, close, waitpid. *)

MakePipe(t, s) ==
    /\ buf' = [buf EXCEPT ![t][s] = <<>>]
    /\ writers' = [writers EXCEPT ![t][s] = {Runner}]
    /\ readers' = [readers EXCEPT ![t][s] = {Runner}]

PipeOut(t) ==
    /\ pc[t] = "pipeOut"
    /\ got' = [got EXCEPT ![t] = Empty]
    /\ MakePipe(t, "out")
    /\ pc' = [pc EXCEPT ![t] = "pipeErr"]
    /\ UNCHANGED <<threadVars, set, childVars, cut>>

PipeErr(t) ==
    /\ pc[t] = "pipeErr"
    /\ MakePipe(t, "err")
    /\ pc' = [pc EXCEPT ![t] = "fork"]
    /\ UNCHANGED <<threadVars, set, got, childVars, cut>>

\* pipe or fork fails: system returns -1 with empty captures and leaves open
\* what it has opened so far.
SystemFails(t) ==
    /\ pc[t] \in {"pipeOut", "pipeErr", "fork"}
    /\ got' = [got EXCEPT ![t] = Empty]
    /\ Return(t, -1, Empty)
    /\ UNCHANGED <<set, pipeVars, childVars, cut>>

\* The child inherits every end of a pipe that the runner has open, those of the
\* pipes of other threads too (nothing is opened close-on-exec), and closes the
\* read ends of its own.
Fork(t) ==
    /\ pc[t] = "fork"
    /\ \E script \in Scripts :
          /\ todo' = [todo EXCEPT ![t] = script.writes]
          /\ status' = [status EXCEPT ![t] = script.status]
    /\ child' = [child EXCEPT ![t] = "running"]
    /\ writers' = [u \in Threads |-> [s \in Streams |->
                      writers[u][s] \cup (IF Runner \in writers[u][s] THEN {t} ELSE {})]]
    /\ readers' = [u \in Threads |-> [s \in Streams |->
                      readers[u][s] \cup (IF u # t /\ Runner \in readers[u][s] THEN {t} ELSE {})]]
    /\ pc' = [pc EXCEPT ![t] = "closeOut"]
    /\ UNCHANGED <<threadVars, set, got, buf, wrote, cut>>

CloseWrite(t, s, from, to) ==
    /\ pc[t] = from
    /\ writers' = [writers EXCEPT ![t][s] = @ \ {Runner}]
    /\ pc' = [pc EXCEPT ![t] = to]
    /\ UNCHANGED <<threadVars, got, buf, readers, childVars, cut>>

CloseOut(t) == CloseWrite(t, "out", "closeOut", "closeErr") /\ UNCHANGED set
CloseErr(t) ==
    /\ CloseWrite(t, "err", "closeErr", "select")
    /\ set' = [set EXCEPT ![t] = Streams]

\* A pipe is readable when it holds something or nobody can write to it.
Readable(t, s) == buf[t][s] # <<>> \/ writers[t][s] = {}

\* select leaves in the set only what is readable.  The set is not rebuilt.
Select(t) ==
    /\ pc[t] = "select" /\ set[t] # {}
    /\ \E s \in set[t] : Readable(t, s)
    /\ set' = [set EXCEPT ![t] = {s \in @ : Readable(t, s)}]
    /\ pc' = [pc EXCEPT ![t] = "readOut"]
    /\ UNCHANGED <<threadVars, got, pipeVars, childVars, cut>>

Lesser(m, n) == IF m < n THEN m ELSE n

\* Mutants: a read replaces what was captured; the end of a stream is ignored.
ReadStreamReplaces(t, s, from, to) ==
    LET n == Lesser(ReadMax, Len(buf[t][s]))
    IN  /\ pc[t] = from
        /\ pc' = [pc EXCEPT ![t] = to]
        /\ IF s \in set[t]
           THEN /\ got' = IF n = 0 THEN got ELSE [got EXCEPT ![t][s] = SubSeq(buf[t][s], 1, n)]
                /\ buf' = [buf EXCEPT ![t][s] = SubSeq(@, n + 1, Len(@))]
                /\ set' = [set EXCEPT ![t] = IF n = 0 THEN @ \ {s} ELSE @]
           ELSE UNCHANGED <<got, buf, set>>
        /\ UNCHANGED <<threadVars, writers, readers, childVars, cut>>
ReadStreamKeepsEnded(t, s, from, to) ==
    LET n == Lesser(ReadMax, Len(buf[t][s]))
    IN  /\ pc[t] = from
        /\ pc' = [pc EXCEPT ![t] = to]
        /\ IF s \in set[t]
           THEN /\ got' = [got EXCEPT ![t][s] = @ \o SubSeq(buf[t][s], 1, n)]
                /\ buf' = [buf EXCEPT ![t][s] = SubSeq(@, n + 1, Len(@))]
           ELSE UNCHANGED <<got, buf>>
        /\ UNCHANGED <<threadVars, set, writers, readers, childVars, cut>>

\* The body of the loop for one stream: append what was read, or drop the
\* stream at its end.
ReadStream(t, s, from, to) ==
    LET n == Lesser(ReadMax, Len(buf[t][s]))
    IN  /\ pc[t] = from
        /\ pc' = [pc EXCEPT ![t] = to]
        /\ IF s \in set[t]
           THEN /\ got' = [got EXCEPT ![t][s] = @ \o SubSeq(buf[t][s], 1, n)]
                /\ buf' = [buf EXCEPT ![t][s] = SubSeq(@, n + 1, Len(@))]
                /\ set' = [set EXCEPT ![t] = IF n = 0 THEN @ \ {s} ELSE @]
           ELSE UNCHANGED <<got, buf, set>>
        /\ UNCHANGED <<threadVars, writers, readers, childVars, cut>>

ReadOut(t) == ReadStream(t, "out", "readOut", "readErr")
ReadErr(t) == ReadStream(t, "err", "readErr", "select")

\* A read that fails (-1) drops the stream as its end does, whatever is in it.
ReadFails(t) ==
    /\ \/ pc[t] = "readOut" /\ "out" \in set[t]
          /\ set' = [set EXCEPT ![t] = @ \ {"out"}] /\ pc' = [pc EXCEPT ![t] = "readErr"]
       \/ pc[t] = "readErr" /\ "err" \in set[t]
          /\ set' = [set EXCEPT ![t] = @ \ {"err"}] /\ pc' = [pc EXCEPT ![t] = "select"]
    /\ cut' = [cut EXCEPT ![t] = TRUE]
    /\ UNCHANGED <<threadVars, got, pipeVars, childVars>>

\* Behind the loop: close both read ends.  The set is not used again.
LeaveLoop(t) ==
    /\ readers' = [readers EXCEPT ![t] = [s \in Streams |-> @[s] \ {Runner}]]
    /\ set' = [set EXCEPT ![t] = {}]
    /\ pc' = [pc EXCEPT ![t] = "wait"]
    /\ UNCHANGED <<threadVars, got, buf, writers, childVars>>

\* Mutant: the loop goes on only while both streams are in the set.
CloseReadEither(t) == pc[t] = "select" /\ set[t] # Streams /\ LeaveLoop(t) /\ UNCHANGED cut

\* The loop ends when no stream is left in the set ...
CloseRead(t) == pc[t] = "select" /\ set[t] = {} /\ LeaveLoop(t) /\ UNCHANGED cut

\* ... or select fails, while the child may still be running.
SelectFails(t) ==
    /\ pc[t] = "select" /\ set[t] # {}
    /\ LeaveLoop(t)
    /\ cut' = [cut EXCEPT ![t] = TRUE]

WaitPid(t) ==
    /\ pc[t] = "wait" /\ child[t] = "exited"
    /\ child' = [child EXCEPT ![t] = "none"]
    /\ Return(t, status[t], got[t])
    /\ wrote' = [wrote EXCEPT ![t] = Empty] /\ cut' = [cut EXCEPT ![t] = FALSE]
    /\ UNCHANGED <<set, got, pipeVars, todo, status>>

-----------------------------------------------------------------------------
(* The child processes. *)

\* A write blocks while the pipe is full and someone can read it.
ChildWrite(t) ==
    /\ child[t] = "running" /\ todo[t] # <<>>
    /\ LET item == Head(todo[t])
           s == StreamOf(item)
       IN  /\ readers[t][s] # {} /\ Len(buf[t][s]) < PipeCap
           /\ buf' = [buf EXCEPT ![t][s] = Append(@, item)]
           /\ wrote' = [wrote EXCEPT ![t][s] = Append(@, item)]
    /\ todo' = [todo EXCEPT ![t] = Tail(@)]
    /\ UNCHANGED <<pc, threadVars, set, got, writers, readers, child, status, cut>>

\* Exit closes every descriptor that the child has.
Exit(t) ==
    /\ child' = [child EXCEPT ![t] = "exited"]
    /\ writers' = [u \in Threads |-> [s \in Streams |-> writers[u][s] \ {t}]]
    /\ readers' = [u \in Threads |-> [s \in Streams |-> readers[u][s] \ {t}]]
    /\ UNCHANGED <<pc, threadVars, set, got, buf, wrote, cut>>

ChildExit(t) ==
    /\ child[t] = "running" /\ todo[t] = <<>>
    /\ Exit(t) /\ UNCHANGED <<todo, status>>

\* A write to a pipe that nobody can read kills the child, which the runner sees
\* as a status that is not 0.
BrokenPipe(t) ==
    /\ child[t] = "running" /\ todo[t] # <<>>
    /\ readers[t][StreamOf(Head(todo[t]))] = {}
    /\ Exit(t)
    /\ todo' = [todo EXCEPT ![t] = <<>>]
    /\ status' = [status EXCEPT ![t] = 1]

\* execvp fails and the child exits with its result, before it could print.
ExecFails(t) ==
    /\ child[t] = "running" /\ wrote[t] = Empty
    /\ Exit(t)
    /\ todo' = [todo EXCEPT ![t] = <<>>]
    /\ status' = [status EXCEPT ![t] = 1]

-----------------------------------------------------------------------------
ThreadStep(t) ==
    \/ Take(t) \/ Count(t)
    \/ PipeOut(t) \/ PipeErr(t) \/ Fork(t) \/ CloseOut(t) \/ CloseErr(t)
    \/ Select(t) \/ ReadOut(t) \/ ReadErr(t) \/ CloseRead(t) \/ WaitPid(t)

ChildStep(t) == ChildWrite(t) \/ ChildExit(t) \/ BrokenPipe(t)

Next == \E t \in Threads :
            \/ ThreadStep(t) \/ ChildStep(t)
            \/ SystemFails(t) \/ SelectFails(t) \/ ReadFails(t) \/ ExecFails(t)

Spec == Init /\ [][Next]_vars

\* The operating system keeps running every thread and every process that can
\* go on.
FairSpec == Spec /\ \A t \in Threads : WF_vars(ThreadStep(t)) /\ WF_vars(ChildStep(t))

-----------------------------------------------------------------------------
(* Properties *)

AllDone == \A t \in Threads : pc[t] = "done"
Tests   == {f \in DOMAIN Files : Files[f].aike}

\* When main prints its summary (and there was at least one thread) every
\* test has exactly one verdict and the counters are those verdicts, so
\* passed, failed and xfail add up to total: index++ is the only thing that
\* keeps two threads from the same file.
SummaryExact ==
    TypeOK /\ ((AllDone /\ Threads # {}) =>
        /\ \A f \in DOMAIN Files : Cardinality(verdict[f]) = IF f \in Tests THEN 1 ELSE 0
        /\ stats.total = Cardinality(Tests)
        /\ stats.passed = Cardinality({f \in Tests : verdict[f] = {"Pass"}})
        /\ stats.failed = Cardinality({f \in Tests : verdict[f] = {"Fail"}})
        /\ stats.xfail = Cardinality({f \in Tests : verdict[f] = {"XFail"}}))

\* As long as no select and no read fails, the select loop ends only when it has
\* seen the end of a stream, and a child has both streams open until it exits:
\* the read ends are not closed under a child that may still write.
ReaderOutlivesChild ==
    \A t \in Threads : child[t] = "running" /\ ~cut[t] =>
        \A s \in Streams : Runner \in readers[t][s]

\* When the loop has ended, what was captured is a prefix of what the child
\* printed.  If no select and no read has failed, it is complete for a child that
\* printed on one stream only, although select drops a stream that is silent when
\* the other is not, and whoever else holds the pipe's write ends.
CaptureComplete ==
    \A t \in Threads : pc[t] = "wait" =>
        /\ \A s \in Streams : /\ Len(got[t][s]) <= Len(wrote[t][s])
                              /\ got[t][s] = SubSeq(wrote[t][s], 1, Len(got[t][s]))
        /\ (\E s \in Streams : wrote[t][s] = <<>>) /\ ~cut[t] => got[t] = wrote[t]

\* The child waits to write to a full pipe that its thread no longer reads: the
\* stream was dropped from the set, or the loop was left and the pipe is only
\* kept open by other children.
OnDroppedPipe(t) ==
    /\ child[t] = "running" /\ todo[t] # <<>>
    /\ LET s == StreamOf(Head(todo[t]))
       IN  /\ Len(buf[t][s]) >= PipeCap /\ readers[t][s] # {}
           /\ pc[t] = "wait" \/ (pc[t] = "select" /\ s \notin set[t])

\* Every thread comes to the end of the files unless some child waits for ever on
\* a dropped pipe: nothing else makes a thread stay in select or waitpid, although
\* a child of another thread may keep its pipes open.
RunnerEnds == <>[](AllDone \/ \E t \in Threads : OnDroppedPipe(t))
=============================================================================
