----------------------------- MODULE Scheduler -----------------------------
(***************************************************************************)
(* The cooperative scheduler of the Aike runtime (runtime/scheduler.cpp),  *)
(* with the context switch (runtime/context_amd64.s), the stacks           *)
(* (runtime/stack_unix.cpp), the fault handler (runtime/signal_unix.cpp)   *)
(* and the process entry point (runtime/init.cpp).                         *)
(*                                                                         *)
(* One operating-system thread executes everything.  pc says what it is    *)
(* executing and sp whose stack it is executing on.  The coroutine bodies  *)
(* are the program being run: at pc = "coro" the current one may spawn,    *)
(* yield, return or fault, in any order.  Memory is modelled by address:   *)
(* malloc and mmap may hand out again what was released, so a stale        *)
(* pointer really meets somebody else's data.                              *)
(***************************************************************************)
EXTENDS Naturals, Sequences

CONSTANTS
    Coro,       \* addresses at which malloc can place a struct Coro
    Stack,      \* address ranges mmap can return to stackCreate
    NULL

ASSUME NullAssumption == NULL \notin Coro /\ NULL \notin Stack

VARIABLES
    pc,         \* what the thread is executing
    sp,         \* stack it is executing on; NULL: the process's own stack
    live,       \* struct Coro blocks that are malloc'ed and not yet freed
    mapped,     \* stacks that are mmap'ed and not yet munmap'ed
    altStack,   \* the stack registered with sigaltstack, or NULL
    next, prev, \* Coro::next, Coro::prev
    stackOf,    \* Coro::stack
    rsp,        \* the stack that Coro::context.rsp points into
    readyHead, readyTail, current, cleanup,     \* the file's static pointers
    order       \* history: the coroutines in the ready list, first to run first

listVars == <<next, prev, readyHead, readyTail, order>>
memVars  == <<live, mapped, stackOf>>
vars     == <<pc, sp, live, mapped, altStack, next, prev, stackOf, rsp,
              readyHead, readyTail, current, cleanup, order>>

PC == {"setup", "spawnMain", "worker", "dispatch", "coro", "coroReturn",
       "teardown", "exited", "aborted"}

TypeOK ==
    /\ pc \in PC
    /\ sp \in Stack \cup {NULL}
    /\ live \subseteq Coro
    /\ mapped \subseteq Stack
    /\ altStack \in Stack \cup {NULL}
    /\ next \in [Coro -> Coro \cup {NULL}]
    /\ prev \in [Coro -> Coro \cup {NULL}]
    /\ stackOf \in [Coro -> Stack \cup {NULL}]
    /\ rsp \in [Coro -> Stack \cup {NULL}]
    /\ readyHead \in Coro \cup {NULL}
    /\ readyTail \in Coro \cup {NULL}
    /\ current \in Coro \cup {NULL}
    /\ cleanup \in Coro \cup {NULL}
    /\ order \in Seq(Coro)

\* The statics start zeroed; aikeEntry has just been called by main.
Init ==
    /\ pc = "setup"
    /\ sp = NULL
    /\ live = {}
    /\ mapped = {}
    /\ altStack = NULL
    /\ next = [c \in Coro |-> NULL]
    /\ prev = [c \in Coro |-> NULL]
    /\ stackOf = [c \in Coro |-> NULL]
    /\ rsp = [c \in Coro |-> NULL]
    /\ readyHead = NULL
    /\ readyTail = NULL
    /\ current = NULL
    /\ cleanup = NULL
    /\ order = <<>>
-----------------------------------------------------------------------------
(* Plausible faults in this code, for checking that the properties see them *)

\* coroDispatch forgets c->next->prev = 0.
coroUnlinkHeadNoPrev ==
    LET c == readyHead
        n == next[c] IN
    /\ readyHead' = n
    /\ readyTail' = IF n = NULL THEN NULL ELSE readyTail
    /\ next' = [next EXCEPT ![c] = NULL]
    /\ UNCHANGED prev
    /\ order' = Tail(order)

\* coroQueue pushes at the front instead of the back.
coroQueueFront(c) ==
    /\ prev' = IF readyHead = NULL THEN [prev EXCEPT ![c] = NULL]
               ELSE [prev EXCEPT ![c] = NULL, ![readyHead] = c]
    /\ next' = [next EXCEPT ![c] = readyHead]
    /\ readyHead' = c
    /\ readyTail' = IF readyTail = NULL THEN c ELSE readyTail
    /\ order' = Append(order, c)

\* schedulerRun forgets cleanup = 0.
ReapKeepsCleanup ==
    /\ pc = "worker"
    /\ IF cleanup # NULL
       THEN /\ mapped' = mapped \ {stackOf[cleanup]}
            /\ live' = live \ {cleanup}
       ELSE UNCHANGED <<mapped, live>>
    /\ pc' = "dispatch"
    /\ UNCHANGED <<sp, altStack, stackOf, rsp, current, cleanup>>
    /\ UNCHANGED listVars

\* coroEntry releases its own stack instead of deferring to the worker.
CoroEntryEndUnmaps ==
    /\ pc = "coro"
    /\ current' = NULL
    /\ mapped' = mapped \ {stackOf[current]}
    /\ live' = live \ {current}
    /\ pc' = "coroReturn"
    /\ UNCHANGED <<sp, altStack, rsp, stackOf, cleanup>>
    /\ UNCHANGED listVars

-----------------------------------------------------------------------------
(* Helpers: the static functions of scheduler.cpp.                         *)

\* coroQueue: append c to the doubly linked ready list.
coroQueue(c) ==
    /\ IF readyTail # NULL
       THEN /\ prev' = [prev EXCEPT ![c] = readyTail]
            /\ next' = [next EXCEPT ![c] = NULL, ![readyTail] = c]
            /\ readyTail' = c
            /\ UNCHANGED readyHead
       ELSE /\ prev' = [prev EXCEPT ![c] = NULL]
            /\ next' = [next EXCEPT ![c] = NULL]
            /\ readyHead' = c
            /\ readyTail' = c
    /\ order' = Append(order, c)

\* The removal of the head in coroDispatch.
coroUnlinkHead ==
    LET c == readyHead
        n == next[c] IN
    /\ IF n # NULL
       THEN /\ prev' = [prev EXCEPT ![n] = NULL]
            /\ readyHead' = n
            /\ next' = [next EXCEPT ![c] = NULL]
            /\ UNCHANGED readyTail
       ELSE /\ readyHead' = NULL
            /\ readyTail' = NULL
            /\ UNCHANGED <<next, prev>>
    /\ order' = Tail(order)

\* spawn: malloc the Coro, stackCreate, contextCreate, coroQueue.
spawn(c, s) ==
    /\ c \in Coro \ live
    /\ s \in Stack \ mapped
    /\ live' = live \cup {c}
    /\ mapped' = mapped \cup {s}
    /\ stackOf' = [stackOf EXCEPT ![c] = s]
    /\ rsp' = [rsp EXCEPT ![c] = s]
    /\ coroQueue(c)
-----------------------------------------------------------------------------
(* The process: aikeEntry and the worker loop of schedulerRun.             *)

\* signalSetup maps the alternate signal stack and registers it, then the
\* handlers; gcInit touches no state of this module.
SignalSetup ==
    /\ pc = "setup"
    /\ \E s \in Stack \ mapped :
          /\ mapped' = mapped \cup {s}
          /\ altStack' = s
    /\ pc' = "spawnMain"
    /\ UNCHANGED <<sp, live, stackOf, rsp, current, cleanup>>
    /\ UNCHANGED listVars

\* spawn(main), after which schedulerRun captures the worker context.
SpawnMain ==
    /\ pc = "spawnMain"
    /\ \E c \in Coro, s \in Stack : spawn(c, s)
    /\ pc' = "worker"
    /\ UNCHANGED <<sp, altStack, current, cleanup>>

\* Every resumption of the worker context continues here: release the stack
\* and the block of a coroutine that has ended.
Reap ==
    /\ pc = "worker"
    /\ IF cleanup # NULL
       THEN /\ mapped' = mapped \ {stackOf[cleanup]}
            /\ live' = live \ {cleanup}
            /\ cleanup' = NULL
       ELSE UNCHANGED <<mapped, live, cleanup>>
    /\ pc' = "dispatch"
    /\ UNCHANGED <<sp, altStack, stackOf, rsp, current>>
    /\ UNCHANGED listVars

\* coroDispatch with a coroutine to run: unlink it and resume its context.
Dispatch ==
    /\ pc = "dispatch"
    /\ readyHead # NULL
    /\ coroUnlinkHead
    /\ current' = readyHead
    /\ sp' = rsp[readyHead]
    /\ pc' = "coro"
    /\ UNCHANGED <<altStack, rsp, cleanup>>
    /\ UNCHANGED memVars

\* coroDispatch with nothing to run returns, and schedulerRun with it.
SchedulerReturns ==
    /\ pc = "dispatch"
    /\ readyHead = NULL
    /\ pc' = "teardown"
    /\ UNCHANGED <<sp, altStack, rsp, current, cleanup>>
    /\ UNCHANGED memVars
    /\ UNCHANGED listVars

\* signalTeardown unregisters the alternate stack, then unmaps it.
SignalTeardown ==
    /\ pc = "teardown"
    /\ altStack' = NULL
    /\ mapped' = mapped \ {altStack}
    /\ pc' = "exited"
    /\ UNCHANGED <<sp, live, stackOf, rsp, current, cleanup>>
    /\ UNCHANGED listVars
-----------------------------------------------------------------------------
(* The current coroutine.                                                  *)

Spawn ==
    /\ pc = "coro"
    /\ \E c \in Coro, s \in Stack : spawn(c, s)
    /\ UNCHANGED <<pc, sp, altStack, current, cleanup>>

\* No block or no address range left.  malloc's NULL is written through and
\* faults; mmap's MAP_FAILED passes the null test and fails the check around
\* mprotect.  Both end in abort.
OutOfMemory ==
    /\ pc \in {"setup", "spawnMain", "coro"}
    /\ Stack \subseteq mapped \/ (pc # "setup" /\ Coro \subseteq live)
    /\ pc' = "aborted"
    /\ UNCHANGED <<sp, altStack, rsp, current, cleanup>>
    /\ UNCHANGED memVars
    /\ UNCHANGED listVars

\* yield: queue current, capture its context, and go back to the worker.
Yield ==
    /\ pc = "coro"
    /\ coroQueue(current)
    /\ rsp' = [rsp EXCEPT ![current] = sp]
    /\ current' = NULL
    /\ pc' = "coroReturn"
    /\ UNCHANGED <<sp, altStack, cleanup>>
    /\ UNCHANGED memVars

\* The rest of coroEntry once the coroutine's function has returned: hand the
\* Coro over to the worker, which alone can release the stack being used.
CoroEntryEnd ==
    /\ pc = "coro"
    /\ current' = NULL
    /\ cleanup' = current
    /\ pc' = "coroReturn"
    /\ UNCHANGED <<sp, altStack, rsp>>
    /\ UNCHANGED memVars
    /\ UNCHANGED listVars

\* coroReturn: resume the worker context, which is on the process's stack.
CoroReturn ==
    /\ pc = "coroReturn"
    /\ sp' = NULL
    /\ pc' = "worker"
    /\ UNCHANGED <<altStack, rsp, current, cleanup>>
    /\ UNCHANGED memVars
    /\ UNCHANGED listVars

\* The program faults (a failed bounds check or assert, a null dereference,
\* a stack overflow): signalHandler runs on the alternate stack, reads the
\* stack of the current coroutine for the backtrace, and aborts.
Fault ==
    /\ pc = "coro"
    /\ pc' = "aborted"
    /\ UNCHANGED <<sp, altStack, rsp, current, cleanup>>
    /\ UNCHANGED memVars
    /\ UNCHANGED listVars

\* A process that has exited or aborted takes no more steps.
Stopped == pc \in {"exited", "aborted"} /\ UNCHANGED vars

Next ==
    \/ SignalSetup
    \/ SpawnMain
    \/ Reap
    \/ Dispatch
    \/ SchedulerReturns
    \/ SignalTeardown
    \/ Spawn
    \/ OutOfMemory
    \/ Yield
    \/ CoroEntryEnd
    \/ CoroReturn
    \/ Fault
    \/ Stopped

\* The thread keeps executing, and every coroutine that has the processor
\* eventually gives it up (nothing preempts it).
Fairness ==
    /\ WF_vars(SignalSetup \/ SpawnMain)
    /\ WF_vars(Reap)
    /\ WF_vars(Dispatch \/ SchedulerReturns)
    /\ WF_vars(SignalTeardown)
    /\ WF_vars(Yield \/ CoroEntryEnd)
    /\ WF_vars(CoroReturn)

Spec == Init /\ [][Next]_vars
FairSpec == Spec /\ Fairness
-----------------------------------------------------------------------------
(* Properties.                                                             *)

Queued(c) == \E i \in 1 .. Len(order) : order[i] = c

\* The doubly linked list built by coroQueue and coroDispatch always is the
\* ready queue: from readyHead along next, and from readyTail along prev, it
\* holds exactly the coroutines in the order in which they became ready, each
\* once, with null links at both ends.
ReadyListOK ==
    /\ \A i, j \in 1 .. Len(order) : order[i] = order[j] => i = j
    /\ readyHead = IF order = <<>> THEN NULL ELSE order[1]
    /\ readyTail = IF order = <<>> THEN NULL ELSE order[Len(order)]
    /\ \A i \in 1 .. Len(order) :
          /\ next[order[i]] = IF i = Len(order) THEN NULL ELSE order[i + 1]
          /\ prev[order[i]] = IF i = 1 THEN NULL ELSE order[i - 1]

\* Every allocated Coro is owned by exactly one of the ready list, current and
\* cleanup, and none of the three refers to a block that was freed: no
\* coroutine is lost by yield, run twice, or freed while it can still run.
OwnedOnce ==
    /\ current # NULL => ~ Queued(current)
    /\ cleanup # NULL => ~ Queued(cleanup) /\ cleanup # current
    /\ \A c \in Coro : c \in live <=> (Queued(c) \/ c = current \/ c = cleanup)

\* The thread never executes on a stack that was unmapped (which is why
\* coroEntry leaves the release of its stack to the worker), no two users
\* share a stack, a saved context resumes on its own coroutine's stack, and
\* whenever program code can fault the handler has a mapped alternate stack
\* of its own and a mapped stack to walk for the backtrace.
StackSafe ==
    /\ sp # NULL => sp \in mapped
    /\ \A c \in live : /\ stackOf[c] \in mapped
                       /\ stackOf[c] # altStack
                       /\ rsp[c] = stackOf[c]
    /\ \A c, d \in live : stackOf[c] = stackOf[d] => c = d
    /\ altStack # NULL => altStack \in mapped
    /\ pc = "coro" => /\ current \in live
                      /\ sp = stackOf[current]
                      /\ altStack # NULL

\* None of the asserts of scheduler.cpp can fail: the ones in coroQueue (line
\* 40), coroDispatch (51, 61, 65), coroEntry (84) and yield (106), each at
\* the point of execution where it is evaluated.
AssertionsHold ==
    /\ pc \in {"spawnMain", "coro"} => (readyTail = NULL => readyHead = NULL)
    /\ (pc = "dispatch" /\ readyHead # NULL) =>
          /\ prev[readyHead] = NULL
          /\ next[readyHead] = NULL => readyTail = readyHead
          /\ current = NULL
    /\ pc = "coro" => current # NULL /\ cleanup = NULL

\* aikeEntry returns only when every coroutine has ended, and by then every
\* Coro is freed and every stack, the alternate signal stack too, unmapped.
NoLeakAtExit ==
    pc = "exited" => live = {} /\ mapped = {}

\* The scheduler of the code implements the abstract FIFO scheduler: seen
\* through the history of the ready list, every step of the code is a step
\* of FifoScheduler or changes nothing that a program can observe.
Fifo == INSTANCE FifoScheduler WITH ready <- order, running <- current
ImplementsFifo == Fifo!FifoSpec

\* Starvation freedom: if no coroutine keeps the processor for ever, every
\* coroutine that exists runs again, or the process aborts.
EveryCoroutineRuns ==
    \A c \in Coro :
        (c \in live /\ c # cleanup) ~> (current = c \/ pc = "aborted")
=============================================================================
