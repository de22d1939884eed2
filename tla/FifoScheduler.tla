--------------------------- MODULE FifoScheduler ---------------------------
(***************************************************************************)
(* What the coroutine scheduler of the Aike runtime promises to a program: *)
(* at most one coroutine runs at a time, and coroutines that can run get   *)
(* the processor strictly in the order in which they became ready.         *)
(* Nothing is said here of lists, stacks or contexts; Scheduler.tla, the   *)
(* translation of runtime/scheduler.cpp, is shown to implement this.       *)
(***************************************************************************)
EXTENDS Sequences, Naturals

CONSTANTS Coro, NULL

VARIABLES
    ready,      \* the coroutines that can run, the next one to run first
    running     \* the coroutine that has the processor, or NULL

fifoVars == <<ready, running>>

FifoInit ==
    /\ ready = <<>>
    /\ running = NULL

\* A program (or the start of the process) creates a coroutine: it joins at
\* the back, whoever is running keeps running.
FifoSpawn(c) ==
    /\ \A i \in 1 .. Len(ready) : ready[i] # c
    /\ running # c
    /\ ready' = Append(ready, c)
    /\ UNCHANGED running

\* The running coroutine gives up the processor and joins at the back.
FifoYield ==
    /\ running # NULL
    /\ ready' = Append(ready, running)
    /\ running' = NULL

\* The running coroutine ends and is never run again.
FifoFinish ==
    /\ running # NULL
    /\ running' = NULL
    /\ UNCHANGED ready

\* An idle processor takes the coroutine that has waited longest.
FifoRun ==
    /\ running = NULL
    /\ ready # <<>>
    /\ running' = ready[1]
    /\ ready' = Tail(ready)

FifoNext ==
    \/ \E c \in Coro : FifoSpawn(c)
    \/ FifoYield
    \/ FifoFinish
    \/ FifoRun

FifoSpec == FifoInit /\ [][FifoNext]_fifoVars
=============================================================================
