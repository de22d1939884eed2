----------------------------- MODULE MCRuntime -----------------------------
(* Model-checking instances of Runtime.                                    *)
EXTENDS Runtime, TLC

\* Coroutine addresses and stacks are compared only for equality.
AddressSymmetry == Permutations(Coro) \cup Permutations(Stack)

\* Bound for a single coroutine: it goes on when it runs.  There is no one to
\* yield to, and what the scheduler does when it ends leaves the collector alone.
BusyNext ==
    \/ pc # "coro" /\ SpawnWithStack
    \/ pc # "coro" /\ SchedulerStep
    \/ New
    \/ NewPanics
    \/ Mutate
    \/ Collect
    \/ CollectStep

BusySpec == RuntimeInit /\ [][BusyNext]_rvars
=============================================================================
