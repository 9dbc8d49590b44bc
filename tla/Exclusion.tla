---- MODULE Exclusion ----
(* What dsac::mutex and dsac::critical_section promise, in the words of     *)
(* the comments of mutex.hpp and critical_section.hpp: lock() "blocks if    *)
(* the mutex is not available", unlock() makes it available.  The state is  *)
(* the set of threads between the two calls.                                *)
CONSTANT Threads
VARIABLE inside

Available == inside = {}

\* lock() returns to one of the threads, only while the mutex is available.
LockReturns == Available /\ inside' \in {{t} : t \in Threads}

\* unlock() by the one that is inside.
UnlockCalled == ~ Available /\ inside' = {}

Exclusive == Available /\ [][LockReturns \/ UnlockCalled]_inside

====
