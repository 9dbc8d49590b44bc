----------------------------- MODULE ThreadSet ------------------------------
(***************************************************************************)
(* The threads that share a synchronization primitive of dsac.             *)
(***************************************************************************)
EXTENDS FiniteSets

CONSTANTS Threads,  \* the threads that share the primitive
          Nobody    \* the owner of a lock that is free

ASSUME ThreadsAssumption == /\ IsFiniteSet(Threads) /\ Threads # {}
                            /\ Nobody \notin Threads

=============================================================================
