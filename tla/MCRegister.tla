----------------------------- MODULE MCRegister -----------------------------
(* Small sets of registers and the scenarios for the runs of Register.     *)
EXTENDS Register

\* Greater values carry greater timestamps.
Ascending == {[value |-> 1, timestamp |-> 1], [value |-> 2, timestamp |-> 2]}

\* A client lowers the value of the register.
Descending == {[value |-> 2, timestamp |-> 1], [value |-> 1, timestamp |-> 2]}

\* Two operations of each client when nothing fails, one when anything may.
PeaceAndFaults == {[faults |-> {}, ops |-> 2], [faults |-> FaultKinds, ops |-> 1]}

\* Three operations when nothing fails.
Peace == {[faults |-> {}, ops |-> 3]}

\* Replicas cannot be reached.
Partition == {[faults |-> {"unreachable"}, ops |-> 1]}

=============================================================================
