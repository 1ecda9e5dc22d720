-------------------------- MODULE MCCliqueRegistry --------------------------
(* CliqueRegistry on small instances. *)
EXTENDS CliqueRegistry, TLC

\* Every pid has a slot of its own.
NoCollision == [pid \in Pids |-> pid]

\* All pids share one slot.
OneSlot == [pid \in Pids |-> 1]

\* Programs, pids and places in memory are interchangeable.
Symmetry == Permutations(Comms) \cup Permutations(Proc) \cup Permutations(Pids)
=============================================================================
