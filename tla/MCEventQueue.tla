---------------------------- MODULE MCEventQueue ----------------------------
(* Instances of EventQueue for TLC. *)
EXTENDS EventQueue, TLC

\* The events are interchangeable, and so are the cores.
Symmetry == Permutations(Events) \cup Permutations(Cores)
=============================================================================
