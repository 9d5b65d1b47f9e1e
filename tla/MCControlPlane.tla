--------------------------- MODULE MCControlPlane ---------------------------
(* Instances of ControlPlane for TLC: sets of interchangeable processes. *)
EXTENDS ControlPlane, TLC

Symmetry ==
    Permutations(Handlers) \cup Permutations(Viewers)
        \cup Permutations(Workers) \cup Permutations(Keys)
        \cup Permutations(RogueTasks)

=============================================================================
