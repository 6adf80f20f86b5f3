---- MODULE MCRunFence ----
(***************************************************************************)
(* RunFence with two runs of one lane, the second one requested when the   *)
(* first one is over, and two sessions; one run in the liveness run.       *)
(***************************************************************************)
EXTENDS RunFenceProperties, TLC

CONSTANTS r1, r2, s1, s2

MCRun == {r1, r2}
MCSession == {s1, s2}
MCOneRun == {r1}
MCLane == [r \in Run |-> "BULK"]
Symmetry == Permutations(MCSession) \cup Permutations(MCRun)

=============================================================================
