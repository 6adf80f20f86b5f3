---- MODULE MCLockOrder ----
(***************************************************************************)
(* LockOrder with two sessions of one run and one without a run, the run's *)
(* fence, the key of a row and a lock.                                     *)
(***************************************************************************)
EXTENDS LockOrderProperties

CONSTANTS s1, s2, s3, fence, token, lock

MCSession == {s1, s2, s3}
MCKey == {fence, token, lock}
MCRowKey == {token}
MCRank == [k \in MCKey |-> CASE k = fence -> 1 [] k = token -> 2 [] k = lock -> 3]
MCFence == [s \in MCSession |-> IF s = s3 THEN NoFence ELSE fence]

=============================================================================
