---- MODULE MCHistoryWork ----
(***************************************************************************)
(* HistoryWork with one job, two workers, two requests of the job and two  *)
(* attempts of each; a row from before the binding has had one attempt.    *)
(***************************************************************************)
EXTENDS HistoryWorkProperties

CONSTANTS j1, w1, w2

MCJob == {j1}
MCWorker == {w1, w2}
MCLegacyAttempts == {1}

=============================================================================
