---- MODULE RunFenceProperties ----
(***************************************************************************)
(* What must hold of sync runs and their publication fence.                *)
(***************************************************************************)
EXTENDS RunFence

\* Every variable has its type.
RunTypeOK ==
    /\ status \in [Run -> Status]
    /\ work \in [Run -> WorkState]
    /\ left \in [Run -> -1 .. Window]
    /\ row \in [Run -> Change]
    /\ fence \in [Session -> Run \cup {NoRun}]
    /\ cancelling \in [Run -> {"none", "waiting", "held"}]
    /\ host \in [Run -> Host]
    /\ stopped \in [Run -> BOOLEAN]
    /\ alive \in [Run -> BOOLEAN]

\* While a publication of a run is open, the run and its work item are RUNNING,
\* so nothing is committed for a run that was stopped, failed or reported, by
\* whichever of its processes is still alive (authorize_worker_publication).
WriterActive ==
    \A s \in Session : fence[s] # NoRun =>
        status[fence[s]] = "RUNNING" /\ work[fence[s]] = "RUNNING"

\* Open publications of one lane belong to one run, also when the command of
\* an expired run outlives its API process and the lane was handed on.
OneWriterPerLane ==
    \A s, t \in Session :
        NoRun \notin {fence[s], fence[t]} /\ fence[s] # fence[t]
            => Lane[fence[s]] # Lane[fence[t]]

\* What the shared work queue says of a run is what the run's row says, however
\* lease expiry, reports and cancellations race (drive_sync_run_work).
WorkFollowsRun ==
    \A r \in Run :
        work[r] = IF status[r] = "QUEUED" THEN "PENDING" ELSE status[r]

\* A run that is about to be failed as expired is still expired: no heartbeat
\* comes between finding it and failing it.
ExpiryStands == \A r \in Run : row[r] = "expire" => left[r] < 0

-----------------------------------------------------------------------------
\* No two control transactions on a run wait for each other: "run-row cycles"
\* are prevented (architecture.md, "Transaction lock ordering").
NoRunRowCycle == \A r \in Run : ~ (cancelling[r] = "held" /\ row[r] # "none")

-----------------------------------------------------------------------------
Promise == INSTANCE RunPromise WITH
    writers <- [r \in Run |-> {s \in Session : fence[s] = r}]

\* Runs that are requested, started, reported, failed, stopped and expired by
\* goroutines that may die, and cancelled by cancel_work in the opposite lock
\* order, start and end once, one at a time in a lane, and never under an open
\* publication (admin_sync.go, authorize_worker_publication).
KeepsRunPromise == Promise!Spec

-----------------------------------------------------------------------------
\* Database time passes, transactions end, somebody requests runs of the lane
\* over and over, no transaction fails for ever, and PostgreSQL ends deadlocks.
RunFairness ==
    /\ WF_vars(Tick)
    /\ \A s \in Session : WF_vars(EndPublication(s))
    /\ \A r \in Run : /\ SF_vars(LockExpired(r))
                      /\ SF_vars(ChangeStatus(r))
                      /\ SF_vars(CancelCommitted(r))
                      /\ WF_vars(CancelGivenUp(r))

RunFairSpec == Spec /\ RunFairness

\* A run whose goroutine is gone ends, although its command may live on and
\* publish, so that it never occupies its lane for ever.
AbandonedRunEnds ==
    \A r \in Run : Active(r) /\ host[r] = "none" ~> ~ Active(r)

=============================================================================
