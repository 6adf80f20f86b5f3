---- MODULE ForecastRefreshProperties ----
(***************************************************************************)
(* What must hold of the forecast worklist and the batches that work it    *)
(* off.                                                                    *)
(***************************************************************************)
EXTENDS ForecastRefresh

\* Every variable has its type.
RefreshTypeOK ==
    /\ team \in [Fixture -> Team]
    /\ live \in [Fixture -> BOOLEAN]
    /\ history \in [Team -> 0 .. MaxHistory]
    /\ generation \in [Fixture -> Generation]
    /\ completed \in [Fixture -> Generation]
    /\ item \in [Fixture -> [Generation -> ItemState]]
    /\ issued \in [Fixture -> SUBSET (Team \X (0 .. MaxHistory))]
    /\ latest \in [Fixture -> (Team \cup {NoTeam}) \X (0 .. MaxHistory)]
    /\ kind \in [Writer -> {"none", "decision", "change"}]
    /\ change \in [Writer -> Change \cup {NoChange}]
    /\ decided \in [Writer -> SUBSET Team]
    /\ wanted \in [Writer -> SUBSET Fixture]
    /\ written \in [Writer -> SUBSET Fixture]
    /\ step \in [Refresher -> Step]
    /\ captured \in [Refresher -> [Fixture -> Generation]]
    /\ read \in [Refresher -> [Fixture -> Team \cup {NoTeam}]]
    /\ seen \in [Refresher -> [Team -> 0 .. MaxHistory]]
    /\ verdict \in [Refresher -> [Fixture -> Verdict]]

\* A live fixture that is not pending has a forecast made of its present teams
\* and kickoff and of all the history that is decided: no decision or change
\* that comes while a batch prepares, locks or publishes is lost.
Fresh == \A f \in Fixture : live[f] /\ ~ Pending(f) => Current(f) \in issued[f]

\* A generation is the completed one only if its own item succeeded, and no
\* item succeeded that is not covered: "completion records only the captured
\* generation" (complete_forecast_generations).
GenerationsAgree ==
    \A f \in Fixture :
        /\ completed[f] > 0 => item[f][completed[f]] = "SUCCEEDED"
        /\ \A g \in Generation : item[f][g] = "SUCCEEDED" => g <= completed[f]

\* An item is given up as superseded only if a newer generation is committed;
\* one that is being written does not count, for it may be rolled back
\* (claim_forecast_generations).
SupersededIsOld ==
    \A f \in Fixture, g \in Generation :
        item[f][g] = "SUPERSEDED" => g < generation[f]

\* What became of an item is final: a cancelled generation is not worked off
\* by a later batch, although its fixture is still listed (claim_work).
OutcomeStands ==
    [][\A f \in Fixture, g \in Generation :
            item[f][g] \notin {"ABSENT", "RETRY_WAIT"} => item'[f][g] = item[f][g]]_vars

-----------------------------------------------------------------------------
\* "A superseded generation is cancelled" (architecture.md, "Shared work"): the
\* item of a generation older than the completed one waits for no retry.
SupersededCancelled ==
    \A f \in Fixture, g \in Generation :
        g < completed[f] => item[f][g] # "RETRY_WAIT"

\* "The forecast builder publishes immutable revisions only when its predictive
\* inputs change" (architecture.md): the latest revision, the one that is
\* served, is the one made of the present inputs.
LatestIsCurrent ==
    \A f \in Fixture : live[f] /\ ~ Pending(f) => latest[f] = Current(f)

-----------------------------------------------------------------------------
Promise == INSTANCE ForecastPromise WITH
    History <- 0 .. MaxHistory,
    stale <- {f \in Fixture : Pending(f)}

\* Triggers, generations and batches, which write rows one by one, skip locked
\* ones and are rolled back, make a fixture stale in the step that makes its
\* forecast outdated, and stop it being stale only with the forecast of that
\* moment; whatever else a batch prepared is never published
\* (refresh_pending_forecasts, complete_forecast_generations).
KeepsForecastPromise == Promise!Spec

-----------------------------------------------------------------------------
\* A transaction, or a batch, ends.
EndWriter(w) == CommitWriter(w) \/ RollBackWriter(w)
EndBatch(r) == CommitBatch(r) \/ RollBackBatch(r)

\* A batch gets the row of f and of its competition, claims f if it can,
\* finds the detail row free, and commits what it did for f.
LockFixture(r, f) == \E F \in SUBSET Fixture : f \in F /\ LockFixtures(r, F)
ClaimFixture(r, f) == verdict[r][f] = "locked" /\ Claim(r)
FindFree(r, f) == LockDetail(r, f) /\ \A w \in Writer : f \notin written[w]
CommitFixture(r, f) == verdict[r][f] = "selected" /\ CommitBatch(r)

\* Transactions and batches end, and the runner starts batches over and over:
\* failures and locked rows do not come in the way of every one of them.
RefreshFairness ==
    /\ \A w \in Writer : WF_vars(EndWriter(w))
    /\ \A r \in Refresher : WF_vars(EndBatch(r))
    /\ \E r \in Refresher :
        /\ SF_vars(Capture(r)) /\ SF_vars(ReadFixtures(r)) /\ SF_vars(ReadHistory(r))
        /\ \A f \in Fixture : /\ SF_vars(LockFixture(r, f)) /\ SF_vars(ClaimFixture(r, f))
                              /\ SF_vars(FindFree(r, f)) /\ SF_vars(CommitFixture(r, f))

RefreshFairSpec == Spec /\ RefreshFairness

\* When nobody changes fixtures or history any more, every pending fixture is
\* worked off, unless an operator cancelled the item of its generation: no
\* busy row, failed batch or superseded generation has left it behind.
EventuallyRefreshed ==
    <>[](\A w \in Writer : kind[w] = "none") =>
        \A f \in Fixture :
            Pending(f) ~> ~ Pending(f) \/ item[f][generation[f]] = "CANCELLED"

=============================================================================
