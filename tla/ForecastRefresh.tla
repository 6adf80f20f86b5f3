---- MODULE ForecastRefresh ----
(***************************************************************************)
(* The worklist of fixtures whose forecast must be made anew               *)
(* (product_forecast_refresh_work), the database triggers that write it    *)
(* and the batches that work it off (ProductSync.refresh_pending_forecasts *)
(* with claim_forecast_generations and complete_forecast_generations).     *)
(*                                                                         *)
(* A batch is one READ COMMITTED transaction: what it does to work items,  *)
(* completions and forecasts is seen by others when it commits, but each   *)
(* of its statements sees what others have committed by then.  It waits    *)
(* for nobody: a row somebody has locked is skipped.                       *)
(*                                                                         *)
(* The teams and the kickoff of a fixture, which select the history its    *)
(* forecast is made of, are its team; a history decision adds one to the   *)
(* history of a team; a forecast is the pair it was made of, whether it    *)
(* says something or that there is not enough history.  Competition rows,  *)
(* held by transactions that are not modelled, make a batch skip any       *)
(* fixtures, and so do the limit of 32 and the authorisation of a run      *)
(* (RunFence).  Fixtures are numbered in the order of their ids.           *)
(***************************************************************************)
EXTENDS Integers

CONSTANTS
    Fixture,        \* fixture ids, numbers
    Team,
    NoTeam,         \* the team of a fixture a batch did not prepare
    NoChange,       \* no fixture is changed
    Writer,         \* sessions that change fixtures and decide on history
    Refresher,      \* sessions that work batches off
    MaxGeneration,  \* bound on the generations of a fixture
    MaxHistory      \* bound on the decisions about a team

ASSUME FixtureType == Fixture \subseteq Nat
ASSUME TeamNull == NoTeam \notin Team
ASSUME GenerationBound == MaxGeneration \in Nat
ASSUME HistoryBound == MaxHistory \in Nat

Change == [fixture : Fixture, team : Team, live : BOOLEAN]

ASSUME ChangeNull == NoChange \notin Change

VARIABLES
    team,       \* team[f]: whose history the forecast of f is made of
    live,       \* live[f]: f is scheduled, verified and before kickoff
    history,    \* history[t]: the number of decisions about t
    generation, \* generation[f], 0 without a worklist row
    completed,  \* completed[f]: its completed_generation
    item,       \* item[f][g]: the work item of generation g of f
    issued,     \* issued[f]: the forecasts of f
    latest,     \* latest[f]: the one created last, which readers are served
    kind,       \* kind[w]: what transaction w has open
    change,     \* change[w]: the fixture it changes, and to what
    decided,    \* decided[w]: the teams it decided on
    wanted,     \* wanted[w]: worklist rows it has still to write
    written,    \* written[w]: worklist rows it has written, and locked
    step,       \* step[r]: how far the batch of r is
    captured,   \* captured[r][f]: the generation r saw pending, or 0
    read,       \* read[r][f]: the team r prepared f for
    seen,       \* seen[r][t]: the history of t as r knows it
    verdict     \* verdict[r][f]: what r does with f

facts == <<team, live, history>>
worklist == <<generation, completed, item, issued, latest>>
writing == <<kind, change, decided, wanted, written>>
batch == <<step, captured, read, seen, verdict>>
vars == <<facts, worklist, writing, batch>>

Generation == 0 .. MaxGeneration
\* SUPERSEDED is CANCELLED by the batch that met a newer generation; CANCELLED, by
\* an operator.
ItemState == {"ABSENT", "RETRY_WAIT", "SUCCEEDED", "SUPERSEDED", "CANCELLED"}
Step == {"idle", "captured", "read", "prepared", "locked", "claimed"}
Verdict == {"none", "locked", "claimed", "busy", "superseded", "selected"}

Pending(f) == generation[f] > completed[f]
Current(f) == <<team[f], history[team[f]]>>

\* Transaction w changes fixture f.
Changes(w, f) == change[w] # NoChange /\ change[w].fixture = f

\* Row locks.
FixtureLocked(f) == \/ \E w \in Writer : Changes(w, f)
                    \/ \E r \in Refresher : verdict[r][f] # "none"
Selected(f) == \E r \in Refresher : verdict[r][f] = "selected"

-----------------------------------------------------------------------------
(* Transactions that change what forecasts are made of *)

\* Mutant of Exclusive: fixtures change under the shared identity lock.
SharedWithDecisions(w) == kind[w] = "none" /\ \A v \in Writer : kind[v] # "change"

\* The identity lock is free, to be had exclusively.
Exclusive(w) == \A v \in Writer : kind[v] = "none"

\* It is free or shared.
Shared(w) == kind[w] = "none" /\ \A v \in Writer : kind[v] # "change"

\* The fixtures the history trigger lists.
Affected(T) == {f \in Fixture : live[f] /\ team[f] \in T}

\* record_product_history_decisions: the trigger finds its targets when the
\* statement starts, and then writes their rows.
Decide(w, T) ==
    /\ Shared(w)
    /\ kind' = [kind EXCEPT ![w] = "decision"]
    /\ decided' = [decided EXCEPT ![w] = T]
    /\ wanted' = [wanted EXCEPT ![w] = Affected(T)]
    /\ UNCHANGED <<facts, worklist, change, written, batch>>

\* A fixture is inserted, rescheduled, corrected, postponed, finished, or
\* requested again; the transaction may decide on history too (T), for which
\* the fixture has its new state.  The fixture trigger lists it if it is live.
ChangeFixture(w, c, T) ==
    LET F == {f \in {c.fixture} : c.live} \cup (Affected(T) \ {c.fixture})
    IN /\ Exclusive(w)
       /\ \A r \in Refresher : verdict[r][c.fixture] = "none"
       /\ kind' = [kind EXCEPT ![w] = "change"]
       /\ change' = [change EXCEPT ![w] = c]
       /\ decided' = [decided EXCEPT ![w] = T]
       /\ wanted' = [wanted EXCEPT ![w] = F]
       /\ UNCHANGED <<facts, worklist, written, batch>>

\* The row of the next fixture is free: its generation is increased, for this
\* transaction (INSERT ... ON CONFLICT DO UPDATE, in the order of the ids).
Write(w, f) ==
    /\ f \in wanted[w] /\ \A g \in wanted[w] : f <= g
    /\ ~ Selected(f) /\ \A v \in Writer : f \notin written[v]
    /\ wanted' = [wanted EXCEPT ![w] = @ \ {f}]
    /\ written' = [written EXCEPT ![w] = @ \cup {f}]
    /\ UNCHANGED <<facts, worklist, kind, change, decided, batch>>

Over(w) == /\ kind' = [kind EXCEPT ![w] = "none"]
           /\ change' = [change EXCEPT ![w] = NoChange]
           /\ decided' = [decided EXCEPT ![w] = {}]
           /\ wanted' = [wanted EXCEPT ![w] = {}]
           /\ written' = [written EXCEPT ![w] = {}]
           /\ UNCHANGED batch

\* The transaction commits; beyond the bounds it can only roll back.
CommitWriter(w) ==
    /\ kind[w] # "none" /\ wanted[w] = {}
    /\ \A f \in written[w] : generation[f] < MaxGeneration
    /\ \A t \in decided[w] : history[t] < MaxHistory
    /\ generation' = [f \in Fixture |->
            IF f \in written[w] THEN generation[f] + 1 ELSE generation[f]]
    /\ history' = [t \in Team |-> IF t \in decided[w] THEN history[t] + 1 ELSE history[t]]
    /\ team' = [f \in Fixture |-> IF Changes(w, f) THEN change[w].team ELSE team[f]]
    /\ live' = [f \in Fixture |-> IF Changes(w, f) THEN change[w].live ELSE live[f]]
    /\ Over(w)
    /\ UNCHANGED <<completed, item, issued, latest>>

RollBackWriter(w) ==
    /\ kind[w] # "none"
    /\ Over(w)
    /\ UNCHANGED <<facts, worklist>>

\* Time passes the kickoff of f; nothing is written.
Kickoff(f) ==
    /\ live[f]
    /\ live' = [live EXCEPT ![f] = FALSE]
    /\ UNCHANGED <<team, history, worklist, writing, batch>>

-----------------------------------------------------------------------------
(* A batch: refresh_pending_forecasts *)

Goes(r, s) == step' = [step EXCEPT ![r] = s]

\* The pending fixtures and their generations; the knowledge cutoff is next.
Capture(r) ==
    /\ step[r] = "idle" /\ \E f \in Fixture : Pending(f)
    /\ Goes(r, "captured")
    /\ captured' = [captured EXCEPT ![r] =
            [f \in Fixture |-> IF Pending(f) THEN generation[f] ELSE 0]]
    /\ seen' = [seen EXCEPT ![r] = history]
    /\ UNCHANGED <<facts, worklist, writing, read, verdict>>

\* _prepare_forecasts reads the fixtures among them that are live ...
ReadFixtures(r) ==
    /\ step[r] = "captured"
    /\ Goes(r, "read")
    /\ read' = [read EXCEPT ![r] = [f \in Fixture |->
            IF captured[r][f] > 0 /\ live[f] THEN team[f] ELSE NoTeam]]
    /\ UNCHANGED <<facts, worklist, writing, captured, seen, verdict>>

\* ... and the history of their teams: whatever was committed at the cutoff
\* and, of what has been since, what was decided before it.
ReadHistory(r) ==
    /\ step[r] = "read"
    /\ Goes(r, "prepared")
    /\ \E known \in [Team -> 0 .. MaxHistory] :
        /\ \A t \in Team : IF \E f \in Fixture : read[r][f] = t
                           THEN known[t] \in seen[r][t] .. history[t] ELSE known[t] = 0
        /\ seen' = [seen EXCEPT ![r] = known]
    /\ UNCHANGED <<facts, worklist, writing, captured, read, verdict>>

\* The fixtures that are still pending, if somebody has not locked them; the
\* others are left to a later batch.
LockFixtures(r, F) ==
    /\ step[r] = "prepared" /\ F # {}
    /\ \A f \in F : captured[r][f] > 0 /\ Pending(f) /\ ~ FixtureLocked(f)
    /\ Goes(r, "locked")
    /\ captured' = [captured EXCEPT ![r] =
            [f \in Fixture |-> IF f \in F THEN captured[r][f] ELSE 0]]
    /\ read' = [read EXCEPT ![r] =
            [f \in Fixture |-> IF f \in F THEN read[r][f] ELSE NoTeam]]
    /\ verdict' = [verdict EXCEPT ![r] =
            [f \in Fixture |-> IF f \in F THEN "locked" ELSE "none"]]
    /\ UNCHANGED <<facts, worklist, writing, seen>>

\* Mutant of Claimable: an item is claimed whatever became of it.
ClaimableAnyway(r, f) ==
    /\ verdict[r][f] = "locked" /\ Pending(f)
    /\ generation[f] = captured[r][f]

\* claim_forecast_generations asks for work on the captured generations that
\* are pending still; items that were decided are not claimed again.
Claimable(r, f) ==
    /\ verdict[r][f] = "locked" /\ Pending(f)
    /\ generation[f] = captured[r][f]
    /\ item[f][captured[r][f]] \in {"ABSENT", "RETRY_WAIT"}

Claim(r) ==
    /\ step[r] = "locked"
    /\ Goes(r, "claimed")
    /\ verdict' = [verdict EXCEPT ![r] = [f \in Fixture |->
            IF Claimable(r, f) THEN "claimed" ELSE verdict[r][f]]]
    /\ UNCHANGED <<facts, worklist, writing, captured, read, seen>>

\* Mutant of Found: a locked row is taken for a newer generation.
FoundLockedNewer(r, f) ==
    IF \E w \in Writer : f \in written[w] THEN "superseded"
    ELSE IF generation[f] = captured[r][f] THEN "selected" ELSE "superseded"

\* What SELECT ... FOR UPDATE SKIP LOCKED says of the worklist row of f.
Found(r, f) ==
    IF \E w \in Writer : f \in written[w] THEN "busy"
    ELSE IF generation[f] = captured[r][f] THEN "selected" ELSE "superseded"

\* The detail rows of the claims, in the order of the fixtures.
LockDetail(r, f) ==
    /\ step[r] = "claimed"
    /\ verdict[r][f] = "claimed"
    /\ \A g \in Fixture : verdict[r][g] = "claimed" => f <= g
    /\ verdict' = [verdict EXCEPT ![r][f] = Found(r, f)]
    /\ UNCHANGED <<facts, worklist, writing, step, captured, read, seen>>

\* Mutant of Outcome: the claim of a busy row is kept.
OutcomeKept(r, f) == CASE verdict[r][f] = "busy" -> "RUNNING"
                       [] verdict[r][f] = "superseded" -> "SUPERSEDED"
                       [] verdict[r][f] = "selected" -> "SUCCEEDED"

\* What becomes of the item: fail_work RETRYABLE without a delay or CANCELLED,
\* or finish_work.
Outcome(r, f) == CASE verdict[r][f] = "busy" -> "RETRY_WAIT"
                   [] verdict[r][f] = "superseded" -> "SUPERSEDED"
                   [] verdict[r][f] = "selected" -> "SUCCEEDED"

\* _publish_prepared_forecast publishes if the fixture is still what it was.
Published(r) == {f \in Fixture : /\ verdict[r][f] = "selected"
                                 /\ read[r][f] # NoTeam
                                 /\ live[f] /\ team[f] = read[r][f]}

\* The forecast it inserts, unless there is the same already (ON CONFLICT DO
\* NOTHING).
Forecast(r, f) == <<read[r][f], seen[r][read[r][f]]>>

NewBatch(r) ==
    /\ Goes(r, "idle")
    /\ captured' = [captured EXCEPT ![r] = [f \in Fixture |-> 0]]
    /\ read' = [read EXCEPT ![r] = [f \in Fixture |-> NoTeam]]
    /\ seen' = [seen EXCEPT ![r] = [t \in Team |-> 0]]
    /\ verdict' = [verdict EXCEPT ![r] = [f \in Fixture |-> "none"]]
    /\ UNCHANGED <<facts, writing>>

\* Mutant of CommitBatch: whatever is pending by then is completed.
CommitBatchAll(r) ==
    /\ step[r] = "claimed" /\ \A f \in Fixture : verdict[r][f] # "claimed"
    /\ item' = [f \in Fixture |->
            IF verdict[r][f] \in {"busy", "superseded", "selected"}
            THEN [item[f] EXCEPT ![captured[r][f]] = Outcome(r, f)] ELSE item[f]]
    /\ issued' = [f \in Fixture |-> IF f \in Published(r)
            THEN issued[f] \cup {Forecast(r, f)} ELSE issued[f]]
    /\ latest' = [f \in Fixture |->
            IF f \in Published(r) /\ Forecast(r, f) \notin issued[f]
            THEN Forecast(r, f) ELSE latest[f]]
    /\ completed' = [f \in Fixture |->
            IF verdict[r][f] \in {"busy", "superseded", "selected"}
            THEN generation[f] ELSE completed[f]]
    /\ UNCHANGED generation
    /\ NewBatch(r)

\* The forecasts are published, the selected generations completed
\* (complete_forecast_generations), and the transaction commits.
CommitBatch(r) ==
    /\ step[r] = "claimed" /\ \A f \in Fixture : verdict[r][f] # "claimed"
    /\ item' = [f \in Fixture |->
            IF verdict[r][f] \in {"busy", "superseded", "selected"}
            THEN [item[f] EXCEPT ![captured[r][f]] = Outcome(r, f)] ELSE item[f]]
    /\ issued' = [f \in Fixture |-> IF f \in Published(r)
            THEN issued[f] \cup {Forecast(r, f)} ELSE issued[f]]
    /\ latest' = [f \in Fixture |->
            IF f \in Published(r) /\ Forecast(r, f) \notin issued[f]
            THEN Forecast(r, f) ELSE latest[f]]
    /\ completed' = [f \in Fixture |->
            IF verdict[r][f] = "selected" /\ completed[f] < captured[r][f]
            THEN captured[r][f] ELSE completed[f]]
    /\ UNCHANGED generation
    /\ NewBatch(r)

\* It fails, its client is gone, or it found nothing it could lock: nothing of
\* it happened.
RollBackBatch(r) ==
    /\ step[r] # "idle"
    /\ NewBatch(r)
    /\ UNCHANGED worklist

\* An operator cancels the item of a generation (cancel_work); the row of an
\* item that a batch has claimed is locked.
CancelItem(f, g) ==
    /\ item[f][g] = "RETRY_WAIT"
    /\ \A r \in Refresher : verdict[r][f] \in {"none", "locked"} \/ captured[r][f] # g
    /\ item' = [item EXCEPT ![f][g] = "CANCELLED"]
    /\ UNCHANGED <<facts, generation, completed, issued, latest, writing, batch>>

-----------------------------------------------------------------------------
Init ==
    /\ team \in [Fixture -> Team]
    /\ live = [f \in Fixture |-> FALSE]
    /\ history = [t \in Team |-> 0]
    /\ generation = [f \in Fixture |-> 0]
    /\ completed = [f \in Fixture |-> 0]
    /\ item = [f \in Fixture |-> [g \in Generation |-> "ABSENT"]]
    /\ issued = [f \in Fixture |-> {}]
    /\ latest = [f \in Fixture |-> <<NoTeam, 0>>]
    /\ kind = [w \in Writer |-> "none"]
    /\ change = [w \in Writer |-> NoChange]
    /\ decided = [w \in Writer |-> {}]
    /\ wanted = [w \in Writer |-> {}]
    /\ written = [w \in Writer |-> {}]
    /\ step = [r \in Refresher |-> "idle"]
    /\ captured = [r \in Refresher |-> [f \in Fixture |-> 0]]
    /\ read = [r \in Refresher |-> [f \in Fixture |-> NoTeam]]
    /\ seen = [r \in Refresher |-> [t \in Team |-> 0]]
    /\ verdict = [r \in Refresher |-> [f \in Fixture |-> "none"]]

Next ==
    \/ \E w \in Writer, T \in (SUBSET Team) \ {{}} : Decide(w, T)
    \/ \E w \in Writer, c \in Change, T \in SUBSET Team : ChangeFixture(w, c, T)
    \/ \E w \in Writer, f \in Fixture : Write(w, f)
    \/ \E w \in Writer : CommitWriter(w)
    \/ \E w \in Writer : RollBackWriter(w)
    \/ \E f \in Fixture : Kickoff(f)
    \/ \E r \in Refresher : Capture(r)
    \/ \E r \in Refresher : ReadFixtures(r)
    \/ \E r \in Refresher : ReadHistory(r)
    \/ \E r \in Refresher, F \in SUBSET Fixture : LockFixtures(r, F)
    \/ \E r \in Refresher : Claim(r)
    \/ \E r \in Refresher, f \in Fixture : LockDetail(r, f)
    \/ \E r \in Refresher : CommitBatch(r)
    \/ \E r \in Refresher : RollBackBatch(r)
    \/ \E f \in Fixture, g \in Generation : CancelItem(f, g)

Spec == Init /\ [][Next]_vars

=============================================================================
