---- MODULE ProviderScopesProperties ----
(***************************************************************************)
(* What bulk acquisition promises: rows agree with their items, one claim  *)
(* publishes at a time, and cancelled work stays cancelled.                *)
(***************************************************************************)
EXTENDS ProviderScopes

\* Type correctness of the tables, the processes and the record of commits.
ScopesTypeOK ==
    /\ row \in [Scope -> Row]
    /\ bound \in [Scope -> 0 .. MaxItems]
    /\ item \in [Scope -> [0 .. MaxItems -> Item]]
    /\ runner \in [Runner -> Claimant]
    /\ operator \in [Operator -> Canceller]
    /\ published \in [Scope -> SUBSET Publication]

\* The states of the bound item that a row's status leaves possible.
Allowed(status) ==
    CASE status = "ABSENT" -> {"ABSENT"}
      [] status = "PENDING" -> {"ABSENT", "RETRY_WAIT", "SUCCEEDED", "CANCELLED"}
      [] status = "RUNNING" -> {"RUNNING", "CANCELLED"}
      [] status = "SUCCEEDED" -> {"SUCCEEDED"}
      [] OTHER -> {"RETRY_WAIT", "CANCELLED"}

\* A row and its item change together: no row waits while its item runs, none
\* runs or fails beside an item that has succeeded, none succeeds beside one that
\* has not, and the lease of a running item is the claim on the row.
RowFollowsItem ==
    \A s \in Scope :
        /\ Work(s).state \in Allowed(row[s].status)
        /\ row[s].token = [item |-> bound[s], attempt |-> Work(s).attempt]

\* A scope is asked for anew only when its item has ended: at most one item of a
\* scope can ever run again, the one that is bound.
OneOpenItem ==
    \A s \in Scope : \A n \in 0 .. MaxItems :
        n # bound[s] => item[s][n].state \in Terminal \cup {"ABSENT"}

\* Everything a runner commits for a scope, it commits while the row carries the
\* runner's own claim and the item runs: a run that was paused past its lease, or
\* whose item was cancelled, publishes nothing, although
\* check_provider_scope_work passes when the token is gone from the row.
PublishedUnderClaim ==
    \A s \in Scope : \A p \in published[s] : p.by = p.under /\ p.state = "RUNNING"

\* "Shared cancellation projects a failed scope": once the item is cancelled, the
\* row no longer says that it runs.
CancellationProjected ==
    \A s \in Scope : Work(s).state = "CANCELLED" => row[s].status # "RUNNING"

-----------------------------------------------------------------------------
\* What the row says of its claim.
Holding(s) == IF row[s].status # "RUNNING" THEN "free"
              ELSE IF row[s].fresh THEN "live" ELSE "lapsed"

Promise == INSTANCE ScopePromise WITH
    claim <- [s \in Scope |-> row[s].token],
    held <- [s \in Scope |-> Holding(s)],
    cancelled <- [s \in Scope |-> Work(s).state = "CANCELLED"],
    reopened <- [s \in Scope |-> row[s].status = "PENDING"],
    committed <- [s \in Scope |-> {p.by : p \in published[s]}]

\* Takeovers, replaced items, refreshes, cancellations with an outdated token and
\* claims that act on an old look at the item keep the claims of a scope in order:
\* none is taken over before it has lapsed, cancelled work is claimed anew only in
\* a reopened scope, and a runner commits only under the last claim and before its
\* cancellation (claim_scope, drive_provider_scope_work).
KeepsScopePromise == Promise!Spec

-----------------------------------------------------------------------------
(* Fairness: a runner that can act does and ends its scope at some time;     *)
(* runs keep being started and come to a scope that stays a candidate; a     *)
(* claim nobody works on runs out.                                           *)

Ends(r) ==
    \/ \E outcome \in {"SUCCEEDED", "FAILED", "DEFERRED"} : Settle(r, outcome)
    \/ SettleCancelled(r) \/ LoseScope(r)

Orphaned(s) ==
    /\ \A r \in Runner : ~ (runner[r].scope = s /\ runner[r].token = row[s].token)
    /\ Lapse(s)

ScopesFairSpec ==
    /\ Spec
    /\ \A r \in Runner : WF_vars(Works(r)) /\ SF_vars(Ends(r))
    /\ \A s \in Scope :
        /\ WF_vars(Orphaned(s))
        /\ SF_vars(\E r \in Runner : LookForScope(r, s))
        /\ SF_vars(\E r \in Runner : runner[r].scope = s /\ ClaimScope(r))

\* A claim ends: with an outcome, also after its process died or was paused past
\* its lease, or because its item was cancelled.
EventuallyReleased ==
    \A s \in Scope : row[s].status = "RUNNING" ~>
                        row[s].status # "RUNNING" \/ Work(s).state = "CANCELLED"

=============================================================================
