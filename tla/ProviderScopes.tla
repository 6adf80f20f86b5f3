---- MODULE ProviderScopes ----
(***************************************************************************)
(* Bulk history of a provider: one row per league and season, claimed by   *)
(* operator runs of run_scopes, each claim backed by a shared work item.   *)
(* Row and item change in one transaction, in the trigger on the row; only *)
(* an operator's cancellation starts from the item.                        *)
(*                                                                         *)
(* A publication is a transaction: its first write locks the row           *)
(* (authorize_worker_publication), its last statement checks the item.     *)
(* A cancellation reads the row's claim token before it locks anything.    *)
(* A claim is one statement in two actions: its snapshot finds a candidate *)
(* and shows the item; later it locks the row, tests the row as it is now  *)
(* against that old look at the item, and the trigger looks at both again. *)
(* Every other transaction here is one action: it locks the row first.     *)
(*                                                                         *)
(* Simplifications.  claimed_at and lease_until are written together, half *)
(* an hour apart, so one flag says whether both are in date; Lapse is the  *)
(* clock, and a heartbeat, which renews what is in date and fails          *)
(* otherwise, leaves the flag alone.  next_attempt_at and available_at are *)
(* equal wherever both matter and are the flag due.  A token is the item   *)
(* and the attempt it was drawn for, as in WorkQueue.  The attempt budget  *)
(* of an item (2^31 - 1 less the attempts of the row) is never used up.    *)
(* Which scope a run takes first, its filters and its budget are left      *)
(* open.  Scopes claimed before items existed are left out.                *)
(***************************************************************************)
EXTENDS Naturals

CONSTANTS
    Scope,          \* the league seasons of one provider
    Current,        \* those whose season may still change
    Runner,         \* processes that execute run_scopes
    Operator,       \* administrators who cancel work
    NoScope,        \* a runner or an operator at rest
    MaxItems,       \* bound on the work items of one scope
    MaxAttempts     \* bound on the attempts of one item

ASSUME CurrentScopes == Current \subseteq Scope /\ NoScope \notin Scope
ASSUME ScopeBounds == MaxItems \in Nat \ {0} /\ MaxAttempts \in Nat \ {0}

VARIABLES
    row,        \* row[s]: the row of scope s
    bound,      \* bound[s]: the item bound to s, 0 for none
    item,       \* item[s][n]: the n-th item made for s
    runner,     \* runner[r]: where runner r is and the claim it holds
    operator,   \* operator[o]: the item o is about to cancel, the token it read
    published   \* published[s]: for every kind of commit under a claim of s, the
                \* claim it was made under, the claim on the row, the item's state

vars == <<row, bound, item, runner, operator, published>>

Status == {"ABSENT", "PENDING", "RUNNING", "SUCCEEDED", "FAILED", "DEFERRED"}
State == {"ABSENT", "RUNNING", "RETRY_WAIT", "SUCCEEDED", "CANCELLED"}
Terminal == {"SUCCEEDED", "CANCELLED"}

\* A lease token; item 0 stands for a row never claimed.
Token == [item : 0 .. MaxItems, attempt : 0 .. MaxAttempts]
NoToken == [item |-> 0, attempt |-> 0]

Row == [status : Status, token : Token, fresh : BOOLEAN, due : BOOLEAN]
Item == [state : State, attempt : 0 .. MaxAttempts]

\* What the snapshot of a claim shows of the item bound to its candidate.
Look == {"none", "open", "cancelled", "lapsed"}

\* erred: a publication was rolled back, so the scope cannot end SUCCEEDED.
Claimant == [place : {"idle", "claiming", "working", "publishing"},
             scope : Scope \cup {NoScope}, look : Look, token : Token, erred : BOOLEAN]
Canceller == [scope : Scope \cup {NoScope}, item : 0 .. MaxItems, token : Token]
Publication == [by : Token, under : Token, state : State]

IdleRunner == [place |-> "idle", scope |-> NoScope, look |-> "none",
               token |-> NoToken, erred |-> FALSE]
IdleOperator == [scope |-> NoScope, item |-> 0, token |-> NoToken]

\* Item 0 stays ABSENT.
Work(s) == item[s][bound[s]]

\* Only an open publication holds a row's lock from one action to the next.
RowFree(s) == \A r \in Runner : ~ (runner[r].place = "publishing" /\ runner[r].scope = s)

-----------------------------------------------------------------------------
(* Rows.                                                                     *)

EnqueueScope(s) ==
    /\ row[s].status = "ABSENT"
    /\ row' = [row EXCEPT ![s].status = "PENDING", ![s].due = TRUE]
    /\ UNCHANGED <<bound, item, runner, operator, published>>

\* A run started with refresh reopens the scopes it selects, but no claimed one.
Eligible(s) == row[s].status \notin {"ABSENT", "RUNNING"} /\ row[s].due

Refresh(S) ==
    /\ \E s \in S : Eligible(s)
    /\ \A s \in S : Eligible(s) => RowFree(s)
    /\ \E r \in Runner : runner[r].place = "idle"
    /\ row' = [s \in Scope |-> IF s \in S /\ Eligible(s)
                               THEN [row[s] EXCEPT !.status = "PENDING"] ELSE row[s]]
    /\ UNCHANGED <<bound, item, runner, operator, published>>

\* next_attempt_at passes.
FallDue(s) ==
    /\ row[s].status \in {"SUCCEEDED", "FAILED", "DEFERRED"} /\ ~ row[s].due
    /\ row' = [row EXCEPT ![s].due = TRUE]
    /\ UNCHANGED <<bound, item, runner, operator, published>>

\* Half an hour passes without a heartbeat.  The last attempt the bound allows
\* keeps its lease.
Lapse(s) ==
    /\ row[s].status = "RUNNING" /\ row[s].fresh
    /\ row[s].token.attempt < MaxAttempts
    /\ row' = [row EXCEPT ![s].fresh = FALSE]
    /\ UNCHANGED <<bound, item, runner, operator, published>>

-----------------------------------------------------------------------------
(* Claims.                                                                   *)

\* Mutant of Lapsed: a lapsed claim is never taken over.
NeverLapsed(s) == Work(s).state = "RUNNING" /\ s \notin Scope

\* The lease of the claim has run out.
Lapsed(s) == Work(s).state = "RUNNING" /\ ~ row[s].fresh

LookAt(s) == CASE Work(s).state = "CANCELLED" -> "cancelled"
               [] Lapsed(s) -> "lapsed"
               [] OTHER -> "open"

\* The condition of claim_scope, with look for the item: cancelled work is left
\* alone until somebody reopens the scope.
Candidate(s, look) ==
    /\ row[s].due
    /\ look = "cancelled" => row[s].status = "PENDING"
    /\ \/ row[s].status \in {"PENDING", "FAILED", "DEFERRED"}
       \/ row[s].status = "SUCCEEDED" /\ s \in Current
       \/ row[s].status = "RUNNING" /\ look = "lapsed"

LookForScope(r, s) ==
    /\ runner[r].place = "idle"
    /\ Candidate(s, LookAt(s))
    /\ runner' = [runner EXCEPT ![r] = [IdleRunner EXCEPT !.place = "claiming",
                                            !.scope = s, !.look = LookAt(s)]]
    /\ UNCHANGED <<row, bound, item, operator, published>>

\* Mutant of CalledOff: the trigger relies on the condition of claim_scope.
CalledOffBefore(s) == Work(s).state = "CANCELLED" /\ s \notin Scope

\* The trigger drops the update: the work was cancelled, perhaps since the look,
\* and nobody has reopened the scope.
CalledOff(s) == Work(s).state = "CANCELLED" /\ row[s].status # "PENDING"

\* Mutant of ItemToClaim: the row of an item that waits for its retry gets another item.
ItemToClaimAnew(s) ==
    IF bound[s] = 0 \/ Work(s).state # "RUNNING" THEN bound[s] + 1 ELSE bound[s]

\* The trigger makes a new item when the bound one has ended.
ItemToClaim(s) ==
    IF bound[s] = 0 \/ Work(s).state \in Terminal THEN bound[s] + 1 ELSE bound[s]

\* claim_work takes the item: it is new, waits for its retry, or has lapsed.
Takeable(s, n) ==
    \/ item[s][n].state \in {"ABSENT", "RETRY_WAIT"}
    \/ item[s][n].state = "RUNNING" /\ ~ row[s].fresh

\* The row is locked, tested again, and the trigger takes the item.  A change of
\* the item between the lock and the trigger is one before the lock.
ClaimScope(r) ==
    LET s == runner[r].scope
        n == ItemToClaim(s)
        token == [item |-> n, attempt |-> item[s][n].attempt + 1] IN
    /\ runner[r].place = "claiming"
    /\ RowFree(s) /\ Candidate(s, runner[r].look)
    /\ ~ CalledOff(s)
    /\ n <= MaxItems
    /\ item[s][n].attempt < MaxAttempts
    /\ Takeable(s, n)
    /\ item' = [item EXCEPT ![s][n] = [state |-> "RUNNING", attempt |-> token.attempt]]
    /\ bound' = [bound EXCEPT ![s] = n]
    /\ row' = [row EXCEPT ![s] = [status |-> "RUNNING", token |-> token,
                                  fresh |-> TRUE, due |-> TRUE]]
    /\ runner' = [runner EXCEPT ![r] = [place |-> "working", scope |-> s, look |-> "none",
                                        token |-> token, erred |-> FALSE]]
    /\ UNCHANGED <<operator, published>>

\* Nothing is claimed: the row is locked and skipped, or no candidate any more; the
\* update is dropped; claim_work skips the item, which somebody has locked.
ClaimNothing(r) ==
    /\ runner[r].place = "claiming"
    /\ runner' = [runner EXCEPT ![r] = IdleRunner]
    /\ UNCHANGED <<row, bound, item, operator, published>>

-----------------------------------------------------------------------------
(* Publications and outcomes.                                                *)

\* lock_work: the item runs under this token and its lease is in date.
Leases(s, token) ==
    /\ token.item # 0
    /\ item[s][token.item] = [state |-> "RUNNING", attempt |-> token.attempt]
    /\ row[s].fresh

\* authorize_worker_publication: the row is claimed under the session's token.
Authorized(s, token) ==
    /\ row[s].token = token /\ row[s].status = "RUNNING" /\ row[s].fresh
    /\ Leases(s, token)

BeginPublication(r) ==
    LET s == runner[r].scope IN
    /\ runner[r].place = "working"
    /\ RowFree(s)
    /\ Authorized(s, runner[r].token)
    /\ runner' = [runner EXCEPT ![r].place = "publishing"]
    /\ UNCHANGED <<row, bound, item, operator, published>>

\* What a commit by r for scope s puts on record.
Published(r, s) ==
    published' = [published EXCEPT ![s] = @ \cup
        {[by |-> runner[r].token, under |-> row[s].token, state |-> Work(s).state]}]

\* check_provider_scope_work finds the item through the token on the row, and
\* passes when no row has it.
EndPublication(r) ==
    LET s == runner[r].scope
        token == runner[r].token IN
    /\ runner[r].place = "publishing"
    /\ row[s].token = token => Leases(s, token)
    /\ runner' = [runner EXCEPT ![r].place = "working"]
    /\ Published(r, s)
    /\ UNCHANGED <<row, bound, item, operator>>

\* The check fails, or a statement before it; the run goes on with an error.
AbortPublication(r) ==
    /\ runner[r].place = "publishing"
    /\ runner' = [runner EXCEPT ![r].place = "working", ![r].erred = TRUE]
    /\ UNCHANGED <<row, bound, item, operator, published>>

\* The row the final UPDATE of run_scopes looks for.
Claimed(r) ==
    LET s == runner[r].scope IN
    row[s].status = "RUNNING" /\ row[s].fresh /\ row[s].token = runner[r].token

Outcomes(r) == IF runner[r].erred THEN {"FAILED"} ELSE {"SUCCEEDED", "FAILED", "DEFERRED"}

\* Mutants of ItemAfter: a failure leaves the item running, or ends it for good.
ItemAfterNothing(outcome) == IF outcome = "SUCCEEDED" THEN "SUCCEEDED" ELSE "RUNNING"
ItemAfterFinal(outcome) == IF outcome = "SUCCEEDED" THEN "SUCCEEDED" ELSE "FAILED"

\* finish_work, or fail_work as retryable.
ItemAfter(outcome) == IF outcome = "SUCCEEDED" THEN "SUCCEEDED" ELSE "RETRY_WAIT"

Settle(r, outcome) ==
    LET s == runner[r].scope IN
    /\ runner[r].place = "working" /\ outcome \in Outcomes(r)
    /\ RowFree(s) /\ Claimed(r)
    /\ Authorized(s, runner[r].token)
    /\ row' = [row EXCEPT ![s].status = outcome, ![s].due = FALSE]
    /\ item' = [item EXCEPT ![s][bound[s]].state = ItemAfter(outcome)]
    /\ runner' = [runner EXCEPT ![r] = IdleRunner]
    /\ Published(r, s)
    /\ UNCHANGED <<bound, operator>>

\* The trigger lets a failure stand beside a cancelled item.
SettleCancelled(r) ==
    LET s == runner[r].scope IN
    /\ runner[r].place = "working"
    /\ RowFree(s) /\ Claimed(r)
    /\ Work(s).state = "CANCELLED"
    /\ row' = [row EXCEPT ![s].status = "FAILED", ![s].due = FALSE]
    /\ runner' = [runner EXCEPT ![r] = IdleRunner]
    /\ UNCHANGED <<bound, item, operator, published>>

\* "history scope ownership lost", or finish_work and fail_work raise: the
\* process ends and the row stays as it is.
LoseScope(r) ==
    LET s == runner[r].scope IN
    /\ runner[r].place = "working"
    /\ RowFree(s)
    /\ \/ ~ Claimed(r)
       \/ "SUCCEEDED" \in Outcomes(r) /\ ~ Authorized(s, runner[r].token)
    /\ runner' = [runner EXCEPT ![r] = IdleRunner]
    /\ UNCHANGED <<row, bound, item, operator, published>>

\* The process dies; an open publication rolls back.
Crash(r) ==
    /\ runner[r].place # "idle"
    /\ runner[r].token.attempt < MaxAttempts
    /\ runner' = [runner EXCEPT ![r] = IdleRunner]
    /\ UNCHANGED <<row, bound, item, operator, published>>

-----------------------------------------------------------------------------
(* Cancellation of an item by an administrator.                              *)

\* cancel_work reads the token of the row the item is bound to, unlocked.
ReadToken(o, s, n) ==
    /\ operator[o].scope = NoScope
    /\ item[s][n].state # "ABSENT"
    /\ operator' = [operator EXCEPT ![o] =
            [scope |-> s, item |-> n,
             token |-> IF bound[s] = n THEN row[s].token ELSE NoToken]]
    /\ UNCHANGED <<row, bound, item, runner, published>>

\* It waits for the row while the row has that token, then for the item.
CancelScope(o) ==
    LET s == operator[o].scope
        n == operator[o].item
        token == operator[o].token
        open == item[s][n].state \notin Terminal IN
    /\ s # NoScope
    /\ row[s].token = token => RowFree(s)
    /\ item' = IF open THEN [item EXCEPT ![s][n].state = "CANCELLED"] ELSE item
    /\ row' = IF open /\ row[s].token = token /\ row[s].status = "RUNNING"
              THEN [row EXCEPT ![s].status = "FAILED"] ELSE row
    /\ operator' = [operator EXCEPT ![o] = IdleOperator]
    /\ UNCHANGED <<bound, runner, published>>

-----------------------------------------------------------------------------
Init ==
    /\ row = [s \in Scope |-> [status |-> "ABSENT", token |-> NoToken,
                               fresh |-> FALSE, due |-> FALSE]]
    /\ bound = [s \in Scope |-> 0]
    /\ item = [s \in Scope |-> [n \in 0 .. MaxItems |-> [state |-> "ABSENT", attempt |-> 0]]]
    /\ runner = [r \in Runner |-> IdleRunner]
    /\ operator = [o \in Operator |-> IdleOperator]
    /\ published = [s \in Scope |-> {}]

Works(r) ==
    \/ ClaimScope(r) \/ ClaimNothing(r)
    \/ BeginPublication(r) \/ EndPublication(r) \/ AbortPublication(r)
    \/ \E outcome \in {"SUCCEEDED", "FAILED", "DEFERRED"} : Settle(r, outcome)
    \/ SettleCancelled(r) \/ LoseScope(r)

Next ==
    \/ \E s \in Scope : EnqueueScope(s) \/ FallDue(s) \/ Lapse(s)
    \/ \E S \in SUBSET Scope : Refresh(S)
    \/ \E r \in Runner : Works(r) \/ Crash(r)
    \/ \E r \in Runner, s \in Scope : LookForScope(r, s)
    \/ \E o \in Operator : CancelScope(o)
    \/ \E o \in Operator, s \in Scope, n \in 1 .. MaxItems : ReadToken(o, s, n)

Spec == Init /\ [][Next]_vars

=============================================================================
