---- MODULE WorkQueue ----
(***************************************************************************)
(* The shared work queue: football.work_items with the SQL functions that  *)
(* own its state machine, and the workers that use it through the Python   *)
(* adapter WorkRegistry.                                                   *)
(*                                                                         *)
(* A transaction that only takes the row lock of one item, checks and      *)
(* commits (claim, heartbeat, fail, cancel, release) is one action.  The   *)
(* two kinds of transaction a worker keeps open while it writes domain     *)
(* rows (WorkRegistry.progress and .publication) are split at lock_work,   *)
(* at the second ownership check and at the commit, so that every other    *)
(* session may run in between; a crash or an exception may roll them back  *)
(* at each point.                                                          *)
(*                                                                         *)
(* Simplifications.  Deadlines are kept as the time left until they pass,  *)
(* so the clock needs no bound.  The semantic key of an item is its id     *)
(* (work_id is a hash of type and key).  A lease token is the number of    *)
(* the attempt it was drawn for: the code draws a fresh uuid per attempt.  *)
(* The allowed types and ids of a claim are the Scope of the worker.       *)
(* Hashes, error texts, the parent lineage and the metrics are left out.   *)
(***************************************************************************)
EXTENDS Integers, FiniteSets

CONSTANTS
    Work,           \* work items that may be requested
    Worker,         \* worker sessions; the name is the lease_owner
    NoWorker,       \* no owner: the NULL of lease_owner
    NoClaim,        \* a worker that holds no claim
    NoDraft,        \* a transaction that has inserted no downstream item
    Scope,          \* Scope[p]: items whose type and id worker p may claim
    Priority,       \* Priority[w]: larger runs first
    MaxAttempts,    \* MaxAttempts[w]: attempt budget
    Backoff,        \* Backoff[w][n]: delay after an acknowledged error in attempt n
    ExpiryDelay,    \* ExpiryDelay[w][n]: delay after attempt n's lease ran out
    LeaseTicks,     \* lease durations a worker may ask for
    Delay,          \* how far ahead a caller may place a deadline
    Horizon         \* a lease that ran out longer ago counts as this old

Claimed == [work : Work, token : Nat, gen : Nat]
Draft == [work : Work, deps : SUBSET Work, wait : Nat]

ASSUME WorkersNamed == NoWorker \notin Worker
ASSUME NullsNamed == NoClaim \notin Claimed /\ NoDraft \notin Draft
ASSUME ScopeType == Scope \in [Worker -> SUBSET Work]
ASSUME PriorityType == Priority \in [Work -> Int]
ASSUME BudgetType == MaxAttempts \in [Work -> Nat \ {0}]
ASSUME DelayTypes ==
    /\ \A w \in Work : Backoff[w] \in [1 .. MaxAttempts[w] -> Nat]
    /\ \A w \in Work : ExpiryDelay[w] \in [1 .. MaxAttempts[w] -> 0 .. Horizon]
    /\ LeaseTicks \subseteq Nat \ {0}
    /\ Delay \subseteq Nat /\ 0 \in Delay
    /\ Horizon \in Nat

VARIABLES
    item,       \* item[w]: the row of w in work_items
    deps,       \* deps[w]: the sealed rows of w in work_dependencies
    locked,     \* locked[w]: the worker whose open transaction has locked row w
    claim,      \* claim[p]: the WorkClaim worker p remembers
    step,       \* step[p]: how far worker p has come
    draft,      \* draft[p]: the uncommitted downstream item of p's transaction
    writer,     \* writer[w]: the last attempt whose domain writes committed
    published   \* published[w]: the attempts whose publication committed

vars == <<item, deps, locked, claim, step, draft, writer, published>>

State == {"ABSENT", "PENDING", "RUNNING", "RETRY_WAIT", "SUCCEEDED",
          "FAILED", "CANCELLED", "BLOCKED"}
Terminal == {"SUCCEEDED", "FAILED", "CANCELLED"}
Waiting == {"PENDING", "RETRY_WAIT"}
Step == {"idle", "working", "stepping", "publishing", "finished"}
InTransaction == {"stepping", "publishing", "finished"}

Item == [state : State, gen : Nat, attempt : Nat, owner : Worker \cup {NoWorker},
         token : Nat, lease : Int, wait : Nat]

Present == {w \in Work : item[w].state # "ABSENT"}
\* Row r without a lease, in state s, under epoch g, eligible x ticks from now.
Unleased(r, s, g, x) ==
    [state |-> s, gen |-> g, attempt |-> r.attempt, owner |-> NoWorker,
     token |-> 0, lease |-> 0, wait |-> x]

Absent == [state |-> "ABSENT", gen |-> 0, attempt |-> 0, owner |-> NoWorker,
           token |-> 0, lease |-> 0, wait |-> 0]

\* The row of a new item, eligible d ticks from now.
Requested(d) == Unleased(Absent, "PENDING", 0, d)

\* Mutant of Revoked: the fencing epoch runs backwards.
RevokedBackwards(r, s) == Unleased(r, s, r.gen - 1, r.wait)

\* Row r in state s without its lease and under a new fencing epoch.
Revoked(r, s) == Unleased(r, s, r.gen + 1, r.wait)

Later(a, b) == IF a >= b THEN a ELSE b

\* Mutant of Free: FOR UPDATE waits for nobody.
FreeUnlocked(w) == w \in Work

\* No open transaction holds row w, nor a foreign-key share lock on it: what
\* FOR UPDATE waits for, and what SKIP LOCKED skips.
Free(w) == /\ locked[w] = NoWorker
           /\ \A p \in Worker : draft[p] # NoDraft => w \notin draft[p].deps

\* Mutant of Owns: any running attempt will do.
OwnsAnyAttempt(p) == item[claim[p].work].state = "RUNNING"

\* The ownership test of lock_work.
Owns(p) == LET c == claim[p] IN
    /\ item[c.work].state = "RUNNING"
    /\ item[c.work].owner = p
    /\ item[c.work].token = c.token
    /\ item[c.work].gen = c.gen

\* lock_work succeeds: the exact claim is current and its lease has not run out.
Fenced(p) == Owns(p) /\ item[claim[p].work].lease > 0

-----------------------------------------------------------------------------
(* Producers *)

\* Mutant of Acceptable: dependencies need not exist yet.
AcceptableUnsealed(w, D) ==
    /\ item[w].state = "ABSENT" /\ D \subseteq Work
    /\ \A p \in Worker : draft[p] # NoDraft => draft[p].work # w

\* Downstream work may only name items that are already committed and sealed.
Acceptable(w, D) == /\ item[w].state = "ABSENT"
                    /\ \A p \in Worker : draft[p] # NoDraft => draft[p].work # w
                    /\ D \subseteq Present

\* enqueue_work in a transaction of its own.  A request for a key that exists
\* changes nothing: it returns the row, or raises when its inputs differ.
Enqueue(w, D, d) ==
    /\ Acceptable(w, D)
    /\ item' = [item EXCEPT ![w] = Requested(d)]
    /\ deps' = [deps EXCEPT ![w] = D]
    /\ UNCHANGED <<locked, claim, step, draft, writer, published>>

\* enqueue_work inside p's publication: visible to nobody until the commit.
EnqueueDownstream(p, w, D, d) ==
    /\ step[p] = "publishing"
    /\ draft[p] = NoDraft
    /\ Acceptable(w, D)
    /\ draft' = [draft EXCEPT ![p] = [work |-> w, deps |-> D, wait |-> d]]
    /\ UNCHANGED <<item, deps, locked, claim, step, writer, published>>

-----------------------------------------------------------------------------
(* claim_work *)

\* Mutant of Exhausted: off by one, a row on its final attempt is never reaped.
ExhaustedLate(p) == {w \in Scope[p] : /\ item[w].state = "RUNNING"
                                      /\ item[w].lease <= 0
                                      /\ item[w].attempt > MaxAttempts[w]
                                      /\ Free(w)}

\* Rows whose final attempt ran out: one of them is failed by each claim.
Exhausted(p) == {w \in Scope[p] : /\ item[w].state = "RUNNING"
                                  /\ item[w].lease <= 0
                                  /\ item[w].attempt >= MaxAttempts[w]
                                  /\ Free(w)}

DepsSucceeded(w) == \A u \in deps[w] : item[u].state = "SUCCEEDED"

\* Mutant of Runnable: dependencies are not looked at.
RunnableEarly(w) ==
    /\ item[w].attempt < MaxAttempts[w]
    /\ item[w].state \in Waiting /\ item[w].wait = 0

\* Row w may be handed to a worker now.
Runnable(w) ==
    /\ item[w].attempt < MaxAttempts[w]
    /\ \/ item[w].state \in Waiting /\ item[w].wait = 0
       \/ /\ item[w].state = "RUNNING"
          /\ item[w].lease <= 0
          /\ item[w].lease + ExpiryDelay[w][item[w].attempt] <= 0
    /\ DepsSucceeded(w)

\* The rows ORDER BY priority DESC may return first; ties go either way.
NextUp(p) == LET open == {w \in Scope[p] : Runnable(w) /\ Free(w)} IN
    {w \in open : \A u \in open : Priority[u] <= Priority[w]}

\* Row r leased to p for d ticks: a new epoch, a new token, one more attempt.
Leased(r, p, d) ==
    [state |-> "RUNNING", gen |-> r.gen + 1, attempt |-> r.attempt + 1, owner |-> p,
     token |-> r.attempt + 1, lease |-> d, wait |-> r.wait]

\* The table after the cleanup of the rows in R (at most one).
Reaped(R) == [w \in Work |-> IF w \in R THEN Revoked(item[w], "FAILED") ELSE item[w]]

\* One row of the exhausted ones, or none when there is none.
ReapChoice(p) == IF Exhausted(p) = {} THEN {{}} ELSE {{w} : w \in Exhausted(p)}

\* claim_work finds a runnable row: clean up, then lease it to p.
Claim(p, d) ==
    /\ step[p] = "idle"
    /\ \E R \in ReapChoice(p), w \in NextUp(p) :
        /\ item' = [Reaped(R) EXCEPT ![w] = Leased(item[w], p, d)]
        /\ claim' = [claim EXCEPT ![p] = [work |-> w, token |-> item[w].attempt + 1,
                                          gen |-> item[w].gen + 1]]
    /\ step' = [step EXCEPT ![p] = "working"]
    /\ UNCHANGED <<deps, locked, draft, writer, published>>

\* claim_work finds none: the cleanup commits and p stays idle.
ReapOnly(p) ==
    /\ step[p] = "idle"
    /\ NextUp(p) = {}
    /\ \E w \in Exhausted(p) : item' = Reaped({w})
    /\ UNCHANGED <<deps, locked, claim, step, draft, writer, published>>

-----------------------------------------------------------------------------
(* The holder of a claim *)

Heartbeat(p, d) ==
    /\ step[p] # "idle"
    /\ locked[claim[p].work] = NoWorker
    /\ Fenced(p)
    /\ item' = [item EXCEPT ![claim[p].work].lease = Later(@, d)]
    /\ UNCHANGED <<deps, locked, claim, step, draft, writer, published>>

\* Mutant of Begin: ownership is read without keeping the row locked.
BeginUnlocked(p, s) ==
    /\ step[p] = "working"
    /\ locked[claim[p].work] = NoWorker
    /\ Fenced(p)
    /\ step' = [step EXCEPT ![p] = s]
    /\ UNCHANGED <<item, deps, locked, claim, draft, writer, published>>

\* lock_work at the start of progress (s = "stepping") or publication
\* (s = "publishing"): the row stays locked until the transaction ends.
Begin(p, s) ==
    /\ step[p] = "working"
    /\ locked[claim[p].work] = NoWorker
    /\ Fenced(p)
    /\ locked' = [locked EXCEPT ![claim[p].work] = p]
    /\ step' = [step EXCEPT ![p] = s]
    /\ UNCHANGED <<item, deps, claim, draft, writer, published>>

\* progress checks ownership again and commits the step's domain writes.
EndProgress(p) ==
    /\ step[p] = "stepping"
    /\ Fenced(p)
    /\ writer' = [writer EXCEPT ![claim[p].work] = claim[p].token]
    /\ locked' = [locked EXCEPT ![claim[p].work] = NoWorker]
    /\ step' = [step EXCEPT ![p] = "working"]
    /\ UNCHANGED <<item, deps, claim, draft, published>>

\* finish_work passes its lease check; the update is not committed yet.
FinishWork(p) ==
    /\ step[p] = "publishing"
    /\ Fenced(p)
    /\ step' = [step EXCEPT ![p] = "finished"]
    /\ UNCHANGED <<item, deps, locked, claim, draft, writer, published>>

\* Mutant of CommitPublication: the completion is left to a later transaction.
CommitUncompleted(p) ==
    LET w == claim[p].work IN
    /\ step[p] = "finished"
    /\ writer' = [writer EXCEPT ![w] = claim[p].token]
    /\ published' = [published EXCEPT ![w] = @ \cup {claim[p].token}]
    /\ locked' = [locked EXCEPT ![w] = NoWorker]
    /\ draft' = [draft EXCEPT ![p] = NoDraft]
    /\ claim' = [claim EXCEPT ![p] = NoClaim]
    /\ step' = [step EXCEPT ![p] = "idle"]
    /\ UNCHANGED <<item, deps>>

\* The publication commits: completion, domain writes and downstream work.
CommitPublication(p) ==
    LET w == claim[p].work
        done == [item EXCEPT ![w] = Unleased(@, "SUCCEEDED", @.gen, @.wait)] IN
    /\ step[p] = "finished"
    /\ IF draft[p] = NoDraft
       THEN item' = done /\ deps' = deps
       ELSE /\ item' = [done EXCEPT ![draft[p].work] = Requested(draft[p].wait)]
            /\ deps' = [deps EXCEPT ![draft[p].work] = draft[p].deps]
    /\ writer' = [writer EXCEPT ![w] = claim[p].token]
    /\ published' = [published EXCEPT ![w] = @ \cup {claim[p].token}]
    /\ locked' = [locked EXCEPT ![w] = NoWorker]
    /\ draft' = [draft EXCEPT ![p] = NoDraft]
    /\ claim' = [claim EXCEPT ![p] = NoClaim]
    /\ step' = [step EXCEPT ![p] = "idle"]

\* End p's transaction, if one is open, without any of its effects.
Rollback(p) ==
    /\ locked' = [w \in Work |-> IF locked[w] = p THEN NoWorker ELSE locked[w]]
    /\ draft' = [draft EXCEPT ![p] = NoDraft]
    /\ UNCHANGED <<item, deps, writer, published>>

\* An exception inside progress or publication: rolled back, p keeps its claim.
Abort(p) ==
    /\ step[p] \in InTransaction
    /\ Rollback(p)
    /\ step' = [step EXCEPT ![p] = "working"]
    /\ UNCHANGED claim

\* WorkLeaseLost: a check of lock_work fails and p gives the item up.
LoseLease(p) ==
    /\ step[p] \in {"working", "stepping", "publishing"}
    /\ ~ Fenced(p)
    /\ Rollback(p)
    /\ claim' = [claim EXCEPT ![p] = NoClaim]
    /\ step' = [step EXCEPT ![p] = "idle"]

\* The worker process dies, whatever it was doing, and a new one starts idle.
Crash(p) ==
    /\ step[p] # "idle"
    /\ Rollback(p)
    /\ claim' = [claim EXCEPT ![p] = NoClaim]
    /\ step' = [step EXCEPT ![p] = "idle"]

\* Where fail_work puts row r of w; a retry waits for the backoff of the
\* attempt and for the later of Retry-After and provider cooldown (after).
Failed(w, r, class, after) ==
    CASE class = "NON_RETRYABLE" -> Revoked(r, "FAILED")
      [] class = "BLOCKED_EXTERNAL" -> Revoked(r, "BLOCKED")
      [] class = "CANCELLED" -> Revoked(r, "CANCELLED")
      [] class = "RETRYABLE" ->
            IF r.attempt >= MaxAttempts[w] THEN Revoked(r, "FAILED")
            ELSE Unleased(r, "RETRY_WAIT", r.gen + 1, Later(Backoff[w][r.attempt], after))

Classification == {"RETRYABLE", "NON_RETRYABLE", "BLOCKED_EXTERNAL", "CANCELLED"}

Fail(p, class, after) ==
    LET w == claim[p].work IN
    /\ step[p] = "working"
    /\ locked[w] = NoWorker
    /\ Fenced(p)
    /\ item' = [item EXCEPT ![w] = Failed(w, @, class, after)]
    /\ claim' = [claim EXCEPT ![p] = NoClaim]
    /\ step' = [step EXCEPT ![p] = "idle"]
    /\ UNCHANGED <<deps, locked, draft, writer, published>>

-----------------------------------------------------------------------------
(* Operators and time *)

\* cancel_work waits for the row lock; a terminal item is returned as it is.
Cancel(w) ==
    /\ Free(w)
    /\ item[w].state \in State \ (Terminal \cup {"ABSENT"})
    /\ item' = [item EXCEPT ![w] = Revoked(@, "CANCELLED")]
    /\ UNCHANGED <<deps, locked, claim, step, draft, writer, published>>

\* Mutant of ReleaseBlocked: the attempt budget is not looked at.
ReleaseUnbounded(w, d) ==
    /\ Free(w)
    /\ item[w].state = "BLOCKED"
    /\ item' = [item EXCEPT ![w] = Unleased(@, "PENDING", @.gen + 1, d)]
    /\ UNCHANGED <<deps, locked, claim, step, draft, writer, published>>

\* release_blocked_work: back to the queue, or failed when no attempt is left.
ReleaseBlocked(w, d) ==
    /\ Free(w)
    /\ item[w].state = "BLOCKED"
    /\ item' = [item EXCEPT ![w] = Unleased(@,
            IF @.attempt >= MaxAttempts[w] THEN "FAILED" ELSE "PENDING", @.gen + 1, d)]
    /\ UNCHANGED <<deps, locked, claim, step, draft, writer, published>>

Sooner(r) == [r EXCEPT !.lease = IF r.state = "RUNNING" THEN Later(@ - 1, -Horizon) ELSE @,
                       !.wait = IF r.state \in Waiting THEN Later(@ - 1, 0) ELSE @]

\* Database time advances by one tick; every deadline comes nearer.
Tick ==
    /\ item' = [w \in Work |-> Sooner(item[w])]
    /\ item' # item
    /\ UNCHANGED <<deps, locked, claim, step, draft, writer, published>>

-----------------------------------------------------------------------------
Init ==
    /\ item = [w \in Work |-> Absent]
    /\ deps = [w \in Work |-> {}]
    /\ locked = [w \in Work |-> NoWorker]
    /\ claim = [p \in Worker |-> NoClaim]
    /\ step = [p \in Worker |-> "idle"]
    /\ draft = [p \in Worker |-> NoDraft]
    /\ writer = [w \in Work |-> 0]
    /\ published = [w \in Work |-> {}]

Next ==
    \/ \E w \in Work, D \in SUBSET Work, d \in Delay : Enqueue(w, D, d)
    \/ \E p \in Worker, w \in Work, D \in SUBSET Work, d \in Delay :
            EnqueueDownstream(p, w, D, d)
    \/ \E p \in Worker, d \in LeaseTicks : Claim(p, d)
    \/ \E p \in Worker : ReapOnly(p)
    \/ \E p \in Worker, d \in LeaseTicks : Heartbeat(p, d)
    \/ \E p \in Worker, s \in {"stepping", "publishing"} : Begin(p, s)
    \/ \E p \in Worker : EndProgress(p)
    \/ \E p \in Worker : FinishWork(p)
    \/ \E p \in Worker : CommitPublication(p)
    \/ \E p \in Worker : Abort(p)
    \/ \E p \in Worker : LoseLease(p)
    \/ \E p \in Worker : Crash(p)
    \/ \E p \in Worker, class \in Classification, after \in Delay : Fail(p, class, after)
    \/ \E w \in Work : Cancel(w)
    \/ \E w \in Work, d \in Delay : ReleaseBlocked(w, d)
    \/ Tick

Spec == Init /\ [][Next]_vars

=============================================================================
