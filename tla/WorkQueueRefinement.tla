---- MODULE WorkQueueRefinement ----
(***************************************************************************)
(* The shared work queue implements WorkPromise: leases, retries, crashes, *)
(* takeovers and cancellation only ever decide each request once, and show *)
(* its effects exactly when they decide it as succeeded.                   *)
(***************************************************************************)
EXTENDS WorkQueueProofs

\* The refinement mapping of Promise.
outcome == [w \in Work |-> Outcome(item[w].state)]
effect == [w \in Work |-> published[w] # {}]

LEMMA OutcomeOf ==
  /\ \A s : Outcome(s) = "absent" <=> s = "ABSENT"
  /\ Outcome("SUCCEEDED") = "succeeded"
  /\ Outcome("FAILED") = "dropped" /\ Outcome("CANCELLED") = "dropped"
  /\ \A s \in {"PENDING", "RUNNING", "RETRY_WAIT", "BLOCKED"} : Outcome(s) = "open"
  /\ \A s : Outcome(s) = "succeeded" => s = "SUCCEEDED"
  BY DEF Outcome

\* The outcome changes at item w only.
LEMMA OneOutcome ==
  ASSUME NEW w \in Work, NEW o, Outcome(item'[w].state) = o,
         \A v \in Work : v # w => Outcome(item'[v].state) = Outcome(item[v].state)
  PROVE  outcome' = [outcome EXCEPT ![w] = o]
  BY DEF outcome

LEMMA SameOutcome ==
  ASSUME \A v \in Work : Outcome(item'[v].state) = Outcome(item[v].state)
  PROVE  outcome' = outcome
  BY DEF outcome

LEMMA SameEffect ==
  ASSUME published' = published PROVE effect' = effect
  BY DEF effect

\* An open item that only changes to a dropped state drops its request.
LEMMA DropStep ==
  ASSUME TypeOK, NEW w \in Work,
         item[w].state \in State \ (Terminal \cup {"ABSENT"}),
         item'[w].state \in {"FAILED", "CANCELLED"},
         \A v \in Work : v # w => Outcome(item'[v].state) = Outcome(item[v].state),
         deps' = deps, published' = published
  PROVE  Promise!Drop(w)
  <1>1. outcome' = [outcome EXCEPT ![w] = "dropped"]
    BY OneOutcome, OutcomeOf
  <1>2. Outcome(item[w].state) = "open"
    BY OutcomeOf DEF State, Terminal
  <1> QED
    BY <1>1, <1>2, SameEffect DEF Promise!Drop, outcome, effect

LEMMA PromiseActions ==
  ASSUME NEW w \in Work
  PROVE  /\ Promise!Succeed(w) => Promise!Next
         /\ \A v \in Work, D \in SUBSET Work : Promise!SucceedAndRequest(w, v, D) => Promise!Next
  BY DEF Promise!Next

\* Every step of the queue is a step of the promise or changes nothing in it.
LEMMA PromiseStep ==
  ASSUME IInv, [Next]_vars
  PROVE  [Promise!Next]_Promise!vars
  <1> DEFINE Still == outcome' = outcome /\ deps' = deps /\ effect' = effect
             Goal == Promise!Next \/ Still
  <1>0. TypeOK /\ ClaimKnown /\ LockHeld /\ DraftShape
    BY DEF IInv
  <1>1. ASSUME NEW w \in Work, NEW D \in SUBSET Work, NEW d \in Delay, Enqueue(w, D, d)
        PROVE  Promise!Next
    <2>1. /\ item[w].state = "ABSENT" /\ D \subseteq Present
          /\ item' = [item EXCEPT ![w] = Requested(d)]
          /\ deps' = [deps EXCEPT ![w] = D] /\ published' = published
      BY <1>1 DEF Enqueue, Acceptable
    <2>2. item'[w].state = "PENDING"
      BY <1>0, <2>1 DEF TypeOK, Requested, Unleased
    <2>3. outcome' = [outcome EXCEPT ![w] = "open"]
      BY <1>0, <2>1, <2>2, OneOutcome, OutcomeOf DEF TypeOK
    <2>4. Promise!Accept(w, D)
      BY <2>1, <2>3, OutcomeOf, SameEffect DEF Promise!Accept, Promise!Accepted, Present,
         outcome, effect
    <2> QED
      BY <2>4 DEF Promise!Next
  <1>2. ASSUME NEW p \in Worker, NEW d \in LeaseTicks, Claim(p, d)
        PROVE  Goal
    <2>1. PICK R \in ReapChoice(p), v \in NextUp(p) :
            item' = [Reaped(R) EXCEPT ![v] = Leased(item[v], p, d)]
      BY <1>2 DEF Claim
    <2>2. v \in Work /\ item[v].state \in {"PENDING", "RETRY_WAIT", "RUNNING"} /\ Runnable(v)
      BY ScopeType DEF NextUp, Runnable, Waiting
    <2>3. Outcome(item'[v].state) = Outcome(item[v].state)
      BY <1>0, <2>1, <2>2, OutcomeOf DEF TypeOK, Leased, Reaped
    <2>4. deps' = deps /\ published' = published
      BY <1>2 DEF Claim
    <2>5. \A w \in Work : w # v /\ w \notin R => item'[w] = item[w]
      BY <1>0, <2>1, <2>2 DEF Reaped
    <2>6. CASE R = {}
      BY <2>3, <2>4, <2>5, <2>6, SameOutcome, SameEffect
    <2>7. CASE R # {}
      <3>1. PICK u \in Exhausted(p) : R = {u}
        BY <2>7 DEF ReapChoice
      <3>2. u \in Work /\ u # v /\ item[u].state = "RUNNING"
        BY <1>0, <2>2, <3>1, ScopeType, BudgetType DEF Exhausted, Runnable, TypeOK, Item
      <3>3. item'[u].state = "FAILED"
        BY <1>0, <2>1, <2>2, <3>1, <3>2, UnleasedShape DEF Reaped
      <3>4. \A w \in Work : w # u => Outcome(item'[w].state) = Outcome(item[w].state)
        BY <2>3, <2>5, <3>1
      <3>5. Promise!Drop(u)
        BY <1>0, <2>4, <3>2, <3>3, <3>4, DropStep DEF State, Terminal
      <3> QED
        BY <3>2, <3>5 DEF Promise!Next
    <2> QED
      BY <2>6, <2>7
  <1>3. ASSUME NEW p \in Worker, ReapOnly(p)
        PROVE  Promise!Next
    <2>1. PICK u \in Exhausted(p) : item' = Reaped({u})
      BY <1>3 DEF ReapOnly
    <2>2. u \in Work /\ item[u].state = "RUNNING"
      BY <2>1, ScopeType DEF Exhausted
    <2>3. item'[u].state = "FAILED" /\ \A v \in Work : v # u => item'[v] = item[v]
      BY <1>0, <2>1, <2>2, UnleasedShape DEF Reaped
    <2>4. Promise!Drop(u)
      BY <1>0, <1>3, <2>2, <2>3, DropStep DEF ReapOnly, State, Terminal
    <2> QED
      BY <2>2, <2>4 DEF Promise!Next
  <1>4. ASSUME NEW p \in Worker, NEW d \in LeaseTicks, Heartbeat(p, d)
        PROVE  Still
    <2>1. /\ item' = [item EXCEPT ![claim[p].work] =
                        [item[claim[p].work] EXCEPT !.lease = Later(item[claim[p].work].lease, d)]]
          /\ claim[p].work \in Work
      BY <1>0, <1>4 DEF Heartbeat, ClaimKnown, Claimed
    <2>2. \A v \in Work : item'[v].state = item[v].state
      BY <1>0, <2>1 DEF TypeOK, Item
    <2> QED
      BY <1>4, <2>2, SameOutcome, SameEffect DEF Heartbeat
  <1>5. ASSUME NEW p \in Worker, CommitPublication(p)
        PROVE  Promise!Next
    <2>0. PICK w \in Work : w = claim[p].work
      BY <1>5, CommitRow
    <2>1. /\ item[w].state = "RUNNING" /\ item'[w].state = "SUCCEEDED"
          /\ draft[p] # NoDraft => draft[p].work # w
      BY <1>5, <2>0, CommitRow, UnleasedShape DEF Owns
    <2>2. \A u \in deps[w] : Outcome(item[u].state) = "succeeded"
      BY <1>0, <2>1, OutcomeOf DEF IInv, RowShape, DependenciesFirst, DepsSucceeded
    <2>3. effect' = [effect EXCEPT ![w] = TRUE]
      BY <1>0, <1>5, <2>0 DEF CommitPublication, TypeOK, effect
    <2>4. CASE draft[p] = NoDraft
      <3>1. \A v \in Work : v # w => item'[v].state = item[v].state
        BY <1>0, <1>5, <2>0, <2>4 DEF CommitPublication, TypeOK
      <3>2. outcome' = [outcome EXCEPT ![w] = "succeeded"]
        BY <2>1, <3>1, OneOutcome, OutcomeOf
      <3>3. Promise!Succeed(w)
        BY <1>5, <2>0, <2>1, <2>2, <2>3, <2>4, <3>2, OutcomeOf
           DEF CommitPublication, Promise!Succeed, outcome, effect, IInv, TypeOK
      <3> QED
        BY <3>3, PromiseActions
    <2>5. CASE draft[p] # NoDraft
      <3> DEFINE done == [item EXCEPT ![w] = Unleased(item[w], "SUCCEEDED", item[w].gen, item[w].wait)]
      <3>0. PICK v \in Work, D \in SUBSET Work : v = draft[p].work /\ D = draft[p].deps
        BY <1>0, <2>5 DEF TypeOK, Draft
      <3>1. v # w /\ item[v].state = "ABSENT" /\ D \subseteq Present
        BY <1>0, <2>1, <2>5, <3>0 DEF DraftShape
      <3>2. /\ item' = [done EXCEPT ![v] = Requested(draft[p].wait)]
            /\ deps' = [deps EXCEPT ![v] = D]
        BY <1>5, <2>0, <2>5, <3>0 DEF CommitPublication
      <3>3. item'[v].state = "PENDING" /\ \A u \in Work : u # w /\ u # v => item'[u] = item[u]
        BY <1>0, <3>2 DEF TypeOK, Requested, Unleased
      <3>4. outcome' = [outcome EXCEPT ![w] = "succeeded", ![v] = "open"]
        BY <2>1, <3>1, <3>3, OutcomeOf DEF outcome
      <3>5. D \subseteq Promise!Accepted
        BY <3>1, OutcomeOf DEF Present, Promise!Accepted
      <3>6. Promise!SucceedAndRequest(w, v, D)
        BY <2>1, <2>2, <2>3, <3>1, <3>2, <3>4, <3>5, OutcomeOf
           DEF Promise!SucceedAndRequest, outcome, effect, IInv, TypeOK
      <3> QED
        BY <3>1, <3>6, PromiseActions
    <2> QED
      BY <2>4, <2>5
  <1>6. ASSUME NEW p \in Worker, NEW c \in Classification, NEW a \in Delay, Fail(p, c, a)
        PROVE  Goal
    <2> DEFINE w == claim[p].work
    <2>1. /\ w \in Work /\ item[w].state = "RUNNING" /\ deps' = deps /\ published' = published
          /\ item' = [item EXCEPT ![w] = Failed(w, item[w], c, a)]
      BY <1>0, <1>6 DEF Fail, ClaimKnown, Claimed, Fenced, Owns
    <2>2. /\ item'[w].state \in {"FAILED", "BLOCKED", "CANCELLED", "RETRY_WAIT"}
          /\ \A v \in Work : v # w => item'[v] = item[v]
      BY <1>0, <2>1, FailedShape DEF TypeOK
    <2>3. CASE item'[w].state \in {"FAILED", "CANCELLED"}
      <3>1. Promise!Drop(w)
        BY <1>0, <2>1, <2>2, <2>3, DropStep DEF State, Terminal
      <3> QED
        BY <2>1, <3>1 DEF Promise!Next
    <2>4. CASE item'[w].state \in {"BLOCKED", "RETRY_WAIT"}
      <3>1. Outcome(item'[w].state) = Outcome(item[w].state)
        BY <2>1, <2>4, OutcomeOf
      <3> QED
        BY <2>1, <2>2, <3>1, SameOutcome, SameEffect
    <2> QED
      BY <2>2, <2>3, <2>4
  <1>7. ASSUME NEW w \in Work, Cancel(w)
        PROVE  Promise!Next
    <2>1. /\ item[w].state \in State \ (Terminal \cup {"ABSENT"})
          /\ item'[w].state = "CANCELLED" /\ \A v \in Work : v # w => item'[v] = item[v]
      BY ZenonT(30), <1>0, <1>7, UnleasedShape DEF Cancel, TypeOK
    <2>2. Promise!Drop(w)
      BY <1>0, <1>7, <2>1, DropStep DEF Cancel
    <2> QED
      BY <2>2 DEF Promise!Next
  <1>8. ASSUME NEW w \in Work, NEW d \in Delay, ReleaseBlocked(w, d)
        PROVE  Goal
    <2>1. /\ item[w].state = "BLOCKED" /\ deps' = deps /\ published' = published
          /\ \A v \in Work : v # w => item'[v] = item[v]
      BY <1>0, <1>8 DEF ReleaseBlocked, TypeOK
    <2>2. item'[w].state \in {"FAILED", "PENDING"}
      BY <1>0, <1>8, UnleasedShape DEF ReleaseBlocked, TypeOK
    <2>3. CASE item'[w].state = "FAILED"
      <3>1. Promise!Drop(w)
        BY <1>0, <2>1, <2>3, DropStep DEF State, Terminal
      <3> QED
        BY <3>1 DEF Promise!Next
    <2>4. CASE item'[w].state = "PENDING"
      <3>1. Outcome(item'[w].state) = Outcome(item[w].state)
        BY <2>1, <2>4, OutcomeOf
      <3> QED
        BY <2>1, <3>1, SameOutcome, SameEffect
    <2> QED
      BY <2>2, <2>3, <2>4
  <1>9. CASE Tick
    <2>1. \A v \in Work : item'[v].state = item[v].state
      BY <1>0, <1>9 DEF Tick, Sooner, TypeOK, Item, Waiting
    <2> QED
      BY <1>9, <2>1, SameOutcome, SameEffect DEF Tick, Promise!vars, outcome, effect
  <1>10. ASSUME NEW p \in Worker,
                \/ EndProgress(p) \/ FinishWork(p) \/ Abort(p) \/ LoseLease(p) \/ Crash(p)
                \/ \E s \in {"stepping", "publishing"} : Begin(p, s)
                \/ \E w \in Work, D \in SUBSET Work, d \in Delay : EnqueueDownstream(p, w, D, d)
         PROVE  Still
    <2>1. item' = item /\ deps' = deps /\ published' = published
      BY <1>10 DEF EndProgress, FinishWork, Abort, LoseLease, Crash, Rollback, Begin,
                   EnqueueDownstream
    <2> QED
      BY <2>1, SameOutcome, SameEffect
  <1>11. CASE UNCHANGED vars
    BY <1>11 DEF vars, Promise!vars
  <1>12. Still => UNCHANGED Promise!vars
    BY DEF Promise!vars, outcome, effect
  <1> QED
    BY <1>1, <1>2, <1>3, <1>4, <1>5, <1>6, <1>7, <1>8, <1>9, <1>10, <1>11, <1>12 DEF Next

\* The queue implements its promise: a request is decided once, and its results
\* and the work it hands on become visible exactly when it is decided as
\* succeeded, after its dependencies (work_items and WorkRegistry as a whole).
THEOREM QueueKeepsPromise == Spec => KeepsPromise
  <1>1. Init => Promise!Init
    <2> SUFFICES ASSUME Init PROVE Promise!Init
      OBVIOUS
    <2>1. \A w \in Work : Outcome(item[w].state) = "absent" /\ published[w] = {}
      BY OutcomeOf DEF Init, Absent
    <2>2. deps = [w \in Work |-> {}]
      BY DEF Init
    <2> QED
      BY <2>1, <2>2 DEF Promise!Init
  <1>2. IInv /\ [Next]_vars => [Promise!Next]_Promise!vars
    BY PromiseStep
  <1> QED
    BY <1>1, <1>2, Invariance, PTL DEF Spec, KeepsPromise, Promise!Spec

=============================================================================
