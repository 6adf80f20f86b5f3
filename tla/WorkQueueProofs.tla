---- MODULE WorkQueueProofs ----
(***************************************************************************)
(* Proofs about the shared work queue for any items, workers, budgets and  *)
(* delays.  IInv is inductive; the safety properties follow from it.       *)
(***************************************************************************)
EXTENDS WorkQueueProperties, TLAPS

\* A running row names its owner and the attempt its token was drawn for; a
\* row that does not exist is blank.
RowShape ==
    \A w \in Work :
        /\ item[w].state = "RUNNING" =>
              /\ item[w].owner \in Worker
              /\ item[w].token = item[w].attempt
              /\ item[w].attempt > 0
        /\ item[w].state = "ABSENT" => item[w].attempt = 0 /\ deps[w] = {}

\* A worker that is not idle has a claim.
ClaimKnown == \A p \in Worker : step[p] # "idle" => claim[p] \in Claimed

\* Inside a transaction the worker has locked its row and still owns it.
LockHeld ==
    \A p \in Worker : step[p] \in InTransaction =>
        locked[claim[p].work] = p /\ Owns(p)

\* A locked row is the row of the transaction of the worker it is locked by.
LockOwner ==
    \A w \in Work : locked[w] # NoWorker =>
        step[locked[w]] \in InTransaction /\ claim[locked[w]].work = w

\* An uncommitted downstream item belongs to an open publication, does not
\* exist yet, names existing rows, and is no other transaction's.
DraftShape ==
    \A p \in Worker : draft[p] # NoDraft =>
        /\ step[p] \in {"publishing", "finished"}
        /\ item[draft[p].work].state = "ABSENT"
        /\ draft[p].deps \subseteq Present
        /\ \A q \in Worker : q # p /\ draft[q] # NoDraft => draft[q].work # draft[p].work

\* Dependencies name rows that exist.
DepsPresent == \A w \in Work : deps[w] \subseteq Present

IInv ==
    /\ TypeOK
    /\ RowShape
    /\ ClaimKnown
    /\ LockHeld
    /\ LockOwner
    /\ DraftShape
    /\ DepsPresent
    /\ PublishedOnce
    /\ AttemptLeft
    /\ DependenciesFirst
    /\ NoDependencyCycle

-----------------------------------------------------------------------------
(* Types *)

LEMMA UnleasedIsItem ==
  ASSUME NEW r \in Item, NEW s \in State, NEW g \in Nat, NEW x \in Nat
  PROVE  Unleased(r, s, g, x) \in Item
  BY DEF Unleased, Item

LEMMA AbsentIsItem == Absent \in Item
  BY DEF Absent, Item, State

LEMMA RequestedIsItem == ASSUME NEW d \in Nat PROVE Requested(d) \in Item
  BY AbsentIsItem, UnleasedIsItem DEF Requested, State

LEMMA RevokedIsItem ==
  ASSUME NEW r \in Item, NEW s \in State
  PROVE  Revoked(r, s) \in Item
  <1>1. r.gen + 1 \in Nat /\ r.wait \in Nat
    BY DEF Item
  <1> QED
    BY <1>1, UnleasedIsItem DEF Revoked

LEMMA LeasedIsItem ==
  ASSUME NEW r \in Item, NEW p \in Worker, NEW d \in LeaseTicks
  PROVE  Leased(r, p, d) \in Item
  BY DelayTypes DEF Leased, Item, State

LEMMA ExtendedIsItem ==
  ASSUME NEW r \in Item, NEW x \in Int PROVE [r EXCEPT !.lease = x] \in Item
  BY DEF Item

LEMMA SoonerIsItem == ASSUME NEW r \in Item PROVE Sooner(r) \in Item
  <1>1. Later(r.wait - 1, 0) \in Nat /\ Later(r.lease - 1, -Horizon) \in Int
    BY DelayTypes DEF Later, Item
  <1> QED
    BY <1>1 DEF Sooner, Item

LEMMA FailedIsItem ==
  ASSUME NEW w \in Work, NEW r \in Item, r.attempt \in 1 .. MaxAttempts[w],
         NEW class \in Classification, NEW after \in Delay
  PROVE  Failed(w, r, class, after) \in Item
  <1>1. \A s \in State : Revoked(r, s) \in Item
    BY RevokedIsItem
  <1>2. {"FAILED", "BLOCKED", "CANCELLED", "RETRY_WAIT"} \subseteq State
    BY DEF State
  <1>3. Later(Backoff[w][r.attempt], after) \in Nat /\ r.gen + 1 \in Nat
    <2>1. Backoff[w][r.attempt] \in Nat
      BY DelayTypes
    <2>2. after \in Nat
      BY DelayTypes
    <2> QED
      BY <2>1, <2>2 DEF Later, Item
  <1>4. Unleased(r, "RETRY_WAIT", r.gen + 1, Later(Backoff[w][r.attempt], after)) \in Item
    BY <1>2, <1>3, UnleasedIsItem
  <1> QED
    BY <1>1, <1>2, <1>4 DEF Failed, Classification

\* Giving up a lease keeps the attempt and puts the row in the state asked for.
LEMMA UnleasedShape ==
  ASSUME NEW r, NEW s, NEW g, NEW x
  PROVE  /\ Unleased(r, s, g, x).state = s
         /\ Unleased(r, s, g, x).attempt = r.attempt
         /\ Revoked(r, s).state = s
         /\ Revoked(r, s).attempt = r.attempt
  BY DEF Revoked, Unleased

\* An acknowledged error keeps the attempt and ends the lease; it neither
\* erases nor completes the row.
LEMMA FailedShape ==
  ASSUME NEW w \in Work, NEW r, NEW class \in Classification, NEW after
  PROVE  /\ Failed(w, r, class, after).attempt = r.attempt
         /\ Failed(w, r, class, after).state \in {"FAILED", "BLOCKED", "CANCELLED", "RETRY_WAIT"}
  <1>1. CASE class = "RETRYABLE"
    BY <1>1 DEF Failed, Revoked, Unleased
  <1>2. CASE class = "NON_RETRYABLE"
    BY <1>2 DEF Failed, Revoked, Unleased
  <1>3. CASE class = "BLOCKED_EXTERNAL"
    BY <1>3 DEF Failed, Revoked, Unleased
  <1>4. CASE class = "CANCELLED"
    BY <1>4 DEF Failed, Revoked, Unleased
  <1> QED
    BY <1>1, <1>2, <1>3, <1>4 DEF Classification

\* The invariant holds of the empty table.
LEMMA InitIInv == Init => IInv
  <1> SUFFICES ASSUME Init PROVE IInv
    OBVIOUS
  <1> USE DEF Init
  <1>1. TypeOK
    BY AbsentIsItem DEF TypeOK, Step
  <1>2. RowShape /\ DependenciesFirst /\ AttemptLeft /\ DepsPresent /\ PublishedOnce
    BY BudgetType DEF RowShape, DependenciesFirst, AttemptLeft, DepsPresent, PublishedOnce,
       Absent, Waiting
  <1>3. ClaimKnown /\ LockHeld /\ LockOwner /\ DraftShape
    BY DEF ClaimKnown, LockHeld, LockOwner, DraftShape, InTransaction
  <1>4. NoDependencyCycle
    BY DEF NoDependencyCycle
  <1> QED
    BY <1>1, <1>2, <1>3, <1>4 DEF IInv

\* Every action keeps the types.
LEMMA TypeStep == IInv /\ [Next]_vars => TypeOK'
  <1> SUFFICES ASSUME IInv, [Next]_vars PROVE TypeOK'
    OBVIOUS
  <1> USE DEF TypeOK
  <1>0. TypeOK /\ ClaimKnown
    BY DEF IInv
  <1>1. ASSUME NEW w \in Work, NEW D \in SUBSET Work, NEW d \in Delay, Enqueue(w, D, d)
        PROVE  TypeOK'
    BY <1>0, <1>1, DelayTypes, RequestedIsItem DEF Enqueue
  <1>2. ASSUME NEW p \in Worker, NEW w \in Work, NEW D \in SUBSET Work, NEW d \in Delay,
               EnqueueDownstream(p, w, D, d)
        PROVE  TypeOK'
    BY <1>0, <1>2, DelayTypes DEF EnqueueDownstream, Draft
  <1>3. ASSUME NEW p \in Worker, NEW d \in LeaseTicks, Claim(p, d)
        PROVE  TypeOK'
    <2>1. PICK R \in ReapChoice(p), w \in NextUp(p) :
            /\ item' = [Reaped(R) EXCEPT ![w] = Leased(item[w], p, d)]
            /\ claim' = [claim EXCEPT ![p] = [work |-> w, token |-> item[w].attempt + 1,
                                              gen |-> item[w].gen + 1]]
      BY <1>3 DEF Claim
    <2>2. w \in Work
      BY ScopeType DEF NextUp
    <2>3. Reaped(R) \in [Work -> Item]
      BY <1>0, RevokedIsItem DEF Reaped, State
    <2>4. item' \in [Work -> Item]
      BY <1>0, <2>1, <2>2, <2>3, LeasedIsItem
    <2>5. claim' \in [Worker -> Claimed \cup {NoClaim}]
      <3>1. item[w].attempt + 1 \in Nat /\ item[w].gen + 1 \in Nat
        BY <1>0, <2>2 DEF Item
      <3> QED
        BY <1>0, <2>1, <2>2, <3>1 DEF Claimed
    <2> QED
      BY <1>0, <1>3, <2>4, <2>5 DEF Claim, Step
  <1>4. ASSUME NEW p \in Worker, ReapOnly(p)
        PROVE  TypeOK'
    <2>1. \A R : Reaped(R) \in [Work -> Item]
      BY <1>0, RevokedIsItem DEF Reaped, State
    <2> QED
      BY <1>0, <1>4, <2>1 DEF ReapOnly
  <1>5. ASSUME NEW p \in Worker, NEW d \in LeaseTicks, Heartbeat(p, d)
        PROVE  TypeOK'
    <2>1. claim[p] \in Claimed /\ claim[p].work \in Work
      BY <1>0, <1>5 DEF Heartbeat, ClaimKnown, Claimed
    <2>2. Later(item[claim[p].work].lease, d) \in Int
      BY <1>0, <2>1, DelayTypes DEF Later, Item
    <2>3. [item[claim[p].work] EXCEPT !.lease = Later(item[claim[p].work].lease, d)] \in Item
      BY <1>0, <2>1, <2>2, ExtendedIsItem
    <2>4. item' = [item EXCEPT ![claim[p].work] =
                    [item[claim[p].work] EXCEPT !.lease = Later(item[claim[p].work].lease, d)]]
      BY <1>5 DEF Heartbeat
    <2> QED
      BY <1>0, <1>5, <2>1, <2>3, <2>4 DEF Heartbeat
  <1>6. ASSUME NEW p \in Worker, NEW s \in {"stepping", "publishing"}, Begin(p, s)
        PROVE  TypeOK'
    BY <1>0, <1>6 DEF Begin, Step
  <1>7. ASSUME NEW p \in Worker, EndProgress(p)
        PROVE  TypeOK'
    <2>1. claim[p] \in Claimed /\ claim[p].token \in Nat
      BY <1>0, <1>7 DEF EndProgress, ClaimKnown, Claimed
    <2> QED
      BY <1>0, <1>7, <2>1 DEF EndProgress, Step
  <1>8. ASSUME NEW p \in Worker, FinishWork(p)
        PROVE  TypeOK'
    BY <1>0, <1>8 DEF FinishWork, Step
  <1>9. ASSUME NEW p \in Worker, CommitPublication(p)
        PROVE  TypeOK'
    <2> DEFINE w == claim[p].work
    <2>1. claim[p] \in Claimed /\ w \in Work /\ claim[p].token \in Nat
      BY <1>0, <1>9 DEF CommitPublication, ClaimKnown, Claimed
    <2>2. item[w].gen \in Nat /\ item[w].wait \in Nat
      BY <1>0, <2>1 DEF Item
    <2>3. Unleased(item[w], "SUCCEEDED", item[w].gen, item[w].wait) \in Item
      BY <1>0, <2>1, <2>2, UnleasedIsItem DEF State
    <2>4. item' \in [Work -> Item] /\ deps' \in [Work -> SUBSET Work]
      <3>1. CASE draft[p] = NoDraft
        BY <1>0, <1>9, <2>1, <2>3, <3>1 DEF CommitPublication
      <3>2. CASE draft[p] # NoDraft
        <4>1. draft[p] \in Draft
          BY <1>0, <3>2
        <4>2. draft[p].work \in Work /\ draft[p].deps \in SUBSET Work /\ draft[p].wait \in Nat
          BY <4>1 DEF Draft
        <4>3. Requested(draft[p].wait) \in Item
          BY <4>2, RequestedIsItem
        <4> QED
          BY <1>0, <1>9, <2>1, <2>3, <3>2, <4>2, <4>3 DEF CommitPublication
      <3> QED
        BY <3>1, <3>2
    <2>5. /\ writer' \in [Work -> Nat]
          /\ published' \in [Work -> SUBSET Nat]
          /\ locked' \in [Work -> Worker \cup {NoWorker}]
          /\ draft' \in [Worker -> Draft \cup {NoDraft}]
          /\ claim' \in [Worker -> Claimed \cup {NoClaim}]
          /\ step' \in [Worker -> Step]
      BY <1>0, <1>9, <2>1 DEF CommitPublication, Step
    <2> QED
      BY <2>4, <2>5
  <1>10. ASSUME NEW p \in Worker, Abort(p) \/ LoseLease(p) \/ Crash(p)
         PROVE  TypeOK'
    BY <1>0, <1>10 DEF Abort, LoseLease, Crash, Rollback, Step
  <1>11. ASSUME NEW p \in Worker, NEW class \in Classification, NEW after \in Delay,
                Fail(p, class, after)
         PROVE  TypeOK'
    <2> DEFINE w == claim[p].work
    <2>1. claim[p] \in Claimed /\ w \in Work
      BY <1>0, <1>11 DEF Fail, ClaimKnown, Claimed
    <2>2. item[w].attempt \in 1 .. MaxAttempts[w]
      <3>1. item[w].state = "RUNNING"
        BY <1>11 DEF Fail, Fenced, Owns
      <3>2. item[w].attempt \in Nat
        BY <1>0, <2>1 DEF Item
      <3> QED
        BY <2>1, <3>1, <3>2, BudgetType DEF IInv, RowShape, AttemptLeft
    <2>3. Failed(w, item[w], class, after) \in Item
      BY <1>0, <2>1, <2>2, FailedIsItem
    <2> QED
      BY <1>0, <1>11, <2>1, <2>3 DEF Fail, Step
  <1>12. ASSUME NEW w \in Work, Cancel(w)
         PROVE  TypeOK'
    <2>1. Revoked(item[w], "CANCELLED") \in Item
      BY <1>0, RevokedIsItem DEF State
    <2> QED
      BY <1>0, <1>12, <2>1 DEF Cancel
  <1>13. ASSUME NEW w \in Work, NEW d \in Delay, ReleaseBlocked(w, d)
         PROVE  TypeOK'
    <2>1. item[w].gen + 1 \in Nat /\ d \in Nat
      BY <1>0, DelayTypes DEF Item
    <2>2. \A s \in State : Unleased(item[w], s, item[w].gen + 1, d) \in Item
      BY <1>0, <2>1, UnleasedIsItem
    <2>3. "FAILED" \in State /\ "PENDING" \in State
      BY DEF State
    <2> QED
      BY <1>0, <1>13, <2>2, <2>3 DEF ReleaseBlocked
  <1>14. CASE Tick
    BY <1>0, <1>14, SoonerIsItem DEF Tick
  <1>15. CASE UNCHANGED vars
    BY <1>0, <1>15 DEF vars
  <1> QED
    BY <1>1, <1>2, <1>3, <1>4, <1>5, <1>6, <1>7, <1>8, <1>9, <1>10, <1>11, <1>12,
       <1>13, <1>14, <1>15 DEF Next

-----------------------------------------------------------------------------
(* How a step changes the table *)

\* The steps that leave the table and the dependencies alone.
LEMMA QuietSteps ==
  ASSUME NEW p \in Worker,
         \/ \E w \in Work, D \in SUBSET Work, d \in Delay : EnqueueDownstream(p, w, D, d)
         \/ \E s \in {"stepping", "publishing"} : Begin(p, s)
         \/ EndProgress(p) \/ FinishWork(p) \/ Abort(p) \/ LoseLease(p) \/ Crash(p)
  PROVE  item' = item /\ deps' = deps
  BY DEF EnqueueDownstream, Begin, EndProgress, FinishWork, Abort, LoseLease, Crash, Rollback

\* What one step may do to row w, by the part of the code that does it.
Kept(w) == item'[w] = item[w]
Aged(w) == item'[w] = Sooner(item[w])
Created(w) == /\ item[w].state = "ABSENT"
              /\ \A q \in Worker : draft[q] # NoDraft /\ draft[q].work = w => draft'[q] = NoDraft
              /\ \E d \in Nat : item'[w] = Requested(d)
LeasedTo(w, p) == /\ Runnable(w) /\ Free(w) /\ step[p] = "idle"
                  /\ \E d \in LeaseTicks : item'[w] = Leased(item[w], p, d)
Dropped(w) == /\ Free(w)
              /\ item[w].state \in State \ (Terminal \cup {"ABSENT"})
              /\ \E s \in {"FAILED", "CANCELLED"} : item'[w] = Revoked(item[w], s)
Extended(w) == /\ item[w].state = "RUNNING"
               /\ \E x \in Int : item'[w] = [item[w] EXCEPT !.lease = x]
GivenUp(w, p) == /\ step[p] = "working" /\ Owns(p) /\ claim[p].work = w
                 /\ locked[w] = NoWorker
                 /\ \E c \in Classification, a \in Delay : item'[w] = Failed(w, item[w], c, a)
Completed(w, p) == /\ CommitPublication(p) /\ step[p] = "finished" /\ claim[p].work = w
                   /\ item'[w] = Unleased(item[w], "SUCCEEDED", item[w].gen, item[w].wait)
Released(w) == /\ item[w].state = "BLOCKED" /\ Free(w)
               /\ \E d \in Nat : item'[w] = Unleased(item[w],
                    IF item[w].attempt >= MaxAttempts[w] THEN "FAILED" ELSE "PENDING",
                    item[w].gen + 1, d)

\* Every step changes every row in one of these ways.
LEMMA RowStep ==
  ASSUME IInv, [Next]_vars, NEW w \in Work
  PROVE  \/ Kept(w) \/ Aged(w) \/ Created(w) \/ Dropped(w) \/ Extended(w) \/ Released(w)
         \/ \E p \in Worker : LeasedTo(w, p) \/ GivenUp(w, p) \/ Completed(w, p)
  <1>0. TypeOK /\ ClaimKnown /\ LockHeld /\ DraftShape
    BY DEF IInv
  <1> USE DEF TypeOK
  <1>1. ASSUME NEW v \in Work, NEW D \in SUBSET Work, NEW d \in Delay, Enqueue(v, D, d)
        PROVE  Kept(w) \/ Created(w)
    BY <1>0, <1>1, DelayTypes DEF Enqueue, Acceptable, Kept, Created
  <1>2. ASSUME NEW p \in Worker, NEW d \in LeaseTicks, Claim(p, d)
        PROVE  Kept(w) \/ Dropped(w) \/ LeasedTo(w, p)
    <2>1. PICK R \in ReapChoice(p), v \in NextUp(p) :
            item' = [Reaped(R) EXCEPT ![v] = Leased(item[v], p, d)]
      BY <1>2 DEF Claim
    <2>2. v \in Work /\ Runnable(v) /\ Free(v)
      BY ScopeType DEF NextUp
    <2>3. CASE w = v
      BY <1>0, <1>2, <2>1, <2>2, <2>3 DEF LeasedTo, Reaped, Claim
    <2>4. CASE w # v /\ w \notin R
      BY <1>0, <2>1, <2>4 DEF Kept, Reaped
    <2>5. CASE w # v /\ w \in R
      <3>1. item[w].state = "RUNNING" /\ Free(w)
        BY <2>5 DEF ReapChoice, Exhausted
      <3>2. item'[w] = Revoked(item[w], "FAILED")
        BY <1>0, <2>1, <2>5 DEF Reaped
      <3> QED
        BY <3>1, <3>2 DEF Dropped, State, Terminal
    <2> QED
      BY <2>3, <2>4, <2>5
  <1>3. ASSUME NEW p \in Worker, ReapOnly(p)
        PROVE  Kept(w) \/ Dropped(w)
    <2>1. PICK v \in Exhausted(p) : item' = Reaped({v})
      BY <1>3 DEF ReapOnly
    <2>2. CASE w = v
      BY <2>1, <2>2 DEF Exhausted, Reaped, Dropped, State, Terminal
    <2>3. CASE w # v
      BY <2>1, <2>3 DEF Reaped, Kept
    <2> QED
      BY <2>2, <2>3
  <1>4. ASSUME NEW p \in Worker, NEW d \in LeaseTicks, Heartbeat(p, d)
        PROVE  Kept(w) \/ Extended(w)
    <2>1. claim[p].work \in Work
      BY <1>0, <1>4 DEF Heartbeat, ClaimKnown, Claimed
    <2>2. item' = [item EXCEPT ![claim[p].work] =
                    [item[claim[p].work] EXCEPT !.lease = Later(item[claim[p].work].lease, d)]]
      BY <1>4 DEF Heartbeat
    <2>3. Later(item[claim[p].work].lease, d) \in Int
      BY <1>0, <2>1, DelayTypes DEF Later, Item
    <2>4. item[claim[p].work].state = "RUNNING"
      BY <1>4 DEF Heartbeat, Fenced, Owns
    <2> QED
      BY <1>0, <2>1, <2>2, <2>3, <2>4 DEF Kept, Extended
  <1>5. ASSUME NEW p \in Worker, CommitPublication(p)
        PROVE  Kept(w) \/ Created(w) \/ Completed(w, p)
    <2> DEFINE v == claim[p].work
               done == [item EXCEPT ![v] = Unleased(item[v], "SUCCEEDED", item[v].gen, item[v].wait)]
    <2>1. v \in Work /\ item[v].state = "RUNNING"
      BY <1>0, <1>5 DEF CommitPublication, ClaimKnown, Claimed, LockHeld, InTransaction, Owns
    <2>2. CASE draft[p] = NoDraft
      <3>1. item' = done
        BY <1>5, <2>2 DEF CommitPublication
      <3> QED
        BY <1>0, <1>5, <2>1, <3>1 DEF CommitPublication, Kept, Completed
    <2>3. CASE draft[p] # NoDraft
      <3>1. item' = [done EXCEPT ![draft[p].work] = Requested(draft[p].wait)]
        BY <1>5, <2>3 DEF CommitPublication
      <3>2. /\ draft[p].work \in Work /\ draft[p].wait \in Nat
            /\ item[draft[p].work].state = "ABSENT"
        BY <1>0, <2>3 DEF Draft, DraftShape
      <3>3. CASE w = v
        BY <1>0, <1>5, <2>1, <3>1, <3>2, <3>3 DEF CommitPublication, Completed
      <3>4. CASE w = draft[p].work
        <4>1. ASSUME NEW q \in Worker, draft[q] # NoDraft, draft[q].work = w PROVE q = p
          BY <1>0, <2>3, <3>4, <4>1 DEF DraftShape
        <4>2. item'[w] = Requested(draft[p].wait) /\ draft'[p] = NoDraft
          BY <1>0, <1>5, <3>1, <3>2, <3>4 DEF CommitPublication
        <4> QED
          BY <3>2, <3>4, <4>1, <4>2 DEF Created
      <3>5. CASE w # v /\ w # draft[p].work
        BY <1>0, <3>1, <3>5 DEF Kept
      <3> QED
        BY <3>3, <3>4, <3>5
    <2> QED
      BY <2>2, <2>3
  <1>6. ASSUME NEW p \in Worker, NEW c \in Classification, NEW a \in Delay, Fail(p, c, a)
        PROVE  Kept(w) \/ GivenUp(w, p)
    <2>1. claim[p].work \in Work
      BY <1>0, <1>6 DEF Fail, ClaimKnown, Claimed
    <2> QED
      BY <1>0, <1>6, <2>1 DEF Fail, Kept, GivenUp, Fenced
  <1>7. ASSUME NEW v \in Work, Cancel(v)
        PROVE  Kept(w) \/ Dropped(w)
    BY <1>0, <1>7 DEF Cancel, Kept, Dropped
  <1>8. ASSUME NEW v \in Work, NEW d \in Delay, ReleaseBlocked(v, d)
        PROVE  Kept(w) \/ Released(w)
    BY <1>0, <1>8, DelayTypes DEF ReleaseBlocked, Kept, Released
  <1>9. CASE Tick
    BY <1>9 DEF Tick, Aged
  <1>10. CASE UNCHANGED vars
    BY <1>10 DEF vars, Kept
  <1> QED
    BY <1>1, <1>2, <1>3, <1>4, <1>5, <1>6, <1>7, <1>8, <1>9, <1>10, QuietSteps DEF Next, Kept

\* A terminal row never changes, and a row never disappears.
LEMMA TerminalKept ==
  ASSUME IInv, [Next]_vars, NEW w \in Work, item[w].state \in Terminal
  PROVE  item'[w] = item[w]
  <1>0. item[w] \in Item /\ TypeOK /\ LockHeld /\ ClaimKnown
    BY DEF IInv, TypeOK
  <1>1. ASSUME Aged(w) PROVE Kept(w)
    BY <1>0, <1>1 DEF Aged, Sooner, Kept, Item, Terminal, Waiting
  <1>2. ~ Created(w) /\ ~ Dropped(w) /\ ~ Extended(w) /\ ~ Released(w)
    BY DEF Created, Dropped, Extended, Released, Terminal
  <1>3. ASSUME NEW p \in Worker PROVE ~ LeasedTo(w, p) /\ ~ GivenUp(w, p) /\ ~ Completed(w, p)
    BY <1>0 DEF LeasedTo, Runnable, GivenUp, Owns, Completed, LockHeld, InTransaction,
                Terminal, Waiting
  <1> QED
    BY <1>1, <1>2, <1>3, RowStep DEF Kept

LEMMA PresentGrows ==
  ASSUME IInv, [Next]_vars, NEW w \in Present
  PROVE  w \in Present'
  <1>0. item[w] \in Item /\ w \in Work /\ item[w].state # "ABSENT"
    BY DEF IInv, TypeOK, Present
  <1>1. Kept(w) \/ Aged(w) \/ Extended(w) => item'[w].state # "ABSENT"
    BY <1>0 DEF Kept, Aged, Extended, Sooner, Item
  <1>2. Created(w) \/ Dropped(w) \/ Released(w) => item'[w].state # "ABSENT"
    <2>1. Created(w) => item'[w].state # "ABSENT"
      BY DEF Created, Requested, Unleased
    <2>2. Dropped(w) => item'[w].state # "ABSENT"
      BY DEF Dropped, Revoked, Unleased
    <2>3. Released(w) => item'[w].state # "ABSENT"
      BY UnleasedShape DEF Released
    <2> QED
      BY <2>1, <2>2, <2>3
  <1>3. ASSUME NEW p \in Worker PROVE LeasedTo(w, p) => item'[w].state # "ABSENT"
    BY DEF LeasedTo, Leased
  <1>4. ASSUME NEW p \in Worker PROVE Completed(w, p) => item'[w].state # "ABSENT"
    BY DEF Completed, Unleased
  <1>5. ASSUME NEW p \in Worker PROVE GivenUp(w, p) => item'[w].state # "ABSENT"
    <2> SUFFICES ASSUME GivenUp(w, p) PROVE item'[w].state # "ABSENT"
      OBVIOUS
    <2>1. PICK c \in Classification, a \in Delay : item'[w] = Failed(w, item[w], c, a)
      BY DEF GivenUp
    <2> QED
      BY <1>0, <2>1, FailedShape
  <1> QED
    BY <1>0, <1>1, <1>2, <1>3, <1>4, <1>5, RowStep DEF Present

\* Dependencies are set once, when the row appears, and name existing rows.
LEMMA DepsStep ==
  ASSUME IInv, [Next]_vars, NEW w \in Work
  PROVE  \/ deps'[w] = deps[w]
         \/ /\ item[w].state = "ABSENT" /\ item'[w].state = "PENDING"
            /\ deps'[w] \subseteq Present
  <1>0. TypeOK /\ ClaimKnown /\ DraftShape
    BY DEF IInv
  <1> USE DEF TypeOK
  <1>1. ASSUME NEW v \in Work, NEW D \in SUBSET Work, NEW d \in Delay, Enqueue(v, D, d)
        PROVE  \/ deps'[w] = deps[w]
               \/ /\ item[w].state = "ABSENT" /\ item'[w].state = "PENDING"
                  /\ deps'[w] \subseteq Present
    BY <1>0, <1>1 DEF Enqueue, Acceptable, Requested, Unleased
  <1>2. ASSUME NEW p \in Worker, CommitPublication(p)
        PROVE  \/ deps'[w] = deps[w]
               \/ /\ item[w].state = "ABSENT" /\ item'[w].state = "PENDING"
                  /\ deps'[w] \subseteq Present
    <2>1. CASE draft[p] = NoDraft
      BY <1>2, <2>1 DEF CommitPublication
    <2>2. CASE draft[p] # NoDraft
      <3>1. /\ draft[p].work \in Work
            /\ item[draft[p].work].state = "ABSENT" /\ draft[p].deps \subseteq Present
        BY <1>0, <2>2 DEF Draft, DraftShape
      <3>2. /\ deps' = [deps EXCEPT ![draft[p].work] = draft[p].deps]
            /\ item'[draft[p].work] = Requested(draft[p].wait)
        BY <1>0, <1>2, <2>2, <3>1 DEF CommitPublication
      <3> QED
        BY <1>0, <3>1, <3>2 DEF Requested, Unleased
    <2> QED
      BY <2>1, <2>2
  <1>3. ASSUME NEW p \in Worker,
               \/ \E d \in LeaseTicks : Claim(p, d) \/ Heartbeat(p, d)
               \/ ReapOnly(p)
               \/ \E c \in Classification, a \in Delay : Fail(p, c, a)
        PROVE  deps' = deps
    BY <1>3 DEF Claim, Heartbeat, ReapOnly, Fail
  <1>4. ASSUME NEW v \in Work, Cancel(v) \/ \E d \in Delay : ReleaseBlocked(v, d)
        PROVE  deps' = deps
    BY <1>4 DEF Cancel, ReleaseBlocked
  <1>5. CASE Tick \/ UNCHANGED vars
    BY <1>5 DEF Tick, vars
  <1> QED
    BY <1>1, <1>2, <1>3, <1>4, <1>5, QuietSteps DEF Next

-----------------------------------------------------------------------------
(* The parts of the invariant that speak about the table only *)

LEMMA RowShapeStep == IInv /\ [Next]_vars => RowShape' /\ AttemptLeft'
  <1> SUFFICES ASSUME IInv, [Next]_vars, NEW w \in Work
               PROVE  /\ item'[w].state = "RUNNING" =>
                           /\ item'[w].owner \in Worker
                           /\ item'[w].token = item'[w].attempt
                           /\ item'[w].attempt > 0
                      /\ item'[w].state = "ABSENT" => item'[w].attempt = 0 /\ deps'[w] = {}
                      /\ item'[w].attempt <= MaxAttempts[w]
                      /\ item'[w].state \in Waiting => item'[w].attempt < MaxAttempts[w]
    BY DEF RowShape, AttemptLeft
  <1>0. item[w] \in Item /\ MaxAttempts[w] \in Nat \ {0}
    BY BudgetType DEF IInv, TypeOK
  <1>1. /\ item[w].state = "RUNNING" =>
             /\ item[w].owner \in Worker
             /\ item[w].token = item[w].attempt
             /\ item[w].attempt > 0
        /\ item[w].state = "ABSENT" => item[w].attempt = 0 /\ deps[w] = {}
        /\ item[w].attempt <= MaxAttempts[w]
        /\ item[w].state \in Waiting => item[w].attempt < MaxAttempts[w]
    BY DEF IInv, RowShape, AttemptLeft
  <1>2. deps'[w] = deps[w] \/ item'[w].state = "PENDING"
    BY DepsStep
  <1>3. CASE Kept(w)
    BY <1>1, <1>2, <1>3 DEF Kept, Waiting
  <1>4. CASE Aged(w) \/ Extended(w)
    BY <1>0, <1>1, <1>2, <1>4 DEF Aged, Extended, Sooner, Item, Waiting
  <1>5. CASE Created(w)
    BY <1>0, <1>1, <1>5 DEF Created, Requested, Unleased, Absent, Waiting
  <1>6. CASE Dropped(w)
    BY <1>0, <1>1, <1>6 DEF Dropped, Revoked, Unleased, Waiting
  <1>7. CASE Released(w)
    BY <1>0, <1>1, <1>7 DEF Released, Unleased, Waiting, Item
  <1>8. ASSUME NEW p \in Worker, LeasedTo(w, p)
        PROVE  /\ item'[w].state = "RUNNING" /\ item'[w].owner \in Worker
               /\ item'[w].token = item'[w].attempt /\ item'[w].attempt > 0
               /\ item'[w].attempt <= MaxAttempts[w]
    BY <1>0, <1>8 DEF LeasedTo, Leased, Runnable, Item
  <1>9. ASSUME NEW p \in Worker, GivenUp(w, p)
        PROVE  /\ item'[w].state \notin {"RUNNING", "ABSENT"}
               /\ item'[w].attempt <= MaxAttempts[w]
               /\ item'[w].state \in Waiting => item'[w].attempt < MaxAttempts[w]
    BY <1>0, <1>1, <1>9 DEF GivenUp, Failed, Revoked, Unleased, Classification, Waiting, Item
  <1>10. ASSUME NEW p \in Worker, Completed(w, p)
         PROVE  item'[w].state = "SUCCEEDED" /\ item'[w].attempt = item[w].attempt
    BY <1>10 DEF Completed, Unleased
  <1> QED
    BY <1>1, <1>3, <1>4, <1>5, <1>6, <1>7, <1>8, <1>9, <1>10, RowStep DEF Waiting

LEMMA DepsPresentStep == IInv /\ [Next]_vars => DepsPresent'
  <1> SUFFICES ASSUME IInv, [Next]_vars, NEW w \in Work
               PROVE  deps'[w] \subseteq Present'
    BY DEF DepsPresent
  <1>1. deps[w] \subseteq Present
    BY DEF IInv, DepsPresent
  <1> QED
    BY <1>1, DepsStep, PresentGrows

LEMMA DependenciesFirstStep == IInv /\ [Next]_vars => DependenciesFirst'
  <1> SUFFICES ASSUME IInv, [Next]_vars, NEW w \in Work, item'[w].attempt > 0,
                      NEW u \in deps'[w]
               PROVE  item'[u].state = "SUCCEEDED"
    BY DEF DependenciesFirst, DepsSucceeded
  <1>0. /\ item[w] \in Item
        /\ item[w].state = "ABSENT" => item[w].attempt = 0
        /\ item[w].attempt > 0 => DepsSucceeded(w)
        /\ deps \in [Work -> SUBSET Work]
    BY DEF IInv, TypeOK, RowShape, DependenciesFirst
  <1>1. DepsSucceeded(w)
    <2>1. Kept(w) \/ Aged(w) \/ Extended(w) => item'[w].attempt = item[w].attempt
      BY <1>0 DEF Kept, Aged, Extended, Sooner, Item
    <2>5. Dropped(w) \/ Released(w) => item'[w].attempt = item[w].attempt
      BY UnleasedShape DEF Dropped, Released
    <2>2. CASE Created(w)
      BY <2>2 DEF Created, Requested, Unleased, Absent
    <2>3. ASSUME NEW p \in Worker, LeasedTo(w, p)
          PROVE  DepsSucceeded(w)
      BY <2>3 DEF LeasedTo, Runnable
    <2>4. ASSUME NEW p \in Worker, GivenUp(w, p)
          PROVE  item'[w].attempt = item[w].attempt
      BY <2>4, FailedShape DEF GivenUp
    <2>6. ASSUME NEW p \in Worker, Completed(w, p)
          PROVE  item'[w].attempt = item[w].attempt
      BY <2>6 DEF Completed, Unleased
    <2> QED
      BY <1>0, <2>1, <2>2, <2>3, <2>4, <2>5, <2>6, RowStep
  <1>2. deps'[w] = deps[w]
    <2>1. CASE item[w].state = "ABSENT"
      <3>1. ~ Aged(w) \/ item'[w].attempt = item[w].attempt
        BY <1>0 DEF Aged, Sooner, Item
      <3>2. ~ Dropped(w) /\ ~ Extended(w) /\ ~ Released(w)
        BY <2>1 DEF Dropped, Extended, Released
      <3>3. Created(w) => item'[w].attempt = 0
        BY DEF Created, Requested, Unleased, Absent
      <3>4. \A p \in Worker : ~ LeasedTo(w, p) /\ ~ GivenUp(w, p)
        BY <2>1 DEF LeasedTo, GivenUp, Runnable, Waiting, Owns
      <3>5. \A p \in Worker : Completed(w, p) => item'[w].attempt = item[w].attempt
        BY DEF Completed, Unleased
      <3>6. Kept(w) => item'[w].attempt = item[w].attempt
        BY DEF Kept
      <3> QED
        BY <1>0, <2>1, <3>1, <3>2, <3>3, <3>4, <3>5, <3>6, RowStep
    <2>2. CASE item[w].state # "ABSENT"
      BY <2>2, DepsStep
    <2> QED
      BY <2>1, <2>2
  <1>3. item[u].state = "SUCCEEDED" /\ u \in Work
    BY <1>0, <1>1, <1>2 DEF DepsSucceeded
  <1> QED
    BY <1>3, TerminalKept DEF Terminal

\* A new row depends on rows that exist, and no existing row on the new one, so
\* a set without a cycle stays one.
LEMMA NoCycleStep == IInv /\ [Next]_vars => NoDependencyCycle'
  <1> SUFFICES ASSUME IInv, [Next]_vars, NEW S \in SUBSET Work, S # {}
               PROVE  \E w \in S : deps'[w] \cap S = {}
    BY DEF NoDependencyCycle
  <1> DEFINE old == S \cap Present
  <1>1. CASE old # {}
    <2>1. PICK w \in old : deps[w] \cap old = {}
      BY <1>1 DEF IInv, NoDependencyCycle, Present
    <2>2. deps[w] \subseteq Present /\ deps'[w] = deps[w]
      BY DepsStep DEF IInv, DepsPresent, Present
    <2> QED
      BY <2>1, <2>2
  <1>2. CASE old = {}
    <2>1. PICK w \in S : TRUE
      OBVIOUS
    <2>2. item[w].state = "ABSENT" /\ deps[w] = {}
      BY <1>2, <2>1 DEF Present, IInv, RowShape
    <2>3. deps'[w] \subseteq Present
      BY <2>2, DepsStep
    <2> QED
      BY <1>2, <2>1, <2>3
  <1> QED
    BY <1>1, <1>2
-----------------------------------------------------------------------------
(* What a step does to a worker *)

Steady(p) == /\ step'[p] = step[p] /\ claim'[p] = claim[p]
             /\ \A w \in Work : locked'[w] = p <=> locked[w] = p
Took(p) == /\ step[p] = "idle" /\ step'[p] = "working" /\ claim'[p] \in Claimed
           /\ locked' = locked
Began(p) == /\ step[p] = "working" /\ step'[p] \in {"stepping", "publishing"} /\ Owns(p)
            /\ claim'[p] = claim[p] /\ item' = item
            /\ locked' = [locked EXCEPT ![claim[p].work] = p]
Proved(p) == /\ step[p] = "publishing" /\ step'[p] = "finished"
             /\ claim'[p] = claim[p] /\ locked' = locked
Ended(p) == /\ \/ step'[p] = "idle"
               \/ step'[p] = "working" /\ step[p] # "idle" /\ claim'[p] = claim[p]
            /\ \A w \in Work : locked'[w] # p

\* Every step does one of these to every worker.
LEMMA SessionStep ==
  ASSUME IInv, [Next]_vars, NEW p \in Worker
  PROVE  Steady(p) \/ Took(p) \/ Began(p) \/ Proved(p) \/ Ended(p)
  <1>0. TypeOK /\ ClaimKnown /\ LockHeld /\ LockOwner /\ p # NoWorker
    BY WorkersNamed DEF IInv
  <1> USE DEF TypeOK
  <1>1. ASSUME NEW q \in Worker, NEW d \in LeaseTicks, Claim(q, d)
        PROVE  Steady(p) \/ Took(p)
    <2>1. CASE p = q
      <3>1. PICK w \in NextUp(q) :
              claim' = [claim EXCEPT ![q] = [work |-> w, token |-> item[w].attempt + 1,
                                             gen |-> item[w].gen + 1]]
        BY <1>1 DEF Claim
      <3>2. w \in Work /\ item[w] \in Item
        BY <1>0, ScopeType DEF NextUp
      <3>3. item[w].attempt + 1 \in Nat /\ item[w].gen + 1 \in Nat
        BY <3>2 DEF Item
      <3>4. claim'[p] \in Claimed
        BY <1>0, <2>1, <3>1, <3>2, <3>3 DEF Claimed
      <3> QED
        BY <1>0, <1>1, <2>1, <3>4 DEF Claim, Took
    <2>2. CASE p # q
      BY <1>0, <1>1, <2>2 DEF Claim, Steady
    <2> QED
      BY <2>1, <2>2
  <1>2. ASSUME NEW q \in Worker, NEW s \in {"stepping", "publishing"}, Begin(q, s)
        PROVE  Steady(p) \/ Began(p)
    <2>1. CASE p = q
      BY <1>0, <1>2, <2>1 DEF Begin, Began, Fenced
    <2>2. CASE p # q
      BY <1>0, <1>2, <2>2 DEF Begin, Steady
    <2> QED
      BY <2>1, <2>2
  <1>3. ASSUME NEW q \in Worker, EndProgress(q) \/ CommitPublication(q)
        PROVE  Steady(p) \/ Ended(p)
    <2>1. /\ locked[claim[q].work] = q
          /\ locked' = [locked EXCEPT ![claim[q].work] = NoWorker]
      BY <1>0, <1>3 DEF EndProgress, CommitPublication, LockHeld, InTransaction
    <2>2. CASE p = q
      <3>1. \A w \in Work : locked'[w] # p
        BY <1>0, <2>1, <2>2 DEF LockOwner
      <3> QED
        BY <1>0, <1>3, <2>2, <3>1 DEF EndProgress, CommitPublication, Ended
    <2>3. CASE p # q
      BY <1>0, <1>3, <2>1, <2>3 DEF EndProgress, CommitPublication, Steady
    <2> QED
      BY <2>2, <2>3
  <1>4. ASSUME NEW q \in Worker, FinishWork(q)
        PROVE  Steady(p) \/ Proved(p)
    BY <1>0, <1>4 DEF FinishWork, Steady, Proved
  <1>5. ASSUME NEW q \in Worker, Abort(q) \/ LoseLease(q) \/ Crash(q)
        PROVE  Steady(p) \/ Ended(p)
    <2>1. locked' = [w \in Work |-> IF locked[w] = q THEN NoWorker ELSE locked[w]]
      BY <1>5 DEF Abort, LoseLease, Crash, Rollback
    <2>2. CASE p = q
      BY <1>0, <1>5, <2>1, <2>2 DEF Abort, LoseLease, Crash, InTransaction, Ended
    <2>3. CASE p # q
      BY <1>0, <1>5, <2>1, <2>3 DEF Abort, LoseLease, Crash, Steady
    <2> QED
      BY <2>2, <2>3
  <1>6. ASSUME NEW q \in Worker, NEW c \in Classification, NEW a \in Delay, Fail(q, c, a)
        PROVE  Steady(p) \/ Ended(p)
    <2>1. CASE p = q
      <3>1. \A w \in Work : locked[w] # p
        BY <1>0, <1>6, <2>1 DEF Fail, LockOwner, InTransaction
      <3> QED
        BY <1>0, <1>6, <2>1, <3>1 DEF Fail, Ended
    <2>2. CASE p # q
      BY <1>0, <1>6, <2>2 DEF Fail, Steady
    <2> QED
      BY <2>1, <2>2
  <1>7. ASSUME NEW q \in Worker,
               \/ ReapOnly(q) \/ \E d \in LeaseTicks : Heartbeat(q, d)
               \/ \E w \in Work, D \in SUBSET Work, d \in Delay : EnqueueDownstream(q, w, D, d)
        PROVE  Steady(p)
    BY <1>7 DEF ReapOnly, Heartbeat, EnqueueDownstream, Steady
  <1>8. ASSUME NEW w \in Work,
               \/ Cancel(w) \/ \E d \in Delay : ReleaseBlocked(w, d)
               \/ \E D \in SUBSET Work, d \in Delay : Enqueue(w, D, d)
        PROVE  Steady(p)
    BY <1>8 DEF Cancel, ReleaseBlocked, Enqueue, Steady
  <1>9. CASE Tick \/ UNCHANGED vars
    BY <1>9 DEF Tick, vars, Steady
  <1> QED
    BY <1>1, <1>2, <1>3, <1>4, <1>5, <1>6, <1>7, <1>8, <1>9 DEF Next

\* No step of another session changes what Owns compares in a locked row.
LEMMA LockedRow ==
  ASSUME IInv, [Next]_vars, NEW p \in Worker, step[p] \in InTransaction,
         ~ CommitPublication(p)
  PROVE  LET w == claim[p].work IN
           /\ w \in Work
           /\ item'[w].state = item[w].state
           /\ item'[w].owner = item[w].owner
           /\ item'[w].token = item[w].token
           /\ item'[w].gen = item[w].gen
  <1> DEFINE w == claim[p].work
  <1>0. /\ w \in Work /\ item[w] \in Item
        /\ locked[w] = p /\ p # NoWorker /\ item[w].state = "RUNNING"
    BY WorkersNamed DEF IInv, TypeOK, ClaimKnown, Claimed, LockHeld, Owns, InTransaction
  <1>1. ~ Created(w) /\ ~ Dropped(w) /\ ~ Released(w)
    BY <1>0 DEF Created, Dropped, Released, Free
  <1>2. ASSUME NEW q \in Worker PROVE ~ LeasedTo(w, q) /\ ~ GivenUp(w, q)
    BY <1>0 DEF LeasedTo, GivenUp, Free
  <1>3. ASSUME NEW q \in Worker PROVE ~ Completed(w, q)
    <2> SUFFICES ASSUME Completed(w, q) PROVE q = p
      BY DEF Completed
    <2> QED
      BY <1>0 DEF Completed, IInv, LockHeld, InTransaction
  <1>4. Kept(w) \/ Aged(w) \/ Extended(w)
    BY <1>0, <1>1, <1>2, <1>3, RowStep
  <1>5. Kept(w) \/ Aged(w) \/ Extended(w) =>
           /\ item'[w].state = item[w].state
           /\ item'[w].owner = item[w].owner
           /\ item'[w].token = item[w].token
           /\ item'[w].gen = item[w].gen
    BY <1>0 DEF Kept, Aged, Extended, Sooner, Item, Waiting
  <1> QED
    BY <1>0, <1>4, <1>5

-----------------------------------------------------------------------------
(* The parts of the invariant that speak about workers *)

LEMMA ClaimKnownStep == IInv /\ [Next]_vars => ClaimKnown'
  <1> SUFFICES ASSUME IInv, [Next]_vars, NEW p \in Worker, step'[p] # "idle"
               PROVE  claim'[p] \in Claimed
    BY DEF ClaimKnown
  <1>1. step[p] # "idle" => claim[p] \in Claimed
    BY DEF IInv, ClaimKnown
  <1> QED
    BY <1>1, SessionStep DEF Steady, Took, Began, Proved, Ended

LEMMA LockOwnerStep == IInv /\ [Next]_vars => LockOwner'
  <1> SUFFICES ASSUME IInv, [Next]_vars, NEW w \in Work, locked'[w] # NoWorker
               PROVE  step'[locked'[w]] \in InTransaction /\ claim'[locked'[w]].work = w
    BY DEF LockOwner
  <1> DEFINE p == locked'[w]
  <1>1. p \in Worker
    BY TypeStep DEF TypeOK
  <1>2. /\ locked[w] = p => step[p] \in InTransaction /\ claim[p].work = w
        /\ locked \in [Work -> Worker \cup {NoWorker}]
    BY <1>1, WorkersNamed DEF IInv, LockOwner, TypeOK
  <1> QED
    BY <1>1, <1>2, SessionStep DEF Steady, Took, Began, Proved, Ended, InTransaction

LEMMA LockHeldStep == IInv /\ [Next]_vars => LockHeld'
  <1> SUFFICES ASSUME IInv, [Next]_vars, NEW p \in Worker, step'[p] \in InTransaction
               PROVE  locked'[claim'[p].work] = p /\ Owns(p)'
    BY DEF LockHeld
  <1>1. step[p] # "idle" => claim[p].work \in Work
    BY DEF IInv, ClaimKnown, Claimed
  <1>2. step[p] \in InTransaction => locked[claim[p].work] = p /\ Owns(p)
    BY DEF IInv, LockHeld
  <1>3. ~ CommitPublication(p)
    BY DEF CommitPublication, IInv, TypeOK, InTransaction
  <1>4. CASE Steady(p)
    BY <1>1, <1>2, <1>3, <1>4, LockedRow DEF Steady, Owns, InTransaction
  <1>5. CASE Began(p)
    BY <1>1, <1>5 DEF Began, Owns, IInv, TypeOK
  <1>6. CASE Proved(p)
    BY <1>1, <1>2, <1>3, <1>6, LockedRow DEF Proved, Owns, InTransaction
  <1>7. ~ Took(p) /\ ~ Ended(p)
    BY DEF Took, Ended, InTransaction
  <1> QED
    BY <1>4, <1>5, <1>6, <1>7, SessionStep

\* A draft is written by its own worker, kept through its transaction, and gone
\* when the transaction ends.
LEMMA DraftStep ==
  ASSUME IInv, [Next]_vars, NEW p \in Worker, draft'[p] # NoDraft
  PROVE  \/ /\ draft[p] = draft'[p] /\ step'[p] \in {"publishing", "finished"}
            /\ \A q \in Worker : draft[q] = draft'[q] \/ q # p
         \/ \E w \in Work, D \in SUBSET Work, d \in Delay : EnqueueDownstream(p, w, D, d)
  <1>0. /\ TypeOK
        /\ draft[p] # NoDraft => step[p] \in {"publishing", "finished"}
    BY DEF IInv, DraftShape
  <1> DEFINE Same == draft[p] = draft'[p] /\ step'[p] \in {"publishing", "finished"}
             New == \E w \in Work, D \in SUBSET Work, d \in Delay : EnqueueDownstream(p, w, D, d)
  <1> USE DEF TypeOK
  <1>1. ASSUME NEW q \in Worker, NEW w \in Work, NEW D \in SUBSET Work, NEW d \in Delay,
               EnqueueDownstream(q, w, D, d)
        PROVE  Same \/ New
    BY <1>0, <1>1 DEF EnqueueDownstream
  <1>2. ASSUME NEW q \in Worker,
               \/ CommitPublication(q) \/ Abort(q) \/ LoseLease(q) \/ Crash(q)
        PROVE  Same
    BY <1>0, <1>2 DEF CommitPublication, Abort, LoseLease, Crash, Rollback
  <1>3. ASSUME NEW q \in Worker,
               \/ \E d \in LeaseTicks : Claim(q, d)
               \/ \E s \in {"stepping", "publishing"} : Begin(q, s)
               \/ EndProgress(q)
               \/ \E c \in Classification, a \in Delay : Fail(q, c, a)
        PROVE  Same
    BY <1>0, <1>3 DEF Claim, Begin, EndProgress, Fail
  <1>4. ASSUME NEW q \in Worker, FinishWork(q)
        PROVE  Same
    BY <1>0, <1>4 DEF FinishWork
  <1>5. ASSUME NEW q \in Worker, ReapOnly(q) \/ \E d \in LeaseTicks : Heartbeat(q, d)
        PROVE  Same
    BY <1>0, <1>5 DEF ReapOnly, Heartbeat
  <1>6. ASSUME NEW w \in Work,
               \/ Cancel(w) \/ \E d \in Delay : ReleaseBlocked(w, d)
               \/ \E D \in SUBSET Work, d \in Delay : Enqueue(w, D, d)
        PROVE  Same
    BY <1>0, <1>6 DEF Cancel, ReleaseBlocked, Enqueue
  <1>7. CASE Tick \/ UNCHANGED vars
    BY <1>0, <1>7 DEF Tick, vars
  <1> QED
    BY <1>1, <1>2, <1>3, <1>4, <1>5, <1>6, <1>7 DEF Next

LEMMA DraftShapeStep == IInv /\ [Next]_vars => DraftShape'
  <1> SUFFICES ASSUME IInv, [Next]_vars, NEW p \in Worker, draft'[p] # NoDraft
               PROVE  /\ step'[p] \in {"publishing", "finished"}
                      /\ item'[draft'[p].work].state = "ABSENT"
                      /\ draft'[p].deps \subseteq Present'
                      /\ \A q \in Worker : q # p /\ draft'[q] # NoDraft =>
                            draft'[q].work # draft'[p].work
    BY DEF DraftShape
  <1>0. TypeOK /\ DraftShape
    BY DEF IInv
  <1> DEFINE New(q) == \E w \in Work, D \in SUBSET Work, d \in Delay :
                          EnqueueDownstream(q, w, D, d)
  <1>1. CASE New(p)
    <2>1. PICK w \in Work, D \in SUBSET Work, d \in Delay : EnqueueDownstream(p, w, D, d)
      BY <1>1
    <2>2. /\ draft'[p] = [work |-> w, deps |-> D, wait |-> d]
          /\ step' = step /\ item' = item /\ step[p] = "publishing"
          /\ \A q \in Worker : q # p => draft'[q] = draft[q]
      BY <1>0, <2>1 DEF EnqueueDownstream, TypeOK
    <2>3. /\ item[w].state = "ABSENT" /\ D \subseteq Present
          /\ \A q \in Worker : draft[q] # NoDraft => draft[q].work # w
      BY <2>1 DEF EnqueueDownstream, Acceptable
    <2> QED
      BY <2>2, <2>3 DEF Present
  <1>2. CASE ~ New(p)
    <2> DEFINE w == draft[p].work
    <2>1. draft[p] = draft'[p] /\ step'[p] \in {"publishing", "finished"}
      BY <1>2, DraftStep
    <2>2. w \in Work /\ item[w].state = "ABSENT" /\ draft[p].deps \subseteq Present
      BY <1>0, <2>1 DEF DraftShape, TypeOK, Draft
    <2>3. item'[w].state = "ABSENT"
      <3>1. ~ Created(w) /\ ~ Dropped(w) /\ ~ Extended(w) /\ ~ Released(w)
        BY <2>1, <2>2 DEF Created, Dropped, Extended, Released
      <3>2. ASSUME NEW q \in Worker PROVE ~ LeasedTo(w, q) /\ ~ GivenUp(w, q)
        BY <2>2 DEF LeasedTo, GivenUp, Runnable, Waiting, Owns
      <3>3. ASSUME NEW q \in Worker PROVE ~ Completed(w, q)
        BY <2>2 DEF Completed, IInv, LockHeld, Owns, InTransaction
      <3>4. Kept(w) \/ Aged(w) => item'[w].state = item[w].state
        BY <2>2, <1>0 DEF Kept, Aged, Sooner, TypeOK, Item, Waiting
      <3> QED
        BY <2>2, <3>1, <3>2, <3>3, <3>4, RowStep
    <2>4. draft'[p].deps \subseteq Present'
      BY <2>1, <2>2, PresentGrows
    <2>5. ASSUME NEW q \in Worker, q # p, draft'[q] # NoDraft
          PROVE  draft'[q].work # w
      <3>1. CASE New(q)
        <4>1. PICK v \in Work, D \in SUBSET Work, d \in Delay : EnqueueDownstream(q, v, D, d)
          BY <3>1
        <4>2. draft'[q].work = v
          BY <1>0, <4>1 DEF EnqueueDownstream, TypeOK
        <4> QED
          BY <2>1, <4>1, <4>2 DEF EnqueueDownstream, Acceptable
      <3>2. CASE ~ New(q)
        <4>1. draft[q] = draft'[q]
          BY <2>5, <3>2, DraftStep
        <4> QED
          BY <1>0, <2>1, <2>5, <4>1 DEF DraftShape
      <3> QED
        BY <3>1, <3>2
    <2> QED
      BY <2>1, <2>3, <2>4, <2>5
  <1> QED
    BY <1>1, <1>2

-----------------------------------------------------------------------------
(* Domain writes *)

\* A publication completes the row its worker owns, and the item it hands on is
\* another one.
LEMMA CommitRow ==
  ASSUME IInv, NEW p \in Worker, CommitPublication(p)
  PROVE  LET w == claim[p].work IN
           /\ w \in Work /\ Owns(p) /\ claim[p].token \in Nat
           /\ item'[w] = Unleased(item[w], "SUCCEEDED", item[w].gen, item[w].wait)
           /\ draft[p] # NoDraft => draft[p].work # w
  <1> DEFINE w == claim[p].work
             done == [item EXCEPT ![w] = Unleased(item[w], "SUCCEEDED", item[w].gen, item[w].wait)]
  <1>1. w \in Work /\ Owns(p) /\ item \in [Work -> Item] /\ claim[p].token \in Nat
    BY DEF IInv, TypeOK, ClaimKnown, Claimed, LockHeld, InTransaction, CommitPublication
  <1>2. draft[p] # NoDraft => draft[p].work \in Work /\ draft[p].work # w
    BY <1>1 DEF IInv, TypeOK, Draft, DraftShape, Owns
  <1>3. CASE draft[p] = NoDraft
    BY <1>1, <1>3 DEF CommitPublication
  <1>4. CASE draft[p] # NoDraft
    <2>1. item' = [done EXCEPT ![draft[p].work] = Requested(draft[p].wait)]
      BY <1>4 DEF CommitPublication
    <2> QED
      BY <1>1, <1>2, <1>4, <2>1
  <1> QED
    BY <1>1, <1>2, <1>3, <1>4

\* What a step does to the domain rows of item w: nothing, a progress commit, or
\* the publication that completes w.
Unwritten(w) == writer'[w] = writer[w] /\ published'[w] = published[w]
Stepped(w, p) == /\ claim[p].work = w /\ Owns(p) /\ item' = item
                 /\ writer'[w] = claim[p].token /\ published'[w] = published[w]

LEMMA WriteStep ==
  ASSUME IInv, [Next]_vars, NEW w \in Work
  PROVE  \/ Unwritten(w) /\ \A p \in Worker : ~ Completed(w, p)
         \/ \E p \in Worker : Stepped(w, p)
         \/ \E p \in Worker : CommitPublication(p) /\ claim[p].work = w
  <1>0. TypeOK
    BY DEF IInv
  <1>1. ASSUME NEW p \in Worker, EndProgress(p)
        PROVE  Unwritten(w) \/ Stepped(w, p)
    BY <1>0, <1>1 DEF EndProgress, Fenced, TypeOK, Unwritten, Stepped
  <1>2. ASSUME NEW p \in Worker, CommitPublication(p), claim[p].work # w
        PROVE  Unwritten(w)
    BY <1>0, <1>2 DEF CommitPublication, TypeOK, Unwritten
  <1>3. ASSUME NEW p \in Worker, 
               \/ Abort(p) \/ LoseLease(p) \/ Crash(p) \/ FinishWork(p) \/ ReapOnly(p)
               \/ \E d \in LeaseTicks : Claim(p, d) \/ Heartbeat(p, d)
               \/ \E s \in {"stepping", "publishing"} : Begin(p, s)
        PROVE  Unwritten(w)
    BY <1>3 DEF Abort, LoseLease, Crash, Rollback, FinishWork, ReapOnly, Claim, Heartbeat,
                Begin, Unwritten
  <1>4. ASSUME NEW p \in Worker,
               \/ \E c \in Classification, a \in Delay : Fail(p, c, a)
               \/ \E v \in Work, D \in SUBSET Work, d \in Delay : EnqueueDownstream(p, v, D, d)
        PROVE  Unwritten(w)
    BY <1>4 DEF Fail, EnqueueDownstream, Unwritten
  <1>5. ASSUME NEW v \in Work,
               \/ Cancel(v) \/ \E d \in Delay : ReleaseBlocked(v, d)
               \/ \E D \in SUBSET Work, d \in Delay : Enqueue(v, D, d)
        PROVE  Unwritten(w)
    BY <1>5 DEF Cancel, ReleaseBlocked, Enqueue, Unwritten
  <1>6. Tick \/ UNCHANGED vars => Unwritten(w)
    BY DEF Tick, vars, Unwritten
  <1>7. (\E p \in Worker : Completed(w, p)) =>
           \E p \in Worker : CommitPublication(p) /\ claim[p].work = w
    BY DEF Completed
  <1> QED
    BY <1>1, <1>2, <1>3, <1>4, <1>5, <1>6, <1>7 DEF Next

LEMMA PublishedOnceStep == IInv /\ [Next]_vars => PublishedOnce'
  <1> SUFFICES ASSUME IInv, [Next]_vars, NEW w \in Work
               PROVE  /\ published'[w] # {} <=> item'[w].state = "SUCCEEDED"
                      /\ published'[w] \subseteq {writer'[w]}
    BY DEF PublishedOnce
  <1>0. /\ published[w] # {} <=> item[w].state = "SUCCEEDED"
        /\ published[w] \subseteq {writer[w]}
        /\ item[w] \in Item
    BY DEF IInv, PublishedOnce, TypeOK
  <1>1. CASE Unwritten(w) /\ \A p \in Worker : ~ Completed(w, p)
    <2>1. Kept(w) \/ Aged(w) \/ Extended(w) => item'[w].state = item[w].state
      BY <1>0 DEF Kept, Aged, Extended, Sooner, Item, Waiting
    <2>2. Created(w) => item'[w].state # "SUCCEEDED" /\ item[w].state # "SUCCEEDED"
      BY DEF Created, Requested, Unleased
    <2>7. Dropped(w) => item'[w].state # "SUCCEEDED" /\ item[w].state # "SUCCEEDED"
      BY DEF Dropped, Revoked, Unleased, Terminal
    <2>3. Released(w) => item'[w].state # "SUCCEEDED" /\ item[w].state # "SUCCEEDED"
      BY UnleasedShape DEF Released
    <2>4. ASSUME NEW p \in Worker, LeasedTo(w, p)
          PROVE  item'[w].state # "SUCCEEDED" /\ item[w].state # "SUCCEEDED"
      BY <2>4 DEF LeasedTo, Leased, Runnable, Waiting
    <2>5. ASSUME NEW p \in Worker, GivenUp(w, p)
          PROVE  item'[w].state # "SUCCEEDED" /\ item[w].state # "SUCCEEDED"
      <3>1. PICK c \in Classification, a \in Delay : item'[w] = Failed(w, item[w], c, a)
        BY <2>5 DEF GivenUp
      <3> QED
        BY <2>5, <3>1, FailedShape DEF GivenUp, Owns
    <2>6. item'[w].state = "SUCCEEDED" <=> item[w].state = "SUCCEEDED"
      BY <1>1, <2>1, <2>2, <2>3, <2>4, <2>5, <2>7, RowStep
    <2> QED
      BY <1>0, <1>1, <2>6 DEF Unwritten
  <1>2. ASSUME NEW p \in Worker, Stepped(w, p)
        PROVE  published'[w] = {} /\ item'[w].state # "SUCCEEDED"
    BY <1>0, <1>2 DEF Stepped, Owns
  <1>3. ASSUME NEW p \in Worker, CommitPublication(p), claim[p].work = w
        PROVE  /\ item'[w].state = "SUCCEEDED"
               /\ published'[w] = {claim[p].token} /\ writer'[w] = claim[p].token
    <2>1. Owns(p) /\ item'[w].state = "SUCCEEDED"
      <3>1. item'[w] = Unleased(item[w], "SUCCEEDED", item[w].gen, item[w].wait) /\ Owns(p)
        BY <1>3, CommitRow
      <3> QED
        BY <3>1, UnleasedShape
    <2>2. published[w] = {}
      BY <1>0, <1>3, <2>1 DEF Owns
    <2> QED
      BY <1>3, <2>1, <2>2 DEF CommitPublication, IInv, TypeOK
  <1> QED
    BY <1>1, <1>2, <1>3, WriteStep

LEMMA IInvStep == IInv /\ [Next]_vars => IInv'
  BY TypeStep, RowShapeStep, ClaimKnownStep, LockHeldStep, LockOwnerStep, DraftShapeStep,
     DepsPresentStep, PublishedOnceStep, DependenciesFirstStep, NoCycleStep DEF IInv

-----------------------------------------------------------------------------
(* Theorems *)

\* The invariant that carries every safety property of the queue: it holds in
\* each reachable state, for any items, workers, budgets, delays and crashes.
THEOREM Invariance == Spec => []IInv
  <1>1. Init => IInv
    BY InitIInv
  <1>2. IInv /\ [Next]_vars => IInv'
    BY IInvStep
  <1> QED
    BY <1>1, <1>2, PTL DEF Spec

\* Every variable keeps its type.
THEOREM TypeCorrect == Spec => []TypeOK
  <1>1. IInv => TypeOK
    BY DEF IInv
  <1> QED
    BY <1>1, Invariance, PTL

\* The results of an item are published exactly when it is SUCCEEDED, by one
\* attempt, and no other attempt wrote after it (WorkRegistry.publication,
\* lock_work, finish_work).
THEOREM PublishesOnce == Spec => []PublishedOnce
  <1>1. IInv => PublishedOnce
    BY DEF IInv
  <1> QED
    BY <1>1, Invariance, PTL

\* An item that waits has an attempt left and no item exceeds its budget
\* (claim_work, fail_work, release_blocked_work).
THEOREM BudgetKept == Spec => []AttemptLeft
  <1>1. IInv => AttemptLeft
    BY DEF IInv
  <1> QED
    BY <1>1, Invariance, PTL

\* No item is attempted before everything it depends on succeeded (claim_work,
\* enqueue_work inside a publication).
THEOREM DependenciesRespected == Spec => []DependenciesFirst
  <1>1. IInv => DependenciesFirst
    BY DEF IInv
  <1> QED
    BY <1>1, Invariance, PTL

\* Sealed dependencies never form a cycle, for any number of items and any
\* interleaving of the transactions that request them (guard_work_dependency).
THEOREM DependenciesAcyclic == Spec => []NoDependencyCycle
  <1>1. IInv => NoDependencyCycle
    BY DEF IInv
  <1> QED
    BY <1>1, Invariance, PTL

\* Domain rows of an item are committed only for the attempt that holds its
\* lease row at that moment (lock_work, WorkRegistry._publication_transaction).
THEOREM HolderWrites == Spec => OnlyHolderWrites
  <1>1. IInv /\ [Next]_vars =>
          [\A w \in Work :
             writer'[w] # writer[w] \/ published'[w] # published[w] =>
                /\ item[w].state = "RUNNING"
                /\ item[w].attempt = writer'[w]]_vars
    <2> SUFFICES ASSUME IInv, [Next]_vars, NEW w \in Work,
                        writer'[w] # writer[w] \/ published'[w] # published[w]
                 PROVE  item[w].state = "RUNNING" /\ item[w].attempt = writer'[w]
      OBVIOUS
    <2>1. PICK p \in Worker :
            claim[p].work = w /\ (Stepped(w, p) \/ CommitPublication(p))
      BY WriteStep DEF Unwritten, Stepped
    <2>2. Owns(p) /\ writer'[w] = claim[p].token
      BY <2>1, CommitRow DEF Stepped, CommitPublication, IInv, TypeOK
    <2> QED
      BY <2>1, <2>2 DEF Owns, IInv, RowShape
  <1> QED
    BY <1>1, Invariance, PTL DEF Spec, OnlyHolderWrites

\* A terminal item keeps its row, its dependencies and its domain rows for ever
\* (work_transition_allowed, lock_work).
THEOREM OutcomesFinal == Spec => OutcomeFinal
  <1>1. IInv /\ [Next]_vars =>
          [\A w \in Work : item[w].state \in Terminal =>
             /\ item'[w] = item[w]
             /\ deps'[w] = deps[w]
             /\ published'[w] = published[w]
             /\ writer'[w] = writer[w]]_vars
    <2> SUFFICES ASSUME IInv, [Next]_vars, NEW w \in Work, item[w].state \in Terminal
                 PROVE  /\ item'[w] = item[w] /\ deps'[w] = deps[w]
                        /\ published'[w] = published[w] /\ writer'[w] = writer[w]
      OBVIOUS
    <2>1. item'[w] = item[w]
      BY TerminalKept
    <2>2. deps'[w] = deps[w]
      BY DepsStep DEF Terminal
    <2>3. ASSUME NEW p \in Worker, claim[p].work = w, Owns(p)
          PROVE  FALSE
      BY <2>3 DEF Owns, Terminal
    <2>4. Unwritten(w)
      BY <2>3, WriteStep, CommitRow DEF Stepped
    <2> QED
      BY <2>1, <2>2, <2>4 DEF Unwritten
  <1> QED
    BY <1>1, Invariance, PTL DEF Spec, OutcomeFinal

\* Dependencies never change after enqueue (guard_work_dependency).
THEOREM DependenciesStaySealed == Spec => DependenciesSealed
  <1>1. IInv /\ [Next]_vars =>
          [\A w \in Work : item[w].state # "ABSENT" => deps'[w] = deps[w]]_vars
    BY DepsStep
  <1> QED
    BY <1>1, Invariance, PTL DEF Spec, DependenciesSealed

\* The columns that tell epochs, attempts and leases apart.
LEMMA FencingKept ==
  ASSUME NEW r \in Item, NEW s, NEW g, NEW x
  PROVE  /\ Unleased(r, s, g, x).gen = g
         /\ Revoked(r, s).gen = r.gen + 1
         /\ Sooner(r).gen = r.gen /\ Sooner(r).attempt = r.attempt
         /\ Sooner(r).state = r.state /\ Sooner(r).token = r.token
  BY DEF Revoked, Unleased, Sooner, Item

\* An acknowledged error ends the epoch, whatever its class.
LEMMA FailedEpoch ==
  ASSUME NEW w \in Work, NEW r \in Item, NEW class \in Classification, NEW after
  PROVE  Failed(w, r, class, after).gen = r.gen + 1
  <1>1. CASE class = "RETRYABLE"
    BY <1>1, FencingKept DEF Failed
  <1>2. CASE class = "NON_RETRYABLE"
    BY <1>2, FencingKept DEF Failed
  <1>3. CASE class = "BLOCKED_EXTERNAL"
    BY <1>3, FencingKept DEF Failed
  <1>4. CASE class = "CANCELLED"
    BY <1>4, FencingKept DEF Failed
  <1> QED
    BY <1>1, <1>2, <1>3, <1>4 DEF Classification

\* What Revoked and Failed make of a row that is not terminal passes the guard.
LEMMA RevokedPasses ==
  ASSUME NEW r \in Item, r.state \notin Terminal, NEW n, NEW s,
         work_transition_allowed(r.state, s),
         n.state = s, n.attempt = r.attempt, n.gen = r.gen + 1
  PROVE  guard_work_transition(r, n) /\ n.gen > r.gen
  BY DEF guard_work_transition, Item

\* The trigger guard_work_transition never raises, and a lease that does not end
\* with a success ends with its fencing epoch.
THEOREM RowsOnlyAdvance == Spec => RowsAdvance
  <1>1. IInv /\ [Next]_vars =>
          [\A w \in Work : item[w].state # "ABSENT" =>
             /\ guard_work_transition(item[w], item'[w])
             /\ item'[w].token # item[w].token =>
                   item'[w].gen > item[w].gen \/ item'[w].state = "SUCCEEDED"]_vars
    <2> SUFFICES ASSUME IInv, [Next]_vars, NEW w \in Work, item[w].state # "ABSENT"
                 PROVE  /\ guard_work_transition(item[w], item'[w])
                        /\ \/ item'[w].token = item[w].token
                           \/ item'[w].gen > item[w].gen
                           \/ item'[w].state = "SUCCEEDED"
      OBVIOUS
    <2>0. /\ item[w] \in Item /\ LockHeld /\ TypeOK
          /\ item[w].gen \in Nat /\ item[w].attempt \in Nat
      BY DEF IInv, TypeOK, Item
    <2>1. CASE item[w].state \in Terminal
      <3>1. item'[w] = item[w]
        BY <2>1, TerminalKept
      <3> QED
        BY <2>0, <3>1 DEF guard_work_transition, work_transition_allowed
    <2>2. CASE item[w].state \notin Terminal
      <3>1. CASE Kept(w)
        BY <2>0, <3>1 DEF Kept, guard_work_transition, work_transition_allowed
      <3>2. CASE Aged(w)
        BY <2>0, <2>2, <3>2, FencingKept
           DEF Aged, guard_work_transition, work_transition_allowed
      <3>3. CASE Dropped(w)
        <4>1. PICK s \in {"FAILED", "CANCELLED"} : item'[w] = Revoked(item[w], s)
          BY <3>3 DEF Dropped
        <4>2. item'[w].state = s /\ item'[w].attempt = item[w].attempt
          BY <4>1, UnleasedShape
        <4>3. item'[w].gen = item[w].gen + 1
          BY <4>1 DEF Revoked, Unleased
        <4>4. work_transition_allowed(item[w].state, s)
          BY <3>3 DEF Dropped, State, Terminal, Waiting, work_transition_allowed
        <4> QED
          BY <2>0, <2>2, <4>2, <4>3, <4>4, RevokedPasses
      <3>4. CASE Extended(w)
        BY <2>0, <2>2, <3>4 DEF Extended, Item, guard_work_transition, work_transition_allowed
      <3>5. CASE Released(w)
        <4>1. PICK s \in {"FAILED", "PENDING"}, d \in Nat :
                item'[w] = Unleased(item[w], s, item[w].gen + 1, d)
          BY <3>5 DEF Released
        <4>2. /\ item'[w].state = s /\ item'[w].attempt = item[w].attempt
              /\ item'[w].gen = item[w].gen + 1
          BY <2>0, <4>1, UnleasedShape, FencingKept
        <4>3. work_transition_allowed(item[w].state, s)
          BY <3>5 DEF Released, work_transition_allowed
        <4> QED
          BY <2>0, <2>2, <4>2, <4>3, RevokedPasses
      <3>6. ASSUME NEW p \in Worker, LeasedTo(w, p)
            PROVE  guard_work_transition(item[w], item'[w]) /\ item'[w].gen > item[w].gen
        <4>1. PICK d \in LeaseTicks : item'[w] = Leased(item[w], p, d)
          BY <3>6 DEF LeasedTo
        <4>2. /\ item'[w].state = "RUNNING" /\ item'[w].attempt = item[w].attempt + 1
              /\ item'[w].gen = item[w].gen + 1
          BY <4>1 DEF Leased
        <4>3. work_transition_allowed(item[w].state, "RUNNING")
          BY <3>6 DEF LeasedTo, Runnable, Waiting, work_transition_allowed
        <4> QED
          BY <2>0, <2>2, <4>2, <4>3 DEF guard_work_transition
      <3>7. ASSUME NEW p \in Worker, GivenUp(w, p)
            PROVE  guard_work_transition(item[w], item'[w]) /\ item'[w].gen > item[w].gen
        <4>1. PICK c \in Classification, a \in Delay : item'[w] = Failed(w, item[w], c, a)
          BY <3>7 DEF GivenUp
        <4>2. item[w].state = "RUNNING"
          BY <3>7 DEF GivenUp, Owns
        <4>3. item'[w].gen = item[w].gen + 1
          BY <2>0, <4>1, FailedEpoch
        <4>4. work_transition_allowed(item[w].state, item'[w].state)
          BY <4>1, <4>2, FailedShape DEF work_transition_allowed, Terminal
        <4>5. item'[w].attempt = item[w].attempt
          BY <4>1, FailedShape
        <4> QED
          BY <2>0, <2>2, <4>3, <4>4, <4>5, RevokedPasses
      <3>8. ASSUME NEW p \in Worker, Completed(w, p)
            PROVE  guard_work_transition(item[w], item'[w]) /\ item'[w].state = "SUCCEEDED"
        <4>1. item'[w] = Unleased(item[w], "SUCCEEDED", item[w].gen, item[w].wait)
          BY <3>8 DEF Completed
        <4>2. /\ item'[w].state = "SUCCEEDED" /\ item'[w].attempt = item[w].attempt
              /\ item'[w].gen = item[w].gen
          BY <2>0, <4>1, UnleasedShape, FencingKept
        <4>3. item[w].state = "RUNNING"
          BY <3>8, <2>0 DEF Completed, LockHeld, InTransaction, Owns
        <4> QED
          BY <2>0, <2>2, <4>2, <4>3 DEF guard_work_transition, work_transition_allowed, Terminal
      <3> QED
        BY <3>1, <3>2, <3>3, <3>4, <3>5, <3>6, <3>7, <3>8, RowStep, <2>0
           DEF Created, Kept, Aged, Extended
    <2> QED
      BY <2>1, <2>2
  <1> QED
    BY <1>1, Invariance, PTL DEF Spec, RowsAdvance

=============================================================================
