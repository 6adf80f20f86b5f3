---- MODULE RunFenceProofs ----
(***************************************************************************)
(* Proofs about sync runs and their publication fence, for any runs, any   *)
(* lanes and any sessions.  FInv is inductive: what a control transaction  *)
(* found when it locked a run's row still holds when it gets the fence,    *)
(* because the row keeps every other status change out, and no publication *)
(* of a run is open while the run's fence is held exclusively.             *)
(***************************************************************************)
EXTENDS RunFenceProperties, TLAPS

\* A lane has one active run: the unique index on active runs.
OneActivePerLane ==
    \A q, r \in Run : Active(q) /\ Active(r) /\ Lane[q] = Lane[r] => q = r

\* Whoever locked the row of a run decides from the status it found there.
RowDecides ==
    \A r \in Run : CASE row[r] = "none" -> TRUE
                     [] row[r] = "start" -> status[r] = "QUEUED"
                     [] row[r] = "succeed" -> status[r] = "RUNNING"
                     [] OTHER -> Active(r)

\* A cancellation that holds the fence of a run leaves no publication of it open.
FenceHeld == \A r \in Run, s \in Session : cancelling[r] = "held" => fence[s] # r

FInv ==
    /\ RunTypeOK
    /\ WriterActive
    /\ WorkFollowsRun
    /\ ExpiryStands
    /\ OneActivePerLane
    /\ RowDecides
    /\ FenceHeld

-----------------------------------------------------------------------------
(* Helpers *)

\* The conjuncts of FInv that do not mention the processes.
Rows == <<status, work, left, row, fence, cancelling>>

LEMMA RowsKept ==
  ASSUME FInv, UNCHANGED Rows, RunTypeOK'
  PROVE  FInv'
  BY DEF FInv, Rows, RunTypeOK, WriterActive, WorkFollowsRun, ExpiryStands,
         OneActivePerLane, RowDecides, FenceHeld, Active

LEMMA TargetIsStatus ==
  ASSUME NEW k \in Change \ {"none"}
  PROVE  Target(k) \in {"RUNNING", "SUCCEEDED", "FAILED", "CANCELLED"}
  BY DEF Change, Target

\* A work item that follows an active run follows it to a new status s.
LEMMA DrivenFollows ==
  ASSUME RunTypeOK, WorkFollowsRun, NEW r \in Run, Active(r),
         NEW s \in {"RUNNING", "SUCCEEDED", "FAILED", "CANCELLED"}, Driven(r, s)
  PROVE  work' = [work EXCEPT ![r] = s]
  BY DEF RunTypeOK, WorkFollowsRun, Active, Driven

\* Locking the row of an active run decides nothing yet.
LEMMA LockKeeps ==
  ASSUME FInv, NEW r \in Run, NEW k \in Change \ {"none"}, Lock(r, k), Active(r),
         k = "start" => status[r] = "QUEUED",
         k = "succeed" => status[r] = "RUNNING",
         k = "expire" => left[r] < 0
  PROVE  FInv'
<1>1. RunTypeOK'
  BY DEF FInv, RunTypeOK, Lock, process
<1>2. WriterActive' /\ WorkFollowsRun' /\ OneActivePerLane' /\ FenceHeld'
  BY DEF FInv, Lock, process, WriterActive, WorkFollowsRun, OneActivePerLane,
         FenceHeld, Active
<1>3. ExpiryStands'
  BY DEF FInv, RunTypeOK, Lock, process, ExpiryStands
<1>4. RowDecides'
  BY DEF FInv, RunTypeOK, Lock, process, RowDecides, Active, Change
<1> QED
  BY <1>1, <1>2, <1>3, <1>4 DEF FInv

\* A transaction that lets go of a row leaves the decision to the next one.
LEMMA UnlockKeeps ==
  ASSUME FInv, NEW r \in Run, row' = [row EXCEPT ![r] = "none"], RunTypeOK',
         UNCHANGED <<status, work, left, fence, cancelling>>
  PROVE  FInv'
<1>1. WriterActive' /\ WorkFollowsRun' /\ OneActivePerLane' /\ FenceHeld'
  BY DEF FInv, WriterActive, WorkFollowsRun, OneActivePerLane, FenceHeld, Active
<1>2. ExpiryStands' /\ RowDecides'
  BY DEF FInv, RunTypeOK, ExpiryStands, RowDecides, Active
<1> QED
  BY <1>1, <1>2 DEF FInv

\* An active run whose fence is held by nobody takes a new status together with
\* its work item.
LEMMA StatusKeeps ==
  ASSUME FInv, NEW r \in Run, Active(r), \A s \in Session : fence[s] # r,
         NEW s \in {"RUNNING", "SUCCEEDED", "FAILED", "CANCELLED"}, Driven(r, s),
         status' = [status EXCEPT ![r] = s],
         row' = [row EXCEPT ![r] = "none"],
         \A q \in Run : q # r => left'[q] = left[q],
         cancelling' \in {cancelling, [cancelling EXCEPT ![r] = "none"]},
         fence' = fence, RunTypeOK'
  PROVE  FInv'
<1>1. work' = [work EXCEPT ![r] = s]
  BY DrivenFollows DEF FInv
<1>2. WriterActive'
  BY <1>1 DEF FInv, RunTypeOK, WriterActive
<1>3. WorkFollowsRun'
  BY <1>1 DEF FInv, RunTypeOK, WorkFollowsRun
<1>4. ExpiryStands'
  BY DEF FInv, RunTypeOK, ExpiryStands
<1>5. \A q \in Run : Active(q)' => Active(q)
  BY DEF FInv, RunTypeOK, Active
<1>6. OneActivePerLane'
  BY <1>5 DEF FInv, OneActivePerLane
<1>7. RowDecides'
  BY DEF FInv, RunTypeOK, RowDecides, Active
<1>8. FenceHeld'
  BY DEF FInv, RunTypeOK, FenceHeld
<1> QED
  BY <1>2, <1>3, <1>4, <1>6, <1>7, <1>8 DEF FInv

-----------------------------------------------------------------------------
(* FInv is inductive *)

LEMMA FInit == Init => FInv
<1> SUFFICES ASSUME Init PROVE FInv
  OBVIOUS
<1>1. RunTypeOK
  BY WindowType DEF Init, RunTypeOK, Status, WorkState, Change, Host
<1>2. WriterActive /\ WorkFollowsRun /\ ExpiryStands /\ RowDecides /\ FenceHeld
  BY RunNull DEF Init, WriterActive, WorkFollowsRun, ExpiryStands, RowDecides, FenceHeld
<1>3. OneActivePerLane
  BY DEF Init, OneActivePerLane, Active
<1> QED
  BY <1>1, <1>2, <1>3 DEF FInv

LEMMA EnqueueKeeps == ASSUME FInv, NEW r \in Run, Enqueue(r) PROVE FInv'
<1>1. RunTypeOK'
  BY WindowType DEF FInv, RunTypeOK, Enqueue, Status, WorkState, Host
<1>2. row[r] = "none" /\ \A s \in Session : fence[s] # r
  <2>1. row[r] = "none"
    BY DEF FInv, RowDecides, Active, Enqueue
  <2>2. \A s \in Session : fence[s] # r
    BY RunNull DEF FInv, WriterActive, Enqueue
  <2> QED
    BY <2>1, <2>2
<1>3. WriterActive' /\ WorkFollowsRun'
  BY <1>2 DEF FInv, RunTypeOK, WriterActive, WorkFollowsRun, Enqueue
<1>4. ExpiryStands' /\ RowDecides' /\ FenceHeld'
  BY <1>2 DEF FInv, RunTypeOK, ExpiryStands, RowDecides, FenceHeld, Active, Enqueue
<1>5. OneActivePerLane'
  BY DEF FInv, RunTypeOK, OneActivePerLane, Active, Enqueue
<1> QED
  BY <1>1, <1>3, <1>4, <1>5 DEF FInv

LEMMA ChangeStatusKeeps == ASSUME FInv, NEW r \in Run, ChangeStatus(r) PROVE FInv'
<1>1. row[r] \in Change \ {"none"}
  BY DEF FInv, RunTypeOK, ChangeStatus
<1>2. Active(r)
  BY <1>1 DEF FInv, RowDecides, Active, Change
<1>3. Target(row[r]) \in {"RUNNING", "SUCCEEDED", "FAILED", "CANCELLED"}
  BY <1>1, TargetIsStatus
<1>4. Driven(r, Target(row[r]))
  BY DEF ChangeStatus
<1>5. work' = [work EXCEPT ![r] = Target(row[r])]
  BY <1>2, <1>3, <1>4, DrivenFollows DEF FInv
<1>6. RunTypeOK'
  <2>1. status' \in [Run -> Status] /\ work' \in [Run -> WorkState]
    BY <1>3, <1>5 DEF FInv, RunTypeOK, ChangeStatus, Status, WorkState
  <2>2. left' \in [Run -> -1 .. Window]
    BY WindowType DEF FInv, RunTypeOK, ChangeStatus
  <2>3. row' \in [Run -> Change] /\ host' \in [Run -> Host]
    BY <1>1 DEF FInv, RunTypeOK, ChangeStatus, Change, Host
  <2> QED
    BY <2>1, <2>2, <2>3 DEF FInv, RunTypeOK, ChangeStatus
<1>7. \A q \in Run : q # r => left'[q] = left[q]
  BY DEF FInv, RunTypeOK, ChangeStatus
<1> QED
  BY <1>2, <1>3, <1>4, <1>6, <1>7, StatusKeeps DEF ChangeStatus, FenceFree

LEMMA CancelCommittedKeeps == ASSUME FInv, NEW r \in Run, CancelCommitted(r) PROVE FInv'
<1>1. CASE Active(r)
  <2>1. status' = [status EXCEPT ![r] = "CANCELLED"] /\ Driven(r, "CANCELLED")
    BY <1>1 DEF CancelCommitted
  <2>2. work' = [work EXCEPT ![r] = "CANCELLED"]
    BY <1>1, <2>1, DrivenFollows DEF FInv
  <2>3. RunTypeOK'
    BY <2>1, <2>2 DEF FInv, RunTypeOK, CancelCommitted, process, Status, WorkState
  <2>4. row' = [row EXCEPT ![r] = "none"]
    BY DEF FInv, RunTypeOK, CancelCommitted
  <2>5. \A s \in Session : fence[s] # r
    BY DEF FInv, FenceHeld, CancelCommitted
  <2> QED
    BY <1>1, <2>1, <2>3, <2>4, <2>5, StatusKeeps DEF CancelCommitted
<1>2. CASE ~ Active(r)
  <2>1. UNCHANGED <<status, work, left, row, fence>>
    BY <1>2 DEF CancelCommitted
  <2>2. RunTypeOK'
    BY <2>1 DEF FInv, RunTypeOK, CancelCommitted, process
  <2>3. FenceHeld'
    BY <2>1 DEF FInv, RunTypeOK, FenceHeld, CancelCommitted
  <2> QED
    BY <2>1, <2>2, <2>3 DEF FInv, WriterActive, WorkFollowsRun, ExpiryStands,
       OneActivePerLane, RowDecides, Active
<1> QED
  BY <1>1, <1>2

\* The other steps of cancel_work.
LEMMA CancelKeeps ==
  ASSUME FInv, NEW r \in Run, CancelWork(r) \/ CancelFenced(r) \/ CancelGivenUp(r)
  PROVE  FInv'
<1>1. UNCHANGED <<status, work, left, row, fence>>
  BY DEF CancelWork, CancelFenced, CancelGivenUp
<1>2. RunTypeOK'
  BY <1>1 DEF FInv, RunTypeOK, CancelWork, CancelFenced, CancelGivenUp, process
<1>3. FenceHeld'
  BY <1>1 DEF FInv, RunTypeOK, FenceHeld, FenceFree, CancelWork, CancelFenced,
     CancelGivenUp
<1> QED
  BY <1>1, <1>2, <1>3 DEF FInv, WriterActive, WorkFollowsRun, ExpiryStands,
     OneActivePerLane, RowDecides, Active

LEMMA AuthorizeKeeps ==
  ASSUME FInv, NEW s \in Session, NEW r \in Run, Authorize(s, r)
  PROVE  FInv'
<1>1. RunTypeOK'
  BY DEF FInv, RunTypeOK, Authorize, process
<1>2. WriterActive' /\ FenceHeld'
  BY DEF FInv, RunTypeOK, WriterActive, FenceHeld, Authorize
<1> QED
  BY <1>1, <1>2 DEF FInv, Authorize, WorkFollowsRun, ExpiryStands, OneActivePerLane,
     RowDecides, Active

LEMMA EndPublicationKeeps ==
  ASSUME FInv, NEW s \in Session, EndPublication(s)
  PROVE  FInv'
<1>1. RunTypeOK'
  BY DEF FInv, RunTypeOK, EndPublication, process
<1>2. WriterActive' /\ FenceHeld'
  BY RunNull DEF FInv, RunTypeOK, WriterActive, FenceHeld, EndPublication
<1> QED
  BY <1>1, <1>2 DEF FInv, EndPublication, WorkFollowsRun, ExpiryStands,
     OneActivePerLane, RowDecides, Active

\* A heartbeat needs the row, so it takes no expiry back.
LEMMA HeartbeatKeeps == ASSUME FInv, NEW r \in Run, Heartbeat(r) PROVE FInv'
<1>1. RunTypeOK'
  BY WindowType DEF FInv, RunTypeOK, Heartbeat, process
<1>2. ExpiryStands'
  BY DEF FInv, RunTypeOK, ExpiryStands, Heartbeat
<1> QED
  BY <1>1, <1>2 DEF FInv, Heartbeat, WriterActive, WorkFollowsRun, OneActivePerLane,
     RowDecides, FenceHeld, Active

LEMMA TickKeeps == ASSUME FInv, Tick PROVE FInv'
<1>1. RunTypeOK'
  BY WindowType DEF FInv, RunTypeOK, Tick, process
<1>2. ExpiryStands'
  BY DEF FInv, RunTypeOK, ExpiryStands, Tick
<1> QED
  BY <1>1, <1>2 DEF FInv, Tick, WriterActive, WorkFollowsRun, OneActivePerLane,
     RowDecides, FenceHeld, Active

\* A dying API process lets go of the rows its own transactions locked.
LEMMA HostCrashKeeps == ASSUME FInv, NEW r \in Run, HostCrash(r) PROVE FInv'
<1>1. RunTypeOK'
  BY DEF FInv, RunTypeOK, HostCrash, Host, Change
<1>2. CASE row' = row
  BY <1>1, <1>2, RowsKept DEF HostCrash, Rows
<1>3. CASE row' = [row EXCEPT ![r] = "none"]
  BY <1>1, <1>3, UnlockKeeps DEF HostCrash
<1>4. row' = row \/ row' = [row EXCEPT ![r] = "none"]
  BY DEF FInv, RunTypeOK, HostCrash
<1> QED
  BY <1>2, <1>3, <1>4

LEMMA GiveUpKeeps == ASSUME FInv, NEW r \in Run, GiveUp(r) PROVE FInv'
<1>1. RunTypeOK'
  BY DEF FInv, RunTypeOK, GiveUp, Change, Host
<1> QED
  BY <1>1, UnlockKeeps DEF GiveUp

\* The goroutine and its command change no row.
LEMMA ProcessKeeps ==
  ASSUME FInv, NEW r \in Run, NEW h \in Host,
         \/ CancelContext(r) \/ NotStarted(r) \/ CommandEnds(r, h)
         \/ NoticeStop(r) \/ HostEnds(r) \/ OrphanEnds(r)
  PROVE  FInv'
<1>1. UNCHANGED Rows
  BY DEF CancelContext, NotStarted, CommandEnds, NoticeStop, HostEnds, OrphanEnds,
     Goes, Rows
<1>2. RunTypeOK'
  BY DEF FInv, RunTypeOK, CancelContext, NotStarted, CommandEnds, NoticeStop, HostEnds,
     OrphanEnds, Goes, Host
<1> QED
  BY <1>1, <1>2, RowsKept

LEMMA FNext == FInv /\ [Next]_vars => FInv'
<1> SUFFICES ASSUME FInv, [Next]_vars PROVE FInv'
  OBVIOUS
<1>1. ASSUME NEW r \in Run, Enqueue(r) PROVE FInv'
  BY <1>1, EnqueueKeeps
<1>2. ASSUME NEW r \in Run, LockStart(r) PROVE FInv'
  BY <1>2, LockKeeps DEF LockStart, Active, Change
<1>3. ASSUME NEW r \in Run, NEW k \in {"succeed", "fail"}, LockSummary(r, k) PROVE FInv'
  BY <1>3, LockKeeps DEF LockSummary, Active, Change
<1>4. ASSUME NEW r \in Run, LockFailure(r) PROVE FInv'
  BY <1>4, LockKeeps DEF LockFailure, Change
<1>5. ASSUME NEW r \in Run, LockCancel(r) PROVE FInv'
  BY <1>5, LockKeeps DEF LockCancel, Change
<1>6. ASSUME NEW r \in Run, LockExpired(r) PROVE FInv'
  BY <1>6, LockKeeps DEF LockExpired, Change
<1>7. ASSUME NEW r \in Run, ChangeStatus(r) PROVE FInv'
  BY <1>7, ChangeStatusKeeps
<1>8. ASSUME NEW r \in Run, GiveUp(r) PROVE FInv'
  BY <1>8, GiveUpKeeps
<1>9. ASSUME NEW r \in Run, CancelWork(r) \/ CancelFenced(r) \/ CancelGivenUp(r)
      PROVE  FInv'
  BY <1>9, CancelKeeps
<1>10. ASSUME NEW r \in Run, CancelCommitted(r) PROVE FInv'
  BY <1>10, CancelCommittedKeeps
<1>11. ASSUME NEW r \in Run, Heartbeat(r) PROVE FInv'
  BY <1>11, HeartbeatKeeps
<1>12. ASSUME NEW r \in Run, NEW h \in Host,
              \/ CancelContext(r) \/ NotStarted(r) \/ CommandEnds(r, h)
              \/ NoticeStop(r) \/ HostEnds(r) \/ OrphanEnds(r)
       PROVE  FInv'
  BY <1>12, ProcessKeeps
<1>13. ASSUME NEW r \in Run, HostCrash(r) PROVE FInv'
  BY <1>13, HostCrashKeeps
<1>14. ASSUME NEW s \in Session, NEW r \in Run, Authorize(s, r) PROVE FInv'
  BY <1>14, AuthorizeKeeps
<1>15. ASSUME NEW s \in Session, EndPublication(s) PROVE FInv'
  BY <1>15, EndPublicationKeeps
<1>16. CASE Tick
  BY <1>16, TickKeeps
<1>17. CASE UNCHANGED vars
  <2>1. UNCHANGED Rows /\ RunTypeOK'
    BY <1>17 DEF vars, Rows, FInv, RunTypeOK
  <2> QED
    BY <2>1, RowsKept
<1>18. "none" \in Host
  BY DEF Host
<1> HIDE DEF FInv
<1> QED
  BY <1>1, <1>2, <1>3, <1>4, <1>5, <1>6, <1>7, <1>8, <1>9, <1>10, <1>11, <1>12, <1>13,
     <1>14, <1>15, <1>16, <1>17, <1>18 DEF Next

THEOREM FenceInvariance == Spec => []FInv
<1>1. Init => FInv
  BY FInit
<1>2. FInv /\ [Next]_vars => FInv'
  BY FNext
<1> QED
  BY <1>1, <1>2, PTL DEF Spec

-----------------------------------------------------------------------------
(* The properties *)

\* Every variable keeps its type.
THEOREM RunTypes == Spec => []RunTypeOK
<1>1. FInv => RunTypeOK
  BY DEF FInv
<1> QED
  BY <1>1, FenceInvariance, PTL

\* Whoever publishes for a run publishes for a RUNNING run with a RUNNING work
\* item: the fence keeps control transactions out until the publication ends.
THEOREM WritersAreActive == Spec => []WriterActive
<1>1. FInv => WriterActive
  BY DEF FInv
<1> QED
  BY <1>1, FenceInvariance, PTL

\* Two runs of one lane never publish at the same time: both would be active.
THEOREM LanesHaveOneWriter == Spec => []OneWriterPerLane
<1>1. ASSUME FInv, NEW s \in Session, NEW t \in Session,
             NoRun \notin {fence[s], fence[t]}, fence[s] # fence[t]
      PROVE  Lane[fence[s]] # Lane[fence[t]]
  <2>1. fence[s] \in Run /\ fence[t] \in Run
    BY <1>1 DEF FInv, RunTypeOK
  <2>2. Active(fence[s]) /\ Active(fence[t])
    BY <1>1 DEF FInv, WriterActive, Active
  <2> QED
    BY <1>1, <2>1, <2>2 DEF FInv, OneActivePerLane
<1>2. FInv => OneWriterPerLane
  BY <1>1 DEF OneWriterPerLane
<1> QED
  BY <1>2, FenceInvariance, PTL

\* The shared work item of a run always says what the run's row says.
THEOREM WorkAgreesWithRun == Spec => []WorkFollowsRun
<1>1. FInv => WorkFollowsRun
  BY DEF FInv
<1> QED
  BY <1>1, FenceInvariance, PTL

\* No heartbeat revives a run between finding it expired and failing it.
THEOREM ExpiryIsFinal == Spec => []ExpiryStands
<1>1. FInv => ExpiryStands
  BY DEF FInv
<1> QED
  BY <1>1, FenceInvariance, PTL

-----------------------------------------------------------------------------
(* Runs implement RunPromise *)

\* The refinement mapping of Promise.
writers == [r \in Run |-> {s \in Session : fence[s] = r}]

LEMMA SameWriters == ASSUME fence' = fence PROVE writers' = writers
BY DEF writers

\* A run whose fence can be had exclusively has no publication open.
LEMMA FenceFreeIdle ==
  ASSUME NEW r \in Run, \A s \in Session : fence[s] # r
  PROVE  writers[r] = {}
BY DEF writers

LEMMA EnqueuePromised == ASSUME FInv, NEW r \in Run, Enqueue(r) PROVE Promise!Next
<1>1. Promise!Request(r)
  BY SameWriters DEF Enqueue, Active, Promise!Request, Promise!Open, writers
<1> QED
  BY <1>1 DEF Promise!Next

\* A control transaction changes the status from the one it found when it locked
\* the row, and finds no publication open once it has the fence.
LEMMA ChangePromised == ASSUME FInv, NEW r \in Run, ChangeStatus(r) PROVE Promise!Next
<1>1. /\ row[r] \in Change \ {"none"} /\ writers' = writers /\ writers[r] = {}
      /\ status' = [status EXCEPT ![r] = Target(row[r])]
  BY SameWriters, FenceFreeIdle DEF FInv, RunTypeOK, ChangeStatus, FenceFree
<1>2. CASE row[r] = "start"
  <2>1. status[r] = "QUEUED"
    BY <1>2 DEF FInv, RowDecides
  <2>2. Promise!Start(r)
    BY <1>1, <1>2, <2>1 DEF Target, Promise!Start, writers
  <2> QED
    BY <2>2 DEF Promise!Next
<1>3. CASE row[r] = "succeed"
  <2>1. status[r] = "RUNNING"
    BY <1>3 DEF FInv, RowDecides
  <2>2. Promise!Succeed(r)
    BY <1>1, <1>3, <2>1 DEF Target, Promise!Succeed, writers
  <2> QED
    BY <2>2 DEF Promise!Next
<1>4. CASE row[r] \in {"fail", "expire", "cancel"}
  <2>1. Active(r) /\ Target(row[r]) \in {"FAILED", "CANCELLED"}
    BY <1>4 DEF FInv, RowDecides, Target
  <2>2. Promise!GiveUp(r, Target(row[r]))
    BY <1>1, <2>1 DEF Active, Promise!GiveUp, Promise!Open, writers
  <2> QED
    BY <2>1, <2>2 DEF Promise!Next
<1> QED
  BY <1>1, <1>2, <1>3, <1>4 DEF Change

\* cancel_work holds the fence when it gets the row.
LEMMA CancelPromised ==
  ASSUME FInv, NEW r \in Run, CancelCommitted(r)
  PROVE  Promise!Next \/ UNCHANGED <<status, writers>>
<1>1. writers' = writers /\ writers[r] = {}
  BY SameWriters, FenceFreeIdle DEF CancelCommitted, FInv, FenceHeld
<1>2. CASE Active(r)
  <2>1. Promise!GiveUp(r, "CANCELLED")
    BY <1>1, <1>2 DEF Active, CancelCommitted, Promise!GiveUp, Promise!Open, writers
  <2> QED
    BY <2>1 DEF Promise!Next
<1>3. CASE ~ Active(r)
  BY <1>1, <1>3 DEF CancelCommitted
<1> QED
  BY <1>2, <1>3

LEMMA AuthorizePromised ==
  ASSUME FInv, NEW s \in Session, NEW r \in Run, Authorize(s, r)
  PROVE  Promise!Next
<1>1. fence[s] = NoRun /\ fence' = [fence EXCEPT ![s] = r] /\ fence \in [Session -> Run \cup {NoRun}]
  BY DEF Authorize, FInv, RunTypeOK
<1>2. \A q \in Run : s \notin writers[q]
  BY <1>1, RunNull DEF writers
<1>3. writers' = [writers EXCEPT ![r] = @ \cup {s}]
  <2>1. ASSUME NEW q \in Run
        PROVE  {t \in Session : fence'[t] = q} =
                 IF q = r THEN {t \in Session : fence[t] = q} \cup {s}
                 ELSE {t \in Session : fence[t] = q}
    BY <1>1, RunNull
  <2> QED
    BY <2>1 DEF writers
<1>4. Promise!Publish(s, r)
  BY <1>2, <1>3 DEF Authorize, Promise!Publish, writers
<1> QED
  BY <1>4 DEF Promise!Next

LEMMA EndPromised == ASSUME FInv, NEW s \in Session, EndPublication(s) PROVE Promise!Next
<1>1. PICK r \in Run : fence[s] = r
  BY DEF EndPublication, FInv, RunTypeOK
<1>2. fence' = [fence EXCEPT ![s] = NoRun] /\ fence \in [Session -> Run \cup {NoRun}]
  BY DEF EndPublication, FInv, RunTypeOK
<1>3. writers' = [writers EXCEPT ![r] = @ \ {s}]
  <2>1. ASSUME NEW q \in Run
        PROVE  {t \in Session : fence'[t] = q} =
                 IF q = r THEN {t \in Session : fence[t] = q} \ {s}
                 ELSE {t \in Session : fence[t] = q}
    BY <1>1, <1>2, RunNull
  <2> QED
    BY <2>1 DEF writers
<1>4. s \in writers[r]
  BY <1>1 DEF writers
<1>5. Promise!EndPublication(s, r)
  BY <1>3, <1>4 DEF EndPublication, Promise!EndPublication, writers
<1> QED
  BY <1>5 DEF Promise!Next

\* Every step of the runs is a step of the promise or changes nothing in it.
LEMMA PromiseStep == ASSUME FInv, [Next]_vars PROVE [Promise!Next]_Promise!vars
<1>1. ASSUME UNCHANGED <<status, fence>> PROVE UNCHANGED <<status, writers>>
  BY <1>1, SameWriters
<1>2. ASSUME NEW r \in Run, Enqueue(r) PROVE Promise!Next
  BY <1>2, EnqueuePromised
<1>3. ASSUME NEW r \in Run, ChangeStatus(r) PROVE Promise!Next
  BY <1>3, ChangePromised
<1>4. ASSUME NEW r \in Run, CancelCommitted(r)
      PROVE  Promise!Next \/ UNCHANGED <<status, writers>>
  BY <1>4, CancelPromised
<1>5. ASSUME NEW s \in Session, NEW r \in Run, Authorize(s, r) PROVE Promise!Next
  BY <1>5, AuthorizePromised
<1>6. ASSUME NEW s \in Session, EndPublication(s) PROVE Promise!Next
  BY <1>6, EndPromised
<1>7. ASSUME NEW r \in Run, NEW k \in Change, NEW h \in Host,
             \/ LockStart(r) \/ LockSummary(r, k) \/ LockFailure(r) \/ LockCancel(r)
             \/ LockExpired(r) \/ GiveUp(r) \/ CancelWork(r) \/ CancelFenced(r)
             \/ CancelGivenUp(r) \/ Heartbeat(r) \/ CancelContext(r) \/ NotStarted(r)
             \/ CommandEnds(r, h) \/ NoticeStop(r) \/ HostEnds(r) \/ HostCrash(r)
             \/ OrphanEnds(r)
      PROVE  UNCHANGED <<status, fence>>
  BY <1>7 DEF LockStart, LockSummary, LockFailure, LockCancel, LockExpired, Lock, GiveUp,
     CancelWork, CancelFenced, CancelGivenUp, Heartbeat, CancelContext, NotStarted,
     CommandEnds, NoticeStop, HostEnds, HostCrash, OrphanEnds, Goes
<1>8. ASSUME Tick \/ UNCHANGED vars PROVE UNCHANGED <<status, fence>>
  BY <1>8 DEF Tick, vars
<1>9. "none" \in Host /\ "none" \in Change /\ {"succeed", "fail"} \subseteq Change
  BY DEF Host, Change
<1>10. Promise!Next \/ UNCHANGED <<status, writers>>
  BY <1>1, <1>2, <1>3, <1>4, <1>5, <1>6, <1>7, <1>8, <1>9 DEF Next
<1> QED
  BY <1>10 DEF Promise!vars, writers

\* Runs start and end once, one at a time in a lane, and never under an open
\* publication, whichever of their processes dies (admin_sync.go,
\* authorize_worker_publication).
THEOREM RunsKeepPromise == Spec => KeepsRunPromise
<1>1. Init => Promise!Init
  BY RunNull DEF Init, Promise!Init
<1>2. FInv /\ [Next]_vars => [Promise!Next]_Promise!vars
  BY PromiseStep
<1> QED
  BY <1>1, <1>2, FenceInvariance, PTL DEF Spec, KeepsRunPromise, Promise!Spec

=============================================================================
