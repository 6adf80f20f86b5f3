---- MODULE HistoryWorkProofs ----
(***************************************************************************)
(* Rows and items of history requests agree for every set of jobs and      *)
(* workers, every budget and every legacy row.                             *)
(***************************************************************************)
EXTENDS HistoryWorkProperties, TLAPS

\* No request above the one on the row has an item: Register binds the present one.
AbsentAhead ==
    \A j \in Job : \A q \in 0 .. MaxRequest :
        q > queue[j].request => work[j][q].state = "ABSENT"

\* What an open operator transaction holds: the same request, touched; the same
\* request of a legacy claim, waiting again; or the next request of one that ended.
DraftShape ==
    \A j \in Job : Busy(j) =>
        /\ draft[j] \in Row /\ draft[j].status \in {"PENDING", "RUNNING"}
        /\ \/ /\ draft[j].request = queue[j].request /\ draft[j].attempts = queue[j].attempts
              /\ draft[j].status = queue[j].status \/ Unbound(j)
              /\ queue[j].status \in {"PENDING", "RUNNING"}
           \/ /\ draft[j].request = queue[j].request + 1
              /\ queue[j].status \notin {"PENDING", "RUNNING"}

\* Only running items have a lease, and they have had an attempt.
ItemShape ==
    \A j \in Job : \A q \in 0 .. MaxRequest :
        /\ work[j][q].live => work[j][q].state = "RUNNING"
        /\ work[j][q].state = "RUNNING" => work[j][q].attempt > 0

Tables == RowShowsItem /\ OneOpenRequest /\ AbsentAhead /\ DraftShape /\ ItemShape

\* A session between choosing and its outcome has a job.
SessionShape ==
    \A p \in Worker :
        worker[p].place \in {"seen", "binding", "bound"} \cup Holding => worker[p].job \in Job

\* An open transaction of a worker holds the item it locked, in its own attempt.
LockHeld ==
    \A p \in Worker : worker[p].place \in InTransaction =>
        ItemOf(p).state = "RUNNING" /\ ItemOf(p).owner = p /\ ItemOf(p).attempt = worker[p].count

\* A job taken in a batch has been updated since the batch began.
BatchMarks ==
    \A p \in Worker : \A j \in taken[p] :
        /\ worker[p].place # "off" /\ p \in queue[j].newer
        /\ Busy(j) => p \in draft[j].newer

Sessions == SessionShape /\ LockHeld /\ NeverContradicted /\ BatchMarks

HInv == HistoryTypeOK /\ Tables /\ Sessions

-----------------------------------------------------------------------------
\* What a row shows: RUNNING exactly for running items, an end exactly for
\* terminal ones.
LEMMA ImageFacts ==
    ASSUME NEW s \in State
    PROVE  /\ Image(s) \in {"PENDING", "RUNNING", "SUCCEEDED", "FAILED"}
           /\ Image(s) = "RUNNING" <=> s = "RUNNING"
           /\ Image(s) \in Ended <=> s \in Terminal
  BY DEF Image, State, Ended, Terminal

\* A touched row differs in newer only, which then holds every worker at work.
LEMMA TouchedIs ==
    ASSUME NEW r \in Row
    PROVE  /\ Touched(r) \in Row
           /\ Touched(r).status = r.status /\ Touched(r).request = r.request
           /\ Touched(r).attempts = r.attempts
           /\ \A p \in Worker : worker[p].place # "off" => p \in Touched(r).newer
  BY DEF Touched, Row

\* A projection onto the row of the request shows the item; the row of another
\* request stays; marks of a batch are only added.
LEMMA ProjectedIs ==
    ASSUME NEW r \in Row, NEW q \in 0 .. MaxRequest, NEW it \in Item, HistoryTypeOK
    PROVE  /\ Projected(r, q, it) \in Row
           /\ Projected(r, q, it).request = r.request
           /\ r.request # q => Projected(r, q, it) = r
           /\ r.request = q => /\ Projected(r, q, it).status = Image(it.state)
                               /\ Projected(r, q, it).attempts = it.offset + it.attempt
           /\ \A p \in r.newer : worker[p].place # "off" => p \in Projected(r, q, it).newer
           /\ r.request = q /\ it.state = "RUNNING" =>
                 \A p \in Worker : worker[p].place # "off" => p \in Projected(r, q, it).newer
  <1> DEFINE n == [r EXCEPT !.status = Image(it.state), !.attempts = it.offset + it.attempt]
  <1>1. /\ Image(it.state) \in {"PENDING", "RUNNING", "SUCCEEDED", "FAILED"}
        /\ Image(it.state) \in Ended <=> it.state \in Terminal
    BY ImageFacts DEF Item
  <1>2. it.offset + it.attempt \in Nat
    BY DEF Item
  <1>3. /\ n \in Row /\ n.status = Image(it.state) /\ n.request = r.request
        /\ n.attempts = it.offset + it.attempt /\ n.newer = r.newer
    BY <1>1, <1>2 DEF Row, JobStatus
  <1> HIDE DEF n
  <1>4. /\ Touched(n) \in Row /\ Touched(n).status = n.status /\ Touched(n).request = n.request
        /\ Touched(n).attempts = n.attempts
        /\ \A p \in Worker : worker[p].place # "off" => p \in Touched(n).newer
    BY <1>3, TouchedIs
  <1>5. CASE \/ r.request # q
             \/ /\ r.status = Image(it.state) /\ r.status \in Ended
                /\ r.attempts = it.offset + it.attempt
    <2>1. Projected(r, q, it) = r
      BY <1>5 DEF Projected
    <2>2. it.state # "RUNNING" \/ r.request # q
      BY <1>1, <1>5 DEF Terminal
    <2> QED
      BY <1>5, <2>1, <2>2
  <1>6. CASE ~ \/ r.request # q
               \/ /\ r.status = Image(it.state) /\ r.status \in Ended
                  /\ r.attempts = it.offset + it.attempt
    <2>1. Projected(r, q, it) = Touched(n)
      BY <1>6 DEF Projected, n
    <2>2. r.newer \subseteq Worker
      BY DEF Row
    <2> QED
      BY <1>3, <1>4, <1>6, <2>1, <2>2
  <1> QED
    BY <1>5, <1>6

\* An item whose lease is taken away keeps what it counted.
LEMMA ReleasedIs ==
    ASSUME NEW it \in Item, NEW s \in State, NEW d \in BOOLEAN
    PROVE  /\ Released(it, s, d) \in Item /\ Released(it, s, d).state = s
           /\ Released(it, s, d).offset = it.offset /\ Released(it, s, d).attempt = it.attempt
           /\ ~ Released(it, s, d).live
  BY DEF Released, Item

\* Sessions as Bound, At and LetGo leave them.
LEMMA BoundIs ==
    ASSUME HistoryTypeOK, NEW p \in Worker, Bound(p)
    PROVE  worker' \in [Worker -> Session]
  <1>1. worker[p] \in Session /\ worker \in [Worker -> Session]
    BY DEF HistoryTypeOK
  <1>2. [worker[p] EXCEPT !.place = "bound", !.count = 0, !.stale = FALSE] \in Session
    BY <1>1 DEF Session, Place
  <1>3. worker' = [worker EXCEPT ![p] =
            [worker[p] EXCEPT !.place = "bound", !.count = 0, !.stale = FALSE]]
    BY <1>1 DEF Bound
  <1> QED
    BY <1>1, <1>2, <1>3

-----------------------------------------------------------------------------
(* Tables: rows and items after a step *)

\* Two versions of a row that tell the same story.
Like(r, s) == r.status = s.status /\ r.request = s.request /\ r.attempts = s.attempts

\* Steps that change marks, leases and due dates, or give up drafts.
LEMMA TablesLike ==
    ASSUME HistoryTypeOK, HistoryTypeOK', Tables,
           \A j \in Job : /\ Like(queue'[j], queue[j])
                          /\ Busy(j)' => Busy(j) /\ Like(draft'[j], draft[j]),
           \A j \in Job : \A q \in 0 .. MaxRequest :
                /\ work'[j][q].state = work[j][q].state
                /\ work'[j][q].attempt = work[j][q].attempt
                /\ work'[j][q].offset = work[j][q].offset
                /\ work'[j][q].live => work[j][q].state = "RUNNING"
    PROVE  Tables'
  <1>0. \A j \in Job : queue[j].request \in 0 .. MaxRequest /\ queue'[j].request \in 0 .. MaxRequest
    BY DEF HistoryTypeOK, Row
  <1>1. RowShowsItem'
    BY SMTT(30), <1>0 DEF Tables, RowShowsItem, Like
  <1>2. OneOpenRequest'
    BY DEF Tables, OneOpenRequest, Like
  <1>3. AbsentAhead'
    BY DEF Tables, AbsentAhead, Like
  <1>4. DraftShape'
    <2> SUFFICES ASSUME NEW j \in Job, Busy(j)'
                 PROVE  /\ draft'[j] \in Row /\ draft'[j].status \in {"PENDING", "RUNNING"}
                        /\ \/ /\ draft'[j].request = queue'[j].request
                              /\ draft'[j].attempts = queue'[j].attempts
                              /\ draft'[j].status = queue'[j].status \/ Unbound(j)'
                              /\ queue'[j].status \in {"PENDING", "RUNNING"}
                           \/ /\ draft'[j].request = queue'[j].request + 1
                              /\ queue'[j].status \notin {"PENDING", "RUNNING"}
      BY DEF DraftShape
    <2>1. draft'[j] \in Row
      BY DEF HistoryTypeOK, Busy
    <2>2. Unbound(j) => Unbound(j)'
      BY <1>0 DEF Unbound, Like
    <2> QED
      BY <2>1, <2>2 DEF Tables, DraftShape, Like
  <1>5. ItemShape'
    BY DEF Tables, ItemShape
  <1> QED
    BY <1>1, <1>2, <1>3, <1>4, <1>5 DEF Tables

\* A step that puts an item into the table and shows it in one transaction.
LEMMA TablesWrite ==
    ASSUME HistoryTypeOK, Tables,
           NEW j \in Job, NEW q \in 0 .. MaxRequest, NEW it \in Item,
           work[j][q].state # "ABSENT", it.state # "ABSENT",
           queue[j].request # q => it.state \in Terminal,
           queue[j].request = q => ~ Busy(j),
           it.live => it.state = "RUNNING", it.state = "RUNNING" => it.attempt > 0,
           work' = [work EXCEPT ![j][q] = it],
           queue' = [queue EXCEPT ![j] = Projected(@, q, it)],
           draft' = draft
    PROVE  /\ Tables'
           /\ queue' \in [Job -> Row] /\ work' \in [Job -> [0 .. MaxRequest -> Item]]
  <1>0. \A k \in Job : queue[k] \in Row /\ queue[k].request \in 0 .. MaxRequest
    BY DEF HistoryTypeOK, Row
  <1>1. /\ queue'[j] \in Row /\ queue'[j].request = queue[j].request
        /\ queue[j].request # q => queue'[j] = queue[j]
        /\ queue[j].request = q => /\ queue'[j].status = Image(it.state)
                                   /\ queue'[j].attempts = it.offset + it.attempt
    BY <1>0, ProjectedIs DEF HistoryTypeOK
  <1>2. \A k \in Job : k # j => queue'[k] = queue[k]
    BY DEF HistoryTypeOK
  <1>3. /\ work'[j][q] = it
        /\ \A k \in Job : \A n \in 0 .. MaxRequest : k # j \/ n # q => work'[k][n] = work[k][n]
        /\ work' \in [Job -> [0 .. MaxRequest -> Item]]
    BY DEF HistoryTypeOK
  <1>4. queue' \in [Job -> Row]
    BY <1>0, <1>1, <1>2 DEF HistoryTypeOK
  <1>5. \A k \in Job : queue'[k].request = queue[k].request
    BY <1>1, <1>2
  <1>6. RowShowsItem'
    <2> SUFFICES ASSUME NEW k \in Job, work'[k][queue'[k].request].state # "ABSENT"
                 PROVE  LET r == queue'[k]
                            i == work'[k][r.request] IN
                        /\ r.attempts = i.offset + i.attempt
                        /\ \/ r.status = Image(i.state)
                           \/ i.state = "CANCELLED" /\ r.status \in {"PENDING", "RUNNING"}
      BY DEF RowShowsItem
    <2>1. CASE k = j /\ queue[j].request = q
      BY <1>1, <1>3, <2>1
    <2>2. CASE k = j /\ queue[j].request # q
      BY <1>0, <1>1, <1>3, <2>2 DEF Tables, RowShowsItem
    <2>3. CASE k # j
      BY <1>0, <1>2, <1>3, <2>3 DEF Tables, RowShowsItem
    <2> QED
      BY <2>1, <2>2, <2>3
  <1>7. OneOpenRequest'
    BY <1>3, <1>5 DEF Tables, OneOpenRequest
  <1>8. AbsentAhead'
    <2> SUFFICES ASSUME NEW k \in Job, NEW n \in 0 .. MaxRequest, n > queue'[k].request
                 PROVE  work'[k][n].state = "ABSENT"
      BY DEF AbsentAhead
    <2>1. work[k][n].state = "ABSENT"
      BY <1>5 DEF Tables, AbsentAhead
    <2> QED
      BY <1>3, <2>1
  <1>9. DraftShape'
    <2> SUFFICES ASSUME NEW k \in Job, Busy(k)'
                 PROVE  /\ draft'[k] \in Row /\ draft'[k].status \in {"PENDING", "RUNNING"}
                        /\ \/ /\ draft'[k].request = queue'[k].request
                              /\ draft'[k].attempts = queue'[k].attempts
                              /\ draft'[k].status = queue'[k].status \/ Unbound(k)'
                              /\ queue'[k].status \in {"PENDING", "RUNNING"}
                           \/ /\ draft'[k].request = queue'[k].request + 1
                              /\ queue'[k].status \notin {"PENDING", "RUNNING"}
      BY DEF DraftShape
    <2>1. Busy(k)
      BY DEF Busy
    <2>2. queue'[k] = queue[k]
      BY <1>1, <1>2, <2>1
    <2>3. work'[k][queue[k].request] = work[k][queue[k].request]
      BY <1>0, <1>3, <2>1
    <2> QED
      BY <2>1, <2>2, <2>3 DEF Tables, DraftShape, Unbound
  <1>10. ItemShape'
    BY <1>3 DEF Tables, ItemShape
  <1> QED
    BY <1>3, <1>4, <1>6, <1>7, <1>8, <1>9, <1>10 DEF Tables

\* An operator run writes a row it has found free.
LEMMA TablesDraft ==
    ASSUME HistoryTypeOK, Tables, NEW j \in Job, EnqueueRow(j) \/ RecoverRow(j)
    PROVE  HistoryTypeOK' /\ Tables'
  <1>0. queue[j] \in Row /\ draft \in [Job -> Row \cup {NoRow}]
    BY DEF HistoryTypeOK
  <1>1. /\ draft'[j] \in Row /\ draft'[j].status \in {"PENDING", "RUNNING"}
        /\ \/ /\ draft'[j].request = queue[j].request /\ draft'[j].attempts = queue[j].attempts
              /\ draft'[j].status = queue[j].status \/ Unbound(j)
              /\ queue[j].status \in {"PENDING", "RUNNING"}
           \/ /\ draft'[j].request = queue[j].request + 1
              /\ queue[j].status \notin {"PENDING", "RUNNING"}
    <2>1. CASE EnqueueRow(j) /\ queue[j].status \in {"PENDING", "RUNNING"}
      <3>1. draft'[j] = Touched(queue[j])
        BY <1>0, <2>1 DEF EnqueueRow, Requested
      <3> QED
        BY <1>0, <2>1, <3>1, TouchedIs
    <2>2. CASE EnqueueRow(j) /\ queue[j].status \notin {"PENDING", "RUNNING"}
      <3> DEFINE n == [queue[j] EXCEPT !.status = "PENDING", !.request = @ + 1, !.attempts = 0]
      <3>1. draft'[j] = Touched(n) /\ queue[j].request < MaxRequest
        BY <1>0, <2>2 DEF EnqueueRow, Requested
      <3>2. queue[j].request + 1 \in 0 .. MaxRequest
        BY <1>0, <3>1, BoundTypes DEF Row
      <3>3. n \in Row /\ n.request = queue[j].request + 1 /\ n.status = "PENDING"
        BY <1>0, <3>2 DEF Row, JobStatus
      <3> HIDE DEF n
      <3> QED
        BY <2>2, <3>1, <3>3, TouchedIs
    <2>3. CASE RecoverRow(j)
      <3> DEFINE n == [queue[j] EXCEPT !.status = "PENDING"]
      <3>1. draft'[j] = Touched(n) /\ Unbound(j) /\ queue[j].status = "RUNNING"
        BY <1>0, <2>3 DEF RecoverRow
      <3>2. /\ n \in Row /\ n.request = queue[j].request /\ n.attempts = queue[j].attempts
            /\ n.status = "PENDING"
        BY <1>0 DEF Row, JobStatus
      <3> HIDE DEF n
      <3> QED
        BY <3>1, <3>2, TouchedIs
    <2> QED
      BY <2>1, <2>2, <2>3
  <1>2. /\ UNCHANGED <<queue, work, worker, taken>>
        /\ draft' = [draft EXCEPT ![j] = draft'[j]]
    BY <1>0 DEF EnqueueRow, RecoverRow
  <1>3. \A k \in Job : k # j => draft'[k] = draft[k]
    BY <1>0, <1>2
  <1>4. HistoryTypeOK'
    BY <1>1, <1>2 DEF HistoryTypeOK
  <1>5. DraftShape'
    BY <1>1, <1>2, <1>3 DEF Tables, DraftShape, Busy, Unbound
  <1>6. (RowShowsItem /\ OneOpenRequest /\ AbsentAhead /\ ItemShape)'
    BY <1>2 DEF Tables, RowShowsItem, OneOpenRequest, AbsentAhead, ItemShape
  <1> QED
    BY <1>4, <1>5, <1>6 DEF Tables

\* The commit of an operator run: rows move on, no item does.
LEMMA TablesCommit ==
    ASSUME HistoryTypeOK, Tables, OperatorCommits
    PROVE  HistoryTypeOK' /\ Tables'
  <1>0. /\ queue \in [Job -> Row] /\ draft \in [Job -> Row \cup {NoRow}]
        /\ \A j \in Job : queue[j].request \in 0 .. MaxRequest /\ queue[j].request \in Nat
    BY BoundTypes DEF HistoryTypeOK, Row
  <1>1. /\ \A j \in Job : queue'[j] = IF Busy(j) THEN draft[j] ELSE queue[j]
        /\ \A j \in Job : ~ Busy(j)'
        /\ work' = work /\ taken' = taken
    BY DEF OperatorCommits, Busy
  <1>2. \A j \in Job : queue'[j] \in Row /\ queue'[j].request \in 0 .. MaxRequest
    BY <1>0, <1>1 DEF Busy, Row
  <1>3. worker' \in [Worker -> Session]
    BY ZenonT(30) DEF OperatorCommits, HistoryTypeOK, Session
  <1>4. HistoryTypeOK'
    BY <1>1, <1>2, <1>3 DEF HistoryTypeOK, OperatorCommits
  <1>5. ASSUME NEW j \in Job
        PROVE  \/ Like(queue'[j], queue[j])
               \/ /\ queue'[j].request = queue[j].request /\ Unbound(j)
               \/ /\ queue'[j].request = queue[j].request + 1
                  /\ queue[j].status \notin {"PENDING", "RUNNING"}
    BY <1>1, <1>5 DEF Tables, DraftShape, Like
  <1>6. RowShowsItem'
    <2> SUFFICES ASSUME NEW j \in Job, work[j][queue'[j].request].state # "ABSENT"
                 PROVE  LET r == queue'[j]
                            i == work[j][r.request] IN
                        /\ r.attempts = i.offset + i.attempt
                        /\ \/ r.status = Image(i.state)
                           \/ i.state = "CANCELLED" /\ r.status \in {"PENDING", "RUNNING"}
      BY <1>1 DEF RowShowsItem
    <2>1. ~ (queue'[j].request = queue[j].request + 1)
      BY <1>0, <1>2 DEF Tables, AbsentAhead
    <2>2. ~ (queue'[j].request = queue[j].request /\ Unbound(j))
      BY DEF Unbound
    <2>3. Like(queue'[j], queue[j])
      BY <1>5, <2>1, <2>2
    <2> QED
      BY <2>3 DEF Tables, RowShowsItem, Like
  <1>7. OneOpenRequest'
    <2> SUFFICES ASSUME NEW j \in Job, NEW q \in 0 .. MaxRequest, q # queue'[j].request
                 PROVE  work[j][q].state \in Terminal \cup {"ABSENT"}
      BY <1>1 DEF OneOpenRequest
    <2>1. CASE q # queue[j].request
      BY <2>1 DEF Tables, OneOpenRequest
    <2>2. CASE q = queue[j].request
      <3>1. queue[j].status \notin {"PENDING", "RUNNING"}
        BY <1>5, <2>2 DEF Like
      <3>2. work[j][q].state \in State
        BY DEF HistoryTypeOK, Item
      <3> QED
        BY <2>2, <3>1, <3>2, ImageFacts DEF Tables, RowShowsItem, Ended
    <2> QED
      BY <2>1, <2>2
  <1>8. AbsentAhead'
    <2> SUFFICES ASSUME NEW j \in Job, NEW q \in 0 .. MaxRequest, q > queue'[j].request
                 PROVE  q > queue[j].request
      BY <1>1 DEF Tables, AbsentAhead
    <2> QED
      BY <1>0, <1>2, <1>5 DEF Like
  <1>9. DraftShape' /\ ItemShape'
    BY <1>1 DEF Tables, DraftShape, ItemShape
  <1> QED
    BY <1>4, <1>6, <1>7, <1>8, <1>9 DEF Tables

\* A new item belongs to the request on the row, whose attempts it goes on from.
LEMMA TablesRegister ==
    ASSUME HistoryTypeOK, Tables, SessionShape, NEW p \in Worker, Register(p)
    PROVE  HistoryTypeOK' /\ Tables'
  <1> DEFINE j == worker[p].job
             q == worker[p].request
             n == worker[p].count
  <1>1. j \in Job /\ q \in 0 .. MaxRequest /\ n \in Nat
    BY DEF SessionShape, HistoryTypeOK, Session, Register
  <1>2. /\ work[j][q].state = "ABSENT" /\ ~ Busy(j)
        /\ queue[j].status = "PENDING" /\ queue[j].request = q /\ queue[j].attempts = n
    BY DEF Register, ItemOf, StillAsSeen
  <1>3. PICK d \in BOOLEAN : work' = [work EXCEPT ![j][q] =
                [NoItem EXCEPT !.state = "PENDING", !.offset = n, !.due = d]]
    BY DEF Register
  <1> DEFINE it == [NoItem EXCEPT !.state = "PENDING", !.offset = n, !.due = d]
  <1>4. /\ it \in Item /\ it.state = "PENDING" /\ it.offset = n /\ it.attempt = 0
        /\ ~ it.live
    BY <1>1 DEF NoItem, Item, State
  <1> HIDE DEF it
  <1>5. /\ work' \in [Job -> [0 .. MaxRequest -> Item]] /\ work'[j][q] = it
        /\ \A k \in Job : \A m \in 0 .. MaxRequest : k # j \/ m # q => work'[k][m] = work[k][m]
    BY <1>1, <1>3, <1>4 DEF HistoryTypeOK, it
  <1>6. /\ UNCHANGED <<queue, draft, taken>>
        /\ worker' \in [Worker -> Session]
    BY BoundIs DEF Register
  <1>7. HistoryTypeOK'
    BY <1>5, <1>6 DEF HistoryTypeOK
  <1>8. \A k \in Job : queue[k].request \in 0 .. MaxRequest
    BY DEF HistoryTypeOK, Row
  <1>9. RowShowsItem'
    <2>1. Image("PENDING") = "PENDING" /\ n = n + 0
      BY <1>1 DEF Image
    <2> QED
      BY SMTT(30), <1>1, <1>2, <1>4, <1>5, <1>6, <1>8, <2>1 DEF Tables, RowShowsItem
  <1>10. OneOpenRequest' /\ ItemShape'
    BY <1>2, <1>4, <1>5, <1>6 DEF Tables, OneOpenRequest, ItemShape
  <1>11. AbsentAhead'
    <2> SUFFICES ASSUME NEW k \in Job, NEW m \in 0 .. MaxRequest, m > queue[k].request
                 PROVE  work'[k][m].state = "ABSENT"
      BY <1>6 DEF AbsentAhead
    <2>1. k # j \/ m # q
      BY <1>1, <1>2
    <2> QED
      BY <1>5, <2>1 DEF Tables, AbsentAhead
  <1>12. DraftShape'
    <2>1. \A k \in Job : Busy(k)' => Busy(k) /\ k # j
      BY <1>2, <1>6 DEF Busy
    <2>2. \A k \in Job : k # j => work'[k][queue[k].request] = work[k][queue[k].request]
      BY <1>5, <1>8
    <2> QED
      BY <1>6, <2>1, <2>2 DEF Tables, DraftShape, Unbound
  <1> QED
    BY <1>7, <1>9, <1>10, <1>11, <1>12 DEF Tables

\* The administration endpoint ends an item alone: its row goes on waiting.
LEMMA TablesCancel ==
    ASSUME HistoryTypeOK, Tables, NEW j \in Job, NEW q \in Request, Cancel(j, q)
    PROVE  HistoryTypeOK' /\ Tables'
  <1>0. q \in 0 .. MaxRequest
    BY BoundTypes DEF Request
  <1> DEFINE it == Released(work[j][q], "CANCELLED", FALSE)
  <1>1. /\ it \in Item /\ it.state = "CANCELLED" /\ it.offset = work[j][q].offset
        /\ it.attempt = work[j][q].attempt /\ ~ it.live
    <2>1. work[j][q] \in Item /\ "CANCELLED" \in State
      BY <1>0 DEF HistoryTypeOK, State
    <2> QED
      BY <2>1, ReleasedIs
  <1>2. work' = [work EXCEPT ![j][q] = it]
    BY <1>0 DEF Cancel, HistoryTypeOK
  <1> HIDE DEF it
  <1>3. /\ work' \in [Job -> [0 .. MaxRequest -> Item]] /\ work'[j][q] = it
        /\ \A k \in Job : \A m \in 0 .. MaxRequest : k # j \/ m # q => work'[k][m] = work[k][m]
    BY <1>0, <1>1, <1>2 DEF HistoryTypeOK
  <1>4. UNCHANGED <<queue, draft, worker, taken>> /\ work[j][q].state \notin Terminal \cup {"ABSENT"}
    BY DEF Cancel
  <1>5. HistoryTypeOK'
    BY <1>3, <1>4 DEF HistoryTypeOK
  <1>6. \A k \in Job : queue[k].request \in 0 .. MaxRequest
    BY DEF HistoryTypeOK, Row
  <1>7. RowShowsItem'
    <2> SUFFICES ASSUME NEW k \in Job, work'[k][queue[k].request].state # "ABSENT"
                 PROVE  LET r == queue[k]
                            i == work'[k][r.request] IN
                        /\ r.attempts = i.offset + i.attempt
                        /\ \/ r.status = Image(i.state)
                           \/ i.state = "CANCELLED" /\ r.status \in {"PENDING", "RUNNING"}
      BY <1>4 DEF RowShowsItem
    <2>1. CASE k = j /\ queue[k].request = q
      <3>1. work[j][q].state \in State
        BY <1>0 DEF HistoryTypeOK, Item
      <3>2. /\ Image(work[j][q].state) \in {"PENDING", "RUNNING"}
            /\ work[j][q].state # "CANCELLED" /\ work[j][q].state # "ABSENT"
        BY <1>4, <3>1, ImageFacts DEF Ended, Terminal
      <3>3. /\ queue[j].attempts = work[j][q].offset + work[j][q].attempt
            /\ queue[j].status = Image(work[j][q].state)
        BY <2>1, <3>2 DEF Tables, RowShowsItem
      <3> QED
        BY <1>1, <1>3, <2>1, <3>2, <3>3
    <2>2. CASE k # j \/ queue[k].request # q
      <3>1. work'[k][queue[k].request] = work[k][queue[k].request]
        BY <1>3, <1>6, <2>2
      <3> QED
        BY <3>1 DEF Tables, RowShowsItem
    <2> QED
      BY <2>1, <2>2
  <1>8. OneOpenRequest' /\ ItemShape'
    BY <1>1, <1>3, <1>4 DEF Tables, OneOpenRequest, ItemShape, Terminal
  <1>9. AbsentAhead'
    <2> SUFFICES ASSUME NEW k \in Job, NEW m \in 0 .. MaxRequest, m > queue[k].request
                 PROVE  work'[k][m].state = "ABSENT"
      BY <1>4 DEF AbsentAhead
    <2>1. work[k][m].state = "ABSENT"
      BY DEF Tables, AbsentAhead
    <2> QED
      BY <1>3, <1>4, <2>1
  <1>10. DraftShape'
    <2>1. ASSUME NEW k \in Job, Busy(k)' PROVE Busy(k) /\ (Unbound(k) => Unbound(k)')
      <3>1. Busy(k)
        BY <1>4, <2>1 DEF Busy
      <3>2. k # j \/ queue[k].request # q \/ ~ Unbound(k)
        BY <1>4 DEF Unbound
      <3>3. k # j \/ queue[k].request # q => work'[k][queue[k].request] = work[k][queue[k].request]
        BY <1>3, <1>6
      <3> QED
        BY <1>4, <3>1, <3>2, <3>3 DEF Unbound
    <2> QED
      BY <1>4, <2>1 DEF Tables, DraftShape
  <1> QED
    BY <1>5, <1>7, <1>8, <1>9, <1>10 DEF Tables

-----------------------------------------------------------------------------
(* Sessions after a step *)

\* Session o goes on where it is, and what it may have locked is as it was.
Stays(o) ==
    /\ worker'[o].place = worker[o].place /\ worker'[o].job = worker[o].job
    /\ worker'[o].request = worker[o].request /\ worker'[o].count = worker[o].count
    /\ worker[o].place \in InTransaction =>
        ItemOf(o)'.state = "RUNNING" /\ ItemOf(o)'.owner = o /\ ItemOf(o)'.attempt = worker[o].count

\* Session o goes to a place that it may take.
Moves(o) ==
    /\ worker'[o].place \in {"seen", "binding", "bound"} \cup Holding => worker'[o].job \in Job
    /\ worker'[o].place \in InTransaction =>
        ItemOf(o)'.state = "RUNNING" /\ ItemOf(o)'.owner = o /\ ItemOf(o)'.attempt = worker'[o].count
    /\ worker'[o].place # "changed"

LEMMA SessionsStep ==
    ASSUME Sessions, \A o \in Worker : Stays(o) \/ Moves(o)
    PROVE  (SessionShape /\ LockHeld /\ NeverContradicted)'
  <1>1. SessionShape' /\ NeverContradicted'
    BY DEF Sessions, SessionShape, NeverContradicted, Stays, Moves
  <1>2. LockHeld'
    <2> SUFFICES ASSUME NEW o \in Worker, worker'[o].place \in InTransaction
                 PROVE  ItemOf(o)'.state = "RUNNING" /\ ItemOf(o)'.owner = o
                            /\ ItemOf(o)'.attempt = worker'[o].count
      BY DEF LockHeld
    <2> QED
      BY DEF Stays, Moves
  <1> QED
    BY <1>1, <1>2

\* Marks survive: they are only taken from sessions whose batch is over.
LEMMA MarksStep ==
    ASSUME HistoryTypeOK', BatchMarks,
           \A o \in Worker : \A j \in taken'[o] :
                /\ worker'[o].place # "off"
                /\ j \in taken[o] \/ (o \in queue'[j].newer /\ ~ Busy(j)'),
           \A o \in Worker, j \in Job :
                /\ worker'[o].place # "off" /\ (Busy(j) => o \in draft[j].newer)
                /\ o \in queue[j].newer
                => o \in queue'[j].newer,
           \A o \in Worker, j \in Job :
                /\ worker'[o].place # "off" /\ (Busy(j) => o \in draft[j].newer) /\ Busy(j)'
                => o \in draft'[j].newer
    PROVE  BatchMarks'
  <1> SUFFICES ASSUME NEW o \in Worker, NEW j \in taken'[o]
               PROVE  /\ worker'[o].place # "off" /\ o \in queue'[j].newer
                      /\ Busy(j)' => o \in draft'[j].newer
    BY DEF BatchMarks
  <1>1. j \in Job
    BY DEF HistoryTypeOK
  <1> QED
    BY <1>1 DEF BatchMarks

\* Two open transactions never hold the same item.
LEMMA OneHolder ==
    ASSUME LockHeld, NEW p \in Worker, NEW o \in Worker, p # o,
           worker[p].place \in InTransaction, worker[o].place \in InTransaction
    PROVE  worker[o].job # worker[p].job \/ worker[o].request # worker[p].request
  BY DEF LockHeld, ItemOf

\* A session that changes alone.
LEMMA WorkerStep ==
    ASSUME HInv, NEW p \in Worker, NEW s \in Session,
           worker' = [worker EXCEPT ![p] = s], UNCHANGED <<queue, draft, work, taken>>,
           s.place \in {"seen", "binding", "bound"} \cup Holding => s.job \in Job,
           s.place \in InTransaction =>
                /\ work[s.job][s.request].state = "RUNNING" /\ work[s.job][s.request].owner = p
                /\ work[s.job][s.request].attempt = s.count,
           s.place \notin {"off", "changed"}
    PROVE  HInv'
  <1>1. worker'[p] = s /\ \A o \in Worker : o # p => worker'[o] = worker[o]
    BY DEF HInv, HistoryTypeOK
  <1>2. HistoryTypeOK'
    BY <1>1 DEF HInv, HistoryTypeOK
  <1>3. Tables'
    BY DEF HInv, Tables, RowShowsItem, OneOpenRequest, AbsentAhead, DraftShape, ItemShape,
           Busy, Unbound
  <1>4. \A o \in Worker : Stays(o) \/ Moves(o)
    BY <1>1 DEF HInv, Sessions, LockHeld, Stays, Moves, ItemOf
  <1>5. (SessionShape /\ LockHeld /\ NeverContradicted)'
    BY <1>4, SessionsStep DEF HInv
  <1>6. BatchMarks'
    BY <1>1 DEF HInv, Sessions, BatchMarks, Busy
  <1> QED
    BY <1>2, <1>3, <1>5, <1>6 DEF HInv, Sessions

\* A session without a request, wherever it is.
LEMMA RestingIs ==
    ASSUME NEW place \in Place, NEW S \in SUBSET Job
    PROVE  Resting(place, S) \in Session /\ Resting(place, S).place = place
  <1>1. 0 \in 0 .. MaxRequest
    BY BoundTypes
  <1> QED
    BY <1>1 DEF Resting, Session

\* The end of a batch.
LEMMA EndsStep ==
    ASSUME HInv, NEW p \in Worker, Ends(p)
    PROVE  HInv'
  <1>0. /\ queue \in [Job -> Row] /\ draft \in [Job -> Row \cup {NoRow}]
        /\ worker \in [Worker -> Session] /\ taken \in [Worker -> SUBSET Job]
    BY DEF HInv, HistoryTypeOK
  <1>1. Resting("off", {}) \in Session /\ Resting("off", {}).place = "off"
    BY RestingIs DEF Place
  <1>2. /\ worker' \in [Worker -> Session] /\ worker'[p].place = "off" /\ taken'[p] = {}
        /\ \A o \in Worker : o # p => worker'[o] = worker[o] /\ taken'[o] = taken[o]
        /\ taken' \in [Worker -> SUBSET Job]
    BY <1>0, <1>1 DEF Ends
  <1>3. \A j \in Job : /\ queue'[j] \in Row /\ Like(queue'[j], queue[j])
                       /\ queue'[j].newer = queue[j].newer \ {p}
    BY <1>0 DEF Ends, Row, Like
  <1>4. ASSUME NEW j \in Job
        PROVE  /\ Busy(j)' <=> Busy(j)
               /\ Busy(j) => /\ draft'[j] \in Row /\ Like(draft'[j], draft[j])
                             /\ draft'[j].newer = draft[j].newer \ {p}
    <2>1. CASE Busy(j)
      <3>1. draft[j] \in Row /\ draft'[j] = [draft[j] EXCEPT !.newer = @ \ {p}]
        BY <1>0, <2>1 DEF Ends, Busy
      <3>2. /\ draft'[j] \in Row /\ Like(draft'[j], draft[j])
            /\ draft'[j].newer = draft[j].newer \ {p}
        BY <3>1 DEF Row, Like
      <3> QED
        BY <2>1, <3>2, NullRow DEF Busy, Row
    <2>2. CASE ~ Busy(j)
      BY <2>2 DEF Ends, Busy
    <2> QED
      BY <2>1, <2>2
  <1>5. work' = work
    BY DEF Ends
  <1>6. HistoryTypeOK'
    <2>1. queue' \in [Job -> Row]
      BY <1>3 DEF Ends
    <2>2. draft' \in [Job -> Row \cup {NoRow}]
      BY <1>4 DEF Ends, Busy
    <2> QED
      BY <1>2, <1>5, <2>1, <2>2 DEF HInv, HistoryTypeOK
  <1>7. Tables'
    BY <1>3, <1>4, <1>5, <1>6, TablesLike DEF HInv, Tables, ItemShape
  <1>8. \A o \in Worker : Stays(o) \/ Moves(o)
    BY <1>2, <1>5 DEF HInv, Sessions, LockHeld, Stays, Moves, ItemOf, InTransaction, Holding
  <1>9. (SessionShape /\ LockHeld /\ NeverContradicted)'
    BY <1>8, SessionsStep DEF HInv
  <1>10. BatchMarks'
    <2>1. \A o \in Worker : \A j \in taken'[o] : worker'[o].place # "off" /\ j \in taken[o]
      BY <1>2 DEF HInv, Sessions, BatchMarks
    <2>2. \A o \in Worker : worker'[o].place # "off" => o # p
      BY <1>2
    <2> QED
      BY <1>3, <1>4, <1>6, <2>1, <2>2, MarksStep DEF HInv, Sessions
  <1> QED
    BY <1>6, <1>7, <1>9, <1>10 DEF HInv, Sessions

-----------------------------------------------------------------------------
(* Each action keeps the invariant *)

\* Transactions of an operator run.
LEMMA OperatorSteps ==
    ASSUME HInv, \/ \E j \in Job : EnqueueRow(j) \/ RecoverRow(j)
                 \/ OperatorCommits \/ OperatorRollsBack
    PROVE  HInv'
  <1>0. /\ draft \in [Job -> Row \cup {NoRow}] /\ \A j \in Job : queue[j] \in Row
        /\ \A o \in Worker : taken[o] \subseteq Job
    BY DEF HInv, HistoryTypeOK
  <1>1. CASE \E j \in Job : EnqueueRow(j) \/ RecoverRow(j)
    <2>1. PICK j \in Job : EnqueueRow(j) \/ RecoverRow(j)
      BY <1>1
    <2>2. HistoryTypeOK' /\ Tables'
      BY <2>1, TablesDraft DEF HInv
    <2>3. UNCHANGED <<queue, work, worker, taken>>
      BY <2>1 DEF EnqueueRow, RecoverRow
    <2>4. (SessionShape /\ LockHeld /\ NeverContradicted)'
      BY <2>3 DEF HInv, Sessions, SessionShape, LockHeld, NeverContradicted, ItemOf
    <2>5. /\ \A k \in Job : k # j => draft'[k] = draft[k]
          /\ \A o \in Worker : worker[o].place # "off" => o \in draft'[j].newer
      <3>1. CASE EnqueueRow(j)
        <4>1. PICK r \in Row : draft' = [draft EXCEPT ![j] = Touched(r)]
          <5>1. \/ draft' = [draft EXCEPT ![j] = Touched(queue[j])]
                \/ /\ queue[j].request < MaxRequest
                   /\ draft' = [draft EXCEPT ![j] = Touched([queue[j] EXCEPT
                            !.status = "PENDING", !.request = @ + 1, !.attempts = 0])]
            BY <3>1 DEF EnqueueRow, Requested
          <5>2. queue[j].request < MaxRequest =>
                    [queue[j] EXCEPT !.status = "PENDING", !.request = @ + 1, !.attempts = 0] \in Row
            <6>1. queue[j].request < MaxRequest => queue[j].request + 1 \in 0 .. MaxRequest
              BY <1>0, BoundTypes DEF Row
            <6> QED
              BY <1>0, <6>1 DEF Row, JobStatus
          <5> QED
            BY <1>0, <5>1, <5>2
        <4> QED
          BY <1>0, <4>1, TouchedIs
      <3>2. CASE RecoverRow(j)
        <4>1. [queue[j] EXCEPT !.status = "PENDING"] \in Row
          BY <1>0 DEF Row, JobStatus
        <4> QED
          BY <1>0, <3>2, <4>1, TouchedIs DEF RecoverRow
      <3> QED
        BY <2>1, <3>1, <3>2
    <2>6. BatchMarks'
      <3>1. \A o \in Worker : \A k \in taken'[o] : worker'[o].place # "off" /\ k \in taken[o]
        BY <2>3 DEF HInv, Sessions, BatchMarks
      <3> QED
        BY <2>2, <2>3, <2>5, <3>1, MarksStep DEF HInv, Sessions, Busy
    <2> QED
      BY <2>2, <2>4, <2>6 DEF HInv, Sessions
  <1>2. CASE OperatorCommits
    <2>1. HistoryTypeOK' /\ Tables'
      BY <1>2, TablesCommit DEF HInv
    <2>2. /\ \A j \in Job : queue'[j] = IF Busy(j) THEN draft[j] ELSE queue[j]
          /\ \A j \in Job : ~ Busy(j)'
          /\ work' = work /\ taken' = taken
      BY <1>2 DEF OperatorCommits, Busy
    <2>3. \A o \in Worker :
            /\ worker'[o].place = worker[o].place /\ worker'[o].job = worker[o].job
            /\ worker'[o].request = worker[o].request /\ worker'[o].count = worker[o].count
      BY <1>2 DEF OperatorCommits, HInv, HistoryTypeOK, Session
    <2>4. (SessionShape /\ LockHeld /\ NeverContradicted)'
      BY <2>2, <2>3, SessionsStep DEF HInv, Sessions, Stays, LockHeld, ItemOf
    <2>5. BatchMarks'
      BY <1>0, <2>2, <2>3 DEF HInv, Sessions, BatchMarks
    <2> QED
      BY <2>1, <2>4, <2>5 DEF HInv, Sessions
  <1>3. CASE OperatorRollsBack
    <2>1. UNCHANGED <<queue, work, worker, taken>> /\ \A j \in Job : ~ Busy(j)'
      BY <1>3 DEF OperatorRollsBack, Busy
    <2>2. HistoryTypeOK'
      BY <1>3, <2>1 DEF HInv, HistoryTypeOK, OperatorRollsBack
    <2>3. Tables'
      BY <2>1 DEF HInv, Tables, RowShowsItem, OneOpenRequest, AbsentAhead, DraftShape, ItemShape
    <2>4. (SessionShape /\ LockHeld /\ NeverContradicted)'
      BY <2>1 DEF HInv, Sessions, SessionShape, LockHeld, NeverContradicted, ItemOf
    <2>5. BatchMarks'
      BY <1>0, <2>1 DEF HInv, Sessions, BatchMarks
    <2> QED
      BY <2>2, <2>3, <2>4, <2>5 DEF HInv, Sessions
  <1> QED
    BY <1>1, <1>2, <1>3

\* A worker looks for a request: its own session changes, or its batch ends.
LEMMA SearchSteps ==
    ASSUME HInv, NEW p \in Worker,
           \/ BeginBatch(p) \/ ReadCandidates(p) \/ NoneLeft(p)
           \/ \E j \in Job : Choose(p, j)
           \/ ReadBinding(p) \/ RegisteredMeanwhile(p) \/ SkipRegistration(p) \/ ClaimNothing(p)
    PROVE  HInv'
  <1>0. /\ worker[p] \in Session /\ worker \in [Worker -> Session]
        /\ worker[p].candidates \subseteq Job
        /\ \A j \in Job : queue[j].attempts \in Nat /\ queue[j].request \in 0 .. MaxRequest
    BY DEF HInv, HistoryTypeOK, Session, Row
  <1>1. ASSUME NEW place \in Place \ {"off", "changed"}, LetGo(p, place),
               place \notin {"seen", "binding", "bound"} \cup Holding,
               UNCHANGED <<queue, draft, work, taken>>
        PROVE  HInv'
    <2> DEFINE S == IF place = "choosing" THEN worker[p].candidates ELSE {}
    <2>1. Resting(place, S) \in Session /\ Resting(place, S).place = place
      BY <1>0, RestingIs
    <2>2. worker' = [worker EXCEPT ![p] = Resting(place, S)]
      BY <1>1 DEF LetGo
    <2> HIDE DEF S
    <2>3. place \notin InTransaction
      BY <1>1 DEF Holding
    <2> QED
      BY <1>1, <2>1, <2>2, <2>3, WorkerStep
  <1>2. ASSUME Bound(p), worker[p].place \in {"seen", "binding"},
               UNCHANGED <<queue, draft, work, taken>>
        PROVE  HInv'
    <2> DEFINE s == [worker[p] EXCEPT !.place = "bound", !.count = 0, !.stale = FALSE]
    <2>1. s \in Session /\ s.place = "bound" /\ s.job = worker[p].job
      BY <1>0 DEF Session, Place
    <2>2. worker' = [worker EXCEPT ![p] = s]
      BY <1>0, <1>2 DEF Bound
    <2>3. worker[p].job \in Job
      BY <1>2 DEF HInv, Sessions, SessionShape
    <2> HIDE DEF s
    <2> QED
      BY <1>2, <2>1, <2>2, <2>3, WorkerStep DEF InTransaction
  <1>3. CASE BeginBatch(p)
    BY <1>1, <1>3 DEF BeginBatch, Place, Holding, InTransaction
  <1>4. CASE ReadCandidates(p)
    <2>1. CASE Ends(p)
      BY <2>1, EndsStep
    <2>2. CASE /\ worker' = [worker EXCEPT ![p] = Resting("choosing", Candidates(p))]
               /\ UNCHANGED <<queue, draft, work, taken>>
      <3>1. Candidates(p) \in SUBSET Job /\ "choosing" \in Place
        BY DEF Candidates, Place
      <3>2. /\ Resting("choosing", Candidates(p)) \in Session
            /\ Resting("choosing", Candidates(p)).place = "choosing"
        BY <3>1, RestingIs
      <3> QED
        BY <2>2, <3>2, WorkerStep DEF Holding, InTransaction
    <2> QED
      BY <1>4, <2>1, <2>2 DEF ReadCandidates
  <1>5. CASE NoneLeft(p)
    BY <1>5, EndsStep DEF NoneLeft
  <1>6. CASE \E j \in Job : Choose(p, j)
    <2>1. PICK j \in Job : Choose(p, j)
      BY <1>6
    <2> DEFINE left == worker[p].candidates \ {j}
               with == [Resting("bound", left) EXCEPT !.job = j, !.request = queue[j].request]
               seen == [with EXCEPT !.place = "seen", !.count = queue[j].attempts]
               s == worker'[p]
    <2>2. Resting("bound", left) \in Session /\ Resting("choosing", left) \in Session
      BY <1>0, RestingIs DEF Place
    <2>3. /\ with \in Session /\ with.place = "bound" /\ with.job = j
          /\ seen \in Session /\ seen.place = "seen" /\ seen.job = j
      BY <1>0, <2>2 DEF Session, Resting, Place
    <2>4. Resting("choosing", left).place = "choosing"
      BY DEF Resting
    <2>5. UNCHANGED <<queue, draft, work, taken>>
      BY <2>1 DEF Choose
    <2>6. \/ worker' = [worker EXCEPT ![p] = with]
          \/ worker' = [worker EXCEPT ![p] = seen]
          \/ worker' = [worker EXCEPT ![p] = Resting("choosing", left)]
      BY <2>1 DEF Choose
    <2> HIDE DEF with, seen, left
    <2>7. CASE worker' = [worker EXCEPT ![p] = with]
      BY <2>3, <2>5, <2>7, WorkerStep DEF InTransaction
    <2>8. CASE worker' = [worker EXCEPT ![p] = seen]
      BY <2>3, <2>5, <2>8, WorkerStep DEF InTransaction
    <2>9. CASE worker' = [worker EXCEPT ![p] = Resting("choosing", left)]
      BY <2>2, <2>4, <2>5, <2>9, WorkerStep DEF InTransaction, Holding
    <2> QED
      BY <2>6, <2>7, <2>8, <2>9
  <1>7. CASE ReadBinding(p)
    <2>1. CASE At(p, "binding")
      <3> DEFINE s == [worker[p] EXCEPT !.place = "binding"]
      <3>1. s \in Session /\ s.place = "binding" /\ s.job = worker[p].job
        BY <1>0 DEF Session, Place
      <3>2. worker' = [worker EXCEPT ![p] = s]
        BY <1>0, <2>1 DEF At
      <3>3. worker[p].job \in Job
        BY <1>7 DEF ReadBinding, HInv, Sessions, SessionShape
      <3> HIDE DEF s
      <3> QED
        BY <1>7, <3>1, <3>2, <3>3, WorkerStep DEF InTransaction, ReadBinding
    <2>2. CASE Bound(p)
      BY <1>2, <1>7, <2>2 DEF ReadBinding
    <2>3. CASE LetGo(p, "conflict")
      BY <1>1, <1>7, <2>3 DEF ReadBinding, Place, Holding, InTransaction
    <2> QED
      BY <1>7, <2>1, <2>2, <2>3 DEF ReadBinding
  <1>8. CASE RegisteredMeanwhile(p)
    BY <1>2, <1>8 DEF RegisteredMeanwhile
  <1>9. CASE SkipRegistration(p) \/ ClaimNothing(p)
    BY <1>1, <1>9 DEF SkipRegistration, ClaimNothing, Place, Holding, InTransaction
  <1> QED
    BY <1>3, <1>4, <1>5, <1>6, <1>7, <1>8, <1>9

\* A claim or a renewal never meets a row that contradicts the item.
LEMMA NeverRaises ==
    ASSUME HInv, NEW p \in Worker
    PROVE  /\ Claim(p) => ~ Contradicts(queue[worker[p].job], ItemOf(p))
           /\ CommitRenewal(p) => RowRunning(p)
  <1> DEFINE j == worker[p].job
             q == worker[p].request
             it == ItemOf(p)
             r == queue[j]
  <1>0. q \in 0 .. MaxRequest
    BY DEF HInv, HistoryTypeOK, Session
  <1>1. ASSUME worker[p].place \in {"bound"} \cup Holding
        PROVE  j \in Job /\ it \in Item /\ r.request \in 0 .. MaxRequest
    BY <1>0, <1>1 DEF HInv, HistoryTypeOK, Sessions, SessionShape, ItemOf, Row
  <1>2. ASSUME Claim(p), Contradicts(r, it) PROVE FALSE
    <2>1. /\ j \in Job /\ it \in Item /\ r.request = q
          /\ it.state \in Waiting \cup {"RUNNING"}
          /\ it = work[j][r.request]
          /\ Contradicts(r, it)
      BY <1>1, <1>2 DEF Claim, MayLease, Runnable, Eligible, ItemOf
    <2>2. it.state \in State /\ it.state # "ABSENT" /\ it.state # "CANCELLED"
      BY <2>1 DEF Item, Waiting
    <2>3. r.attempts = it.offset + it.attempt /\ r.status = Image(it.state)
      BY <2>1, <2>2 DEF HInv, Tables, RowShowsItem
    <2>4. it.state = "RUNNING" /\ it.attempt = 0
      BY <2>1, <2>2, <2>3, ImageFacts DEF Contradicts
    <2> QED
      BY <1>0, <2>1, <2>4 DEF HInv, Tables, ItemShape, ItemOf
  <1>3. ASSUME CommitRenewal(p), ~ RowRunning(p) PROVE FALSE
    <2>1. /\ j \in Job /\ it \in Item /\ it.state = "RUNNING" /\ it.attempt = worker[p].count
      BY <1>1, <1>3 DEF CommitRenewal, HInv, Sessions, LockHeld, InTransaction, Holding
    <2>2. r.request = q
      BY <1>0, <2>1 DEF HInv, Tables, OneOpenRequest, ItemOf, Terminal
    <2>3. r.attempts = it.offset + it.attempt /\ r.status = Image("RUNNING")
      BY <2>1, <2>2 DEF HInv, Tables, RowShowsItem, ItemOf
    <2>4. Image("RUNNING") = "RUNNING"
      BY DEF Image
    <2> QED
      BY <1>3, <2>1, <2>2, <2>3, <2>4 DEF RowRunning
  <1> QED
    BY <1>2, <1>3

\* A holder opens a transaction on its item, or loses it.
LEMMA HolderSteps ==
    ASSUME HInv, NEW p \in Worker,
           \/ BeginRenewal(p) \/ LapseRenewal(p) \/ LoseLease(p) \/ Crash(p)
           \/ \E place \in {"finishing", "retrying", "failing"} : BeginEnd(p, place)
    PROVE  HInv'
  <1>0. /\ worker[p] \in Session /\ worker \in [Worker -> Session]
        /\ worker[p].place \in Holding => worker[p].job \in Job
    BY DEF HInv, HistoryTypeOK, Sessions, SessionShape
  <1>1. CASE LoseLease(p) \/ Crash(p)
    BY <1>1, EndsStep DEF LoseLease, Crash
  <1>2. CASE LapseRenewal(p)
    <2> DEFINE s == [worker[p] EXCEPT !.live = FALSE]
    <2>1. /\ s \in Session /\ s.place = "renewing" /\ s.job = worker[p].job
          /\ s.request = worker[p].request /\ s.count = worker[p].count
      BY <1>0, <1>2 DEF Session, LapseRenewal
    <2>2. worker' = [worker EXCEPT ![p] = s] /\ UNCHANGED <<queue, draft, work, taken>>
      BY <1>0, <1>2 DEF LapseRenewal
    <2>3. /\ worker[p].job \in Job
          /\ ItemOf(p).state = "RUNNING" /\ ItemOf(p).owner = p /\ ItemOf(p).attempt = worker[p].count
      BY <1>0, <1>2 DEF LapseRenewal, HInv, Sessions, LockHeld, InTransaction, Holding
    <2> HIDE DEF s
    <2> QED
      BY <2>1, <2>2, <2>3, WorkerStep DEF ItemOf
  <1>3. ASSUME NEW s \in Session, worker[p].place \in {"claimed", "running"}, Fenced(p),
               s.place \in InTransaction, s.job = worker[p].job,
               s.request = worker[p].request, s.count = worker[p].count,
               worker' = [worker EXCEPT ![p] = s], UNCHANGED <<queue, draft, work, taken>>
        PROVE  HInv'
    BY <1>0, <1>3, WorkerStep DEF Fenced, ItemOf, InTransaction, Holding
  <1>4. CASE BeginRenewal(p)
    <2> DEFINE s == [worker[p] EXCEPT !.place = "renewing", !.live = TRUE]
    <2>1. /\ s \in Session /\ s.place = "renewing" /\ s.job = worker[p].job
          /\ s.request = worker[p].request /\ s.count = worker[p].count
      BY <1>0 DEF Session, Place
    <2>2. worker' = [worker EXCEPT ![p] = s] /\ UNCHANGED <<queue, draft, work, taken>>
      BY <1>0, <1>4 DEF BeginRenewal
    <2> HIDE DEF s
    <2> QED
      BY <1>3, <1>4, <2>1, <2>2 DEF BeginRenewal, InTransaction
  <1>5. CASE \E place \in {"finishing", "retrying", "failing"} : BeginEnd(p, place)
    <2>1. PICK place \in {"finishing", "retrying", "failing"} : BeginEnd(p, place)
      BY <1>5
    <2> DEFINE s == [worker[p] EXCEPT !.place = place]
    <2>2. /\ s \in Session /\ s.place = place /\ s.job = worker[p].job
          /\ s.request = worker[p].request /\ s.count = worker[p].count
      BY <1>0 DEF Session, Place
    <2>3. worker' = [worker EXCEPT ![p] = s] /\ UNCHANGED <<queue, draft, work, taken>>
      BY <1>0, <2>1 DEF BeginEnd, At
    <2> HIDE DEF s
    <2> QED
      BY <1>3, <2>1, <2>2, <2>3 DEF BeginEnd, InTransaction
  <1> QED
    BY <1>1, <1>2, <1>4, <1>5

\* A session that does not write item q of job j, nor has it locked.
Apart(o, j, q) ==
    /\ worker'[o] = worker[o] /\ taken'[o] = taken[o]
    /\ worker[o].place \in InTransaction => worker[o].job # j \/ worker[o].request # q

\* The session that makes it item q of job j: it has claimed it, or lets it go.
Writes(o, j, q, it) ==
    /\ worker'[o].place \notin InTransaction \cup {"off", "changed"}
    /\ worker[o].place # "off"
    /\ worker'[o].place = "claimed" => worker'[o].job \in Job
    /\ worker'[o].place \notin {"seen", "binding", "bound", "running"}
    /\ \/ taken'[o] = taken[o]
       \/ taken'[o] = taken[o] \cup {j} /\ it.state = "RUNNING" /\ queue[j].request = q

\* What a transaction does to sessions and marks that writes an item and shows it.
LEMMA WriteStep ==
    ASSUME HInv, NEW j \in Job, NEW q \in 0 .. MaxRequest, NEW it \in Item,
           work[j][q].state # "ABSENT", it.state # "ABSENT",
           queue[j].request # q => it.state \in Terminal,
           queue[j].request = q => ~ Busy(j),
           it.live => it.state = "RUNNING", it.state = "RUNNING" => it.attempt > 0,
           work' = [work EXCEPT ![j][q] = it],
           queue' = [queue EXCEPT ![j] = Projected(@, q, it)],
           draft' = draft, worker' \in [Worker -> Session], taken' \in [Worker -> SUBSET Job],
           \A o \in Worker : Apart(o, j, q) \/ Writes(o, j, q, it)
    PROVE  HInv'
  <1>1. Tables' /\ queue' \in [Job -> Row] /\ work' \in [Job -> [0 .. MaxRequest -> Item]]
    BY TablesWrite DEF HInv
  <1>2. HistoryTypeOK'
    BY <1>1 DEF HInv, HistoryTypeOK
  <1>3. ASSUME NEW o \in Worker PROVE Stays(o) \/ Moves(o)
    <2>1. CASE Apart(o, j, q)
      <3>1. ASSUME worker[o].place \in InTransaction
            PROVE  ItemOf(o)' = ItemOf(o)
        <4>1. worker[o].job \in Job /\ worker[o].request \in 0 .. MaxRequest
          BY <3>1 DEF HInv, HistoryTypeOK, Session, Sessions, SessionShape, Holding
        <4> QED
          BY <2>1, <3>1, <4>1 DEF Apart, ItemOf, HInv, HistoryTypeOK
      <3> QED
        BY <2>1, <3>1 DEF Apart, Stays, HInv, Sessions, LockHeld
    <2>2. CASE Writes(o, j, q, it)
      BY <2>2 DEF Writes, Moves, Holding
    <2> QED
      BY <2>1, <2>2
  <1>4. (SessionShape /\ LockHeld /\ NeverContradicted)'
    BY <1>3, SessionsStep DEF HInv
  <1>5. BatchMarks'
    <2>1. queue[j] \in Row /\ queue'[j] = Projected(queue[j], q, it)
          /\ \A k \in Job : k # j => queue'[k] = queue[k]
      BY DEF HInv, HistoryTypeOK
    <2>2. /\ \A o \in queue[j].newer : worker[o].place # "off" => o \in queue'[j].newer
          /\ queue[j].request = q /\ it.state = "RUNNING" =>
                \A o \in Worker : worker[o].place # "off" => o \in queue'[j].newer
      BY <2>1, ProjectedIs DEF HInv
    <2>3. \A o \in Worker : worker'[o].place # "off" => worker[o].place # "off"
      BY DEF Apart, Writes
    <2>4. \A o \in Worker : \A k \in taken'[o] :
                /\ worker'[o].place # "off"
                /\ k \in taken[o] \/ (o \in queue'[k].newer /\ ~ Busy(k)')
      BY <2>2 DEF Apart, Writes, HInv, Sessions, BatchMarks, Busy
    <2>5. \A o \in Worker, k \in Job :
                worker'[o].place # "off" /\ o \in queue[k].newer => o \in queue'[k].newer
      BY <2>1, <2>2, <2>3
    <2> QED
      BY <1>2, <2>4, <2>5, MarksStep DEF HInv, Sessions, Busy
  <1> QED
    BY <1>1, <1>2, <1>4, <1>5 DEF HInv, Sessions

\* The item a worker in a claim or a transaction works on.
LEMMA ItemIs ==
    ASSUME HInv, NEW p \in Worker, worker[p].place \in {"seen", "binding", "bound"} \cup Holding
    PROVE  /\ worker[p].job \in Job /\ worker[p].request \in 0 .. MaxRequest
           /\ ItemOf(p) \in Item /\ ItemOf(p) = work[worker[p].job][worker[p].request]
           /\ ItemOf(p).live => ItemOf(p).state = "RUNNING"
           /\ ItemOf(p).state = "RUNNING" => /\ ItemOf(p).attempt > 0
                                             /\ queue[worker[p].job].request = worker[p].request
  <1>1. worker[p].job \in Job /\ worker[p].request \in 0 .. MaxRequest
    BY DEF HInv, HistoryTypeOK, Session, Sessions, SessionShape
  <1>2. /\ ItemOf(p) = work[worker[p].job][worker[p].request] /\ ItemOf(p) \in Item
    BY <1>1 DEF HInv, HistoryTypeOK, ItemOf
  <1>3. /\ ItemOf(p).live => ItemOf(p).state = "RUNNING"
        /\ ItemOf(p).state = "RUNNING" => ItemOf(p).attempt > 0
    BY <1>1, <1>2 DEF HInv, Tables, ItemShape
  <1>4. ItemOf(p).state = "RUNNING" => queue[worker[p].job].request = worker[p].request
    BY <1>1, <1>2 DEF HInv, Tables, OneOpenRequest, Terminal
  <1> QED
    BY <1>1, <1>2, <1>3, <1>4

\* The lease of attempt n.
LEMMA LeasedIs ==
    ASSUME NEW it \in Item, NEW p \in Worker
    PROVE  LET l == [it EXCEPT !.state = "RUNNING", !.attempt = @ + 1, !.owner = p,
                               !.live = TRUE, !.due = FALSE] IN
           /\ it.attempt + 1 \in Nat /\ it.attempt + 1 > 0
           /\ l \in Item /\ l.state = "RUNNING" /\ l.attempt > 0
  <1>1. it.attempt \in Nat
    BY DEF Item
  <1>2. it.attempt + 1 \in Nat /\ it.attempt + 1 > 0
    BY <1>1
  <1>3. "RUNNING" \in State /\ p \in Worker \cup {NoWorker}
    BY DEF State
  <1> QED
    BY <1>2, <1>3 DEF Item

LEMMA ClaimStep ==
    ASSUME HInv, NEW p \in Worker, Claim(p)
    PROVE  HInv'
  <1> DEFINE j == worker[p].job
             q == worker[p].request
             it == [ItemOf(p) EXCEPT !.state = "RUNNING", !.attempt = @ + 1, !.owner = p,
                                     !.live = TRUE, !.due = FALSE]
             s == [worker[p] EXCEPT !.place = "claimed", !.candidates = {},
                                    !.count = ItemOf(p).attempt + 1]
  <1>0. ~ Contradicts(queue[j], ItemOf(p))
    BY NeverRaises
  <1>1. /\ j \in Job /\ q \in 0 .. MaxRequest /\ ItemOf(p) \in Item /\ ItemOf(p) = work[j][q]
    BY ItemIs DEF Claim
  <1>2. /\ Runnable(ItemOf(p)) /\ ~ Locked(j, q) /\ ~ Busy(j) /\ queue[j].request = q
    BY DEF Claim, MayLease, Eligible
  <1>3. it \in Item /\ it.state = "RUNNING" /\ it.attempt > 0
    BY <1>1, LeasedIs
  <1>4. worker[p] \in Session /\ s \in Session /\ s.place = "claimed" /\ s.job = j
    <2>1. worker[p] \in Session /\ ItemOf(p).attempt + 1 \in Nat
      BY <1>1, LeasedIs DEF HInv, HistoryTypeOK
    <2>2. "claimed" \in Place /\ {} \in SUBSET Job
      BY DEF Place
    <2> QED
      BY <2>1, <2>2 DEF Session
  <1>5. /\ work' = [work EXCEPT ![j][q] = it]
        /\ queue' = [queue EXCEPT ![j] = Projected(@, q, it)]
        /\ draft' = draft
    BY <1>0 DEF Claim, Write
  <1>6. worker' = [worker EXCEPT ![p] = s] /\ taken' = [taken EXCEPT ![p] = @ \cup {j}]
    BY <1>0 DEF Claim, HInv, HistoryTypeOK
  <1>7. work[j][q].state # "ABSENT"
    BY <1>1, <1>2 DEF Runnable, Waiting
  <1>8. \A o \in Worker : worker[o].place \in InTransaction => worker[o].job # j \/ worker[o].request # q
    BY <1>2 DEF Locked
  <1> HIDE DEF it, s
  <1>9. /\ worker' \in [Worker -> Session] /\ worker'[p] = s
        /\ \A o \in Worker : o # p => worker'[o] = worker[o] /\ taken'[o] = taken[o]
        /\ taken' \in [Worker -> SUBSET Job] /\ taken'[p] = taken[p] \cup {j}
    BY <1>1, <1>4, <1>6 DEF HInv, HistoryTypeOK
  <1>10. worker[p].place = "bound"
    BY DEF Claim
  <1>11. \A o \in Worker : Apart(o, j, q) \/ Writes(o, j, q, it)
    <2>1. Writes(p, j, q, it)
      BY <1>1, <1>2, <1>3, <1>4, <1>9, <1>10 DEF Writes, InTransaction
    <2>2. \A o \in Worker : o # p => Apart(o, j, q)
      BY <1>8, <1>9 DEF Apart
    <2> QED
      BY <2>1, <2>2
  <1>12. /\ queue[j].request = q => ~ Busy(j)
         /\ queue[j].request # q => it.state \in Terminal
         /\ it.state # "ABSENT"
    BY <1>2, <1>3
  <1> HIDE DEF j, q
  <1> QED
    BY <1>1, <1>3, <1>5, <1>7, <1>9, <1>11, <1>12, WriteStep

\* The item it that p leaves behind: it ends, waits for a retry, or had ended before.
Leaves(p, j, q, it) ==
    /\ work' = [work EXCEPT ![j][q] = it]
    /\ queue' = [queue EXCEPT ![j] = Projected(@, q, it)]
    /\ it.state \in Terminal \cup {"RETRY_WAIT"} /\ ~ it.live
    /\ queue[j].request # q => it.state \in Terminal
    /\ work[j][q].state # "ABSENT"
    /\ work[j][q].state \in Terminal => it.state = work[j][q].state
    /\ \A o \in Worker : /\ o # p /\ worker[o].place \in InTransaction
                         => worker[o].job # j \/ worker[o].request # q

LEMMA EndingIs ==
    ASSUME HInv, NEW p \in Worker, Reap(p) \/ ShowTerminal(p) \/ CommitEnd(p),
           NEW j \in Job, j = worker[p].job, NEW q \in 0 .. MaxRequest, q = worker[p].request
    PROVE  \E it \in Item : Leaves(p, j, q, it)
  <1>0. worker[p].place \in {"bound"} \cup Holding
    BY DEF Reap, ShowTerminal, CommitEnd, Holding, InTransaction
  <1>1. /\ ItemOf(p) \in Item /\ ItemOf(p) = work[j][q]
        /\ ItemOf(p).state = "RUNNING" => queue[j].request = q
        /\ ItemOf(p).live => ItemOf(p).state = "RUNNING"
    BY <1>0, ItemIs
  <1>2. CASE Reap(p)
    <2>0. /\ Released(ItemOf(p), "FAILED", FALSE) \in Item
          /\ Released(ItemOf(p), "FAILED", FALSE).state = "FAILED"
          /\ ~ Released(ItemOf(p), "FAILED", FALSE).live
      <3>1. "FAILED" \in State /\ FALSE \in BOOLEAN
        BY DEF State
      <3> QED
        BY <1>1, <3>1, ReleasedIs
    <2>1. PICK it \in Item : it = Released(ItemOf(p), "FAILED", FALSE)
                              /\ it.state = "FAILED" /\ ~ it.live
      BY <2>0
    <2>2. ~ Locked(j, q) /\ ItemOf(p).state = "RUNNING"
      BY <1>2 DEF Reap, MayReap, Exhausted
    <2>3. work' = [work EXCEPT ![j][q] = it] /\ queue' = [queue EXCEPT ![j] = Projected(@, q, it)]
      BY <1>2, <2>1 DEF Reap, Write
    <2> QED
      BY <1>1, <2>1, <2>2, <2>3 DEF Leaves, Terminal, Locked
  <1>3. CASE ShowTerminal(p)
    <2>1. ItemOf(p).state \in Terminal
      BY <1>3 DEF ShowTerminal
    <2>2. \A o \in Worker : worker[o].place \in InTransaction => worker[o].job # j \/ worker[o].request # q
      BY <1>1, <2>1 DEF HInv, Sessions, LockHeld, ItemOf, Terminal
    <2>3. PICK it \in Item : it = ItemOf(p)
      BY <1>1
    <2>4. work' = [work EXCEPT ![j][q] = it] /\ queue' = [queue EXCEPT ![j] = Projected(@, q, it)]
      BY <1>3, <2>3 DEF ShowTerminal, Write
    <2> QED
      BY <1>1, <2>1, <2>2, <2>3, <2>4 DEF Leaves, Terminal
  <1>4. CASE CommitEnd(p)
    <2>1. worker[p].place \in {"finishing", "retrying", "failing"}
      BY <1>4 DEF CommitEnd
    <2>2. PICK s \in {"SUCCEEDED", "FAILED", "RETRY_WAIT"} :
              EndedItem(p) = Released(ItemOf(p), s, FALSE)
      BY <2>1 DEF EndedItem
    <2>3. s \in State /\ s \in Terminal \cup {"RETRY_WAIT"}
      BY DEF State, Terminal
    <2>4. PICK it \in Item : it = EndedItem(p) /\ it.state = s /\ ~ it.live
      BY <1>1, <2>2, <2>3, ReleasedIs
    <2>5. ItemOf(p).state = "RUNNING"
      BY <2>1 DEF HInv, Sessions, LockHeld, InTransaction
    <2>6. \A o \in Worker : /\ o # p /\ worker[o].place \in InTransaction
                           => worker[o].job # j \/ worker[o].request # q
      BY <2>1, OneHolder DEF HInv, Sessions, InTransaction
    <2>7. work' = [work EXCEPT ![j][q] = it] /\ queue' = [queue EXCEPT ![j] = Projected(@, q, it)]
      BY <1>4, <2>4 DEF CommitEnd, Write
    <2> QED
      BY <1>1, <2>3, <2>4, <2>5, <2>6, <2>7 DEF Leaves, Terminal
  <1> QED
    BY <1>2, <1>3, <1>4

\* An item that ends, or ended before, is shown and the session lets it go.
LEMMA EndingSteps ==
    ASSUME HInv, NEW p \in Worker, Reap(p) \/ ShowTerminal(p) \/ CommitEnd(p)
    PROVE  HInv'
  <1> DEFINE next == worker'[p]
  <1>0. worker[p].place \in {"bound"} \cup Holding
    BY DEF Reap, ShowTerminal, CommitEnd, Holding, InTransaction
  <1>1. PICK j \in Job, q \in 0 .. MaxRequest : j = worker[p].job /\ q = worker[p].request
    BY <1>0, ItemIs
  <1>2. PICK it \in Item : Leaves(p, j, q, it)
    BY <1>1, EndingIs
  <1>3. queue[j].request = q => ~ Busy(j)
    BY <1>1 DEF Reap, MayReap, ShowTerminal, CommitEnd, MayShow
  <1>4. /\ UNCHANGED <<draft, taken>>
        /\ LetGo(p, "choosing") \/ LetGo(p, "idle")
    BY DEF Reap, ShowTerminal, CommitEnd
  <1>5. /\ worker' \in [Worker -> Session] /\ next.place \in {"choosing", "idle"}
        /\ \A o \in Worker : o # p => worker'[o] = worker[o]
    <2>1. worker \in [Worker -> Session] /\ worker[p].candidates \in SUBSET Job
      BY DEF HInv, HistoryTypeOK, Session
    <2>2. /\ Resting("choosing", worker[p].candidates) \in Session /\ Resting("idle", {}) \in Session
          /\ Resting("choosing", worker[p].candidates).place = "choosing"
          /\ Resting("idle", {}).place = "idle"
      BY <2>1, RestingIs DEF Place
    <2>3. \/ worker' = [worker EXCEPT ![p] = Resting("choosing", worker[p].candidates)]
          \/ worker' = [worker EXCEPT ![p] = Resting("idle", {})]
      BY <1>4 DEF LetGo
    <2> QED
      BY <2>1, <2>2, <2>3
  <1>6. /\ taken' \in [Worker -> SUBSET Job] /\ draft' = draft
        /\ worker[p].place # "off"
    BY <1>0, <1>4 DEF HInv, HistoryTypeOK, Holding, InTransaction
  <1>7. \A o \in Worker : Apart(o, j, q) \/ Writes(o, j, q, it)
    <2>1. Writes(p, j, q, it)
      BY <1>4, <1>5, <1>6 DEF Writes, InTransaction
    <2>2. \A o \in Worker : o # p => Apart(o, j, q)
      BY <1>2, <1>4, <1>5 DEF Apart, Leaves
    <2> QED
      BY <2>1, <2>2
  <1>8. it.state # "ABSENT" /\ it.state # "RUNNING"
    BY <1>2 DEF Leaves, Terminal
  <1> QED
    BY <1>2, <1>3, <1>5, <1>6, <1>7, <1>8, WriteStep DEF Leaves

\* An operator's cancellation that is shown at once.
LEMMA CancelShownStep ==
    ASSUME HInv, NEW j \in Job, NEW q \in Request, CancelShown(j, q)
    PROVE  HInv'
  <1>0. q \in 0 .. MaxRequest
    BY BoundTypes DEF Request
  <1>1. work[j][q] \in Item /\ (work[j][q].live => work[j][q].state = "RUNNING")
    BY <1>0 DEF HInv, HistoryTypeOK, Tables, ItemShape
  <1> DEFINE it == IF work[j][q].state \in Terminal THEN work[j][q]
                   ELSE Released(work[j][q], "CANCELLED", FALSE)
  <1>2. it \in Item /\ it.state \in Terminal /\ ~ it.live
    <2>1. CASE work[j][q].state \in Terminal
      BY <1>1, <2>1 DEF Terminal
    <2>2. CASE work[j][q].state \notin Terminal
      <3>1. "CANCELLED" \in State /\ "CANCELLED" \in Terminal
        BY DEF State, Terminal
      <3> QED
        BY <1>1, <2>2, <3>1, ReleasedIs
    <2> QED
      BY <2>1, <2>2
  <1>3. work' = [work EXCEPT ![j][q] = it] /\ queue' = [queue EXCEPT ![j] = Projected(@, q, it)]
    BY DEF CancelShown
  <1>4. /\ work[j][q].state # "ABSENT" /\ (queue[j].request = q => ~ Busy(j)) /\ ~ Locked(j, q)
        /\ draft' = draft /\ worker' = worker /\ taken' = taken
    BY DEF CancelShown
  <1> HIDE DEF it
  <1>5. it.state # "ABSENT" /\ it.state # "RUNNING"
    BY <1>2 DEF Terminal
  <1>6. \A o \in Worker : Apart(o, j, q)
    BY <1>4 DEF Apart, Locked
  <1>7. worker' \in [Worker -> Session] /\ taken' \in [Worker -> SUBSET Job]
    BY <1>4 DEF HInv, HistoryTypeOK
  <1> QED
    BY <1>0, <1>2, <1>3, <1>4, <1>5, <1>6, <1>7, WriteStep

\* A renewal marks the row and keeps the item in its attempt.
LEMMA CommitRenewalStep ==
    ASSUME HInv, NEW p \in Worker, CommitRenewal(p)
    PROVE  HInv'
  <1> DEFINE j == worker[p].job
             q == worker[p].request
             s == [worker[p] EXCEPT !.place = "running", !.live = FALSE]
  <1>0. RowRunning(p)
    BY NeverRaises
  <1>1. worker[p].place = "renewing" /\ worker[p].place \in Holding
    BY DEF CommitRenewal, Holding, InTransaction
  <1>2. /\ j \in Job /\ q \in 0 .. MaxRequest /\ ItemOf(p) \in Item /\ ItemOf(p) = work[j][q]
        /\ ItemOf(p).state = "RUNNING"
    BY <1>1, ItemIs DEF HInv, Sessions, LockHeld, InTransaction
  <1>3. worker[p] \in Session /\ worker \in [Worker -> Session] /\ queue[j] \in Row
    BY <1>2 DEF HInv, HistoryTypeOK
  <1>4. s \in Session /\ s.place = "running" /\ s.job = j
    BY <1>3 DEF Session, Place
  <1>5. /\ work' = [work EXCEPT ![j][q] = [ItemOf(p) EXCEPT !.live = TRUE]]
        /\ queue' = [queue EXCEPT ![j] = Touched(queue[j])]
        /\ worker' = [worker EXCEPT ![p] = s]
        /\ UNCHANGED <<draft, taken>>
    BY <1>0, <1>2, <1>3 DEF CommitRenewal, HInv, HistoryTypeOK
  <1>6. /\ [ItemOf(p) EXCEPT !.live = TRUE] \in Item
        /\ [ItemOf(p) EXCEPT !.live = TRUE].state = "RUNNING"
        /\ [ItemOf(p) EXCEPT !.live = TRUE].attempt = ItemOf(p).attempt
        /\ [ItemOf(p) EXCEPT !.live = TRUE].offset = ItemOf(p).offset
        /\ [ItemOf(p) EXCEPT !.live = TRUE].owner = ItemOf(p).owner
    BY <1>2 DEF Item
  <1>7. /\ work' \in [Job -> [0 .. MaxRequest -> Item]]
        /\ \A k \in Job : \A n \in 0 .. MaxRequest :
              /\ work'[k][n].state = work[k][n].state /\ work'[k][n].attempt = work[k][n].attempt
              /\ work'[k][n].offset = work[k][n].offset /\ work'[k][n].owner = work[k][n].owner
              /\ k # j \/ n # q => work'[k][n] = work[k][n]
        /\ work'[j][q].state = "RUNNING"
    BY <1>2, <1>5, <1>6 DEF HInv, HistoryTypeOK
  <1>8. /\ Touched(queue[j]) \in Row /\ Like(Touched(queue[j]), queue[j])
        /\ \A o \in Worker : worker[o].place # "off" => o \in Touched(queue[j]).newer
    BY <1>3, TouchedIs DEF Like
  <1>9. /\ queue' \in [Job -> Row]
        /\ \A k \in Job : Like(queue'[k], queue[k]) /\ (k # j => queue'[k] = queue[k])
        /\ queue'[j] = Touched(queue[j])
    BY <1>2, <1>5, <1>8 DEF HInv, HistoryTypeOK, Like
  <1>10. /\ worker' \in [Worker -> Session] /\ worker'[p] = s
         /\ \A o \in Worker : o # p => worker'[o] = worker[o]
    BY <1>3, <1>4, <1>5
  <1>11. HistoryTypeOK'
    BY <1>5, <1>7, <1>9, <1>10 DEF HInv, HistoryTypeOK
  <1>12. Tables'
    <2>1. \A k \in Job : \A n \in 0 .. MaxRequest : work'[k][n].live => work[k][n].state = "RUNNING"
      BY <1>2, <1>7 DEF HInv, Tables, ItemShape
    <2>2. \A k \in Job : Busy(k)' => Busy(k) /\ Like(draft'[k], draft[k])
      BY <1>5 DEF Busy, Like
    <2> QED
      BY <1>7, <1>9, <1>11, <2>1, <2>2, TablesLike DEF HInv
  <1>13. ASSUME NEW o \in Worker PROVE Stays(o) \/ Moves(o)
    <2>1. CASE o = p
      BY <1>2, <1>4, <1>10, <2>1 DEF Moves, InTransaction
    <2>2. CASE o # p
      <3>1. ASSUME worker[o].place \in InTransaction
            PROVE  /\ ItemOf(o)'.state = "RUNNING" /\ ItemOf(o)'.owner = o
                   /\ ItemOf(o)'.attempt = worker[o].count
        <4>1. /\ worker[o].job \in Job /\ worker[o].request \in 0 .. MaxRequest
              /\ ItemOf(o) = work[worker[o].job][worker[o].request]
          BY <3>1, ItemIs DEF Holding
        <4>2. /\ ItemOf(o).state = "RUNNING" /\ ItemOf(o).owner = o
              /\ ItemOf(o).attempt = worker[o].count
          BY <3>1 DEF HInv, Sessions, LockHeld
        <4>3. ItemOf(o)' = work'[worker[o].job][worker[o].request]
          BY <1>10, <2>2 DEF ItemOf
        <4> QED
          BY <1>7, <4>1, <4>2, <4>3
      <3> QED
        BY <1>10, <2>2, <3>1 DEF Stays
    <2> QED
      BY <2>1, <2>2
  <1>14. (SessionShape /\ LockHeld /\ NeverContradicted)'
    BY <1>13, SessionsStep DEF HInv
  <1>15. BatchMarks'
    <2>1. \A o \in Worker : worker'[o].place # "off" <=> worker[o].place # "off"
      BY <1>1, <1>4, <1>10
    <2>2. \A o \in Worker : \A k \in taken'[o] : worker'[o].place # "off" /\ k \in taken[o]
      BY <1>5, <2>1 DEF HInv, Sessions, BatchMarks
    <2>3. \A o \in Worker, k \in Job :
                worker'[o].place # "off" /\ o \in queue[k].newer => o \in queue'[k].newer
      BY <1>8, <1>9, <2>1
    <2> QED
      BY <1>5, <1>11, <2>2, <2>3, MarksStep DEF HInv, Sessions, Busy
  <1> QED
    BY <1>11, <1>12, <1>14, <1>15 DEF HInv, Sessions

\* A step that leaves rows and drafts alone, and items that are locked.
LEMMA ItemStep ==
    ASSUME HInv, HistoryTypeOK', Tables', UNCHANGED <<queue, draft, taken>>,
           \A o \in Worker : \/ worker'[o] = worker[o]
                            \/ /\ worker'[o].place = "bound" /\ worker'[o].job \in Job
                               /\ worker[o].place # "off",
           \A k \in Job : \A n \in 0 .. MaxRequest :
                Locked(k, n) => /\ work'[k][n].state = work[k][n].state
                                /\ work'[k][n].owner = work[k][n].owner
                                /\ work'[k][n].attempt = work[k][n].attempt
    PROVE  HInv'
  <1>1. ASSUME NEW o \in Worker PROVE Stays(o) \/ Moves(o)
    <2>1. CASE worker'[o] = worker[o]
      <3>1. ASSUME worker[o].place \in InTransaction
            PROVE  /\ ItemOf(o)'.state = "RUNNING" /\ ItemOf(o)'.owner = o
                   /\ ItemOf(o)'.attempt = worker[o].count
        <4>1. /\ worker[o].job \in Job /\ worker[o].request \in 0 .. MaxRequest
              /\ ItemOf(o) = work[worker[o].job][worker[o].request]
          BY <3>1, ItemIs DEF Holding
        <4>2. /\ ItemOf(o).state = "RUNNING" /\ ItemOf(o).owner = o
              /\ ItemOf(o).attempt = worker[o].count
          BY <3>1 DEF HInv, Sessions, LockHeld
        <4>3. ItemOf(o)' = work'[worker[o].job][worker[o].request]
          BY <2>1 DEF ItemOf
        <4>4. Locked(worker[o].job, worker[o].request)
          BY <3>1 DEF Locked
        <4> QED
          BY <4>1, <4>2, <4>3, <4>4
      <3> QED
        BY <2>1, <3>1 DEF Stays
    <2>2. CASE worker'[o].place = "bound" /\ worker'[o].job \in Job
      BY <2>2 DEF Moves, InTransaction
    <2> QED
      BY <2>1, <2>2
  <1>2. (SessionShape /\ LockHeld /\ NeverContradicted)'
    BY <1>1, SessionsStep DEF HInv
  <1>3. \A o \in Worker : \A k \in taken'[o] : worker'[o].place # "off" /\ k \in taken[o]
    BY DEF HInv, Sessions, BatchMarks
  <1>4. BatchMarks'
    BY <1>3, MarksStep DEF HInv, Sessions, Busy
  <1> QED
    BY <1>2, <1>4 DEF HInv, Sessions

LEMMA RegisterStep ==
    ASSUME HInv, NEW p \in Worker, Register(p)
    PROVE  HInv'
  <1> DEFINE j == worker[p].job
             q == worker[p].request
  <1>1. HistoryTypeOK' /\ Tables'
    BY TablesRegister DEF HInv, Sessions
  <1>2. worker[p].place = "binding" /\ ItemOf(p).state = "ABSENT" /\ UNCHANGED <<queue, draft, taken>>
    BY DEF Register
  <1>3. j \in Job /\ q \in 0 .. MaxRequest /\ ItemOf(p) = work[j][q]
    BY <1>2, ItemIs
  <1>4. /\ worker'[p].place = "bound" /\ worker'[p].job = j
        /\ \A o \in Worker : o # p => worker'[o] = worker[o]
    <2>1. worker[p] \in Session /\ worker \in [Worker -> Session]
      BY DEF HInv, HistoryTypeOK
    <2>2. worker' = [worker EXCEPT ![p] =
              [worker[p] EXCEPT !.place = "bound", !.count = 0, !.stale = FALSE]]
      BY <2>1 DEF Register, Bound
    <2>3. [worker[p] EXCEPT !.place = "bound", !.count = 0, !.stale = FALSE].place = "bound"
          /\ [worker[p] EXCEPT !.place = "bound", !.count = 0, !.stale = FALSE].job = j
      BY <2>1 DEF Session
    <2> QED
      BY <2>1, <2>2, <2>3
  <1>5. ASSUME NEW k \in Job, NEW n \in 0 .. MaxRequest, Locked(k, n)
        PROVE  work'[k][n] = work[k][n]
    <2>1. work[k][n].state = "RUNNING"
      BY <1>5 DEF Locked, HInv, Sessions, LockHeld, ItemOf
    <2>2. k # j \/ n # q
      BY <1>2, <1>3, <2>1
    <2>3. \E it : work' = [work EXCEPT ![j][q] = it]
      BY DEF Register
    <2> QED
      BY <1>3, <2>2, <2>3 DEF HInv, HistoryTypeOK
  <1> QED
    BY <1>1, <1>2, <1>3, <1>4, <1>5, ItemStep

\* Operators and the clock change items that nobody has locked, or leases only.
LEMMA ItemSteps ==
    ASSUME HInv, NEW j \in Job, NEW q \in Request, Cancel(j, q) \/ Lapse(j, q) \/ FallDue(j, q)
    PROVE  HInv'
  <1>0. q \in 0 .. MaxRequest
    BY BoundTypes DEF Request
  <1>1. UNCHANGED <<queue, draft, worker, taken>>
    BY DEF Cancel, Lapse, FallDue
  <1>2. CASE Cancel(j, q)
    <2>1. HistoryTypeOK' /\ Tables'
      BY <1>2, TablesCancel DEF HInv
    <2>2. ~ Locked(j, q)
      BY <1>2 DEF Cancel
    <2>3. ASSUME NEW k \in Job, NEW n \in 0 .. MaxRequest, Locked(k, n)
          PROVE  work'[k][n] = work[k][n]
      <3>1. k # j \/ n # q
        BY <2>2, <2>3
      <3> QED
        BY <1>0, <1>2, <3>1 DEF Cancel, HInv, HistoryTypeOK
    <2> QED
      BY <1>1, <2>1, <2>3, ItemStep
  <1>3. CASE Lapse(j, q) \/ FallDue(j, q)
    <2> DEFINE a == [work[j][q] EXCEPT !.live = FALSE]
               b == [work[j][q] EXCEPT !.due = TRUE]
    <2>1. PICK it \in {a, b} : work' = [work EXCEPT ![j][q] = it]
      BY <1>0, <1>3 DEF Lapse, FallDue, HInv, HistoryTypeOK
    <2>2. /\ it \in Item /\ it.state = work[j][q].state /\ it.attempt = work[j][q].attempt
          /\ it.offset = work[j][q].offset /\ it.owner = work[j][q].owner
          /\ it.live => work[j][q].live
      <3>1. work[j][q] \in Item
        BY <1>0 DEF HInv, HistoryTypeOK
      <3> QED
        BY <2>1, <3>1 DEF Item
    <2> HIDE DEF a, b
    <2>3. /\ work' \in [Job -> [0 .. MaxRequest -> Item]]
          /\ \A k \in Job : \A n \in 0 .. MaxRequest :
                /\ work'[k][n].state = work[k][n].state /\ work'[k][n].attempt = work[k][n].attempt
                /\ work'[k][n].offset = work[k][n].offset /\ work'[k][n].owner = work[k][n].owner
                /\ work'[k][n].live => work[k][n].live
      BY <1>0, <2>1, <2>2 DEF HInv, HistoryTypeOK
    <2>4. HistoryTypeOK'
      BY <1>1, <2>3 DEF HInv, HistoryTypeOK
    <2>5. Tables'
      <3>1. \A k \in Job : \A n \in 0 .. MaxRequest : work'[k][n].live => work[k][n].state = "RUNNING"
        BY <2>3 DEF HInv, Tables, ItemShape
      <3>2. \A k \in Job : Like(queue'[k], queue[k]) /\ (Busy(k)' => Busy(k) /\ Like(draft'[k], draft[k]))
        BY <1>1 DEF Like, Busy
      <3> QED
        BY <2>3, <2>4, <3>1, <3>2, TablesLike DEF HInv
    <2> QED
      BY <1>1, <2>3, <2>4, <2>5, ItemStep
  <1> QED
    BY <1>2, <1>3

LEMMA HInit == Init => HInv
  <1> SUFFICES ASSUME Init PROVE HInv
    OBVIOUS
  <1>1. /\ Resting("off", {}) \in Session /\ Resting("off", {}).place = "off"
    BY RestingIs DEF Place
  <1>2. NoItem \in Item /\ NoItem.state = "ABSENT" /\ ~ NoItem.live
    BY DEF NoItem, Item, State
  <1>3. InitialRow \subseteq Row
    <2>1. 0 \in 0 .. MaxRequest /\ 1 \in 0 .. MaxRequest
      BY BoundTypes
    <2>2. NoJobRow \in Row
      BY <2>1 DEF NoJobRow, Row, JobStatus
    <2> QED
      BY <2>1, <2>2, BoundTypes DEF InitialRow, Row, JobStatus
  <1>4. HistoryTypeOK
    BY <1>1, <1>2, <1>3 DEF Init, HistoryTypeOK
  <1>5. /\ \A j \in Job : \A q \in 0 .. MaxRequest : work[j][q] = NoItem
        /\ \A j \in Job : ~ Busy(j) /\ queue[j].request \in 0 .. MaxRequest
        /\ \A p \in Worker : worker[p].place = "off" /\ taken[p] = {}
    BY <1>1, <1>4 DEF Init, Busy, HistoryTypeOK, Row
  <1>6. Tables
    BY <1>2, <1>5 DEF Tables, RowShowsItem, OneOpenRequest, AbsentAhead, DraftShape, ItemShape
  <1>7. Sessions
    BY <1>5 DEF Sessions, SessionShape, LockHeld, NeverContradicted, BatchMarks, Holding, InTransaction
  <1> QED
    BY <1>4, <1>6, <1>7 DEF HInv

\* Every step keeps the invariant.
LEMMA HNext == HInv /\ [Next]_vars => HInv'
  <1> SUFFICES ASSUME HInv, [Next]_vars PROVE HInv'
    OBVIOUS
  <1>1. CASE UNCHANGED vars
    BY <1>1 DEF vars, HInv, HistoryTypeOK, Tables, RowShowsItem, OneOpenRequest, AbsentAhead,
                DraftShape, ItemShape, Sessions, SessionShape, LockHeld, NeverContradicted,
                BatchMarks, Busy, Unbound, ItemOf
  <1>2. CASE \/ \E j \in Job : EnqueueRow(j) \/ RecoverRow(j)
             \/ OperatorCommits \/ OperatorRollsBack
    BY <1>2, OperatorSteps
  <1>3. ASSUME NEW p \in Worker, Works(p) PROVE HInv'
    <2>1. CASE \/ BeginBatch(p) \/ ReadCandidates(p) \/ NoneLeft(p)
               \/ \E j \in Job : Choose(p, j)
               \/ ReadBinding(p) \/ RegisteredMeanwhile(p) \/ SkipRegistration(p) \/ ClaimNothing(p)
      BY <2>1, SearchSteps
    <2>2. CASE Register(p)
      BY <2>2, RegisterStep
    <2>3. CASE Claim(p)
      BY <2>3, ClaimStep
    <2>4. CASE CommitRenewal(p)
      BY <2>4, CommitRenewalStep
    <2>5. CASE Reap(p) \/ ShowTerminal(p) \/ CommitEnd(p)
      BY <2>5, EndingSteps
    <2>6. CASE \/ BeginRenewal(p) \/ LoseLease(p)
               \/ \E place \in {"finishing", "retrying", "failing"} : BeginEnd(p, place)
      BY <2>6, HolderSteps
    <2> QED
      BY <1>3, <2>1, <2>2, <2>3, <2>4, <2>5, <2>6 DEF Works
  <1>4. ASSUME NEW p \in Worker, Crash(p) \/ LapseRenewal(p) PROVE HInv'
    BY <1>4, HolderSteps
  <1>5. ASSUME NEW j \in Job, NEW q \in Request,
               Cancel(j, q) \/ CancelShown(j, q) \/ Lapse(j, q) \/ FallDue(j, q)
        PROVE  HInv'
    BY <1>5, ItemSteps, CancelShownStep
  <1> QED
    BY <1>1, <1>2, <1>3, <1>4, <1>5 DEF Next

\* Tables and sessions keep the inductive invariant: whatever registrations, claims,
\* renewals, cancellations and operator runs interleave.
THEOREM HInvariance == Spec => []HInv
  BY HInit, HNext, PTL DEF Spec

-----------------------------------------------------------------------------
\* Rows, drafts, items and sessions keep their types: the code of history_work.py
\* and of 202610181800 never stores a request or an attempt out of range.
THEOREM HistoryTypes == Spec => []HistoryTypeOK
  <1>1. HInv => HistoryTypeOK
    BY DEF HInv
  <1> QED
    BY <1>1, HInvariance, PTL

\* At every commit the queue row shows its item; an operator's cancel_work of the
\* item alone is the one gap (project_history_work).
THEOREM RowsShowItems == Spec => []RowShowsItem
  <1>1. HInv => RowShowsItem
    BY DEF HInv, Tables
  <1> QED
    BY <1>1, HInvariance, PTL

\* No item of an earlier request can still run (_enqueue_history_jobs).
THEOREM RequestsOneAtATime == Spec => []OneOpenRequest
  <1>1. HInv => OneOpenRequest
    BY DEF HInv, Tables
  <1> QED
    BY <1>1, HInvariance, PTL

\* The errors of claim_history_work and heartbeat_history_work about rows that
\* contradict their item are never raised.
THEOREM NoneContradicted == Spec => []NeverContradicted
  <1>1. HInv => NeverContradicted
    BY DEF HInv, Sessions
  <1> QED
    BY <1>1, HInvariance, PTL

\* A claim of a job that the batch has had is impossible: the row is marked.
LEMMA ClaimsUnmarked ==
    ASSUME HInv, NEW p \in Worker, NEW j \in taken[p], worker[p].job = j
    PROVE  ~ Claim(p)
  BY DEF HInv, Sessions, BatchMarks, Claim, MayLease, Eligible

\* updated_at against batch_started_at lets a batch claim a job at most once.
THEOREM BatchesClaimOnce == Spec => OncePerBatch
  <1> DEFINE Again == \A p \in Worker : \A j \in taken[p] :
        ~ (worker'[p].place = "claimed" /\ worker[p].place = "bound" /\ worker[p].job = j)
  <1>1. ASSUME HInv, [Next]_vars PROVE [Again]_vars
    <2> SUFFICES ASSUME Next, NEW p \in Worker, NEW j \in taken[p],
                        worker'[p].place = "claimed", worker[p].place = "bound", worker[p].job = j
                 PROVE  FALSE
      BY <1>1
    <2>0. worker \in [Worker -> Session] /\ worker[p] \in Session
      BY <1>1 DEF HInv, HistoryTypeOK
    <2>1. worker' # worker
      OBVIOUS
    <2>2. \A o \in Worker : ~ (o # p /\ \E s : worker' = [worker EXCEPT ![o] = s])
      BY <2>0
    <2>3. ~ OperatorCommits
      BY SMTT(30), <2>0 DEF OperatorCommits, Session
    <2>4. ~ OperatorRollsBack /\ \A k \in Job : ~ EnqueueRow(k) /\ ~ RecoverRow(k)
      BY <2>1 DEF OperatorRollsBack, EnqueueRow, RecoverRow
    <2>5. \A k \in Job, q \in Request :
            ~ Cancel(k, q) /\ ~ CancelShown(k, q) /\ ~ Lapse(k, q) /\ ~ FallDue(k, q)
      BY <2>1 DEF Cancel, CancelShown, Lapse, FallDue
    <2>6. PICK o \in Worker : Works(o) \/ Crash(o) \/ LapseRenewal(o)
      BY <2>3, <2>4, <2>5 DEF Next
    <2>7. o = p
      <3>1. \E s : worker' = [worker EXCEPT ![o] = s]
        BY <2>0, <2>6 DEF Works, Crash, LapseRenewal, BeginBatch, ReadCandidates, NoneLeft, Choose,
               ReadBinding, Register, RegisteredMeanwhile, SkipRegistration, Claim,
               Reap, ShowTerminal, ClaimNothing, BeginRenewal, CommitRenewal,
               BeginEnd, CommitEnd, LoseLease, Ends, LetGo, At, Bound
      <3> QED
        BY <2>2, <3>1
    <2>8. ~ Claim(p)
      BY <1>1, ClaimsUnmarked
    <2>9. Reap(p) \/ ShowTerminal(p) \/ ClaimNothing(p) \/ Crash(p)
      BY <2>6, <2>7, <2>8 DEF Works, BeginBatch, ReadCandidates, NoneLeft, Choose, ReadBinding,
             Register, RegisteredMeanwhile, SkipRegistration, BeginRenewal, CommitRenewal,
             BeginEnd, CommitEnd, LoseLease, LapseRenewal
    <2>10. LetGo(p, "choosing") \/ Ends(p)
      BY <2>9 DEF Reap, ShowTerminal, ClaimNothing, Crash
    <2> QED
      BY <2>0, <2>10 DEF LetGo, Ends, Resting
  <1>2. HInv /\ [Next]_vars => [Again]_vars
    BY <1>1
  <1> QED
    BY <1>2, HInvariance, PTL DEF Spec, OncePerBatch

-----------------------------------------------------------------------------
(* The queue implements HistoryPromise.                                      *)

\* The refinement mapping of Promise.
asked == [j \in Job |-> queue[j].request]
shown == [j \in Job |-> ShownStatus(queue[j].status)]
decision == [j \in Job |-> [q \in 0 .. MaxRequest |-> Decision(work[j][q].state)]]

\* What the promise sees of an item in state s and of the row that shows it.
LEMMA SeenFacts ==
    ASSUME NEW s \in State
    PROVE  /\ s \in Terminal => ShownStatus(Image(s)) = Promise!Shown(s) /\ Decision(s) = s
           /\ s \notin Terminal => ShownStatus(Image(s)) = "open" /\ Decision(s) = "open"
  BY DEF State, Terminal, Image, ShownStatus, Decision, Promise!Shown

LEMMA KeptView ==
    /\ (\A j \in Job : queue'[j].request = queue[j].request) => asked' = asked
    /\ (\A j \in Job : queue'[j].status = queue[j].status) => shown' = shown
    /\ (\A j \in Job : \A q \in 0 .. MaxRequest : work'[j][q].state = work[j][q].state)
            => decision' = decision
  <1>1. (\A j \in Job : \A q \in 0 .. MaxRequest : work'[j][q].state = work[j][q].state)
            => decision' = decision
    <2> SUFFICES ASSUME \A j \in Job : \A q \in 0 .. MaxRequest :
                            work'[j][q].state = work[j][q].state
                 PROVE  decision' = decision
      OBVIOUS
    <2>1. \A j \in Job : [q \in 0 .. MaxRequest |-> Decision(work'[j][q].state)]
                            = [q \in 0 .. MaxRequest |-> Decision(work[j][q].state)]
      OBVIOUS
    <2> QED
      BY <2>1 DEF decision
  <1> QED
    BY <1>1 DEF asked, shown

\* What it sees of a transaction that writes item q of job j.
Puts(j, q, it) == work' = [work EXCEPT ![j][q] = it]
Decides(j, q, d) == decision' = [decision EXCEPT ![j][q] = d]

LEMMA ItemView ==
    ASSUME HistoryTypeOK, NEW j \in Job, NEW q \in 0 .. MaxRequest, NEW it \in Item,
           Puts(j, q, it)
    PROVE  Decides(j, q, Decision(it.state))
  <1>1. /\ work'[j][q] = it
        /\ \A k \in Job : \A n \in 0 .. MaxRequest : k # j \/ n # q => work'[k][n] = work[k][n]
    BY DEF HistoryTypeOK, Puts
  <1> DEFINE f == [n \in 0 .. MaxRequest |-> Decision(work[j][n].state)]
             g == [n \in 0 .. MaxRequest |-> Decision(work'[j][n].state)]
  <1>2. g = [f EXCEPT ![q] = Decision(it.state)]
    <2>1. PICK x : x = Decision(it.state)
      OBVIOUS
    <2>2. g[q] = x
      BY <1>1, <2>1
    <2>3. \A n \in 0 .. MaxRequest : n # q => g[n] = f[n]
      BY <1>1
    <2>4. DOMAIN g = 0 .. MaxRequest /\ g = [n \in 0 .. MaxRequest |-> g[n]]
          /\ DOMAIN f = 0 .. MaxRequest /\ f = [n \in 0 .. MaxRequest |-> f[n]]
      OBVIOUS
    <2> HIDE DEF f, g
    <2> QED
      BY <2>1, <2>2, <2>3, <2>4
  <1>3. \A k \in Job : k # j => [n \in 0 .. MaxRequest |-> Decision(work'[k][n].state)]
                                    = [n \in 0 .. MaxRequest |-> Decision(work[k][n].state)]
    BY <1>1
  <1> QED
    BY <1>2, <1>3 DEF Decides, decision

LEMMA RowView ==
    ASSUME HistoryTypeOK, NEW j \in Job, NEW q \in 0 .. MaxRequest, NEW it \in Item,
           queue' = [queue EXCEPT ![j] = Projected(@, q, it)]
    PROVE  /\ asked' = asked
           /\ queue[j].request = q => shown' = [shown EXCEPT ![j] = ShownStatus(Image(it.state))]
           /\ queue[j].request # q => shown' = shown
  <1>1. queue[j] \in Row /\ queue'[j] = Projected(queue[j], q, it)
        /\ \A k \in Job : k # j => queue'[k] = queue[k]
    BY DEF HistoryTypeOK
  <1>2. /\ queue'[j].request = queue[j].request
        /\ queue[j].request = q => queue'[j].status = Image(it.state)
        /\ queue[j].request # q => queue'[j] = queue[j]
    BY <1>1, ProjectedIs
  <1>3. PICK x : x = ShownStatus(Image(it.state))
    OBVIOUS
  <1>4. queue[j].request = q => ShownStatus(queue'[j].status) = x
    BY <1>2, <1>3
  <1>5. ASSUME queue[j].request = q PROVE shown' = [shown EXCEPT ![j] = x]
    <2>1. \A k \in Job : ShownStatus(queue'[k].status) =
                IF k = j THEN x ELSE ShownStatus(queue[k].status)
      BY <1>1, <1>4, <1>5
    <2> QED
      BY <2>1 DEF shown
  <1> QED
    BY <1>1, <1>2, <1>3, <1>5, KeptView

\* The item of an open request belongs to the row, which shows it as open.
LEMMA OpenIs ==
    ASSUME HInv, NEW j \in Job, NEW q \in 0 .. MaxRequest,
           work[j][q].state \notin Terminal, work[j][q].state # "ABSENT"
    PROVE  queue[j].request = q /\ asked[j] = q /\ shown[j] = "open" /\ decision[j][q] = "open"
  <1>1. queue[j].request = q
    BY DEF HInv, Tables, OneOpenRequest
  <1>2. work[j][q].state \in State
    BY DEF HInv, HistoryTypeOK, Item
  <1>3. queue[j].status = Image(work[j][q].state)
    BY <1>1 DEF HInv, Tables, RowShowsItem, Terminal
  <1> QED
    BY <1>1, <1>2, <1>3, SeenFacts DEF asked, shown, decision

\* The promise takes a step, or sees none.
Still == UNCHANGED <<asked, shown, decision>>

\* A transaction that shows what it leaves of an item: it decides the request,
\* makes up for a cancellation the row has missed, or keeps the request open.
LEMMA WritePromised ==
    ASSUME HInv, NEW j \in Job, NEW q \in 0 .. MaxRequest, NEW it \in Item,
           work[j][q].state # "ABSENT", it.state # "ABSENT",
           work[j][q].state \in Terminal => it.state = work[j][q].state,
           work' = [work EXCEPT ![j][q] = it],
           queue' = [queue EXCEPT ![j] = Projected(@, q, it)]
    PROVE  Promise!Next \/ Still
  <1>0. work[j][q].state \in State /\ it.state \in State
    BY DEF HInv, HistoryTypeOK, Item
  <1>1. /\ decision' = [decision EXCEPT ![j][q] = Decision(it.state)]
        /\ asked' = asked
        /\ queue[j].request = q => shown' = [shown EXCEPT ![j] = ShownStatus(Image(it.state))]
        /\ queue[j].request # q => shown' = shown
    <2>1. HistoryTypeOK
      BY DEF HInv
    <2>2. decision' = [decision EXCEPT ![j][q] = Decision(it.state)]
      <3>1. Puts(j, q, it)
        BY DEF Puts
      <3>2. Decides(j, q, Decision(it.state))
        BY <2>1, <3>1, ItemView
      <3> QED
        BY <3>2 DEF Decides
    <2> QED
      BY <2>1, <2>2, RowView
  <1>2. decision[j][q] = Decision(work[j][q].state) /\ asked[j] = queue[j].request
    BY DEF decision, asked
  <1>3. CASE work[j][q].state \in Terminal
    <2>1. decision' = decision /\ it.state = work[j][q].state
      BY <1>1, <1>2, <1>3 DEF decision
    <2>2. CASE queue[j].request # q
      BY <1>1, <2>1, <2>2 DEF Still
    <2>3. CASE queue[j].request = q /\ queue[j].status = Image(work[j][q].state)
      <3>1. shown' = shown
        BY <1>1, <2>1, <2>3 DEF shown
      <3> QED
        BY <1>1, <2>1, <3>1 DEF Still
    <2>4. CASE queue[j].request = q /\ queue[j].status # Image(work[j][q].state)
      <3>1. work[j][q].state = "CANCELLED" /\ queue[j].status \in {"PENDING", "RUNNING"}
        BY <2>4 DEF HInv, Tables, RowShowsItem
      <3>2. shown[j] = "open" /\ decision[j][asked[j]] = "CANCELLED"
        BY <1>2, <2>4, <3>1 DEF shown, ShownStatus, Decision, Terminal
      <3>3. shown' = [shown EXCEPT ![j] = "FAILED"]
        BY <1>1, <2>1, <2>4, <3>1 DEF Image, ShownStatus
      <3>4. Promise!ShowCancelled(j)
        BY <1>1, <2>1, <3>2, <3>3 DEF Promise!ShowCancelled, asked, shown, decision
      <3> QED
        BY <3>4 DEF Promise!Next
    <2> QED
      BY <2>2, <2>3, <2>4
  <1>4. CASE work[j][q].state \notin Terminal
    <2>1. queue[j].request = q /\ asked[j] = q /\ shown[j] = "open" /\ decision[j][q] = "open"
      BY <1>4, OpenIs
    <2>2. CASE it.state \notin Terminal
      <3>1. shown' = shown /\ decision' = decision
        BY <1>0, <1>1, <2>1, <2>2, SeenFacts DEF shown, decision
      <3> QED
        BY <1>1, <3>1 DEF Still
    <2>3. CASE it.state \in Terminal
      <3>1. PICK d \in {"SUCCEEDED", "FAILED", "CANCELLED"} : d = it.state
        BY <2>3 DEF Terminal
      <3>2. /\ decision' = [decision EXCEPT ![j][asked[j]] = d]
            /\ shown' = [shown EXCEPT ![j] = Promise!Shown(d)]
        BY <1>0, <1>1, <2>1, <2>3, <3>1, SeenFacts
      <3>3. Promise!Decide(j, d)
        BY <1>1, <2>1, <3>2 DEF Promise!Decide, asked, shown, decision
      <3> QED
        BY <3>3 DEF Promise!Next
    <2> QED
      BY <2>2, <2>3
  <1> QED
    BY <1>3, <1>4

\* A claim keeps its request open.
LEMMA ClaimPromised ==
    ASSUME HInv, NEW p \in Worker, Claim(p)
    PROVE  Promise!Next \/ Still
  <1>1. PICK j \in Job, q \in 0 .. MaxRequest : j = worker[p].job /\ q = worker[p].request
    BY ItemIs DEF Claim
  <1>2. ItemOf(p) \in Item /\ ItemOf(p) = work[j][q] /\ ~ Contradicts(queue[j], ItemOf(p))
    BY <1>1, ItemIs, NeverRaises DEF Claim
  <1>3. work[j][q].state \in Waiting \cup {"RUNNING"}
    BY <1>1, <1>2 DEF Claim, MayLease, Runnable
  <1>4. PICK it \in Item : /\ it = [ItemOf(p) EXCEPT !.state = "RUNNING", !.attempt = @ + 1,
                                          !.owner = p, !.live = TRUE, !.due = FALSE]
                           /\ it.state = "RUNNING"
    BY <1>2, LeasedIs
  <1>5. work' = [work EXCEPT ![j][q] = it] /\ queue' = [queue EXCEPT ![j] = Projected(@, q, it)]
    BY <1>1, <1>2, <1>4 DEF Claim, Write
  <1> QED
    BY <1>3, <1>4, <1>5, WritePromised DEF Waiting, Terminal

\* A session that lets its item go decides the request, or leaves it to a retry.
LEMMA EndPromised ==
    ASSUME HInv, NEW p \in Worker, Reap(p) \/ ShowTerminal(p) \/ CommitEnd(p)
    PROVE  Promise!Next \/ Still
  <1>0. worker[p].place \in {"bound"} \cup Holding
    BY DEF Reap, ShowTerminal, CommitEnd, Holding, InTransaction
  <1>1. PICK j \in Job, q \in 0 .. MaxRequest : j = worker[p].job /\ q = worker[p].request
    BY <1>0, ItemIs
  <1>2. PICK it \in Item : Leaves(p, j, q, it)
    BY <1>1, EndingIs
  <1> QED
    BY <1>2, WritePromised DEF Leaves, Terminal

\* Operators decide a request that has not ended, with its row or without.
LEMMA CancelPromised ==
    ASSUME HInv, NEW j \in Job, NEW q \in Request, Cancel(j, q) \/ CancelShown(j, q)
    PROVE  Promise!Next \/ Still
  <1>0. q \in 0 .. MaxRequest
    BY BoundTypes DEF Request
  <1>1. work[j][q] \in Item /\ work[j][q].state # "ABSENT"
    <2>1. work[j][q] \in Item
      BY <1>0 DEF HInv, HistoryTypeOK
    <2>2. Cancel(j, q) => work[j][q].state # "ABSENT"
      BY DEF Cancel
    <2>3. CancelShown(j, q) => work[j][q].state # "ABSENT"
      BY DEF CancelShown
    <2> QED
      BY <2>1, <2>2, <2>3
  <1>2. PICK gone \in Item : gone = Released(work[j][q], "CANCELLED", FALSE)
                             /\ gone.state = "CANCELLED"
    BY <1>1, ReleasedIs DEF State
  <1>3. CASE Cancel(j, q)
    <2>1. work[j][q].state \notin Terminal /\ queue' = queue /\ work' = [work EXCEPT ![j][q] = gone]
      BY <1>0, <1>2, <1>3 DEF Cancel, HInv, HistoryTypeOK
    <2>2. asked[j] = q /\ shown[j] = "open" /\ decision[j][q] = "open"
      BY <1>0, <1>1, <2>1, OpenIs
    <2>3. decision' = [decision EXCEPT ![j][asked[j]] = "CANCELLED"]
      BY <1>0, <1>2, <2>1, <2>2, ItemView DEF HInv, Decision, Terminal, Puts, Decides
    <2>4. asked' = asked /\ shown' = shown
      BY <2>1, KeptView
    <2>5. Promise!CancelUnseen(j)
      BY <2>2, <2>3, <2>4 DEF Promise!CancelUnseen, asked, shown, decision
    <2> QED
      BY <2>5 DEF Promise!Next
  <1>4. CASE CancelShown(j, q)
    <2>1. PICK it \in {work[j][q], gone} :
            /\ work[j][q].state \in Terminal => it.state = work[j][q].state
            /\ work' = [work EXCEPT ![j][q] = it]
            /\ queue' = [queue EXCEPT ![j] = Projected(@, q, it)]
      BY <1>2, <1>4 DEF CancelShown
    <2>2. it \in Item /\ it.state # "ABSENT"
      <3>1. CASE it = gone
        BY <1>2, <3>1
      <3>2. CASE it = work[j][q]
        BY <1>1, <3>2
      <3> QED
        BY <2>1, <3>1, <3>2
    <2> QED
      BY <1>0, <1>1, <2>1, <2>2, WritePromised
  <1> QED
    BY <1>3, <1>4

\* The commit of an operator run asks for the jobs whose requests have ended; of
\* the others it changes nothing that is shown.
LEMMA AskPromised ==
    ASSUME HInv, OperatorCommits
    PROVE  Promise!Next
  <1> DEFINE J == {j \in Job : Busy(j) /\ draft[j].request # queue[j].request}
  <1>0. \A j \in Job : queue[j].request \in Nat /\ queue[j].status \in JobStatus
    BY BoundTypes DEF HInv, HistoryTypeOK, Row
  <1>1. /\ \A j \in Job : queue'[j] = IF Busy(j) THEN draft[j] ELSE queue[j]
        /\ work' = work
    BY DEF OperatorCommits
  <1>2. ASSUME NEW j \in Job, j \in J
        PROVE  /\ queue'[j].request = queue[j].request + 1 /\ ShownStatus(queue'[j].status) = "open"
               /\ ShownStatus(queue[j].status) # "open"
    BY <1>0, <1>1, <1>2 DEF HInv, Tables, DraftShape, ShownStatus, JobStatus
  <1>3. ASSUME NEW j \in Job, j \notin J
        PROVE  /\ queue'[j].request = queue[j].request
               /\ ShownStatus(queue'[j].status) = ShownStatus(queue[j].status)
    BY <1>0, <1>1, <1>3 DEF HInv, Tables, DraftShape, ShownStatus
  <1>4. PICK K \in SUBSET Job : K = J
    OBVIOUS
  <1> HIDE DEF J
  <1>5. asked' = [j \in Job |-> IF j \in K THEN asked[j] + 1 ELSE asked[j]]
    BY <1>2, <1>3, <1>4 DEF asked
  <1>6. shown' = [j \in Job |-> IF j \in K THEN "open" ELSE shown[j]]
    BY <1>2, <1>3, <1>4 DEF shown
  <1>7. decision' = decision
    BY <1>1, KeptView
  <1>8. \A j \in K : shown[j] # "open"
    BY <1>2, <1>4 DEF shown
  <1>9. Promise!Ask(K)
    BY <1>5, <1>6, <1>7, <1>8 DEF Promise!Ask, asked, shown, decision
  <1> QED
    BY <1>9 DEF Promise!Next

\* Sessions search, register, renew and end, and time passes, unseen.
LEMMA SearchUnseen ==
    ASSUME HInv, NEW p \in Worker,
           \/ BeginBatch(p) \/ ReadCandidates(p) \/ NoneLeft(p)
           \/ \E j \in Job : Choose(p, j)
           \/ ReadBinding(p) \/ RegisteredMeanwhile(p) \/ SkipRegistration(p) \/ ClaimNothing(p)
           \/ BeginRenewal(p) \/ LapseRenewal(p) \/ LoseLease(p) \/ Crash(p)
           \/ \E place \in {"finishing", "retrying", "failing"} : BeginEnd(p, place)
    PROVE  Still
  <1>1. work' = work /\ (queue' = queue \/ Ends(p))
    BY DEF BeginBatch, ReadCandidates, NoneLeft, Choose, ReadBinding, RegisteredMeanwhile,
           SkipRegistration, ClaimNothing, BeginRenewal, LapseRenewal, LoseLease, Crash, BeginEnd, Ends
  <1>2. \A j \in Job : queue'[j].request = queue[j].request /\ queue'[j].status = queue[j].status
    BY <1>1 DEF Ends, HInv, HistoryTypeOK, Row
  <1> QED
    BY <1>1, <1>2, KeptView DEF Still

LEMMA ItemUnseen ==
    ASSUME HInv,
           \/ \E p \in Worker : Register(p) \/ CommitRenewal(p)
           \/ \E j \in Job, q \in Request : Lapse(j, q) \/ FallDue(j, q)
    PROVE  Still
  <1>1. ASSUME NEW p \in Worker, Register(p) PROVE Still
    <2>1. PICK j \in Job, q \in 0 .. MaxRequest : j = worker[p].job /\ q = worker[p].request
      BY <1>1, ItemIs DEF Register
    <2>2. work[j][q].state = "ABSENT" /\ worker[p].count \in Nat /\ queue' = queue
      BY <1>1, <2>1 DEF Register, ItemOf, HInv, HistoryTypeOK, Session
    <2>3. PICK d \in BOOLEAN : work' = [work EXCEPT ![j][q] =
                [NoItem EXCEPT !.state = "PENDING", !.offset = worker[p].count, !.due = d]]
      BY <1>1, <2>1 DEF Register
    <2>4. PICK it \in Item : /\ it.state = "PENDING"
                             /\ it = [NoItem EXCEPT !.state = "PENDING",
                                                    !.offset = worker[p].count, !.due = d]
      BY <2>2 DEF NoItem, Item, State
    <2>5. work' = [work EXCEPT ![j][q] = it] /\ work \in [Job -> [0 .. MaxRequest -> Item]]
      BY <2>3, <2>4 DEF HInv, HistoryTypeOK
    <2>6. decision' = decision
      <3>1. Decision("PENDING") = "open" /\ Decision("ABSENT") = "open"
        BY DEF Decision, Terminal
      <3>2. \A k \in Job : \A n \in 0 .. MaxRequest :
                Decision(work'[k][n].state) = Decision(work[k][n].state)
        BY <2>2, <2>4, <2>5, <3>1
      <3>3. \A k \in Job : [n \in 0 .. MaxRequest |-> Decision(work'[k][n].state)]
                            = [n \in 0 .. MaxRequest |-> Decision(work[k][n].state)]
        BY <3>2
      <3> QED
        BY <3>3 DEF decision
    <2> QED
      BY <2>2, <2>6, KeptView DEF Still
  <1>2. ASSUME NEW p \in Worker, CommitRenewal(p) PROVE Still
    <2>1. PICK j \in Job, q \in 0 .. MaxRequest : j = worker[p].job /\ q = worker[p].request
      BY <1>2, ItemIs DEF CommitRenewal, Holding, InTransaction
    <2>2. /\ work' = [work EXCEPT ![j][q].live = TRUE]
          /\ queue' = [queue EXCEPT ![j] = Touched(queue[j])]
      BY <1>2, <2>1, NeverRaises DEF CommitRenewal
    <2>3. /\ Touched(queue[j]).status = queue[j].status
          /\ Touched(queue[j]).request = queue[j].request
      BY TouchedIs DEF HInv, HistoryTypeOK
    <2>4. \A k \in Job : queue'[k].request = queue[k].request /\ queue'[k].status = queue[k].status
      BY <2>2, <2>3 DEF HInv, HistoryTypeOK
    <2>5. \A k \in Job : \A n \in 0 .. MaxRequest : work'[k][n].state = work[k][n].state
      BY <2>2 DEF HInv, HistoryTypeOK, Item
    <2> QED
      BY <2>4, <2>5, KeptView DEF Still
  <1>3. ASSUME NEW j \in Job, NEW q \in Request, Lapse(j, q) \/ FallDue(j, q) PROVE Still
    <2>0. q \in 0 .. MaxRequest /\ work \in [Job -> [0 .. MaxRequest -> Item]]
      BY BoundTypes DEF Request, HInv, HistoryTypeOK
    <2>1. \A k \in Job : \A n \in 0 .. MaxRequest : work'[k][n].state = work[k][n].state
      <3>1. CASE Lapse(j, q)
        BY <2>0, <3>1 DEF Lapse, Item
      <3>2. CASE FallDue(j, q)
        BY <2>0, <3>2 DEF FallDue, Item
      <3> QED
        BY <1>3, <3>1, <3>2
    <2>2. queue' = queue
      BY <1>3 DEF Lapse, FallDue
    <2> QED
      BY <2>1, <2>2, KeptView DEF Still
  <1> QED
    BY <1>1, <1>2, <1>3

\* Every step of the queue is a step of the promise or changes nothing in it.
LEMMA PromiseStep == ASSUME HInv, [Next]_vars PROVE [Promise!Next]_Promise!vars
  <1>1. ASSUME NEW p \in Worker, Works(p) \/ Crash(p) \/ LapseRenewal(p)
        PROVE  Promise!Next \/ Still
    <2>1. CASE Claim(p)
      BY <2>1, ClaimPromised
    <2>2. CASE Reap(p) \/ ShowTerminal(p) \/ CommitEnd(p)
      BY <2>2, EndPromised
    <2>3. CASE Register(p) \/ CommitRenewal(p)
      BY <2>3, ItemUnseen
    <2> QED
      BY <1>1, <2>1, <2>2, <2>3, SearchUnseen DEF Works
  <1>2. ASSUME NEW j \in Job, NEW q \in Request,
               Cancel(j, q) \/ CancelShown(j, q) \/ Lapse(j, q) \/ FallDue(j, q)
        PROVE  Promise!Next \/ Still
    BY <1>2, CancelPromised, ItemUnseen
  <1>3. ASSUME OperatorCommits PROVE Promise!Next
    BY <1>3, AskPromised
  <1>4. ASSUME \/ \E j \in Job : EnqueueRow(j) \/ RecoverRow(j)
               \/ OperatorRollsBack \/ UNCHANGED vars
        PROVE  Still
    BY <1>4, KeptView DEF EnqueueRow, RecoverRow, OperatorRollsBack, vars, Still
  <1>5. Promise!Next \/ Still
    BY <1>1, <1>2, <1>3, <1>4 DEF Next
  <1> QED
    BY <1>5 DEF Still, Promise!vars, asked, shown, decision

\* Every request of a job is decided once, its row shows each decision with it or,
\* for a cancellation, later, and a new request waits until the row shows the end
\* of the one before (history_work.py, project_history_work, _enqueue_history_jobs).
THEOREM HistoryKeepsPromise == Spec => KeepsHistoryPromise
  <1>1. Init => Promise!Init
    <2> SUFFICES ASSUME Init PROVE Promise!Init
      OBVIOUS
    <2>1. \A j \in Job : \/ queue[j].request = 0 /\ queue[j].status = "ABSENT"
                         \/ queue[j].request = 1 /\ queue[j].status \in {"PENDING", "RUNNING"}
      BY DEF Init, InitialRow, NoJobRow
    <2>2. asked \in [Job -> {0, 1}] /\ shown = [j \in Job |-> IF asked[j] = 0 THEN "none" ELSE "open"]
      BY <2>1 DEF asked, shown, ShownStatus
    <2>3. decision = [j \in Job |-> [q \in 0 .. MaxRequest |-> "open"]]
      BY DEF Init, NoItem, decision, Decision, Terminal
    <2> QED
      BY <2>2, <2>3 DEF Promise!Init, asked, shown, decision
  <1>2. HInv /\ [Next]_vars => [Promise!Next]_Promise!vars
    BY PromiseStep
  <1> QED
    BY <1>1, <1>2, HInvariance, PTL DEF Spec, KeepsHistoryPromise, Promise!Spec

=============================================================================
