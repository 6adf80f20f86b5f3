---- MODULE ForecastRefreshProofs ----
(***************************************************************************)
(* Proofs about the forecast worklist, for any fixtures, teams,            *)
(* transactions and batches.  RInv is inductive.  Its heart is Prepared:   *)
(* as long as the generation a batch captured is the committed one, what   *)
(* it read is still true, because every transaction that makes it false    *)
(* writes the worklist row of the fixture (Listed), and commits both at    *)
(* once; and the row of a fixture the batch publishes cannot be written    *)
(* before the batch has committed (Locks).                                 *)
(***************************************************************************)
EXTENDS ForecastRefreshProperties, TLAPS

\* Fixtures are changed under the exclusive identity lock.
Identity ==
    /\ \A w \in Writer :
        /\ (kind[w] = "change") <=> (change[w] # NoChange)
        /\ kind[w] = "none" => decided[w] = {} /\ wanted[w] = {} /\ written[w] = {}
    /\ \A v, w \in Writer : kind[w] = "change" /\ v # w => kind[v] = "none"

\* A transaction lists every fixture that will be live and whose forecast it
\* makes outdated.
Listed ==
    \A w \in Writer, f \in Fixture :
        /\ Changes(w, f) => (change[w].live => f \in wanted[w] \cup written[w])
        /\ ~ Changes(w, f) /\ live[f] /\ team[f] \in decided[w]
                => f \in wanted[w] \cup written[w]

\* Live fixtures have a worklist row, and no more is completed than was asked.
Asked ==
    \A f \in Fixture : /\ completed[f] <= generation[f]
                       /\ live[f] => generation[f] > 0

\* Row locks keep transactions and batches, and batches from each other, apart.
Locks ==
    \A r \in Refresher, f \in Fixture :
        verdict[r][f] # "none" =>
            /\ \A w \in Writer : ~ Changes(w, f)
            /\ \A q \in Refresher : verdict[q][f] # "none" => q = r
            /\ verdict[r][f] = "selected" => \A w \in Writer : f \notin written[w]

\* What a batch has of a fixture at each of its steps.
Batches ==
    \A r \in Refresher, f \in Fixture :
        /\ captured[r][f] <= generation[f]
        /\ step[r] = "idle" => captured[r][f] = 0
        /\ verdict[r][f] # "none" => step[r] \in {"locked", "claimed"} /\ captured[r][f] > 0

\* What a batch read of a live fixture is current if its generation is.
Prepared ==
    \A r \in Refresher, f \in Fixture :
        captured[r][f] > 0 /\ captured[r][f] = generation[f] /\ live[f] =>
            /\ seen[r][team[f]] = history[team[f]]
            /\ step[r] # "captured" => read[r][f] = team[f]

\* The claim of a batch is an open item of a generation that is not completed.
Claims ==
    \A r \in Refresher, f \in Fixture :
        /\ verdict[r][f] \in {"claimed", "busy", "superseded", "selected"} =>
                /\ item[f][captured[r][f]] \in {"ABSENT", "RETRY_WAIT"}
                /\ captured[r][f] > completed[f]
        /\ verdict[r][f] = "selected" => captured[r][f] = generation[f]
        /\ verdict[r][f] = "superseded" => captured[r][f] < generation[f]

RInv ==
    /\ RefreshTypeOK
    /\ Identity
    /\ Listed
    /\ Asked
    /\ Locks
    /\ Batches
    /\ Prepared
    /\ Claims
    /\ Fresh
    /\ GenerationsAgree
    /\ SupersededIsOld

-----------------------------------------------------------------------------
(* Types *)

LEMMA TypeInit == Init => RefreshTypeOK
  BY GenerationBound, HistoryBound
     DEF Init, RefreshTypeOK, Generation, ItemState, Step, Verdict

LEMMA TypeNext == RefreshTypeOK /\ [Next]_vars => RefreshTypeOK'
<1> SUFFICES ASSUME RefreshTypeOK, [Next]_vars PROVE RefreshTypeOK'
  OBVIOUS
<1> USE DEF RefreshTypeOK, facts, worklist, writing, batch
<1>1. ASSUME NEW w \in Writer, NEW T \in (SUBSET Team) \ {{}}, Decide(w, T)
      PROVE  RefreshTypeOK'
  BY <1>1 DEF Decide, Affected
<1>2. ASSUME NEW w \in Writer, NEW c \in Change, NEW T \in SUBSET Team, ChangeFixture(w, c, T)
      PROVE  RefreshTypeOK'
  <2>1. Affected(T) \subseteq Fixture /\ c.fixture \in Fixture
    BY DEF Affected, Change
  <2> QED
    BY <1>2, <2>1 DEF ChangeFixture
<1>3. ASSUME NEW w \in Writer, NEW f \in Fixture, Write(w, f)
      PROVE  RefreshTypeOK'
  BY <1>3 DEF Write
<1>4. ASSUME NEW w \in Writer, CommitWriter(w)
      PROVE  RefreshTypeOK'
  <2>1. \A f \in Fixture : Changes(w, f) => change[w].team \in Team /\ change[w].live \in BOOLEAN
    BY DEF Changes, Change
  <2>2. team' \in [Fixture -> Team] /\ live' \in [Fixture -> BOOLEAN]
    BY <1>4, <2>1 DEF CommitWriter
  <2>3. generation' \in [Fixture -> Generation] /\ history' \in [Team -> 0 .. MaxHistory]
    BY <1>4, GenerationBound, HistoryBound DEF CommitWriter, Generation
  <2> QED
    BY <1>4, <2>2, <2>3 DEF CommitWriter, Over
<1>5. ASSUME NEW w \in Writer, RollBackWriter(w)
      PROVE  RefreshTypeOK'
  BY <1>5 DEF RollBackWriter, Over
<1>6. ASSUME NEW f \in Fixture, Kickoff(f)
      PROVE  RefreshTypeOK'
  BY <1>6 DEF Kickoff
<1>7. ASSUME NEW r \in Refresher, Capture(r)
      PROVE  RefreshTypeOK'
  <2>1. step' \in [Refresher -> Step]
    BY <1>7 DEF Capture, Goes, Step
  <2>2. captured' \in [Refresher -> [Fixture -> Generation]]
    BY <1>7, GenerationBound DEF Capture, Generation
  <2>3. seen' \in [Refresher -> [Team -> 0 .. MaxHistory]]
    BY <1>7 DEF Capture
  <2> QED
    BY <1>7, <2>1, <2>2, <2>3 DEF Capture
<1>8. ASSUME NEW r \in Refresher, ReadFixtures(r)
      PROVE  RefreshTypeOK'
  BY <1>8 DEF ReadFixtures, Goes, Step
<1>9. ASSUME NEW r \in Refresher, ReadHistory(r)
      PROVE  RefreshTypeOK'
  BY <1>9 DEF ReadHistory, Goes, Step
<1>10. ASSUME NEW r \in Refresher, NEW F \in SUBSET Fixture, LockFixtures(r, F)
      PROVE  RefreshTypeOK'
  <2>1. step' \in [Refresher -> Step]
    BY <1>10 DEF LockFixtures, Goes, Step
  <2>2. captured' \in [Refresher -> [Fixture -> Generation]]
    BY <1>10, GenerationBound DEF LockFixtures, Generation
  <2>3. read' \in [Refresher -> [Fixture -> Team \cup {NoTeam}]]
    BY <1>10 DEF LockFixtures
  <2>4. verdict' \in [Refresher -> [Fixture -> Verdict]]
    BY <1>10 DEF LockFixtures, Verdict
  <2> QED
    BY <1>10, <2>1, <2>2, <2>3, <2>4 DEF LockFixtures
<1>11. ASSUME NEW r \in Refresher, Claim(r)
      PROVE  RefreshTypeOK'
  BY <1>11 DEF Claim, Goes, Step, Verdict
<1>12. ASSUME NEW r \in Refresher, NEW f \in Fixture, LockDetail(r, f)
      PROVE  RefreshTypeOK'
  <2>1. Found(r, f) \in Verdict
    BY DEF Found, Verdict
  <2> QED
    BY <1>12, <2>1 DEF LockDetail
<1>13. ASSUME NEW r \in Refresher, CommitBatch(r)
      PROVE  RefreshTypeOK'
  <2>1. item' \in [Fixture -> [Generation -> ItemState]]
    BY <1>13 DEF CommitBatch, Outcome, ItemState
  <2>2. issued' \in [Fixture -> SUBSET (Team \X (0 .. MaxHistory))]
    <3>1. \A f \in Published(r) : Forecast(r, f) \in Team \X (0 .. MaxHistory)
      BY DEF Published, Forecast
    <3> QED
      BY <1>13, <3>1 DEF CommitBatch
  <2>3. latest' \in [Fixture -> (Team \cup {NoTeam}) \X (0 .. MaxHistory)]
    <3>1. \A f \in Published(r) :
            Forecast(r, f) \in (Team \cup {NoTeam}) \X (0 .. MaxHistory)
      BY DEF Published, Forecast
    <3> QED
      BY <1>13, <3>1 DEF CommitBatch
  <2>4. completed' \in [Fixture -> Generation]
    BY <1>13 DEF CommitBatch
  <2> QED
    BY <1>13, <2>1, <2>2, <2>3, <2>4, GenerationBound, HistoryBound
       DEF CommitBatch, NewBatch, Goes, Step, Verdict, Generation
<1>14. ASSUME NEW r \in Refresher, RollBackBatch(r)
      PROVE  RefreshTypeOK'
  BY <1>14, GenerationBound, HistoryBound
     DEF RollBackBatch, NewBatch, Goes, Step, Verdict, Generation
<1>15. ASSUME NEW f \in Fixture, NEW g \in Generation, CancelItem(f, g)
      PROVE  RefreshTypeOK'
  BY <1>15 DEF CancelItem, ItemState
<1>16. CASE UNCHANGED vars
  BY <1>16 DEF vars
<1> QED
  BY <1>1, <1>2, <1>3, <1>4, <1>5, <1>6, <1>7, <1>8, <1>9, <1>10, <1>11, <1>12, <1>13,
     <1>14, <1>15, <1>16 DEF Next

\* Every variable has its type, always.
THEOREM RefreshTypes == Spec => []RefreshTypeOK
  BY TypeInit, TypeNext, PTL DEF Spec

-----------------------------------------------------------------------------
(* RInv is inductive *)

LEMMA RInit == Init => RInv
<1> SUFFICES ASSUME Init PROVE RInv
  OBVIOUS
<1>1. RefreshTypeOK
  BY TypeInit
<1>2. Identity /\ Listed
  BY DEF Init, Identity, Listed, Changes
<1>3. Asked /\ Fresh
  BY GenerationBound DEF Init, Asked, Fresh
<1>4. Locks /\ Batches /\ Prepared /\ Claims
  BY DEF Init, Locks, Batches, Prepared, Claims
<1>5. GenerationsAgree /\ SupersededIsOld
  BY DEF Init, GenerationsAgree, SupersededIsOld
<1> QED
  BY <1>1, <1>2, <1>3, <1>4, <1>5 DEF RInv

\* What a transaction does before it commits changes nothing others see.
LEMMA WritingKeeps ==
  ASSUME RInv, UNCHANGED <<facts, worklist, batch>>,
         RefreshTypeOK', Identity', Listed', Locks'
  PROVE  RInv'
  BY DEF RInv, facts, worklist, batch, Asked, Batches, Prepared, Claims, Fresh,
         GenerationsAgree, SupersededIsOld, Pending, Current

LEMMA DecideKeeps ==
  ASSUME RInv, NEW w \in Writer, NEW T \in (SUBSET Team) \ {{}}, Decide(w, T), RefreshTypeOK'
  PROVE  RInv'
<1> USE DEF RInv, RefreshTypeOK, Decide, facts, worklist, batch
<1>1. kind[w] = "none" /\ \A v \in Writer : kind[v] # "change"
  BY DEF Shared
<1>2. change[w] = NoChange /\ \A f \in Fixture : ~ Changes(w, f)'
  BY <1>1 DEF Identity, Changes
<1>3. Identity'
  BY <1>1, <1>2 DEF Identity
<1>4. Listed'
  BY <1>2 DEF Listed, Affected, Changes
<1>5. Locks'
  BY DEF Locks, Changes
<1> QED
  BY <1>3, <1>4, <1>5, WritingKeeps

LEMMA ChangeFixtureKeeps ==
  ASSUME RInv, NEW w \in Writer, NEW c \in Change, NEW T \in SUBSET Team,
         ChangeFixture(w, c, T), RefreshTypeOK'
  PROVE  RInv'
<1> USE DEF RInv, RefreshTypeOK, ChangeFixture, facts, worklist, batch
<1>1. \A v \in Writer : kind[v] = "none" /\ change[v] = NoChange
  BY DEF Exclusive, Identity
<1>2. Identity'
  BY <1>1, ChangeNull DEF Identity
<1>3. \A v \in Writer, f \in Fixture : Changes(v, f)' <=> v = w /\ f = c.fixture
  BY <1>1, ChangeNull DEF Changes, Change
<1>4. Listed'
  <2>1. \A v \in Writer : v # w => decided'[v] = {}
    BY <1>1 DEF Identity
  <2>2. ASSUME NEW f \in Fixture, f = c.fixture, c.live
        PROVE  f \in wanted'[w]
    BY <2>2
  <2>3. ASSUME NEW f \in Fixture, f # c.fixture, live[f], team[f] \in T
        PROVE  f \in wanted'[w]
    BY <2>3 DEF Affected
  <2> QED
    BY <1>3, <2>1, <2>2, <2>3 DEF Listed
<1>5. Locks'
  BY ZenonT(30), <1>3 DEF Locks
<1> QED
  BY <1>2, <1>4, <1>5, WritingKeeps

LEMMA WriteKeeps ==
  ASSUME RInv, NEW w \in Writer, NEW f \in Fixture, Write(w, f), RefreshTypeOK'
  PROVE  RInv'
<1> USE DEF RInv, RefreshTypeOK, Write, facts, worklist, batch
<1>1. kind[w] # "none"
  BY DEF Identity
<1>2. Identity'
  BY <1>1 DEF Identity
<1>3. Listed'
  BY DEF Listed, Changes
<1>4. Locks'
  BY DEF Locks, Changes, Selected
<1> QED
  BY <1>2, <1>3, <1>4, WritingKeeps

\* A transaction that is over has nothing open.
LEMMA OverKeeps ==
  ASSUME RInv, NEW w \in Writer, Over(w), RefreshTypeOK'
  PROVE  Identity' /\ Locks'
<1> USE DEF RInv, RefreshTypeOK, Over, batch
<1>1. Identity'
  BY DEF Identity
<1>2. Locks'
  BY DEF Locks, Changes
<1> QED
  BY <1>1, <1>2

LEMMA RollBackWriterKeeps ==
  ASSUME RInv, NEW w \in Writer, RollBackWriter(w), RefreshTypeOK'
  PROVE  RInv'
<1> USE DEF RollBackWriter, Over
<1>1. Listed'
  BY DEF RInv, RefreshTypeOK, facts, Listed, Changes
<1> QED
  BY <1>1, OverKeeps, WritingKeeps

\* A fixture that is live after a transaction that did not list it is what it
\* was before, and so is its history.
LEMMA UnlistedSame ==
  ASSUME RInv, NEW w \in Writer, CommitWriter(w), NEW f \in Fixture, f \notin written[w],
         live'[f]
  PROVE  live[f] /\ team'[f] = team[f] /\ history'[team[f]] = history[team[f]]
<1> USE DEF RInv, RefreshTypeOK, CommitWriter
<1>1. ~ Changes(w, f)
  BY DEF Listed
<1>2. team[f] \notin decided[w]
  BY <1>1 DEF Listed
<1> QED
  BY <1>1, <1>2

LEMMA CommitWriterKeeps ==
  ASSUME RInv, NEW w \in Writer, CommitWriter(w), RefreshTypeOK'
  PROVE  RInv'
<1> USE DEF RInv, RefreshTypeOK
<1>1. Identity' /\ Locks'
  BY OverKeeps DEF CommitWriter
<1>2. \A f \in Fixture : generation'[f] = IF f \in written[w] THEN generation[f] + 1 ELSE generation[f]
  BY DEF CommitWriter
<1>3. /\ \A f \in Fixture : generation[f] \in Nat /\ completed[f] \in Nat
      /\ \A r \in Refresher, f \in Fixture : captured[r][f] \in Nat
      /\ Generation \subseteq Nat
  BY GenerationBound DEF Generation
<1>3a. \A f \in Fixture : generation'[f] \in Nat /\ generation[f] <= generation'[f]
  <2> SUFFICES ASSUME NEW f \in Fixture
               PROVE  generation'[f] \in Nat /\ generation[f] <= generation'[f]
    OBVIOUS
  <2>1. CASE f \in written[w]
    BY <1>2, <1>3, <2>1
  <2>2. CASE f \notin written[w]
    BY <1>2, <1>3, <2>2
  <2> QED
    BY <2>1, <2>2
<1>4. Listed'
  <2> SUFFICES ASSUME NEW v \in Writer, NEW f \in Fixture
               PROVE  /\ Changes(v, f)' => (change'[v].live => f \in wanted'[v] \cup written'[v])
                      /\ ~ Changes(v, f)' /\ live'[f] /\ team'[f] \in decided'[v]
                            => f \in wanted'[v] \cup written'[v]
    BY DEF Listed
  <2>1. CASE v = w
    BY <2>1 DEF CommitWriter, Over, Changes
  <2>2. CASE v # w
    <3>1. /\ change'[v] = change[v] /\ decided'[v] = decided[v]
          /\ wanted'[v] = wanted[v] /\ written'[v] = written[v]
      BY <2>2 DEF CommitWriter, Over
    <3>2. CASE kind[w] = "change"
      <4>1. decided[v] = {} /\ change[v] = NoChange
        BY <2>2, <3>2 DEF Identity
      <4> QED
        BY <3>1, <4>1 DEF Changes
    <3>3. CASE kind[w] # "change"
      <4>1. \A g \in Fixture : ~ Changes(w, g)
        BY <3>3 DEF Identity, Changes
      <4>2. live'[f] = live[f] /\ team'[f] = team[f]
        BY <4>1 DEF CommitWriter
      <4> QED
        BY <3>1, <4>2 DEF Listed, Changes
    <3> QED
      BY <3>2, <3>3
  <2> QED
    BY <2>1, <2>2
<1>5. Asked'
  <2> SUFFICES ASSUME NEW f \in Fixture
               PROVE  completed[f] <= generation'[f] /\ (live'[f] => generation'[f] > 0)
    BY DEF Asked, CommitWriter
  <2>1. CASE f \in written[w]
    BY <1>2, <1>3, <2>1 DEF Asked
  <2>2. CASE f \notin written[w]
    <3>1. live'[f] => live[f]
      BY <2>2, UnlistedSame
    <3> QED
      BY <1>2, <2>2, <3>1 DEF Asked
  <2> QED
    BY <2>1, <2>2
<1>6. Batches'
  <2>1. UNCHANGED batch
    BY DEF CommitWriter, Over
  <2>2. \A r \in Refresher, f \in Fixture : captured[r][f] <= generation'[f]
    <3> SUFFICES ASSUME NEW r \in Refresher, NEW f \in Fixture
                 PROVE  captured[r][f] <= generation'[f]
      OBVIOUS
    <3>1. captured[r][f] <= generation[f]
      BY DEF Batches
    <3> QED
      BY <1>3a, <1>3, <3>1
  <2> QED
    BY <2>1, <2>2 DEF Batches, batch
<1>7. Prepared'
  <2> SUFFICES ASSUME NEW r \in Refresher, NEW f \in Fixture,
                      captured[r][f] > 0, captured[r][f] = generation'[f], live'[f]
               PROVE  /\ seen[r][team'[f]] = history'[team'[f]]
                      /\ step[r] # "captured" => read[r][f] = team'[f]
    BY DEF Prepared, CommitWriter, Over, batch
  <2>1. f \notin written[w]
    BY <1>2, <1>3 DEF Batches, Generation
  <2> QED
    BY <1>2, <2>1, UnlistedSame DEF Prepared
<1>8. Claims'
  <2> SUFFICES ASSUME NEW r \in Refresher, NEW f \in Fixture
               PROVE  /\ verdict[r][f] = "selected" => captured[r][f] = generation'[f]
                      /\ verdict[r][f] = "superseded" => captured[r][f] < generation'[f]
    BY DEF Claims, CommitWriter, Over, batch
  <2>1. generation[f] <= generation'[f] /\ (f \notin written[w] => generation'[f] = generation[f])
    BY <1>2, <1>3
  <2>2. verdict[r][f] = "selected" => f \notin written[w]
    BY DEF Locks
  <2>3. captured[r][f] \in Nat /\ generation[f] \in Nat /\ generation'[f] \in Nat
    BY GenerationBound DEF Generation
  <2> QED
    BY <2>1, <2>2, <2>3 DEF Claims
<1>9. Fresh'
  <2> SUFFICES ASSUME NEW f \in Fixture, live'[f], ~ (generation'[f] > completed[f])
               PROVE  <<team'[f], history'[team'[f]]>> \in issued[f]
    BY DEF Fresh, Pending, Current, CommitWriter
  <2>1. f \notin written[w]
    BY <1>2, <1>3 DEF Asked
  <2> QED
    BY <1>2, <2>1, UnlistedSame DEF Fresh, Pending, Current
<1>10. GenerationsAgree'
  BY DEF GenerationsAgree, CommitWriter
<1>11. SupersededIsOld'
  <2> SUFFICES ASSUME NEW f \in Fixture, NEW g \in Generation, item[f][g] = "SUPERSEDED"
               PROVE  g < generation'[f]
    BY DEF SupersededIsOld, CommitWriter
  <2>1. g < generation[f] /\ g \in Nat
    BY <1>3 DEF SupersededIsOld
  <2> QED
    BY <1>3a, <1>3, <2>1
<1> QED
  BY <1>1, <1>4, <1>5, <1>6, <1>7, <1>8, <1>9, <1>10, <1>11

LEMMA KickoffKeeps ==
  ASSUME RInv, NEW k \in Fixture, Kickoff(k), RefreshTypeOK'
  PROVE  RInv'
<1> USE DEF RInv, RefreshTypeOK, Kickoff, worklist, writing, batch
<1>1. \A f \in Fixture : live'[f] => live[f]
  OBVIOUS
<1>2. Identity' /\ Locks' /\ Batches'
  BY DEF Identity, Locks, Batches, Changes
<1>3. Listed'
  BY <1>1 DEF Listed, Changes
<1>4. Asked' /\ Prepared' /\ Claims'
  BY <1>1 DEF Asked, Prepared, Claims
<1>5. Fresh'
  BY <1>1 DEF Fresh, Pending, Current
<1>6. GenerationsAgree' /\ SupersededIsOld'
  BY DEF GenerationsAgree, SupersededIsOld
<1> QED
  BY <1>2, <1>3, <1>4, <1>5, <1>6

\* What a batch does before it commits changes nothing others see.
LEMMA BatchKeeps ==
  ASSUME RInv, UNCHANGED <<facts, worklist, writing>>,
         RefreshTypeOK', Locks', Batches', Prepared', Claims'
  PROVE  RInv'
  BY DEF RInv, facts, worklist, writing, Identity, Listed, Asked, Fresh,
         GenerationsAgree, SupersededIsOld, Pending, Current, Changes

\* Nor does it change locks and claims before it locks fixtures.
LEMMA VerdictKept ==
  ASSUME RInv, UNCHANGED <<facts, worklist, writing>>, UNCHANGED verdict,
         NEW r \in Refresher, \A f \in Fixture : verdict[r][f] = "none",
         \A q \in Refresher : q # r => captured'[q] = captured[q]
  PROVE  Locks' /\ Claims'
  BY DEF RInv, facts, worklist, writing, Locks, Claims, Changes

LEMMA CaptureKeeps ==
  ASSUME RInv, NEW r \in Refresher, Capture(r), RefreshTypeOK'
  PROVE  RInv'
<1> USE DEF RInv, RefreshTypeOK, Capture, Goes
<1>1. \A f \in Fixture : verdict[r][f] = "none"
  BY DEF Batches
<1>2. Locks' /\ Claims'
  BY <1>1, VerdictKept
<1>3. \A f \in Fixture : generation[f] \in Nat
  BY GenerationBound DEF Generation
<1>4. Batches'
  BY <1>1, <1>3 DEF Batches, worklist
<1>5. Prepared'
  BY DEF Prepared, facts, worklist
<1> QED
  BY <1>2, <1>4, <1>5, BatchKeeps

LEMMA ReadFixturesKeeps ==
  ASSUME RInv, NEW r \in Refresher, ReadFixtures(r), RefreshTypeOK'
  PROVE  RInv'
<1> USE DEF RInv, RefreshTypeOK, ReadFixtures, Goes
<1>1. \A f \in Fixture : verdict[r][f] = "none"
  BY DEF Batches
<1>2. Locks' /\ Claims'
  BY <1>1, VerdictKept
<1>3. Batches'
  BY <1>1 DEF Batches, worklist
<1>4. Prepared'
  BY DEF Prepared, facts, worklist
<1> QED
  BY <1>2, <1>3, <1>4, BatchKeeps

LEMMA ReadHistoryKeeps ==
  ASSUME RInv, NEW r \in Refresher, ReadHistory(r), RefreshTypeOK'
  PROVE  RInv'
<1> USE DEF RInv, RefreshTypeOK, Goes
<1>0. /\ step[r] = "read" /\ step' = [step EXCEPT ![r] = "prepared"]
      /\ UNCHANGED <<facts, worklist, writing, captured, read, verdict>>
  BY DEF ReadHistory
<1>1. \A f \in Fixture : verdict[r][f] = "none"
  BY <1>0 DEF Batches
<1>2. Locks' /\ Claims'
  BY <1>0, <1>1, VerdictKept
<1>3. Batches'
  BY <1>0, <1>1 DEF Batches, worklist
<1>4. Prepared'
  <2> PICK known \in [Team -> 0 .. MaxHistory] :
        /\ \A t \in Team : IF \E f \in Fixture : read[r][f] = t
                           THEN known[t] \in seen[r][t] .. history[t] ELSE known[t] = 0
        /\ seen' = [seen EXCEPT ![r] = known]
    BY DEF ReadHistory
  <2>1. ASSUME NEW t \in Team, NEW f \in Fixture, read[r][f] = t, seen[r][t] = history[t]
        PROVE  known[t] = history[t]
    <3>1. known[t] \in seen[r][t] .. history[t]
      BY <2>1
    <3>2. history[t] \in Int
      BY HistoryBound
    <3> QED
      BY <2>1, <3>1, <3>2
  <2>2. \A q \in Refresher : q # r => seen'[q] = seen[q] /\ step'[q] = step[q]
    BY <1>0
  <2> SUFFICES ASSUME NEW q \in Refresher, NEW f \in Fixture,
                      captured[q][f] > 0, captured[q][f] = generation[f], live[f]
               PROVE  /\ seen'[q][team[f]] = history[team[f]]
                      /\ step'[q] # "captured" => read[q][f] = team[f]
    BY <1>0 DEF Prepared, facts, worklist
  <2>3. /\ seen[q][team[f]] = history[team[f]]
        /\ step[q] # "captured" => read[q][f] = team[f]
    BY DEF Prepared
  <2> QED
    BY <1>0, <2>1, <2>2, <2>3
<1> QED
  BY <1>0, <1>2, <1>3, <1>4, BatchKeeps

LEMMA LockFixturesKeeps ==
  ASSUME RInv, NEW r \in Refresher, NEW F \in SUBSET Fixture, LockFixtures(r, F), RefreshTypeOK'
  PROVE  RInv'
<1> USE DEF RInv, RefreshTypeOK, LockFixtures, Goes
<1>1. \A f \in Fixture : verdict[r][f] = "none"
  BY DEF Batches
<1>2. Locks'
  BY DEF Locks, FixtureLocked, Changes, writing
<1>3. Batches'
  <2>1. \A f \in Fixture : generation[f] \in Nat
    BY GenerationBound DEF Generation
  <2> QED
    BY <2>1 DEF Batches, worklist
<1>4. Prepared'
  BY DEF Prepared, facts, worklist
<1>5. Claims'
  BY DEF Claims, worklist
<1> QED
  BY <1>2, <1>3, <1>4, <1>5, BatchKeeps

LEMMA ClaimKeeps ==
  ASSUME RInv, NEW r \in Refresher, Claim(r), RefreshTypeOK'
  PROVE  RInv'
<1> USE DEF RInv, RefreshTypeOK, Claim, Goes
<1>1. Locks'
  BY DEF Locks, Claimable, Changes, writing
<1>2. Batches'
  BY DEF Batches, Claimable, worklist
<1>3. Prepared'
  BY DEF Prepared, facts, worklist
<1>4. Claims'
  BY DEF Claims, Claimable, Pending, worklist
<1> QED
  BY <1>1, <1>2, <1>3, <1>4, BatchKeeps

\* A generation found superseded is older than the committed one.
LEMMA SupersededOlder ==
  ASSUME RInv, NEW r \in Refresher, NEW d \in Fixture, Found(r, d) = "superseded"
  PROVE  captured[r][d] < generation[d]
<1>1. captured[r][d] \in Nat /\ generation[d] \in Nat
  BY GenerationBound DEF RInv, RefreshTypeOK, Generation
<1>2. captured[r][d] <= generation[d]
  BY DEF RInv, Batches
<1>3. captured[r][d] # generation[d]
  BY DEF Found
<1> QED
  BY <1>1, <1>2, <1>3

LEMMA LockDetailKeeps ==
  ASSUME RInv, NEW r \in Refresher, NEW d \in Fixture, LockDetail(r, d), RefreshTypeOK'
  PROVE  RInv'
<1> USE DEF RInv, RefreshTypeOK, LockDetail
<1>1. Found(r, d) = "selected" => captured[r][d] = generation[d] /\ \A w \in Writer : d \notin written[w]
  BY DEF Found
<1>2. Found(r, d) = "superseded" => captured[r][d] < generation[d]
  BY SupersededOlder
<1>3. Found(r, d) \in {"busy", "superseded", "selected"}
  BY DEF Found
<1>4. Locks'
  BY <1>1 DEF Locks, Changes, writing
<1>5. Batches'
  BY DEF Batches, worklist
<1>6. Prepared'
  BY DEF Prepared, facts, worklist
<1>7. Claims'
  BY <1>1, <1>2, <1>3 DEF Claims, worklist
<1> QED
  BY <1>4, <1>5, <1>6, <1>7, BatchKeeps

\* A new batch has nothing of any fixture.
LEMMA NewBatchKeeps ==
  ASSUME RInv, NEW r \in Refresher, NewBatch(r), generation' = generation
  PROVE  Locks' /\ Batches' /\ Prepared'
<1> USE DEF RInv, RefreshTypeOK, NewBatch, Goes, facts, writing
<1>1. Locks'
  BY DEF Locks, Changes
<1>2. Batches'
  <2>1. \A f \in Fixture : generation[f] \in Nat
    BY GenerationBound DEF Generation
  <2> QED
    BY <2>1 DEF Batches
<1>3. Prepared'
  BY DEF Prepared
<1> QED
  BY <1>1, <1>2, <1>3

LEMMA RollBackBatchKeeps ==
  ASSUME RInv, NEW r \in Refresher, RollBackBatch(r), RefreshTypeOK'
  PROVE  RInv'
<1> USE DEF RollBackBatch, worklist
<1>1. Locks' /\ Batches' /\ Prepared'
  BY NewBatchKeeps
<1>2. Claims'
  BY DEF RInv, RefreshTypeOK, NewBatch, Claims
<1>3. UNCHANGED <<facts, worklist, writing>>
  BY DEF NewBatch
<1> QED
  BY <1>1, <1>2, <1>3, BatchKeeps

LEMMA CancelItemKeeps ==
  ASSUME RInv, NEW f \in Fixture, NEW g \in Generation, CancelItem(f, g), RefreshTypeOK'
  PROVE  RInv'
<1> USE DEF RInv, RefreshTypeOK, CancelItem, facts, writing, batch
<1>1. Identity' /\ Listed' /\ Asked' /\ Locks' /\ Batches' /\ Prepared' /\ Fresh'
  BY DEF Identity, Listed, Asked, Locks, Batches, Prepared, Fresh, Changes, Pending, Current
<1>2. Claims'
  <2> SUFFICES ASSUME NEW r \in Refresher, NEW h \in Fixture,
                      verdict[r][h] \in {"claimed", "busy", "superseded", "selected"}
               PROVE  item'[h][captured[r][h]] = item[h][captured[r][h]]
    BY DEF Claims
  <2>1. h # f \/ captured[r][h] # g
    OBVIOUS
  <2>2. captured[r][h] \in Generation
    OBVIOUS
  <2> QED
    BY <2>1, <2>2
<1>3. GenerationsAgree' /\ SupersededIsOld'
  BY DEF GenerationsAgree, SupersededIsOld
<1> QED
  BY <1>1, <1>2, <1>3

\* What a batch commits: of each fixture it selected, the completion of the
\* captured generation; of each it claimed, what became of that item.
LEMMA Completion ==
  ASSUME RInv, NEW r \in Refresher, CommitBatch(r), NEW f \in Fixture
  PROVE  completed'[f] = IF verdict[r][f] = "selected" THEN captured[r][f] ELSE completed[f]
  BY DEF RInv, RefreshTypeOK, CommitBatch, Claims

LEMMA ItemOutcome ==
  ASSUME RInv, NEW r \in Refresher, CommitBatch(r), NEW f \in Fixture, NEW g \in Generation
  PROVE  /\ g # captured[r][f] => item'[f][g] = item[f][g]
         /\ verdict[r][f] \in {"none", "locked"} => item'[f][g] = item[f][g]
         /\ g = captured[r][f] =>
                /\ verdict[r][f] = "busy" => item'[f][g] = "RETRY_WAIT"
                /\ verdict[r][f] = "superseded" => item'[f][g] = "SUPERSEDED"
                /\ verdict[r][f] = "selected" => item'[f][g] = "SUCCEEDED"
<1> USE DEF RInv, RefreshTypeOK
<1>1. item[f] \in [Generation -> ItemState] /\ captured[r][f] \in Generation
  OBVIOUS
<1>2. CASE verdict[r][f] \in {"busy", "superseded", "selected"}
  <2>1. item'[f] = [item[f] EXCEPT ![captured[r][f]] = Outcome(r, f)]
    BY <1>2 DEF CommitBatch
  <2> QED
    BY <1>1, <1>2, <2>1 DEF Outcome
<1>3. CASE verdict[r][f] \notin {"busy", "superseded", "selected"}
  <2>1. item'[f] = item[f]
    BY <1>3 DEF CommitBatch
  <2> QED
    BY <1>3, <2>1
<1> QED
  BY <1>2, <1>3

\* A batch that commits has decided about each fixture, and the items of those
\* it claimed were open.
LEMMA Decided ==
  ASSUME RInv, NEW r \in Refresher, CommitBatch(r), NEW f \in Fixture
  PROVE  \/ verdict[r][f] \in {"none", "locked"}
         \/ /\ verdict[r][f] \in {"busy", "superseded", "selected"}
            /\ item[f][captured[r][f]] \in {"ABSENT", "RETRY_WAIT"}
            /\ captured[r][f] \in Generation
<1>1. verdict[r][f] \in Verdict /\ captured[r][f] \in Generation
  BY DEF RInv, RefreshTypeOK
<1>2. verdict[r][f] # "claimed"
  BY DEF CommitBatch
<1>3. verdict[r][f] \in {"busy", "superseded", "selected"} =>
          item[f][captured[r][f]] \in {"ABSENT", "RETRY_WAIT"}
  BY DEF RInv, Claims
<1> QED
  BY <1>1, <1>2, <1>3 DEF Verdict

LEMMA CommitBatchKeeps ==
  ASSUME RInv, NEW r \in Refresher, CommitBatch(r), RefreshTypeOK'
  PROVE  RInv'
<1> USE DEF RInv, RefreshTypeOK
<1>1. NewBatch(r) /\ generation' = generation
  BY DEF CommitBatch
<1>2. Locks' /\ Batches' /\ Prepared'
  BY <1>1, NewBatchKeeps
<1>3. Identity' /\ Listed'
  BY <1>1 DEF NewBatch, facts, writing, Identity, Listed, Changes
<1>4. \A f \in Fixture : /\ captured[r][f] \in Nat /\ generation[f] \in Nat
                         /\ completed[f] \in Nat
  BY GenerationBound DEF Generation
<1>5. Asked'
  <2> SUFFICES ASSUME NEW f \in Fixture
               PROVE  completed'[f] <= generation[f] /\ (live[f] => generation[f] > 0)
    BY <1>1 DEF Asked, NewBatch, facts
  <2>1. completed'[f] \in {completed[f], captured[r][f]}
    BY Completion
  <2> QED
    BY <2>1 DEF Asked, Batches
<1>6. Claims'
  <2> SUFFICES ASSUME NEW q \in Refresher, NEW f \in Fixture,
                      verdict'[q][f] \in {"claimed", "busy", "superseded", "selected"}
               PROVE  /\ item'[f][captured'[q][f]] \in {"ABSENT", "RETRY_WAIT"}
                      /\ captured'[q][f] > completed'[f]
                      /\ verdict'[q][f] = "selected" => captured'[q][f] = generation[f]
                      /\ verdict'[q][f] = "superseded" => captured'[q][f] < generation[f]
    BY <1>1 DEF Claims
  <2>1. q # r /\ verdict'[q][f] = verdict[q][f] /\ captured'[q][f] = captured[q][f]
    BY <1>1 DEF NewBatch
  <2>2. verdict[r][f] = "none"
    BY <2>1 DEF Locks
  <2>3. completed'[f] = completed[f]
    BY <2>2, Completion
  <2>4. captured[q][f] \in Generation
    OBVIOUS
  <2>5. item'[f][captured[q][f]] = item[f][captured[q][f]]
    BY <2>2, <2>4, ItemOutcome
  <2> QED
    BY <2>1, <2>3, <2>5 DEF Claims
<1>7. Fresh'
  <2> SUFFICES ASSUME NEW f \in Fixture, live[f], ~ (generation[f] > completed'[f])
               PROVE  <<team[f], history[team[f]]>> \in issued'[f]
    BY <1>1 DEF Fresh, Pending, Current, NewBatch, facts
  <2>1. CASE verdict[r][f] = "selected"
    <3>1. captured[r][f] = generation[f] /\ captured[r][f] > 0 /\ step[r] = "claimed"
      BY <2>1 DEF Claims, Batches, CommitBatch
    <3>2. seen[r][team[f]] = history[team[f]] /\ read[r][f] = team[f]
      BY <3>1 DEF Prepared
    <3>3. f \in Published(r)
      BY <2>1, <3>2, TeamNull DEF Published
    <3> QED
      BY <3>2, <3>3 DEF CommitBatch, Forecast
  <2>2. CASE verdict[r][f] # "selected"
    <3>1. completed'[f] = completed[f]
      BY <2>2, Completion
    <3>2. issued'[f] = issued[f]
      BY <2>2 DEF CommitBatch, Published
    <3> QED
      BY <3>1, <3>2 DEF Fresh, Pending, Current
  <2> QED
    BY <2>1, <2>2
<1>8. GenerationsAgree'
  <2> SUFFICES ASSUME NEW f \in Fixture
               PROVE  /\ completed'[f] > 0 => item'[f][completed'[f]] = "SUCCEEDED"
                      /\ \A g \in Generation : item'[f][g] = "SUCCEEDED" => g <= completed'[f]
    BY DEF GenerationsAgree
  <2>1. CASE verdict[r][f] # "selected"
    <3>1. completed'[f] = completed[f]
      BY <2>1, Completion
    <3>2. ASSUME NEW g \in Generation
          PROVE  item'[f][g] = "SUCCEEDED" <=> item[f][g] = "SUCCEEDED"
      <4>1. CASE verdict[r][f] \in {"none", "locked"} \/ g # captured[r][f]
        BY <4>1, ItemOutcome
      <4>2. CASE verdict[r][f] \in {"busy", "superseded"} /\ g = captured[r][f]
        <5>1. item[f][g] # "SUCCEEDED"
          BY <4>2, Decided
        <5>2. item'[f][g] \in {"RETRY_WAIT", "SUPERSEDED"}
          BY <4>2, ItemOutcome
        <5> QED
          BY <5>1, <5>2
      <4> QED
        BY <2>1, <4>1, <4>2, Decided
    <3>3. completed[f] \in Generation
      OBVIOUS
    <3> QED
      BY <3>1, <3>2, <3>3 DEF GenerationsAgree
  <2>2. CASE verdict[r][f] = "selected"
    <3>1. completed'[f] = captured[r][f] /\ captured[r][f] > completed[f]
      BY <2>2, Completion DEF Claims
    <3>2. item'[f][captured[r][f]] = "SUCCEEDED"
      BY <2>2, ItemOutcome
    <3>3. ASSUME NEW g \in Generation, item'[f][g] = "SUCCEEDED"
          PROVE  g <= captured[r][f]
      <4>1. g \in Nat
        BY GenerationBound DEF Generation
      <4>2. CASE g = captured[r][f]
        BY <4>1, <4>2
      <4>3. CASE g # captured[r][f]
        <5>1. item[f][g] = "SUCCEEDED"
          BY <3>3, <4>3, ItemOutcome
        <5>2. g <= completed[f]
          BY <5>1 DEF GenerationsAgree
        <5> QED
          BY <1>4, <3>1, <4>1, <5>2
      <4> QED
        BY <4>2, <4>3
    <3> QED
      BY <3>1, <3>2, <3>3
  <2> QED
    BY <2>1, <2>2
<1>9. SupersededIsOld'
  <2> SUFFICES ASSUME NEW f \in Fixture, NEW g \in Generation, item'[f][g] = "SUPERSEDED"
               PROVE  g < generation[f]
    BY <1>1 DEF SupersededIsOld
  <2>1. item[f][g] = "SUPERSEDED" \/ (verdict[r][f] = "superseded" /\ g = captured[r][f])
    <3>1. CASE verdict[r][f] \in {"none", "locked"} \/ g # captured[r][f]
      BY <3>1, ItemOutcome
    <3>2. CASE verdict[r][f] \in {"busy", "superseded", "selected"} /\ g = captured[r][f]
      BY <3>2, ItemOutcome
    <3> QED
      BY <3>1, <3>2, Decided
  <2> QED
    BY <2>1 DEF SupersededIsOld, Claims
<1> QED
  BY <1>2, <1>3, <1>5, <1>6, <1>7, <1>8, <1>9

LEMMA RNext == RInv /\ [Next]_vars => RInv'
<1> SUFFICES ASSUME RInv, [Next]_vars PROVE RInv'
  OBVIOUS
<1>1. RefreshTypeOK'
  BY TypeNext DEF RInv
<1>2. CASE Next
  BY <1>1, <1>2, DecideKeeps, ChangeFixtureKeeps, WriteKeeps, CommitWriterKeeps,
     RollBackWriterKeeps, KickoffKeeps, CaptureKeeps, ReadFixturesKeeps, ReadHistoryKeeps,
     LockFixturesKeeps, ClaimKeeps, LockDetailKeeps, CommitBatchKeeps, RollBackBatchKeeps,
     CancelItemKeeps
     DEF Next
<1>3. CASE UNCHANGED vars
  <2>1. Locks' /\ Batches' /\ Prepared' /\ Claims'
    BY <1>3 DEF vars, facts, worklist, writing, batch, RInv, Locks, Batches, Prepared,
                Claims, Changes
  <2> QED
    BY <1>1, <1>3, <2>1, BatchKeeps DEF vars
<1> QED
  BY <1>2, <1>3

LEMMA RInvariant == Spec => []RInv
  BY RInit, RNext, PTL DEF Spec

-----------------------------------------------------------------------------
(* What follows *)

\* No decision and no change is lost to a live fixture.
THEOREM ForecastsFresh == Spec => []Fresh
<1>1. RInv => Fresh
  BY DEF RInv
<1> QED
  BY <1>1, RInvariant, PTL

\* The completed generation is the last one whose item succeeded.
THEOREM CompletionsAgree == Spec => []GenerationsAgree
<1>1. RInv => GenerationsAgree
  BY DEF RInv
<1> QED
  BY <1>1, RInvariant, PTL

\* Only generations that are older than the committed one are superseded.
THEOREM NoneSupersededEarly == Spec => []SupersededIsOld
<1>1. RInv => SupersededIsOld
  BY DEF RInv
<1> QED
  BY <1>1, RInvariant, PTL

\* What became of an item is final.
THEOREM OutcomesStand == Spec => OutcomeStands
<1>1. RInv /\ [Next]_vars =>
        [\A f \in Fixture, g \in Generation :
            item[f][g] \notin {"ABSENT", "RETRY_WAIT"} => item'[f][g] = item[f][g]]_vars
  <2> SUFFICES ASSUME RInv, Next, NEW f \in Fixture, NEW g \in Generation,
                      item[f][g] \notin {"ABSENT", "RETRY_WAIT"}
               PROVE  item'[f][g] = item[f][g]
    OBVIOUS
  <2> USE DEF RInv, RefreshTypeOK
  <2>1. ASSUME NEW r \in Refresher, CommitBatch(r)
        PROVE  item'[f][g] = item[f][g]
    <3>1. g # captured[r][f] \/ verdict[r][f] \in {"none", "locked"}
      BY <2>1, Decided
    <3> QED
      BY <2>1, <3>1, ItemOutcome
  <2>2. ASSUME NEW h \in Fixture, NEW k \in Generation, CancelItem(h, k)
        PROVE  item'[f][g] = item[f][g]
    BY <2>2 DEF CancelItem
  <2>3. CASE UNCHANGED item
    BY <2>3
  <2> QED
    BY <2>1, <2>2, <2>3
       DEF Next, Decide, ChangeFixture, Write, CommitWriter, RollBackWriter, Kickoff, Capture,
           ReadFixtures, ReadHistory, LockFixtures, Claim, LockDetail, RollBackBatch, worklist
<1> QED
  BY <1>1, RInvariant, PTL DEF Spec, OutcomeStands

-----------------------------------------------------------------------------
(* The worklist implements ForecastPromise *)

\* The refinement mapping of Promise.
stale == {f \in Fixture : Pending(f)}

LEMMA SameStale == ASSUME generation' = generation, completed' = completed PROVE stale' = stale
  BY DEF stale, Pending

\* A transaction that changes facts commits them together with the generation of
\* every fixture whose forecast they outdate.
LEMMA CommitWriterPromised ==
  ASSUME RInv, NEW w \in Writer, CommitWriter(w), RefreshTypeOK'
  PROVE  Promise!Next
<1> USE DEF RInv, RefreshTypeOK
<1>1. \A f \in Fixture : /\ generation[f] \in Nat /\ completed[f] \in Nat
                         /\ completed[f] <= generation[f] /\ completed'[f] = completed[f]
  BY GenerationBound DEF Generation, Asked, CommitWriter
<1>2. \A f \in Fixture : generation'[f] = IF f \in written[w] THEN generation[f] + 1 ELSE generation[f]
  BY DEF CommitWriter
<1>3. \A f \in Fixture : Pending(f)' <=> f \in written[w] \/ Pending(f)
  <2> SUFFICES ASSUME NEW f \in Fixture
               PROVE  generation'[f] > completed'[f] <=> f \in written[w] \/ generation[f] > completed[f]
    BY DEF Pending
  <2>1. CASE f \in written[w]
    BY <1>1, <1>2, <2>1
  <2>2. CASE f \notin written[w]
    BY <1>1, <1>2, <2>2
  <2> QED
    BY <2>1, <2>2
<1>4. stale \subseteq stale' /\ stale' \subseteq Fixture
  BY <1>3 DEF stale
<1>5. ASSUME NEW f \in Fixture, live'[f], f \notin stale'
      PROVE  live[f] /\ Promise!Current(f)' = Promise!Current(f)
  <2>1. f \notin written[w]
    BY <1>3, <1>5 DEF stale
  <2> QED
    BY <1>5, <2>1, UnlistedSame DEF Promise!Current
<1>6. history' \in [Team -> 0 .. MaxHistory] /\ team' \in [Fixture -> Team]
      /\ live' \in [Fixture -> BOOLEAN] /\ issued' = issued
  BY DEF CommitWriter
<1>7. Promise!ChangeFacts
  BY <1>4, <1>5, <1>6 DEF Promise!ChangeFacts, stale
<1> QED
  BY <1>7 DEF Promise!Next

\* A kickoff only takes a fixture out of those that are to be forecast.
LEMMA KickoffPromised == ASSUME RInv, NEW k \in Fixture, Kickoff(k) PROVE Promise!Next
<1>1. stale' = stale /\ issued' = issued /\ team' = team /\ history' = history
  BY SameStale DEF Kickoff, worklist
<1>2. live' \in [Fixture -> BOOLEAN] /\ \A f \in Fixture : live'[f] => live[f]
  BY DEF RInv, RefreshTypeOK, Kickoff
<1>3. \A f \in Fixture : Promise!Current(f)' = Promise!Current(f)
  BY <1>1 DEF Promise!Current
<1>4. team' \in [Fixture -> Team] /\ history' \in [Team -> 0 .. MaxHistory]
  BY <1>1 DEF RInv, RefreshTypeOK
<1>5. stale \subseteq Fixture
  BY DEF stale
<1>6. Promise!ChangeFacts
  BY <1>1, <1>2, <1>3, <1>4, <1>5 DEF Promise!ChangeFacts, stale
<1> QED
  BY <1>6 DEF Promise!Next

\* The fixtures that the batch of r found free and unchanged.
SelectedBy(r) == {f \in Fixture : verdict[r][f] = "selected"}

\* What a batch publishes of a fixture it selected is made of the present facts.
LEMMA SelectedCurrent ==
  ASSUME RInv, NEW r \in Refresher, CommitBatch(r), NEW f \in SelectedBy(r)
  PROVE  /\ Pending(f) /\ captured[r][f] = generation[f]
         /\ f \in Published(r) <=> live[f]
         /\ f \in Published(r) => Forecast(r, f) = <<team[f], history[team[f]]>>
<1> USE DEF RInv, RefreshTypeOK
<1>1. f \in Fixture /\ verdict[r][f] = "selected"
  BY DEF SelectedBy
<1>2. captured[r][f] = generation[f] /\ captured[r][f] > completed[f] /\ captured[r][f] > 0
  BY <1>1 DEF Claims, Batches
<1>3. step[r] = "claimed"
  BY DEF CommitBatch
<1>4. live[f] => seen[r][team[f]] = history[team[f]] /\ read[r][f] = team[f]
  BY <1>1, <1>2, <1>3 DEF Prepared
<1>5. f \in Published(r) <=> live[f]
  BY <1>1, <1>4, TeamNull DEF Published
<1>6. f \in Published(r) => Forecast(r, f) = <<team[f], history[team[f]]>>
  BY <1>4, <1>5 DEF Forecast
<1> QED
  BY <1>2, <1>5, <1>6 DEF Pending

\* A batch deals with exactly the fixtures it selected.
LEMMA CommitBatchPromised ==
  ASSUME RInv, NEW r \in Refresher, CommitBatch(r)
  PROVE  Promise!Next
<1> DEFINE F == SelectedBy(r)
<1>1. generation' = generation /\ UNCHANGED facts
  BY DEF CommitBatch, NewBatch
<1>2. ASSUME NEW f \in Fixture
      PROVE  Pending(f)' <=> Pending(f) /\ f \notin F
  <2>1. completed'[f] = IF f \in F THEN captured[r][f] ELSE completed[f]
    BY Completion DEF SelectedBy
  <2>2. f \in F => completed'[f] = generation[f]
    BY <2>1, SelectedCurrent
  <2>3. generation[f] \in Nat
    BY GenerationBound DEF Generation, RInv, RefreshTypeOK
  <2> HIDE DEF F
  <2> QED
    BY <1>1, <2>1, <2>2, <2>3 DEF Pending
<1>3. stale' = stale \ F /\ F \in SUBSET stale
  BY <1>2, SelectedCurrent DEF stale, SelectedBy
<1>4. issued' = [f \in Fixture |-> IF f \in F /\ live[f]
                                   THEN issued[f] \cup {Promise!Current(f)} ELSE issued[f]]
  <2>1. issued' = [f \in Fixture |-> IF f \in Published(r)
                                     THEN issued[f] \cup {Forecast(r, f)} ELSE issued[f]]
    BY DEF CommitBatch
  <2>2. ASSUME NEW f \in Fixture
        PROVE  /\ f \in Published(r) <=> f \in F /\ live[f]
               /\ f \in Published(r) => Forecast(r, f) = Promise!Current(f)
    <3>1. CASE f \in F
      BY <3>1, SelectedCurrent DEF Promise!Current
    <3>2. CASE f \notin F
      BY <3>2 DEF Published, SelectedBy
    <3> QED
      BY <3>1, <3>2
  <2> HIDE DEF F
  <2> QED
    BY <2>1, <2>2
<1> HIDE DEF F
<1>5. Promise!Refresh(F)
  BY <1>1, <1>3, <1>4 DEF Promise!Refresh, Promise!facts, facts, stale
<1> QED
  BY <1>3, <1>5 DEF Promise!Next, stale

\* Every step of the worklist is a step of the promise or changes nothing in it.
LEMMA PromiseStep == ASSUME RInv, [Next]_vars PROVE [Promise!Next]_Promise!vars
<1> DEFINE Still == UNCHANGED <<facts, generation, completed, issued>>
<1>1. ASSUME NEW w \in Writer, CommitWriter(w) PROVE Promise!Next
  BY <1>1, TypeNext, CommitWriterPromised DEF RInv
<1>2. ASSUME NEW k \in Fixture, Kickoff(k) PROVE Promise!Next
  BY <1>2, KickoffPromised
<1>3. ASSUME NEW r \in Refresher, CommitBatch(r) PROVE Promise!Next
  BY <1>3, CommitBatchPromised
<1>4. ASSUME NEW w \in Writer,
             \/ \E T \in SUBSET Team : Decide(w, T)
             \/ \E c \in Change, T \in SUBSET Team : ChangeFixture(w, c, T)
             \/ \E f \in Fixture : Write(w, f)
             \/ RollBackWriter(w)
      PROVE  Still
  BY <1>4 DEF Decide, ChangeFixture, Write, RollBackWriter, worklist
<1>5. ASSUME NEW r \in Refresher,
             \/ Capture(r) \/ ReadFixtures(r) \/ ReadHistory(r) \/ Claim(r) \/ RollBackBatch(r)
             \/ \E F \in SUBSET Fixture : LockFixtures(r, F)
             \/ \E f \in Fixture : LockDetail(r, f)
      PROVE  Still
  BY <1>5 DEF Capture, ReadFixtures, ReadHistory, LockFixtures, Claim, LockDetail,
     RollBackBatch, NewBatch, worklist
<1>6. ASSUME NEW f \in Fixture, NEW g \in Generation, CancelItem(f, g) PROVE Still
  BY <1>6 DEF CancelItem
<1>7. ASSUME UNCHANGED vars PROVE Still
  BY <1>7 DEF vars, worklist
<1>8. Still => UNCHANGED Promise!vars
  BY SameStale DEF Promise!vars, Promise!facts, facts, stale
<1> HIDE DEF Still
<1>9. CASE Next
  BY <1>1, <1>2, <1>3, <1>4, <1>5, <1>6, <1>8, <1>9 DEF Next
<1> QED
  BY <1>7, <1>8, <1>9

\* Fixtures become stale with the change that outdates their forecast and stop
\* being stale with a forecast of that moment, whatever batches prepare, skip and
\* roll back (refresh_pending_forecasts, complete_forecast_generations).
THEOREM ForecastsKeepPromise == Spec => KeepsForecastPromise
<1>1. Init => Promise!Init
  BY HistoryBound DEF Init, Pending, Promise!Init
<1>2. RInv /\ [Next]_vars => [Promise!Next]_Promise!vars
  BY PromiseStep
<1> QED
  BY <1>1, <1>2, RInvariant, PTL DEF Spec, KeepsForecastPromise, Promise!Spec

=============================================================================
