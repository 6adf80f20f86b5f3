---- MODULE ProviderScopesProofs ----
(***************************************************************************)
(* Scopes and their items agree, and claims exclude each other, for every  *)
(* set of scopes, runners and administrators.                              *)
(***************************************************************************)
EXTENDS ProviderScopesProperties, TLAPS

\* The parts of the invariant that are about one scope; item 0 is nobody's.
ScopeOK(s) ==
    /\ Work(s).state \in Allowed(row[s].status)
    /\ row[s].token = [item |-> bound[s], attempt |-> Work(s).attempt]
    /\ \A n \in 0 .. MaxItems : n # bound[s] => item[s][n].state \in Terminal \cup {"ABSENT"}
    /\ item[s][0].state = "ABSENT"
    /\ \A p \in published[s] : p.by = p.under /\ p.state = "RUNNING"

\* A publication keeps the row locked, and the runner's claim on it.
RunnerOK(r) ==
    runner[r].place # "idle" =>
        /\ runner[r].scope \in Scope
        /\ runner[r].place = "publishing" =>
              /\ row[runner[r].scope].status = "RUNNING"
              /\ row[runner[r].scope].token = runner[r].token

\* Who is about to cancel an item has seen it.
OperatorOK(o) ==
    operator[o].scope # NoScope =>
        /\ operator[o].item # 0
        /\ item[operator[o].scope][operator[o].item].state # "ABSENT"

SInv ==
    /\ ScopesTypeOK
    /\ \A s \in Scope : ScopeOK(s)
    /\ \A r \in Runner : RunnerOK(r)
    /\ \A o \in Operator : OperatorOK(o)

-----------------------------------------------------------------------------
(* Frames.                                                                   *)

Same(s) == /\ row'[s] = row[s] /\ bound'[s] = bound[s]
           /\ item'[s] = item[s] /\ published'[s] = published[s]

LEMMA ScopeFrame ==
    ASSUME NEW s \in Scope, Same(s), ScopeOK(s)
    PROVE  ScopeOK(s)'
  BY DEF Same, ScopeOK, Work

LEMMA RunnerFrame ==
    ASSUME NEW r \in Runner, RunnerOK(r), runner'[r] = runner[r],
           \/ row' = row
           \/ runner[r].place = "publishing" =>
                /\ row'[runner[r].scope].status = row[runner[r].scope].status
                /\ row'[runner[r].scope].token = row[runner[r].scope].token
    PROVE  RunnerOK(r)'
  BY DEF RunnerOK

\* A free row is locked by no publication.
LEMMA FreeRow ==
    ASSUME NEW s \in Scope, RowFree(s), NEW r \in Runner, runner[r].place = "publishing"
    PROVE  runner[r].scope # s
  BY DEF RowFree

LEMMA OperatorFrame ==
    ASSUME NEW o \in Operator, OperatorOK(o), operator'[o] = operator[o],
           operator[o] \in Canceller,
           \A s \in Scope : \A n \in 0 .. MaxItems :
                item[s][n].state # "ABSENT" => item'[s][n].state # "ABSENT"
    PROVE  OperatorOK(o)'
  BY DEF OperatorOK, Canceller

\* A record that names the runner's claim, the row's and a running item.
LEMMA PublishedIs ==
    ASSUME SInv, NEW r \in Runner, NEW s \in Scope,
           row[s].token = runner[r].token, Work(s).state = "RUNNING", Published(r, s)
    PROVE  /\ published' \in [Scope -> SUBSET Publication]
           /\ \A t \in Scope : t # s => published'[t] = published[t]
           /\ \A p \in published'[s] : p.by = p.under /\ p.state = "RUNNING"
  <1> DEFINE new == [by |-> runner[r].token, under |-> row[s].token, state |-> Work(s).state]
  <1>1. new \in Publication
    <2>1. row[s].token \in Token /\ runner[r].token \in Token
      BY DEF SInv, ScopesTypeOK, Row, Claimant
    <2> QED
      BY <2>1 DEF Publication, State
  <1>2. published \in [Scope -> SUBSET Publication]
    BY DEF SInv, ScopesTypeOK
  <1>3. published' = [published EXCEPT ![s] = published[s] \cup {new}]
    BY <1>2 DEF Published
  <1>4. \A p \in published[s] : p.by = p.under /\ p.state = "RUNNING"
    BY DEF SInv, ScopeOK
  <1>5. new.by = new.under /\ new.state = "RUNNING"
    OBVIOUS
  <1> HIDE DEF new
  <1> QED
    BY <1>1, <1>2, <1>3, <1>4, <1>5

LEMMA IdleTypes == /\ NoToken \in Token /\ IdleRunner \in Claimant
                   /\ IdleOperator \in Canceller /\ 0 \in 0 .. MaxItems
  <1>1. 0 \in 0 .. MaxItems /\ 0 \in 0 .. MaxAttempts
    BY ScopeBounds
  <1>2. NoToken \in Token
    BY <1>1 DEF NoToken, Token
  <1> QED
    BY <1>1, <1>2 DEF IdleRunner, IdleOperator, Claimant, Canceller, Look

-----------------------------------------------------------------------------
(* Steps of the rows.                                                        *)

LEMMA InitSInv == Init => SInv
  <1> SUFFICES ASSUME Init PROVE SInv
    OBVIOUS
  <1>1. ScopesTypeOK
    BY IdleTypes, ScopeBounds DEF Init, ScopesTypeOK, Row, Item, Status, State
  <1>2. \A s \in Scope : ScopeOK(s)
    <2> SUFFICES ASSUME NEW s \in Scope PROVE ScopeOK(s)
      OBVIOUS
    <2>1. /\ row[s].status = "ABSENT" /\ row[s].token = NoToken
          /\ bound[s] = 0 /\ published[s] = {}
      BY DEF Init
    <2>2. \A n \in 0 .. MaxItems : item[s][n].state = "ABSENT" /\ item[s][n].attempt = 0
      BY DEF Init
    <2>3. Work(s).state = "ABSENT" /\ Work(s).attempt = 0
      BY <2>1, <2>2, IdleTypes DEF Work
    <2>4. Allowed("ABSENT") = {"ABSENT"}
      BY DEF Allowed
    <2> QED
      BY <2>1, <2>2, <2>3, <2>4, IdleTypes DEF ScopeOK, NoToken
  <1> QED
    BY <1>1, <1>2 DEF SInv, RunnerOK, OperatorOK, Init, IdleRunner, IdleOperator

\* A new status or flag on rows no publication has locked, tokens kept.
LEMMA RowSteps ==
    ASSUME SInv, row' \in [Scope -> Row], UNCHANGED <<bound, item, runner, operator, published>>,
           \A s \in Scope : /\ row'[s].token = row[s].token
                            /\ Work(s).state \in Allowed(row'[s].status)
                            /\ row'[s].status = row[s].status \/ row[s].status # "RUNNING"
    PROVE  SInv'
  <1>1. ScopesTypeOK'
    BY DEF SInv, ScopesTypeOK
  <1>2. \A s \in Scope : ScopeOK(s)'
    BY DEF SInv, ScopeOK, Work
  <1>3. \A r \in Runner : RunnerOK(r)'
    BY DEF SInv, RunnerOK
  <1>4. \A o \in Operator : OperatorOK(o)'
    BY DEF SInv, OperatorOK
  <1> QED
    BY <1>1, <1>2, <1>3, <1>4 DEF SInv

LEMMA RowActions ==
    ASSUME SInv, NEW s \in Scope, EnqueueScope(s) \/ FallDue(s) \/ Lapse(s)
    PROVE  SInv'
  <1>0. row \in [Scope -> Row]
    BY DEF SInv, ScopesTypeOK
  <1>1. UNCHANGED <<bound, item, runner, operator, published>>
    BY DEF EnqueueScope, FallDue, Lapse
  <1>2. row' \in [Scope -> Row]
    <2>1. row[s] \in Row
      BY <1>0
    <2>2. /\ [row[s] EXCEPT !.status = "PENDING", !.due = TRUE] \in Row
          /\ [row[s] EXCEPT !.due = TRUE] \in Row /\ [row[s] EXCEPT !.fresh = FALSE] \in Row
      BY <2>1 DEF Row, Status
    <2>3. \E x \in Row : row' = [row EXCEPT ![s] = x]
      BY <1>0, <2>2 DEF EnqueueScope, FallDue, Lapse
    <2> QED
      BY <1>0, <2>3
  <1>3. \A t \in Scope : row'[t].token = row[t].token
    BY <1>0 DEF EnqueueScope, FallDue, Lapse, Row
  <1>4. \A t \in Scope : \/ row'[t].status = row[t].status
                         \/ row[t].status = "ABSENT" /\ row'[t].status = "PENDING"
    BY <1>0 DEF EnqueueScope, FallDue, Lapse, Row
  <1>5. \A t \in Scope : Work(t).state \in Allowed(row[t].status)
    BY DEF SInv, ScopeOK
  <1>6. \A t \in Scope : Work(t).state \in Allowed(row'[t].status)
    BY <1>4, <1>5 DEF Allowed
  <1> QED
    BY <1>1, <1>2, <1>3, <1>4, <1>6, RowSteps

LEMMA RefreshStep ==
    ASSUME SInv, NEW S \in SUBSET Scope, Refresh(S)
    PROVE  SInv'
  <1>0. row \in [Scope -> Row]
    BY DEF SInv, ScopesTypeOK
  <1>1. UNCHANGED <<bound, item, runner, operator, published>>
    BY DEF Refresh
  <1>2. \A t \in Scope :
            \/ row'[t] = row[t]
            \/ Eligible(t) /\ row'[t] = [row[t] EXCEPT !.status = "PENDING"]
    BY DEF Refresh
  <1>3. row' \in [Scope -> Row]
    <2>1. \A t \in Scope : row'[t] \in Row
      BY ZenonT(30), <1>0, <1>2 DEF Row, Status
    <2>2. row' = [t \in Scope |-> row'[t]]
      BY DEF Refresh
    <2> QED
      BY <2>1, <2>2
  <1>4. \A t \in Scope : row'[t].token = row[t].token
    BY <1>0, <1>2 DEF Row
  <1>5. \A t \in Scope : \/ row'[t].status = row[t].status
                         \/ /\ row[t].status \notin {"ABSENT", "RUNNING"}
                            /\ row'[t].status = "PENDING"
    BY <1>0, <1>2 DEF Row, Eligible
  <1>6. \A t \in Scope : Work(t).state \in Allowed(row[t].status) /\ row[t].status \in Status
    BY <1>0 DEF SInv, ScopeOK, Row
  <1>7. \A t \in Scope : Work(t).state \in Allowed(row'[t].status)
    BY <1>5, <1>6 DEF Allowed, Status
  <1> QED
    BY <1>1, <1>3, <1>4, <1>5, <1>7, RowSteps

-----------------------------------------------------------------------------
(* Steps of the runners.                                                     *)

\* A runner that lets go, looks for a scope, or goes on under the claim it has.
LEMMA RunnerSteps ==
    ASSUME SInv, NEW r \in Runner,
           \/ BeginPublication(r) \/ AbortPublication(r) \/ LoseScope(r) \/ Crash(r)
           \/ ClaimNothing(r) \/ \E s \in Scope : LookForScope(r, s)
    PROVE  SInv'
  <1>0. /\ runner \in [Runner -> Claimant] /\ runner[r] \in Claimant
        /\ UNCHANGED <<row, bound, item, operator, published>>
    BY DEF SInv, ScopesTypeOK, BeginPublication, AbortPublication, LoseScope, Crash,
           ClaimNothing, LookForScope
  <1>1. PICK x \in Claimant :
            /\ runner' = [runner EXCEPT ![r] = x]
            /\ \/ x.place = "idle"
               \/ x.place # "publishing" /\ x.scope \in Scope
               \/ BeginPublication(r) /\ x.scope = runner[r].scope /\ x.token = runner[r].token
    <2>1. CASE BeginPublication(r)
      <3>1. [runner[r] EXCEPT !.place = "publishing"] \in Claimant
        BY <1>0 DEF Claimant
      <3> QED
        BY <1>0, <2>1, <3>1 DEF BeginPublication, Claimant
    <2>2. CASE AbortPublication(r)
      <3>1. [runner[r] EXCEPT !.place = "working", !.erred = TRUE] \in Claimant
        BY <1>0 DEF Claimant
      <3>2. runner[r].scope \in Scope
        BY <2>2 DEF SInv, RunnerOK, AbortPublication
      <3> QED
        BY <1>0, <2>2, <3>1, <3>2 DEF AbortPublication, Claimant
    <2>3. CASE LoseScope(r) \/ Crash(r) \/ ClaimNothing(r)
      BY <2>3, IdleTypes DEF LoseScope, Crash, ClaimNothing, IdleRunner
    <2>4. CASE \E s \in Scope : LookForScope(r, s)
      <3>1. PICK s \in Scope : LookForScope(r, s)
        BY <2>4
      <3>2. PICK y : y = [IdleRunner EXCEPT !.place = "claiming", !.scope = s, !.look = LookAt(s)]
        OBVIOUS
      <3>3. y \in Claimant /\ y.place = "claiming" /\ y.scope = s
        BY <3>2, IdleTypes DEF IdleRunner, Claimant, Look, LookAt
      <3>4. runner' = [runner EXCEPT ![r] = y]
        BY <3>1, <3>2 DEF LookForScope
      <3> QED
        BY <3>3, <3>4
    <2> QED
      BY <1>0, <2>1, <2>2, <2>3, <2>4
  <1>2. ScopesTypeOK'
    BY <1>0, <1>1 DEF SInv, ScopesTypeOK
  <1>3. \A s \in Scope : ScopeOK(s)'
    BY <1>0, ScopeFrame DEF SInv, Same
  <1>4. RunnerOK(r)'
    <2>1. runner'[r] = x
      BY <1>0, <1>1
    <2>2. CASE x.place = "idle" \/ (x.place # "publishing" /\ x.scope \in Scope)
      BY <2>1, <2>2 DEF RunnerOK
    <2>3. CASE /\ BeginPublication(r)
               /\ x.scope = runner[r].scope /\ x.token = runner[r].token
      BY <1>0, <2>1, <2>3 DEF SInv, RunnerOK, BeginPublication, Authorized
    <2> QED
      BY <1>1, <2>2, <2>3
  <1>5. \A q \in Runner : q # r => runner'[q] = runner[q]
    BY <1>0, <1>1
  <1>6. \A q \in Runner : RunnerOK(q)'
    BY <1>0, <1>4, <1>5, RunnerFrame DEF SInv
  <1>7. \A o \in Operator : OperatorOK(o)'
    BY <1>0 DEF SInv, OperatorOK
  <1> QED
    BY <1>2, <1>3, <1>6, <1>7 DEF SInv

\* The row is still claimed by the runner that kept it locked, so the check
\* looks at the right item.
LEMMA EndStep ==
    ASSUME SInv, NEW r \in Runner, EndPublication(r)
    PROVE  SInv'
  <1>0. /\ runner \in [Runner -> Claimant] /\ runner[r] \in Claimant
        /\ runner[r].place = "publishing" /\ UNCHANGED <<row, bound, item, operator>>
    BY DEF SInv, ScopesTypeOK, EndPublication
  <1>1. PICK s \in Scope : /\ s = runner[r].scope /\ row[s].token = runner[r].token
                            /\ row[s].status = "RUNNING"
    BY <1>0 DEF SInv, RunnerOK
  <1>2. Work(s).state = "RUNNING"
    <2>1. Leases(s, runner[r].token)
      BY <1>1 DEF EndPublication
    <2>2. row[s].token = [item |-> bound[s], attempt |-> Work(s).attempt]
      BY DEF SInv, ScopeOK
    <2> QED
      BY <1>1, <2>1, <2>2 DEF Leases, Work
  <1>3. Published(r, s)
    BY <1>1 DEF EndPublication
  <1>4. /\ published' \in [Scope -> SUBSET Publication]
        /\ \A u \in Scope : u # s => published'[u] = published[u]
        /\ \A p \in published'[s] : p.by = p.under /\ p.state = "RUNNING"
    BY <1>1, <1>2, <1>3, PublishedIs
  <1>5. [runner[r] EXCEPT !.place = "working"] \in Claimant
    BY <1>0 DEF Claimant
  <1>6. runner' = [runner EXCEPT ![r] = [runner[r] EXCEPT !.place = "working"]]
    BY <1>0 DEF EndPublication
  <1>7. ScopesTypeOK'
    BY <1>0, <1>4, <1>5, <1>6 DEF SInv, ScopesTypeOK
  <1>8. \A u \in Scope : ScopeOK(u)'
    <2>1. ScopeOK(s)'
      BY <1>0, <1>1, <1>4 DEF SInv, ScopeOK, Work
    <2>2. \A u \in Scope : u # s => ScopeOK(u)'
      BY <1>0, <1>4, ScopeFrame DEF SInv, Same
    <2> QED
      BY <2>1, <2>2
  <1>9. \A q \in Runner : RunnerOK(q)'
    <2>1. runner'[r].scope = s /\ runner'[r].place = "working"
      BY <1>0, <1>1, <1>6 DEF Claimant
    <2>2. RunnerOK(r)'
      BY <1>1, <2>1 DEF RunnerOK
    <2>3. \A q \in Runner : q # r => RunnerOK(q)'
      BY <1>0, <1>6, RunnerFrame DEF SInv
    <2> QED
      BY <2>2, <2>3
  <1>10. \A o \in Operator : OperatorOK(o)'
    BY <1>0 DEF SInv, OperatorOK
  <1> QED
    BY <1>7, <1>8, <1>9, <1>10 DEF SInv

\* One scope's row and bound item change, under a free row; the runner rests or
\* works afterwards.
LEMMA ScopeSteps ==
    ASSUME SInv, NEW s \in Scope, RowFree(s), NEW r \in Runner,
           NEW newRow \in Row, NEW n \in 1 .. MaxItems, NEW it \in Item, NEW c \in Claimant,
           row' = [row EXCEPT ![s] = newRow],
           item' = [item EXCEPT ![s][n] = it],
           bound' = [bound EXCEPT ![s] = n],
           runner' = [runner EXCEPT ![r] = c],
           operator' = operator,
           runner[r].place # "publishing",
           published' \in [Scope -> SUBSET Publication],
           \A u \in Scope : u # s => published'[u] = published[u],
           \A p \in published'[s] : p.by = p.under /\ p.state = "RUNNING",
           bound[s] # n => Work(s).state \in Terminal \cup {"ABSENT"},
           it.state \in Allowed(newRow.status), it.state # "ABSENT",
           newRow.token = [item |-> n, attempt |-> it.attempt],
           c.place # "publishing", c.place # "idle" => c.scope \in Scope
    PROVE  SInv'
  <1>0. /\ row \in [Scope -> Row] /\ bound \in [Scope -> 0 .. MaxItems]
        /\ item \in [Scope -> [0 .. MaxItems -> Item]] /\ runner \in [Runner -> Claimant]
        /\ operator \in [Operator -> Canceller] /\ n \in 0 .. MaxItems
    BY DEF SInv, ScopesTypeOK
  <1>1. /\ item'[s] = [item[s] EXCEPT ![n] = it] /\ item[s] \in [0 .. MaxItems -> Item]
        /\ row'[s] = newRow /\ bound'[s] = n
    BY <1>0
  <1>2. \A u \in Scope : u # s => row'[u] = row[u] /\ bound'[u] = bound[u] /\ item'[u] = item[u]
    BY <1>0
  <1>3. ScopesTypeOK'
    <2>1. item'[s] \in [0 .. MaxItems -> Item]
      BY <1>0, <1>1
    <2>2. item' = [item EXCEPT ![s] = item'[s]]
      BY <1>0
    <2> HIDE DEF Row
    <2>3. /\ row' \in [Scope -> Row] /\ bound' \in [Scope -> 0 .. MaxItems]
          /\ item' \in [Scope -> [0 .. MaxItems -> Item]] /\ runner' \in [Runner -> Claimant]
      BY <1>0, <2>1, <2>2
    <2> QED
      BY <1>0, <2>3 DEF ScopesTypeOK
  <1>4. ScopeOK(s)'
    <2>1. Work(s)' = it
      BY <1>0, <1>1 DEF Work
    <2>2. \A m \in 0 .. MaxItems : m # n => item'[s][m] = item[s][m]
      BY <1>0, <1>1
    <2>3. \A m \in 0 .. MaxItems : m # bound[s] => item[s][m].state \in Terminal \cup {"ABSENT"}
      BY DEF SInv, ScopeOK
    <2>4. bound[s] # n => item[s][bound[s]].state \in Terminal \cup {"ABSENT"}
      BY DEF Work
    <2>5. \A m \in 0 .. MaxItems : m # n => item[s][m].state \in Terminal \cup {"ABSENT"}
      BY <2>3, <2>4
    <2>6. \A m \in 0 .. MaxItems : m # n => item'[s][m].state \in Terminal \cup {"ABSENT"}
      BY <2>2, <2>5
    <2>7. item'[s][0].state = "ABSENT"
      <3>1. 0 # n /\ 0 \in 0 .. MaxItems
        BY IdleTypes
      <3> QED
        BY ZenonT(30), <2>2, <3>1 DEF SInv, ScopeOK
    <2> QED
      BY <1>1, <2>1, <2>6, <2>7 DEF ScopeOK
  <1>5. \A u \in Scope : ScopeOK(u)'
    BY <1>2, <1>4, ScopeFrame DEF SInv, Same
  <1>6. RunnerOK(r)'
    BY <1>0 DEF RunnerOK
  <1>7. \A q \in Runner : RunnerOK(q)'
    <2> SUFFICES ASSUME NEW q \in Runner, q # r PROVE RunnerOK(q)'
      BY <1>6
    <2>1. runner'[q] = runner[q]
      BY <1>0
    <2>2. runner[q].place = "publishing" => runner[q].scope # s /\ runner[q].scope \in Scope
      BY FreeRow DEF SInv, RunnerOK
    <2> QED
      BY <1>2, <2>1, <2>2, RunnerFrame DEF SInv
  <1>8. \A o \in Operator : OperatorOK(o)'
    <2>1. \A u \in Scope : \A m \in 0 .. MaxItems :
                item[u][m].state # "ABSENT" => item'[u][m].state # "ABSENT"
      <3>1. \A m \in 0 .. MaxItems : item'[s][m] = item[s][m] \/ item'[s][m] = it
        BY <1>1
      <3> QED
        BY <1>2, <3>1
    <2> QED
      BY <1>0, <2>1, OperatorFrame DEF SInv
  <1> QED
    BY <1>3, <1>5, <1>7, <1>8 DEF SInv

LEMMA SettleStep ==
    ASSUME SInv, NEW r \in Runner, NEW outcome \in {"SUCCEEDED", "FAILED", "DEFERRED"},
           Settle(r, outcome)
    PROVE  SInv'
  <1> DEFINE s == runner[r].scope
             n == bound[s]
             newRow == [row[s] EXCEPT !.status = outcome, !.due = FALSE]
             it == [Work(s) EXCEPT !.state = ItemAfter(outcome)]
  <1>0. /\ row \in [Scope -> Row] /\ bound \in [Scope -> 0 .. MaxItems]
        /\ item \in [Scope -> [0 .. MaxItems -> Item]]
    BY DEF SInv, ScopesTypeOK
  <1>1. s \in Scope /\ runner[r].place = "working" /\ RowFree(s)
    BY DEF SInv, RunnerOK, Settle
  <1>2. Authorized(s, runner[r].token)
    BY DEF Settle
  <1>3. /\ row[s].token = runner[r].token
        /\ row[s].token = [item |-> n, attempt |-> Work(s).attempt]
    BY <1>1, <1>2 DEF SInv, ScopeOK, Authorized
  <1>4. n \in 1 .. MaxItems /\ Work(s).state = "RUNNING"
    <2>1. n # 0 /\ Work(s).state = "RUNNING"
      BY <1>2, <1>3 DEF Authorized, Leases, Work
    <2> QED
      BY <1>0, <1>1, <2>1, ScopeBounds
  <1>5. row[s] \in Row /\ Work(s) \in Item
    BY <1>0, <1>1 DEF Work
  <1>6. /\ newRow \in Row /\ newRow.status = outcome /\ newRow.token = row[s].token
        /\ it \in Item /\ it.state = ItemAfter(outcome) /\ it.attempt = Work(s).attempt
    BY <1>5 DEF Row, Item, Status, State, ItemAfter
  <1>7. it.state \in Allowed(newRow.status) /\ it.state # "ABSENT"
    BY <1>6 DEF Allowed, ItemAfter
  <1>8. Published(r, s)
    BY DEF Settle
  <1>9. /\ row' = [row EXCEPT ![s] = newRow] /\ item' = [item EXCEPT ![s][n] = it]
        /\ bound' = [bound EXCEPT ![s] = n] /\ runner' = [runner EXCEPT ![r] = IdleRunner]
        /\ operator' = operator
    BY <1>0, <1>1 DEF Settle, Work
  <1> HIDE DEF s, n, newRow, it
  <1>10. /\ published' \in [Scope -> SUBSET Publication]
         /\ \A u \in Scope : u # s => published'[u] = published[u]
         /\ \A p \in published'[s] : p.by = p.under /\ p.state = "RUNNING"
    BY <1>1, <1>3, <1>4, <1>8, PublishedIs
  <1>11. /\ newRow.token = [item |-> n, attempt |-> it.attempt]
         /\ IdleRunner.place = "idle" /\ n = bound[s]
    BY <1>3, <1>6 DEF IdleRunner, n
  <1>12. newRow \in Row /\ it \in Item
    BY <1>6
  <1> QED
    BY <1>1, <1>4, <1>7, <1>9, <1>10, <1>11, <1>12, IdleTypes, ScopeSteps

LEMMA SettleCancelledStep ==
    ASSUME SInv, NEW r \in Runner, SettleCancelled(r)
    PROVE  SInv'
  <1> DEFINE s == runner[r].scope
             n == bound[s]
             newRow == [row[s] EXCEPT !.status = "FAILED", !.due = FALSE]
  <1>0. /\ row \in [Scope -> Row] /\ bound \in [Scope -> 0 .. MaxItems]
        /\ item \in [Scope -> [0 .. MaxItems -> Item]]
        /\ published \in [Scope -> SUBSET Publication]
    BY DEF SInv, ScopesTypeOK
  <1>1. s \in Scope /\ runner[r].place = "working" /\ RowFree(s)
    BY DEF SInv, RunnerOK, SettleCancelled
  <1>2. Work(s).state = "CANCELLED" /\ UNCHANGED <<bound, item, operator, published>>
    BY DEF SettleCancelled
  <1>3. n \in 1 .. MaxItems
    <2>1. n # 0
      BY <1>1, <1>2 DEF SInv, ScopeOK, Work
    <2> QED
      BY <1>0, <1>1, <2>1, ScopeBounds
  <1>4. row[s] \in Row /\ Work(s) \in Item /\ Work(s) = item[s][n]
    BY <1>0, <1>1 DEF Work
  <1>5. newRow \in Row /\ newRow.status = "FAILED" /\ newRow.token = row[s].token
    BY <1>4 DEF Row, Status
  <1>6. Work(s).state \in Allowed(newRow.status) /\ Work(s).state # "ABSENT"
    BY <1>2, <1>5 DEF Allowed
  <1>7. /\ row' = [row EXCEPT ![s] = newRow] /\ runner' = [runner EXCEPT ![r] = IdleRunner]
    BY <1>0, <1>1 DEF SettleCancelled
  <1>8. item' = [item EXCEPT ![s][n] = Work(s)] /\ bound' = [bound EXCEPT ![s] = n]
    BY <1>0, <1>1, <1>2, <1>3, <1>4
  <1>9. /\ newRow.token = [item |-> n, attempt |-> Work(s).attempt]
        /\ \A p \in published'[s] : p.by = p.under /\ p.state = "RUNNING"
    BY <1>1, <1>2, <1>5 DEF SInv, ScopeOK
  <1>10. IdleRunner.place = "idle" /\ n = bound[s]
    BY DEF IdleRunner
  <1> HIDE DEF s, n, newRow
  <1> QED
    BY <1>0, <1>1, <1>2, <1>3, <1>4, <1>5, <1>6, <1>7, <1>8, <1>9, <1>10, IdleTypes, ScopeSteps

LEMMA ClaimStep ==
    ASSUME SInv, NEW r \in Runner, ClaimScope(r)
    PROVE  SInv'
  <1>a. PICK s \in Scope : s = runner[r].scope
    BY DEF SInv, RunnerOK, ClaimScope
  <1> DEFINE n == ItemToClaim(s)
             token == [item |-> n, attempt |-> item[s][n].attempt + 1]
             it == [state |-> "RUNNING", attempt |-> token.attempt]
             newRow == [status |-> "RUNNING", token |-> token, fresh |-> TRUE, due |-> TRUE]
             c == [place |-> "working", scope |-> s, look |-> "none",
                   token |-> token, erred |-> FALSE]
  <1>0. /\ bound \in [Scope -> 0 .. MaxItems] /\ bound[s] \in 0 .. MaxItems
        /\ item \in [Scope -> [0 .. MaxItems -> Item]]
        /\ published \in [Scope -> SUBSET Publication]
    BY DEF SInv, ScopesTypeOK
  <1>1. /\ runner[r].place = "claiming" /\ RowFree(s) /\ n <= MaxItems
        /\ item[s][n].attempt < MaxAttempts
        /\ item' = [item EXCEPT ![s][n] = it] /\ bound' = [bound EXCEPT ![s] = n]
        /\ row' = [row EXCEPT ![s] = newRow] /\ runner' = [runner EXCEPT ![r] = c]
        /\ UNCHANGED <<operator, published>>
    BY <1>a DEF ClaimScope
  <1>2. /\ n \in 1 .. MaxItems
        /\ bound[s] # n => Work(s).state \in Terminal \cup {"ABSENT"}
    <2>1. CASE bound[s] = 0
      <3>1. n = bound[s] + 1
        BY <2>1 DEF ItemToClaim
      <3>2. Work(s).state = "ABSENT"
        BY <2>1 DEF SInv, ScopeOK, Work
      <3> QED
        BY <1>0, <1>1, <2>1, <3>1, <3>2, ScopeBounds
    <2>2. CASE bound[s] # 0 /\ Work(s).state \in Terminal
      BY <1>0, <1>1, <2>2, ScopeBounds DEF ItemToClaim
    <2>3. CASE bound[s] # 0 /\ Work(s).state \notin Terminal
      BY <1>0, <2>3, ScopeBounds DEF ItemToClaim
    <2> QED
      BY <2>1, <2>2, <2>3
  <1>3. item[s][n] \in Item
    <2>1. n \in 0 .. MaxItems
      BY <1>2
    <2> HIDE DEF n
    <2> QED
      BY <1>0, <2>1
  <1>4. token \in Token /\ token.attempt \in 0 .. MaxAttempts
    <2>1. item[s][n].attempt + 1 \in 0 .. MaxAttempts
      BY <1>1, <1>3, ScopeBounds DEF Item
    <2> QED
      BY <1>2, <2>1 DEF Token
  <1>5. newRow \in Row /\ it \in Item /\ c \in Claimant
    BY <1>4 DEF Row, Item, Claimant, Look, Status, State
  <1>6. /\ it.state \in Allowed(newRow.status) /\ it.state # "ABSENT"
        /\ newRow.token = [item |-> n, attempt |-> it.attempt]
        /\ c.place = "working" /\ c.scope = s
    BY DEF Allowed
  <1>7. \A p \in published'[s] : p.by = p.under /\ p.state = "RUNNING"
    BY <1>1 DEF SInv, ScopeOK
  <1> HIDE DEF n, token, it, newRow, c
  <1> QED
    BY <1>0, <1>1, <1>2, <1>5, <1>6, <1>7, ScopeSteps

-----------------------------------------------------------------------------
(* Steps of the administrators.                                              *)

LEMMA ReadStep ==
    ASSUME SInv, NEW o \in Operator, NEW s \in Scope, NEW n \in 1 .. MaxItems, ReadToken(o, s, n)
    PROVE  SInv'
  <1> DEFINE c == [scope |-> s, item |-> n,
                   token |-> IF bound[s] = n THEN row[s].token ELSE NoToken]
  <1>0. operator \in [Operator -> Canceller] /\ row \in [Scope -> Row]
    BY DEF SInv, ScopesTypeOK
  <1>1. /\ item[s][n].state # "ABSENT" /\ operator' = [operator EXCEPT ![o] = c]
        /\ UNCHANGED <<row, bound, item, runner, published>>
    BY DEF ReadToken
  <1>2. c \in Canceller
    BY <1>0, IdleTypes DEF Canceller, Row
  <1>3. ScopesTypeOK'
    BY <1>0, <1>1, <1>2 DEF SInv, ScopesTypeOK
  <1>4. \A u \in Scope : ScopeOK(u)'
    BY <1>1, ScopeFrame DEF SInv, Same
  <1>5. \A r \in Runner : RunnerOK(r)'
    BY <1>1, RunnerFrame DEF SInv
  <1>6. \A q \in Operator : OperatorOK(q)'
    <2>1. OperatorOK(o)'
      BY <1>0, <1>1 DEF OperatorOK
    <2>2. \A q \in Operator : q # o => OperatorOK(q)'
      BY <1>0, <1>1, OperatorFrame DEF SInv
    <2> QED
      BY <2>1, <2>2
  <1> QED
    BY <1>3, <1>4, <1>5, <1>6 DEF SInv

\* An item that can still run is the bound one; the row that shows it as running
\* fails with it, or keeps the status of a claim that came in between.
LEMMA CancelStep ==
    ASSUME SInv, NEW o \in Operator, CancelScope(o)
    PROVE  SInv'
  <1> DEFINE n == operator[o].item
             token == operator[o].token
  <1>0. /\ row \in [Scope -> Row] /\ bound \in [Scope -> 0 .. MaxItems]
        /\ item \in [Scope -> [0 .. MaxItems -> Item]]
        /\ operator \in [Operator -> Canceller] /\ operator[o] \in Canceller
    BY DEF SInv, ScopesTypeOK
  <1>1. PICK s \in Scope : s = operator[o].scope
    BY <1>0 DEF CancelScope, Canceller
  <1>2. PICK m \in 0 .. MaxItems : m = n /\ m # 0 /\ item[s][m].state # "ABSENT"
    BY <1>0, <1>1 DEF SInv, OperatorOK, CancelScope, Canceller
  <1> DEFINE open == item[s][m].state \notin Terminal
  <1>3. /\ row[s].token = token => RowFree(s)
        /\ item' = IF open THEN [item EXCEPT ![s][m].state = "CANCELLED"] ELSE item
        /\ row' = IF open /\ row[s].token = token /\ row[s].status = "RUNNING"
                  THEN [row EXCEPT ![s].status = "FAILED"] ELSE row
        /\ operator' = [operator EXCEPT ![o] = IdleOperator]
        /\ UNCHANGED <<bound, runner, published>>
    BY <1>1, <1>2 DEF CancelScope
  <1>4. open => m = bound[s]
    BY <1>2 DEF SInv, ScopeOK
  <1>5. /\ item[s][m] \in Item /\ row[s] \in Row /\ item[s] \in [0 .. MaxItems -> Item]
    BY <1>0
  <1> DEFINE it == [item[s][m] EXCEPT !.state = "CANCELLED"]
             newRow == [row[s] EXCEPT !.status = "FAILED"]
  <1>6. it \in Item /\ it.state = "CANCELLED" /\ it.attempt = item[s][m].attempt
    BY <1>5 DEF Item, State
  <1>7. newRow \in Row /\ newRow.status = "FAILED" /\ newRow.token = row[s].token
    BY <1>5 DEF Row, Status
  <1>8. /\ item' = IF open THEN [item EXCEPT ![s] = [item[s] EXCEPT ![m] = it]] ELSE item
        /\ row' = IF open /\ row[s].token = token /\ row[s].status = "RUNNING"
                  THEN [row EXCEPT ![s] = newRow] ELSE row
    BY <1>0, <1>3
  <1> HIDE DEF it, newRow, token
  <1>9. ScopesTypeOK'
    <2>1. [item[s] EXCEPT ![m] = it] \in [0 .. MaxItems -> Item]
      BY <1>5, <1>6
    <2>2. item' \in [Scope -> [0 .. MaxItems -> Item]] /\ row' \in [Scope -> Row]
      BY <1>0, <1>7, <1>8, <2>1
    <2>3. operator' \in [Operator -> Canceller]
      BY <1>0, <1>3, IdleTypes
    <2> QED
      BY <1>3, <2>2, <2>3 DEF SInv, ScopesTypeOK
  <1>10. \A u \in Scope : u # s => Same(u)
    BY <1>0, <1>3, <1>8 DEF Same
  <1>11. ScopeOK(s)'
    <2>1. CASE ~ open
      BY <1>3, <1>8, <2>1, ScopeFrame DEF SInv, Same
    <2>2. CASE open
      <3>1. /\ item'[s] = [item[s] EXCEPT ![m] = it] /\ bound'[s] = m /\ bound[s] = m
            /\ published'[s] = published[s]
        BY <1>0, <1>3, <1>4, <1>8, <2>2
      <3>2. Work(s)' = it /\ Work(s) = item[s][m]
        BY <1>5, <3>1 DEF Work
      <3>3. /\ \A k \in 0 .. MaxItems : k # m => item'[s][k] = item[s][k]
            /\ 0 \in 0 .. MaxItems
        BY <1>5, <3>1, IdleTypes
      <3>4. /\ row'[s].token = row[s].token
            /\ row'[s].status = row[s].status \/ row'[s].status = "FAILED"
        BY <1>0, <1>7, <1>8
      <3>5. Work(s).state \in Allowed(row[s].status) /\ Work(s).state \notin Terminal \cup {"ABSENT"}
        BY <1>2, <2>2, <3>2 DEF SInv, ScopeOK
      <3>6. row[s].status \notin {"ABSENT", "SUCCEEDED"}
        BY <3>5 DEF Allowed, Terminal
      <3>7. it.state \in Allowed(row'[s].status)
        BY <1>6, <3>4, <3>6 DEF Allowed
      <3>8. row'[s].token = [item |-> bound'[s], attempt |-> it.attempt]
        BY <1>6, <3>1, <3>2, <3>4 DEF SInv, ScopeOK
      <3>9. \A k \in 0 .. MaxItems : k # m => item'[s][k].state \in Terminal \cup {"ABSENT"}
        BY <3>1, <3>3 DEF SInv, ScopeOK
      <3>10. item'[s][0].state = "ABSENT"
        BY <1>2, <3>3 DEF SInv, ScopeOK
      <3>11. \A p \in published'[s] : p.by = p.under /\ p.state = "RUNNING"
        BY <3>1 DEF SInv, ScopeOK
      <3> QED
        BY <3>1, <3>2, <3>7, <3>8, <3>9, <3>10, <3>11 DEF ScopeOK
    <2> QED
      BY <2>1, <2>2
  <1>12. \A u \in Scope : ScopeOK(u)'
    BY <1>10, <1>11, ScopeFrame DEF SInv
  <1>13. \A r \in Runner : RunnerOK(r)'
    <2> SUFFICES ASSUME NEW r \in Runner PROVE RunnerOK(r)'
      OBVIOUS
    <2>1. runner'[r] = runner[r] /\ RunnerOK(r)
      BY <1>3 DEF SInv
    <2>2. CASE row' = row
      BY <2>1, <2>2, RunnerFrame
    <2>3. CASE row' # row
      <3>1. RowFree(s) /\ row' = [row EXCEPT ![s] = newRow]
        BY <1>3, <1>8, <2>3
      <3>2. runner[r].place = "publishing" =>
                runner[r].scope # s /\ runner[r].scope \in Scope
        BY <2>1, <3>1, FreeRow DEF RunnerOK
      <3>3. runner[r].place = "publishing" => row'[runner[r].scope] = row[runner[r].scope]
        BY <1>0, <3>1, <3>2
      <3> QED
        BY <2>1, <3>3, RunnerFrame
    <2> QED
      BY <2>2, <2>3
  <1>14. \A q \in Operator : OperatorOK(q)'
    <2>1. \A u \in Scope : \A k \in 0 .. MaxItems :
                item[u][k].state # "ABSENT" => item'[u][k].state # "ABSENT"
      BY <1>0, <1>6, <1>8
    <2>2. OperatorOK(o)'
      BY <1>0, <1>3 DEF OperatorOK, IdleOperator
    <2>3. \A q \in Operator : q # o => OperatorOK(q)'
      BY <1>0, <1>3, <2>1, OperatorFrame DEF SInv
    <2> QED
      BY <2>2, <2>3
  <1> QED
    BY <1>9, <1>12, <1>13, <1>14 DEF SInv

-----------------------------------------------------------------------------
\* Every step keeps the invariant.
LEMMA NextSInv == SInv /\ [Next]_vars => SInv'
  <1> SUFFICES ASSUME SInv, [Next]_vars PROVE SInv'
    OBVIOUS
  <1>1. ASSUME NEW s \in Scope, EnqueueScope(s) \/ FallDue(s) \/ Lapse(s) PROVE SInv'
    BY <1>1, RowActions
  <1>2. ASSUME NEW S \in SUBSET Scope, Refresh(S) PROVE SInv'
    BY <1>2, RefreshStep
  <1>3. ASSUME NEW r \in Runner, Works(r) \/ Crash(r) PROVE SInv'
    <2>1. CASE \/ BeginPublication(r) \/ AbortPublication(r) \/ LoseScope(r)
               \/ Crash(r) \/ ClaimNothing(r)
      BY <2>1, RunnerSteps
    <2>2. CASE EndPublication(r)
      BY <2>2, EndStep
    <2>3. CASE \E outcome \in {"SUCCEEDED", "FAILED", "DEFERRED"} : Settle(r, outcome)
      BY <2>3, SettleStep
    <2>4. CASE SettleCancelled(r)
      BY <2>4, SettleCancelledStep
    <2>5. CASE ClaimScope(r)
      BY <2>5, ClaimStep
    <2> QED
      BY <1>3, <2>1, <2>2, <2>3, <2>4, <2>5 DEF Works
  <1>4. ASSUME NEW r \in Runner, NEW s \in Scope, LookForScope(r, s) PROVE SInv'
    BY <1>4, RunnerSteps
  <1>5. ASSUME NEW o \in Operator, CancelScope(o) PROVE SInv'
    BY <1>5, CancelStep
  <1>6. ASSUME NEW o \in Operator, NEW s \in Scope, NEW n \in 1 .. MaxItems, ReadToken(o, s, n)
        PROVE  SInv'
    BY <1>6, ReadStep
  <1>7. CASE UNCHANGED vars
    BY <1>7 DEF vars, SInv, ScopesTypeOK, ScopeOK, RunnerOK, OperatorOK, Work
  <1> QED
    BY <1>1, <1>2, <1>3, <1>4, <1>5, <1>6, <1>7 DEF Next

\* The inductive invariant: types, rows and items in step, and row locks that
\* keep a publication's claim on the row.
THEOREM ScopesInvariance == Spec => []SInv
  BY InitSInv, NextSInv, PTL DEF Spec

\* Every variable of bulk acquisition keeps its type.
THEOREM ScopesTypes == Spec => []ScopesTypeOK
  <1>1. SInv => ScopesTypeOK
    BY DEF SInv
  <1> QED
    BY <1>1, ScopesInvariance, PTL

\* Row and item change together; the lease is the claim on the row.
THEOREM RowsFollowItems == Spec => []RowFollowsItem
  <1>1. SInv => RowFollowsItem
    BY DEF SInv, ScopeOK, RowFollowsItem
  <1> QED
    BY <1>1, ScopesInvariance, PTL

\* At most one item of a scope can ever run again.
THEOREM ItemsOpenOneAtATime == Spec => []OneOpenItem
  <1>1. SInv => OneOpenItem
    BY DEF SInv, ScopeOK, OneOpenItem
  <1> QED
    BY <1>1, ScopesInvariance, PTL

\* What is committed for a scope is committed under the row's present claim.
THEOREM ClaimantsPublish == Spec => []PublishedUnderClaim
  <1>1. SInv => PublishedUnderClaim
    BY DEF SInv, ScopeOK, PublishedUnderClaim
  <1> QED
    BY <1>1, ScopesInvariance, PTL

-----------------------------------------------------------------------------
(* Claims implement ScopePromise.                                            *)

\* The refinement mapping of Promise.
claim == [s \in Scope |-> row[s].token]
held == [s \in Scope |-> Holding(s)]
cancelled == [s \in Scope |-> Work(s).state = "CANCELLED"]
reopened == [s \in Scope |-> row[s].status = "PENDING"]
committed == [s \in Scope |-> {p.by : p \in published[s]}]

\* What the promise sees of a step that touches scope s only.
LEMMA OneScope ==
    ASSUME NEW s \in Scope, \A t \in Scope : t # s => Same(t)
    PROVE  /\ claim' = [claim EXCEPT ![s] = row'[s].token]
           /\ held' = [held EXCEPT ![s] = Holding(s)']
           /\ cancelled' = [cancelled EXCEPT ![s] = (Work(s)'.state = "CANCELLED")]
           /\ reopened' = [reopened EXCEPT ![s] = (row'[s].status = "PENDING")]
           /\ committed' = [committed EXCEPT ![s] = {p.by : p \in published'[s]}]
  <1>1. claim' = [claim EXCEPT ![s] = row'[s].token]
    BY DEF claim, Same
  <1>2. held' = [held EXCEPT ![s] = Holding(s)']
    BY DEF held, Holding, Same
  <1>3. cancelled' = [cancelled EXCEPT ![s] = (Work(s)'.state = "CANCELLED")]
    BY DEF cancelled, Work, Same
  <1>4. reopened' = [reopened EXCEPT ![s] = (row'[s].status = "PENDING")]
    BY DEF reopened, Same
  <1>5. committed' = [committed EXCEPT ![s] = {p.by : p \in published'[s]}]
    BY DEF committed, Same
  <1> QED
    BY <1>1, <1>2, <1>3, <1>4, <1>5

LEMMA KeptFields ==
    /\ (\A s \in Scope : row'[s].token = row[s].token) => claim' = claim
    /\ (\A s \in Scope : Holding(s)' = Holding(s)) => held' = held
    /\ UNCHANGED <<item, bound>> => cancelled' = cancelled
    /\ (\A s \in Scope : (row'[s].status = "PENDING") = (row[s].status = "PENDING"))
            => reopened' = reopened
    /\ UNCHANGED published => committed' = committed
  BY DEF claim, held, cancelled, reopened, committed, Work

\* A claim leases the bound item anew or an item made after it.  The trigger has
\* looked at row and item together: a running item lets itself be taken only when
\* its lease is over, a cancelled one is replaced only in a reopened scope.
LEMMA ClaimPromised ==
    ASSUME SInv, NEW r \in Runner, ClaimScope(r)
    PROVE  Promise!Next
  <1>a. PICK s \in Scope : s = runner[r].scope
    BY DEF SInv, RunnerOK, ClaimScope
  <1> DEFINE n == ItemToClaim(s)
             token == [item |-> n, attempt |-> item[s][n].attempt + 1]
  <1>0. /\ row \in [Scope -> Row] /\ bound \in [Scope -> 0 .. MaxItems] /\ bound[s] \in 0 .. MaxItems
        /\ item \in [Scope -> [0 .. MaxItems -> Item]]
    BY DEF SInv, ScopesTypeOK
  <1>1. n \in {bound[s], bound[s] + 1} /\ n <= MaxItems /\ item[s][n].attempt < MaxAttempts
    BY <1>a DEF ClaimScope, ItemToClaim
  <1>2. PICK m \in 0 .. MaxItems : m = n /\ m \in {bound[s], bound[s] + 1}
    BY <1>0, <1>1, ScopeBounds
  <1>3. PICK a \in 0 .. MaxAttempts : a = item[s][m].attempt /\ a < MaxAttempts
    BY <1>0, <1>1, <1>2 DEF Item
  <1>4. token = [item |-> m, attempt |-> a + 1] /\ token \in Token
    BY <1>2, <1>3, ScopeBounds DEF Token
  <1>5. /\ item' = [item EXCEPT ![s][m] = [state |-> "RUNNING", attempt |-> a + 1]]
        /\ bound' = [bound EXCEPT ![s] = m]
        /\ row' = [row EXCEPT ![s] = [status |-> "RUNNING", token |-> token,
                                      fresh |-> TRUE, due |-> TRUE]]
        /\ published' = published
    BY <1>a, <1>2, <1>3 DEF ClaimScope
  <1>6. row[s].token = [item |-> bound[s], attempt |-> item[s][bound[s]].attempt]
    BY DEF SInv, ScopeOK, Work
  <1>b. Holding(s) # "live"
    <2> SUFFICES ASSUME row[s].status = "RUNNING", row[s].fresh PROVE FALSE
      BY DEF Holding
    <2>1. Work(s).state \in {"RUNNING", "CANCELLED"}
      BY DEF SInv, ScopeOK, Allowed
    <2>2. CASE Work(s).state = "CANCELLED"
      BY <1>a, <2>2 DEF ClaimScope, CalledOff
    <2>3. CASE Work(s).state = "RUNNING"
      <3>1. bound[s] # 0
        BY <2>3 DEF SInv, ScopeOK, Work
      <3>2. n = bound[s]
        BY <2>3, <3>1 DEF ItemToClaim, Terminal
      <3>3. Takeable(s, bound[s])
        BY <1>a, <3>2 DEF ClaimScope
      <3> QED
        BY <2>3, <3>3 DEF Takeable, Work
    <2> QED
      BY <2>1, <2>2, <2>3
  <1>c. Work(s).state = "CANCELLED" => row[s].status = "PENDING"
    BY <1>a DEF ClaimScope, CalledOff
  <1> HIDE DEF n, token
  <1>7. Promise!Later(token, row[s].token)
    BY <1>0, <1>2, <1>3, <1>4, <1>6 DEF Promise!Later
  <1>8. /\ \A t \in Scope : t # s => Same(t)
        /\ row'[s] = [status |-> "RUNNING", token |-> token, fresh |-> TRUE, due |-> TRUE]
        /\ Work(s)'.state = "RUNNING"
    BY <1>0, <1>5 DEF Same, Work
  <1>9. Holding(s)' = "live"
    BY <1>8 DEF Holding
  <1>10. /\ claim' = [claim EXCEPT ![s] = token] /\ held' = [held EXCEPT ![s] = "live"]
         /\ cancelled' = [cancelled EXCEPT ![s] = FALSE]
         /\ reopened' = [reopened EXCEPT ![s] = FALSE] /\ committed' = committed
    <2>1. /\ row'[s].token = token /\ (Work(s)'.state = "CANCELLED") = FALSE
          /\ (row'[s].status = "PENDING") = FALSE
      BY <1>8
    <2> QED
      BY <1>5, <1>8, <1>9, <2>1, OneScope, KeptFields
  <1>11. PICK t \in Token : t = token
    BY <1>4
  <1>12. Promise!Claim(s, t)
    BY <1>b, <1>c, <1>7, <1>10, <1>11
       DEF Promise!Claim, claim, held, cancelled, reopened, committed
  <1> QED
    BY <1>11, <1>12 DEF Promise!Next

\* What a commit by r for s puts on record, seen from the promise.
LEMMA CommittedIs ==
    ASSUME SInv, NEW r \in Runner, NEW s \in Scope, Published(r, s),
           row[s].token = runner[r].token
    PROVE  /\ \A t \in Scope : t # s => published'[t] = published[t]
           /\ {p.by : p \in published'[s]} = committed[s] \cup {claim[s]}
  <1> DEFINE new == [by |-> runner[r].token, under |-> row[s].token, state |-> Work(s).state]
  <1>1. published \in [Scope -> SUBSET Publication]
    BY DEF SInv, ScopesTypeOK
  <1>2. published' = [published EXCEPT ![s] = published[s] \cup {new}]
    BY <1>1 DEF Published
  <1>3. new.by = claim[s]
    BY DEF claim
  <1> HIDE DEF new
  <1>4. published'[s] = published[s] \cup {new}
    BY <1>1, <1>2
  <1>5. {p.by : p \in published'[s]} = {p.by : p \in published[s]} \cup {new.by}
    BY <1>4
  <1> QED
    BY <1>1, <1>2, <1>3, <1>5 DEF committed

\* A publication commits under the claim it has kept locked.
LEMMA EndPromised ==
    ASSUME SInv, NEW r \in Runner, EndPublication(r)
    PROVE  Promise!Next
  <1>0. runner[r].place = "publishing" /\ UNCHANGED <<row, bound, item>>
    BY DEF EndPublication
  <1>1. PICK s \in Scope : /\ s = runner[r].scope /\ row[s].token = runner[r].token
                            /\ row[s].status = "RUNNING"
    BY <1>0 DEF SInv, RunnerOK
  <1>2. Work(s).state = "RUNNING" /\ row[s].fresh
    <2>1. Leases(s, runner[r].token)
      BY <1>1 DEF EndPublication
    <2>2. row[s].token = [item |-> bound[s], attempt |-> Work(s).attempt]
      BY DEF SInv, ScopeOK
    <2> QED
      BY <1>1, <2>1, <2>2 DEF Leases, Work
  <1>3. Published(r, s)
    BY <1>1 DEF EndPublication
  <1>4. /\ \A t \in Scope : t # s => Same(t)
        /\ {p.by : p \in published'[s]} = committed[s] \cup {claim[s]}
    BY <1>0, <1>1, <1>3, CommittedIs DEF Same
  <1>5. UNCHANGED <<claim, held, cancelled, reopened>>
    <2>1. \A t \in Scope : Holding(t)' = Holding(t)
      BY <1>0 DEF Holding
    <2> QED
      BY <1>0, <2>1, KeptFields
  <1>6. committed' = [committed EXCEPT ![s] = committed[s] \cup {claim[s]}]
    BY <1>4, OneScope
  <1>7. Holding(s) = "live" /\ Work(s).state # "CANCELLED"
    BY <1>1, <1>2 DEF Holding
  <1>8. held' = [held EXCEPT ![s] = "live"]
    BY <1>5, <1>7 DEF held
  <1>9. Promise!Commit(s, "live")
    BY <1>5, <1>6, <1>7, <1>8
       DEF Promise!Commit, claim, held, cancelled, reopened, committed
  <1> QED
    BY <1>9 DEF Promise!Next

\* An outcome ends the claim it was reached under.
LEMMA SettlePromised ==
    ASSUME SInv, NEW r \in Runner, NEW outcome \in {"SUCCEEDED", "FAILED", "DEFERRED"},
           Settle(r, outcome)
    PROVE  Promise!Next
  <1>0. /\ row \in [Scope -> Row] /\ bound \in [Scope -> 0 .. MaxItems]
        /\ item \in [Scope -> [0 .. MaxItems -> Item]]
    BY DEF SInv, ScopesTypeOK
  <1>1. PICK s \in Scope : s = runner[r].scope
    BY DEF SInv, RunnerOK, Settle
  <1>2. Authorized(s, runner[r].token) /\ Published(r, s)
    BY <1>1 DEF Settle
  <1>3. /\ row[s].token = runner[r].token /\ row[s].status = "RUNNING"
        /\ row[s].token = [item |-> bound[s], attempt |-> Work(s).attempt]
    BY <1>2 DEF SInv, ScopeOK, Authorized
  <1>4. Work(s).state = "RUNNING" /\ Holding(s) = "live"
    BY <1>2, <1>3 DEF Authorized, Leases, Work, Holding
  <1>5. /\ row' = [row EXCEPT ![s].status = outcome, ![s].due = FALSE] /\ bound' = bound
        /\ item' = [item EXCEPT ![s][bound[s]].state = ItemAfter(outcome)]
    BY <1>1 DEF Settle
  <1>6. /\ row'[s].status = outcome /\ row'[s].token = row[s].token
        /\ \A t \in Scope : t # s => row'[t] = row[t] /\ item'[t] = item[t]
    BY <1>0, <1>5 DEF Row
  <1>7. Work(s)'.state = ItemAfter(outcome)
    <2>1. PICK b \in 0 .. MaxItems : b = bound[s]
      BY <1>0
    <2>2. /\ item[s] \in [0 .. MaxItems -> Item] /\ item[s][b] \in Item
          /\ item'[s] = [item[s] EXCEPT ![b].state = ItemAfter(outcome)]
      BY <1>0, <1>5, <2>1
    <2>3. item'[s][b] = [item[s][b] EXCEPT !.state = ItemAfter(outcome)]
      BY <2>2
    <2>4. item'[s][b].state = ItemAfter(outcome)
      BY <2>2, <2>3 DEF Item
    <2> QED
      BY <1>5, <2>1, <2>4 DEF Work
  <1>8. /\ \A t \in Scope : t # s => Same(t)
        /\ {p.by : p \in published'[s]} = committed[s] \cup {claim[s]}
    BY <1>2, <1>3, <1>5, <1>6, CommittedIs DEF Same
  <1>9. Holding(s)' = "free" /\ (Work(s)'.state = "CANCELLED") = (Work(s).state = "CANCELLED")
    BY <1>4, <1>6, <1>7 DEF ItemAfter, Holding
  <1>10. claim' = claim /\ reopened' = reopened
    <2>1. \A t \in Scope : /\ row'[t].token = row[t].token
                           /\ (row'[t].status = "PENDING") = (row[t].status = "PENDING")
      BY <1>3, <1>6
    <2> QED
      BY <2>1, KeptFields
  <1>11. /\ held' = [held EXCEPT ![s] = "free"]
         /\ committed' = [committed EXCEPT ![s] = committed[s] \cup {claim[s]}]
    BY <1>8, <1>9, OneScope
  <1>12. cancelled' = cancelled
    <2>1. cancelled' = [cancelled EXCEPT ![s] = (Work(s)'.state = "CANCELLED")]
      BY <1>8, OneScope
    <2> QED
      BY <1>9, <2>1 DEF cancelled
  <1>13. Promise!Commit(s, "free")
    BY <1>4, <1>10, <1>11, <1>12
       DEF Promise!Commit, claim, held, cancelled, reopened, committed
  <1> QED
    BY <1>13 DEF Promise!Next

\* The holder of a cancelled claim ends it and commits nothing.
LEMMA SettleCancelledPromised ==
    ASSUME SInv, NEW r \in Runner, SettleCancelled(r)
    PROVE  Promise!Next
  <1>0. row \in [Scope -> Row]
    BY DEF SInv, ScopesTypeOK
  <1>1. PICK s \in Scope : s = runner[r].scope
    BY DEF SInv, RunnerOK, SettleCancelled
  <1>2. /\ row[s].status = "RUNNING" /\ Work(s).state = "CANCELLED"
        /\ row' = [row EXCEPT ![s].status = "FAILED", ![s].due = FALSE]
        /\ UNCHANGED <<bound, item, published>>
    BY <1>1 DEF SettleCancelled, Claimed
  <1>3. /\ row'[s].status = "FAILED" /\ \A t \in Scope : row'[t].token = row[t].token
        /\ \A t \in Scope : t # s => Same(t)
    BY <1>0, <1>2 DEF Row, Same
  <1>4. Holding(s)' = "free" /\ Holding(s) # "free"
    BY <1>2, <1>3 DEF Holding
  <1>5. held' = [held EXCEPT ![s] = "free"]
    BY <1>3, <1>4, OneScope
  <1>6. UNCHANGED <<claim, cancelled, reopened, committed>>
    <2>1. \A t \in Scope : (row'[t].status = "PENDING") = (row[t].status = "PENDING")
      BY <1>2, <1>3 DEF Same
    <2> QED
      BY <1>2, <1>3, <2>1, KeptFields
  <1>7. Promise!Release(s)
    BY <1>2, <1>4, <1>5, <1>6
       DEF Promise!Release, claim, held, cancelled, reopened, committed
  <1> QED
    BY <1>7 DEF Promise!Next

\* An administrator cancels the open item of a scope, which is the bound one, and
\* with it the claim, unless the token read before has gone from the row.
LEMMA CancelPromised ==
    ASSUME SInv, NEW o \in Operator, CancelScope(o)
    PROVE  Promise!Next \/ UNCHANGED <<claim, held, cancelled, reopened, committed>>
  <1>0. /\ row \in [Scope -> Row] /\ bound \in [Scope -> 0 .. MaxItems]
        /\ item \in [Scope -> [0 .. MaxItems -> Item]] /\ operator[o] \in Canceller
    BY DEF SInv, ScopesTypeOK
  <1>1. PICK s \in Scope : s = operator[o].scope
    BY <1>0 DEF CancelScope, Canceller
  <1>2. PICK m \in 0 .. MaxItems :
            m = operator[o].item /\ m # 0 /\ item[s][m].state # "ABSENT"
    BY <1>0, <1>1 DEF SInv, OperatorOK, CancelScope, Canceller
  <1> DEFINE open == item[s][m].state \notin Terminal
             projected == row[s].token = operator[o].token /\ row[s].status = "RUNNING"
  <1>3. /\ item' = IF open THEN [item EXCEPT ![s][m].state = "CANCELLED"] ELSE item
        /\ row' = IF open /\ projected THEN [row EXCEPT ![s].status = "FAILED"] ELSE row
        /\ UNCHANGED <<bound, published>>
    BY <1>1, <1>2 DEF CancelScope
  <1>3a. open => m = bound[s]
    BY <1>2 DEF SInv, ScopeOK
  <1>4. CASE ~ open
    <2>1. UNCHANGED <<row, item, bound, published>>
      BY <1>3, <1>4
    <2>2. \A t \in Scope : Holding(t)' = Holding(t)
      BY <2>1 DEF Holding
    <2> QED
      BY <2>1, <2>2, KeptFields
  <1>5. CASE open
    <2>1. m = bound[s]
      BY <1>3a, <1>5
    <2>2. Work(s).state # "CANCELLED" /\ Work(s) = item[s][m]
      BY <1>5, <2>1 DEF Work, Terminal
    <2>3. Work(s)'.state = "CANCELLED"
      <3>1. item[s] \in [0 .. MaxItems -> Item]
        BY <1>0
      <3>2. item'[s] = [item[s] EXCEPT ![m].state = "CANCELLED"] /\ bound'[s] = m
        BY <1>0, <1>3, <1>5, <2>1
      <3> QED
        BY <3>1, <3>2 DEF Work, Item
    <2>4. /\ row'[s].token = row[s].token /\ row'[s].fresh = row[s].fresh
          /\ \/ row'[s].status = row[s].status
             \/ row[s].status = "RUNNING" /\ row'[s].status = "FAILED"
      BY <1>0, <1>3 DEF Row
    <2>5. PICK h \in {"live", "lapsed", "free"} : h = Holding(s)'
      BY DEF Holding
    <2>5a. h \in {Holding(s), "free"}
      BY <2>4, <2>5 DEF Holding
    <2>6. \A t \in Scope : t # s => Same(t)
      BY <1>0, <1>3 DEF Same
    <2>7. \A t \in Scope : /\ row'[t].token = row[t].token
                           /\ (row'[t].status = "PENDING") = (row[t].status = "PENDING")
      BY <2>4, <2>6 DEF Same
    <2> HIDE DEF open, projected
    <2>8. UNCHANGED <<claim, reopened, committed>>
      BY <1>3, <2>7, KeptFields
    <2>9. held' = [held EXCEPT ![s] = h] /\ cancelled' = [cancelled EXCEPT ![s] = TRUE]
      <3>1. (Work(s)'.state = "CANCELLED") = TRUE
        BY <2>3
      <3> QED
        BY <2>5, <2>6, <3>1, OneScope
    <2>10. Promise!Cancel(s, h)
      BY <2>2, <2>5a, <2>8, <2>9
         DEF Promise!Cancel, claim, held, cancelled, reopened, committed
    <2> QED
      BY <2>10 DEF Promise!Next
  <1> QED
    BY <1>4, <1>5

\* Rows that become PENDING were not claimed, and nothing else changes in them.
LEMMA ReopenPromised ==
    ASSUME SInv, UNCHANGED <<bound, item, published>>, NEW S \in SUBSET Scope,
           \A t \in S : row[t].status # "RUNNING" /\ row'[t].status = "PENDING",
           \A t \in Scope : t \notin S => row'[t] = row[t],
           \A t \in Scope : row'[t].token = row[t].token
    PROVE  Promise!Next
  <1>1. \A t \in Scope : Holding(t)' = Holding(t)
    BY DEF Holding
  <1>2. UNCHANGED <<claim, held, cancelled, committed>>
    BY <1>1, KeptFields
  <1>3. reopened' = [t \in Scope |-> reopened[t] \/ t \in S]
    BY Zenon DEF reopened
  <1>4. \A t \in S : held[t] = "free"
    BY DEF held, Holding
  <1>5. Promise!Reopen(S)
    BY <1>2, <1>3, <1>4 DEF Promise!Reopen, claim, held, cancelled, reopened, committed
  <1> QED
    BY <1>5 DEF Promise!Next

\* A scope enters the worklist, its retry falls due, or its claim runs out.
LEMMA RowsPromised ==
    ASSUME SInv, NEW s \in Scope, EnqueueScope(s) \/ FallDue(s) \/ Lapse(s)
    PROVE  Promise!Next \/ UNCHANGED <<claim, held, cancelled, reopened, committed>>
  <1>0. row \in [Scope -> Row]
    BY DEF SInv, ScopesTypeOK
  <1>1. UNCHANGED <<bound, item, published>>
    BY DEF EnqueueScope, FallDue, Lapse
  <1>2. /\ \A t \in Scope : t # s => row'[t] = row[t]
        /\ \A t \in Scope : row'[t].token = row[t].token
    BY <1>0 DEF EnqueueScope, FallDue, Lapse, Row
  <1>3. CASE EnqueueScope(s)
    <2>1. row[s].status = "ABSENT" /\ row'[s].status = "PENDING"
      BY <1>0, <1>3 DEF EnqueueScope, Row
    <2>2. PICK S \in SUBSET Scope : S = {s}
      OBVIOUS
    <2>3. \A t \in S : row[t].status # "RUNNING" /\ row'[t].status = "PENDING"
      BY <2>1, <2>2
    <2>4. \A t \in Scope : t \notin S => row'[t] = row[t]
      BY <1>2, <2>2
    <2> QED
      BY <1>1, <1>2, <2>3, <2>4, ReopenPromised
  <1>4. CASE FallDue(s)
    <2>1. row'[s].status = row[s].status /\ row'[s].fresh = row[s].fresh
      BY <1>0, <1>4 DEF FallDue, Row
    <2>2. \A t \in Scope : /\ Holding(t)' = Holding(t)
                           /\ (row'[t].status = "PENDING") = (row[t].status = "PENDING")
      BY <1>2, <2>1 DEF Holding
    <2> QED
      BY <1>1, <1>2, <2>2, KeptFields
  <1>5. CASE Lapse(s)
    <2>1. /\ row[s].status = "RUNNING" /\ row[s].fresh
          /\ row'[s].status = "RUNNING" /\ ~ row'[s].fresh
      BY <1>0, <1>5 DEF Lapse, Row
    <2>2. Holding(s) = "live" /\ Holding(s)' = "lapsed"
      BY <2>1 DEF Holding
    <2>3. /\ \A t \in Scope : t # s => Same(t)
          /\ \A t \in Scope : (row'[t].status = "PENDING") = (row[t].status = "PENDING")
      BY <1>1, <1>2, <2>1 DEF Same
    <2>4. held' = [held EXCEPT ![s] = "lapsed"] /\ UNCHANGED <<claim, cancelled, reopened, committed>>
      BY <1>1, <1>2, <2>2, <2>3, OneScope, KeptFields
    <2>5. Promise!Lapse(s)
      BY <2>2, <2>4 DEF Promise!Lapse, claim, held, cancelled, reopened, committed
    <2> QED
      BY <2>5 DEF Promise!Next
  <1> QED
    BY <1>3, <1>4, <1>5

\* A run with refresh reopens scopes nobody has claimed.
LEMMA RefreshPromised ==
    ASSUME SInv, NEW S \in SUBSET Scope, Refresh(S)
    PROVE  Promise!Next
  <1>0. row \in [Scope -> Row]
    BY DEF SInv, ScopesTypeOK
  <1>1. UNCHANGED <<bound, item, published>>
    BY DEF Refresh
  <1>2. PICK R \in SUBSET Scope : R = {t \in S : Eligible(t)}
    OBVIOUS
  <1>3. \A t \in R : row[t].status # "RUNNING" /\ row'[t] = [row[t] EXCEPT !.status = "PENDING"]
    BY <1>2 DEF Refresh, Eligible
  <1>4. \A t \in Scope : t \notin R => row'[t] = row[t]
    BY <1>2 DEF Refresh
  <1>5. \A t \in R : row'[t].status = "PENDING" /\ row'[t].token = row[t].token
    BY <1>0, <1>3 DEF Row
  <1> QED
    BY <1>1, <1>3, <1>4, <1>5, ReopenPromised

\* Every step of bulk acquisition is a step of the promise or changes nothing in it.
LEMMA PromiseStep == ASSUME SInv, [Next]_vars PROVE [Promise!Next]_Promise!vars
  <1> DEFINE Still == UNCHANGED <<claim, held, cancelled, reopened, committed>>
  <1>1. ASSUME UNCHANGED <<row, bound, item, published>> PROVE Still
    <2>1. \A s \in Scope : Holding(s)' = Holding(s)
      BY <1>1 DEF Holding
    <2> QED
      BY <1>1, <2>1, KeptFields
  <1>2. ASSUME NEW r \in Runner, Works(r) \/ Crash(r) PROVE Promise!Next \/ Still
    <2>1. CASE \/ BeginPublication(r) \/ AbortPublication(r) \/ LoseScope(r)
               \/ Crash(r) \/ ClaimNothing(r)
      BY <1>1, <2>1 DEF BeginPublication, AbortPublication, LoseScope, Crash, ClaimNothing
    <2>2. CASE EndPublication(r)
      BY <2>2, EndPromised
    <2>3. CASE \E outcome \in {"SUCCEEDED", "FAILED", "DEFERRED"} : Settle(r, outcome)
      BY <2>3, SettlePromised
    <2>4. CASE SettleCancelled(r)
      BY <2>4, SettleCancelledPromised
    <2>5. CASE ClaimScope(r)
      BY <2>5, ClaimPromised
    <2> QED
      BY <1>2, <2>1, <2>2, <2>3, <2>4, <2>5 DEF Works
  <1>3. ASSUME NEW r \in Runner, NEW s \in Scope, LookForScope(r, s) PROVE Still
    BY <1>1, <1>3 DEF LookForScope
  <1>4. ASSUME NEW o \in Operator, CancelScope(o) PROVE Promise!Next \/ Still
    BY <1>4, CancelPromised
  <1>5. ASSUME \E o \in Operator, s \in Scope, n \in 1 .. MaxItems : ReadToken(o, s, n)
        PROVE  Still
    BY <1>1, <1>5 DEF ReadToken
  <1>6. ASSUME UNCHANGED vars PROVE Still
    BY <1>1, <1>6 DEF vars
  <1>7. ASSUME NEW s \in Scope, EnqueueScope(s) \/ FallDue(s) \/ Lapse(s)
        PROVE  Promise!Next \/ Still
    BY <1>7, RowsPromised
  <1> HIDE DEF Still
  <1>8. ASSUME Next PROVE Promise!Next \/ Still
    BY <1>2, <1>3, <1>4, <1>5, <1>7, <1>8, RefreshPromised DEF Next
  <1>9. Promise!Next \/ Still
    BY <1>6, <1>8
  <1> QED
    BY <1>9 DEF Still, Promise!vars, claim, held, cancelled, reopened, committed

\* Whatever lapses, is taken over, replaced, refreshed or cancelled with an outdated
\* token, and however old a claim's look at the item is: the claims of a scope come
\* in order and none is taken over while it is live, a runner commits only under
\* the last one and before its cancellation, and cancelled work is claimed again
\* only in a reopened scope (claim_scope, drive_provider_scope_work).
THEOREM ScopesKeepPromise == Spec => KeepsScopePromise
  <1>1. Init => Promise!Init
    <2> SUFFICES ASSUME Init PROVE Promise!Init
      OBVIOUS
    <2>1. \A s \in Scope : /\ row[s].token = NoToken /\ row[s].status = "ABSENT"
                           /\ Work(s).state = "ABSENT" /\ published[s] = {}
      BY IdleTypes DEF Init, Work
    <2>2. \A s \in Scope : Holding(s) = "free" /\ row[s].status # "PENDING"
      BY <2>1 DEF Holding
    <2> QED
      BY <2>1, <2>2 DEF Promise!Init
  <1>2. SInv /\ [Next]_vars => [Promise!Next]_Promise!vars
    BY PromiseStep
  <1> QED
    BY <1>1, <1>2, ScopesInvariance, PTL DEF Spec, KeepsScopePromise, Promise!Spec

=============================================================================
