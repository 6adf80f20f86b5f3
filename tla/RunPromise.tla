---- MODULE RunPromise ----
(***************************************************************************)
(* What sync runs promise to the rest of the system, without heartbeats,   *)
(* row locks or processes: a lane has one run at a time, a run starts once *)
(* and ends once, database sessions publish for it only while it runs, and *)
(* it ends only when none does.                                            *)
(***************************************************************************)
CONSTANTS Run, Session, Lane

VARIABLES
    status,     \* status[r]: the status of run r
    writers     \* writers[r]: the sessions that have a publication of r open

vars == <<status, writers>>

Open(r) == status[r] \in {"QUEUED", "RUNNING"}

Init ==
    /\ status = [r \in Run |-> "ABSENT"]
    /\ writers = [r \in Run |-> {}]

Request(r) ==
    /\ status[r] = "ABSENT"
    /\ \A q \in Run : Open(q) => Lane[q] # Lane[r]
    /\ status' = [status EXCEPT ![r] = "QUEUED"]
    /\ UNCHANGED writers

Start(r) ==
    /\ status[r] = "QUEUED"
    /\ status' = [status EXCEPT ![r] = "RUNNING"]
    /\ UNCHANGED writers

Succeed(r) ==
    /\ status[r] = "RUNNING" /\ writers[r] = {}
    /\ status' = [status EXCEPT ![r] = "SUCCEEDED"]
    /\ UNCHANGED writers

\* A run may be given up before it started.
GiveUp(r, s) ==
    /\ Open(r) /\ writers[r] = {}
    /\ status' = [status EXCEPT ![r] = s]
    /\ UNCHANGED writers

\* A session publishes for one run at a time.
Publish(s, r) ==
    /\ status[r] = "RUNNING"
    /\ \A q \in Run : s \notin writers[q]
    /\ writers' = [writers EXCEPT ![r] = @ \cup {s}]
    /\ UNCHANGED status

EndPublication(s, r) ==
    /\ s \in writers[r]
    /\ writers' = [writers EXCEPT ![r] = @ \ {s}]
    /\ UNCHANGED status

Next ==
    \/ \E r \in Run : Request(r) \/ Start(r) \/ Succeed(r)
    \/ \E r \in Run, s \in {"FAILED", "CANCELLED"} : GiveUp(r, s)
    \/ \E s \in Session, r \in Run : Publish(s, r) \/ EndPublication(s, r)

Spec == Init /\ [][Next]_vars

=============================================================================
