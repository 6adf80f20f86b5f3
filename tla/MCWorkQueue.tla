---- MODULE MCWorkQueue ----
(***************************************************************************)
(* WorkQueue with two items, one of two attempts and one of one, and two   *)
(* workers.                                                                *)
(***************************************************************************)
EXTENDS WorkQueueProperties

CONSTANTS w1, w2, p1, p2

MCWork == {w1, w2}
MCWorker == {p1, p2}
MCScope == [p \in MCWorker |-> MCWork]
MCPriority == [w \in MCWork |-> IF w = w1 THEN 1 ELSE 0]
MCMaxAttempts == [w \in MCWork |-> IF w = w1 THEN 2 ELSE 1]

\* An expired lease of w1 is only replaced after a tick.
MCBackoff == [w \in MCWork |-> [n \in 1 .. MCMaxAttempts[w] |-> n]]
MCExpiryDelay == [w \in MCWork |-> [n \in 1 .. MCMaxAttempts[w] |->
                    IF w = w1 THEN 1 ELSE 0]]

=============================================================================
