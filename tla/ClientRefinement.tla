-------------------------- MODULE ClientRefinement --------------------------
(* The clients of dao/client.js implement ClientPromise. *)
EXTENDS Client

\* The life of the connection for an id, read off the client, its socket and
\* its timer.
Status(id) ==
    LET c == of[id]
    IN  CASE c = None -> "none"
          [] c # None /\ sock[c] = None -> "refused"
          [] c # None /\ sock[c] # None /\ sstate[sock[c]] = "connecting" -> "trying"
          [] c # None /\ sock[c] # None /\ sstate[sock[c]] = "open" -> "up"
          [] c # None /\ sock[c] # None /\ sstate[sock[c]] = "dying" -> "lost"
          [] OTHER -> IF retryTimer[c] THEN "waiting"
                      ELSE IF frame = Closing(sock[c]) THEN "lost"
                      ELSE IF gone[c] THEN "over" ELSE "refused"

Statuses == [id \in Ids |-> Status(id)]

\* The automatic attempts a client still has, and whether it saw a violation.
Attempts   == [id \in Ids |-> IF of[id] = None THEN MaxRetries ELSE retriesRemaining[of[id]]]
Violations == [id \in Ids |-> of[id] # None /\ protocolViolation[of[id]]]

Promise == INSTANCE ClientPromise WITH
    status <- Statuses, left <- Attempts, violated <- Violations

\* Every step of the clients, for an application that knows only the events,
\* is a step of the promised life cycle or no step at all: no second connection
\* behind its back, no attempt beyond the budget, no new wait after a violation.
KeepsPromise == Promise!Spec
=============================================================================
