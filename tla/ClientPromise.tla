--------------------------- MODULE ClientPromise ---------------------------
(***************************************************************************)
(* What an application may rely on for each id of ipc.of, whatever sockets, *)
(* timers and Client objects the library uses: the life of a connection as *)
(* 'connect', 'disconnect' and 'destroy' show it.                          *)
(*                                                                         *)
(* none     ipc.of has no client                                           *)
(* refused  an exception has ended the last attempt, nothing is pending    *)
(* trying   a connection attempt is under way                              *)
(* up       connected                                                      *)
(* lost     the connection is gone, and the client has not decided yet     *)
(* waiting  the client will try again                                      *)
(* over     the client has published 'destroy'                             *)
(***************************************************************************)
EXTENDS Integers

CONSTANTS Ids, MaxRetries, Infinity

VARIABLES
    status,   \* of the client for each id
    left,     \* automatic attempts it still has
    violated  \* it has seen a protocol violation

vars == <<status, left, violated>>

Init ==
    /\ status = [id \in Ids |-> "none"]
    /\ left = [id \in Ids |-> MaxRetries]
    /\ violated = [id \in Ids |-> FALSE]

Becomes(id, new) == status' = [status EXCEPT ![id] = new]

Anew(id) ==
    /\ left' = [left EXCEPT ![id] = MaxRetries]
    /\ violated' = [violated EXCEPT ![id] = FALSE]

\* connectTo: never for a client that is connected or about to be.
Obtain(id) ==
    /\ status[id] \in {"none", "refused", "lost", "waiting", "over"}
    /\ Becomes(id, "trying") \/ Becomes(id, "refused")
    /\ Anew(id)

\* disconnect
Release(id) == status[id] # "none" /\ Becomes(id, "none") /\ Anew(id)

\* connect() by the application costs no attempt.
Connect(id) ==
    /\ status[id] \in {"refused", "lost", "waiting", "over"}
    /\ Becomes(id, "trying")
    /\ UNCHANGED <<left, violated>>

\* 'connect'
Open(id) ==
    /\ status[id] = "trying"
    /\ Becomes(id, "up")
    /\ left' = [left EXCEPT ![id] = MaxRetries]
    /\ UNCHANGED violated

Lose(id) ==
    /\ status[id] \in {"trying", "up"}
    /\ Becomes(id, "lost")
    /\ UNCHANGED <<left, violated>>

\* A violation on its connection ends it; the message timer of an earlier
\* connection only leaves its mark.
Violate(id) ==
    /\ status[id] # "none"
    /\ \/ status[id] \in {"trying", "up"} /\ Becomes(id, "lost")
       \/ UNCHANGED status
    /\ violated' = [violated EXCEPT ![id] = TRUE]
    /\ UNCHANGED left

\* 'disconnect': the client waits for another attempt only if it has one left
\* and has seen no violation.
Wait(id) ==
    /\ status[id] = "lost"
    /\ left[id] # 0 /\ ~violated[id]
    /\ Becomes(id, "waiting")
    /\ UNCHANGED <<left, violated>>

\* 'destroy'
GiveUp(id) ==
    /\ status[id] \in {"lost", "waiting"}
    /\ Becomes(id, "over")
    /\ UNCHANGED <<left, violated>>

\* connect() or connectTo throws, and the wait for another attempt is over.
Refuse(id) ==
    /\ status[id] = "waiting"
    /\ Becomes(id, "refused")
    /\ UNCHANGED <<left, violated>>

\* An automatic attempt; connect() may throw.
Retry(id) ==
    /\ status[id] = "waiting"
    /\ Becomes(id, "trying") \/ Becomes(id, "refused")
    /\ left' = [left EXCEPT ![id] = IF @ = Infinity THEN @ ELSE @ - 1]
    /\ UNCHANGED violated

Next ==
    \E id \in Ids :
        \/ Obtain(id) \/ Release(id) \/ Connect(id) \/ Open(id) \/ Lose(id)
        \/ Violate(id) \/ Wait(id) \/ GiveUp(id) \/ Refuse(id) \/ Retry(id)

Spec == Init /\ [][Next]_vars
=============================================================================
