----------------------------- MODULE AcceptOnce -----------------------------
(***************************************************************************)
(* What the wallet promises its client: it executes only requests the      *)
(* client issued, and each of them at most once, whichever of its tasks    *)
(* gets to run it.                                                         *)
(***************************************************************************)
CONSTANTS Tasks, Nonces

VARIABLES
    issued,       \* the nonces of the requests the client has issued
    executions    \* pairs <<task, nonce>>, one per execution

Init == issued = {} /\ executions = {}

Issue(n) ==
    /\ n \notin issued
    /\ issued' = issued \cup {n}
    /\ UNCHANGED executions

Execute(k, n) ==
    /\ n \in issued
    /\ \A e \in executions : e[1] # k /\ e[2] # n
    /\ executions' = executions \cup {<<k, n>>}
    /\ UNCHANGED issued

Next ==
    \/ \E n \in Nonces : Issue(n)
    \/ \E k \in Tasks, n \in Nonces : Execute(k, n)

Spec == Init /\ [][Next]_<<issued, executions>>

=============================================================================
