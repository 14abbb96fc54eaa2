---------------------------- MODULE AcceptSpaced ----------------------------
(***************************************************************************)
(* What the wallet promises whatever its clock and its mutex do: it        *)
(* executes only requests the client issued, only within the skew of the   *)
(* time they were issued for, and one request again only at a time further *)
(* than twice the skew less the lag from each time it executed it before.  *)
(***************************************************************************)
EXTENDS Integers

CONSTANTS
    Tasks, Nonces,
    Times,        \* the values of a clock
    Skew,         \* how far an execution may be from the request's stamp
    Lag           \* how stale the time of an execution may be

VARIABLES
    stamps,       \* nonce -> stamp, of the requests issued
    executions    \* records of task, nonce and time, one per execution

Distance(s, t) == IF s < t THEN t - s ELSE s - t

Init == stamps = [n \in {} |-> 0] /\ executions = {}

Issue(n, t) ==
    /\ n \notin DOMAIN stamps
    /\ stamps' = [m \in DOMAIN stamps \cup {n} |-> IF m = n THEN t ELSE stamps[m]]
    /\ UNCHANGED executions

Execute(k, n, t) ==
    /\ n \in DOMAIN stamps /\ Distance(t, stamps[n]) <= Skew
    /\ \A e \in executions :
          /\ e.task # k
          /\ e.nonce = n => Distance(e.at, t) + Lag > 2 * Skew
    /\ executions' = executions \cup {[task |-> k, nonce |-> n, at |-> t]}
    /\ UNCHANGED stamps

Next ==
    \/ \E n \in Nonces, t \in Times : Issue(n, t)
    \/ \E k \in Tasks, n \in Nonces, t \in Times : Execute(k, n, t)

Spec == Init /\ [][Next]_<<stamps, executions>>

=============================================================================
