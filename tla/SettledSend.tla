---------------------------- MODULE SettledSend ----------------------------
(***************************************************************************)
(* What a client may make of its sends when anything between it and the    *)
(* wallet may fail: each posts a request, perhaps one posted before, and   *)
(* the wallet may run it until the send is told an answer, even after the  *)
(* client gave up.  Whether another send of a request runs is a matter of  *)
(* time alone: each run is near the request's stamp, and further than      *)
(* twice the skew less the lag from every earlier run of it.  What a send  *)
(* is told is true, then and ever after.                                   *)
(***************************************************************************)
EXTENDS Integers

CONSTANTS
    Sends, Requests,
    Stamp,       \* request -> the time it was sealed for
    Times,       \* the values of the wallet's clock
    Skew,        \* how far a run may be from the stamp
    Lag,         \* how stale the time of a run may be
    Unknown,     \* what a send is told by whoever does not know
    Denials      \* what it is told if it was not, and will not be, run

VARIABLES
    asked,       \* send -> the request it posted
    ran,         \* records of send and time, one per run of a request
    told         \* send -> "none", "ok", "replayed" or why not

Distance(s, t) == IF s < t THEN t - s ELSE s - t
HasRun(s) == \E q \in ran : q.send = s

Init ==
    /\ asked = [s \in {} |-> {}] /\ ran = {}
    /\ told = [s \in Sends |-> "none"]

Post(s, r) ==
    /\ s \notin DOMAIN asked
    /\ asked' = [q \in DOMAIN asked \cup {s} |-> IF q = s THEN r ELSE asked[q]]
    /\ UNCHANGED <<ran, told>>

Run(s, t) ==
    /\ told[s] \in Unknown \cup {"none"} /\ s \in DOMAIN asked
    /\ Distance(t, Stamp[asked[s]]) <= Skew
    /\ \A q \in ran :
          /\ q.send # s
          /\ asked[q.send] = asked[s] => Distance(q.at, t) + Lag > 2 * Skew
    /\ ran' = ran \cup {[send |-> s, at |-> t]}
    /\ UNCHANGED <<asked, told>>

Tell(s, answer) ==
    /\ told[s] = "none" /\ s \in DOMAIN asked
    /\ \/ answer = "ok" /\ HasRun(s)
       \/ /\ answer = "replayed" /\ ~ HasRun(s)
          /\ \E q \in ran : asked[q.send] = asked[s]
       \/ answer \in Denials /\ ~ HasRun(s)
       \/ answer \in Unknown
    /\ told' = [told EXCEPT ![s] = answer]
    /\ UNCHANGED <<asked, ran>>

\* Most steps of a system that implements this change nothing here; said first,
\* TLC need not try the rest on them.
Next ==
    \/ UNCHANGED <<asked, ran, told>>
    \/ \E s \in Sends, r \in Requests : Post(s, r)
    \/ \E s \in Sends, t \in Times : Run(s, t)
    \/ \E s \in Sends, answer \in {"ok", "replayed"} \cup Denials \cup Unknown :
          Tell(s, answer)

Spec == Init /\ [][Next]_<<asked, ran, told>>

=============================================================================
