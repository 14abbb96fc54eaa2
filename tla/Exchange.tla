------------------------------ MODULE Exchange ------------------------------
(***************************************************************************)
(* What an authenticated RPC promises when several exchanges are open at   *)
(* once: the server answers only what a client it trusts asked, and an     *)
(* exchange takes only an answer the server gave to that exchange, or to   *)
(* another that the protocol does not tell from it.                        *)
(***************************************************************************)
CONSTANTS
    Exchanges,   \* the RPCs
    Trusted,     \* those of the clients the server serves
    Peers,       \* exchange -> those whose answers it may take
    Answers      \* the bodies of responses

VARIABLES
    asked,       \* the exchanges that have begun
    answered,    \* pairs <<exchange, answer>> the server gave
    accepted     \* pairs <<exchange, answer>> the client took

Init == asked = {} /\ answered = {} /\ accepted = {}

Ask(x) ==
    /\ x \notin asked
    /\ asked' = asked \cup {x}
    /\ UNCHANGED <<answered, accepted>>

Answer(x, a) ==
    /\ x \in asked \cap Trusted
    /\ answered' = answered \cup {<<x, a>>}
    /\ UNCHANGED <<asked, accepted>>

Accept(x, a) ==
    /\ x \in asked
    /\ \E y \in Peers[x] : <<y, a>> \in answered
    /\ accepted' = accepted \cup {<<x, a>>}
    /\ UNCHANGED <<asked, answered>>

Next ==
    \E x \in Exchanges :
        Ask(x) \/ \E a \in Answers : Answer(x, a) \/ Accept(x, a)

Spec == Init /\ [][Next]_<<asked, answered, accepted>>

=============================================================================
