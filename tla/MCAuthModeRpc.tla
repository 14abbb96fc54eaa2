---------------------------- MODULE MCAuthModeRpc ----------------------------
(* AuthModeRpc for TLC: two exchanges of one allowed client, one of another, *)
(* and the messages of a stranger among the stray wires, which bring neither *)
(* a body nor an answer of theirs.                                           *)
EXTENDS AuthModeRpc, TLC

CONSTANTS x1, x2, x3, Alice, Bob, Stranger, Junk

MCOwner == (x1 :> Alice) @@ (x2 :> Alice) @@ (x3 :> Bob)

\* A request and a response sealed by the stranger, and damaged ones.
MCStrayWires ==
    LET request == Seal(Stranger, ServerKey, INFO_REQUEST, x3, Junk)
        response == Seal(Stranger, Alice, INFO_RESPONSE, "fresh", Junk)
    IN  {request, response, [request EXCEPT !.from = Alice, !.whole = FALSE],
         [response EXCEPT !.from = ServerKey, !.whole = FALSE]}

\* Alice's exchanges are alike, and so are the answers.
Symmetry == Permutations({x1, x2}) \cup Permutations(Answers)

=============================================================================
