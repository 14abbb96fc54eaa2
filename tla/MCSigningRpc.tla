---------------------------- MODULE MCSigningRpc ----------------------------
(* SigningRpc for TLC: two exchanges of an allowed client, and a third of it *)
(* that has a low-order reply key.                                           *)
EXTENDS SigningRpc, TLC

CONSTANTS x1, x2, weak, Alice, Stranger, Junk

MCOwner == (x1 :> Alice) @@ (x2 :> Alice) @@ (weak :> Alice)

\* One of each: a stranger's request in its own name, one in an allowed client's
\* name and a response in the server's, one too short each way, a damaged one.
MCStrayWires ==
    LET signed(id) == Seal(ServerKey, INFO_REQUEST,
                           [id |-> id, reply_pk |-> x1, body |-> Junk,
                            sig |-> Sign(Stranger, request_transcript(x1, Junk))])
        request == signed(Alice)
        response == Seal(x1, INFO_RESPONSE,
                         [body |-> Junk,
                          sig |-> Sign(Stranger, response_transcript(x1, Junk))])
        cut(w) == [w EXCEPT !.bytes = "short"]
    IN  {signed(Stranger), request, cut(request), [request EXCEPT !.bytes = "damaged"],
         response, cut(response)}

\* Bodies are alike, and so are answers.
Symmetry == Permutations(Bodies) \cup Permutations(Answers)

=============================================================================
