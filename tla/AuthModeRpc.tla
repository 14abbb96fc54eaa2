----------------------------- MODULE AuthModeRpc -----------------------------
(***************************************************************************)
(* examples/alt/secp256k1_authmode.rs: HPKE in auth mode both ways, so the *)
(* parties' KEM keys are their identities, and nothing is signed.  Each    *)
(* request travels with its sender's identity in the clear; the server     *)
(* looks it up before it opens the request with that key.  A response is   *)
(* bound to the two keys and its direction, and to no request.             *)
(*                                                                         *)
(* The clients have several exchanges open with one server that keeps      *)
(* nothing between them; the transport brings any wire to any party, with  *)
(* any identity beside it, any number of times and in any order.  HPKE is  *)
(* symbolic, and a key is the name of its holder.                          *)
(***************************************************************************)
CONSTANTS
    Exchanges,    \* the RPCs the clients make
    Owner,        \* whose each of them is: exchange -> client key
    Allowlist,    \* the client keys the server serves
    Identities,   \* client keys that may be claimed
    ServerKey,    \* the server's key
    Bodies,       \* bodies of requests
    Answers,      \* bodies of responses
    NotAsked,     \* no body: the exchange has not begun
    StrayWires    \* wires from anywhere else that may arrive

ASSUME PartyAssumption ==
    /\ Owner \in [Exchanges -> Identities]
    /\ Allowlist \subseteq Identities /\ ServerKey \notin Identities
    /\ NotAsked \notin Bodies
    /\ "server" \notin Exchanges /\ "nobody" \notin Exchanges

\* A stray wire is damaged, or sealed by neither the server nor a client of the
\* allowlist.
ASSUME StrayAssumption ==
    \A w \in StrayWires : w.whole => w.from \notin Allowlist \cup {ServerKey}

VARIABLES
    asked,      \* the body each exchange asked with
    serving,    \* requests handle() returned, not answered yet
    served,     \* requests with the answer sealed for them
    accepted,   \* pairs <<exchange, answer>>: what open_response returned
    refusal     \* the last error: at whom, for which wire and claim

vars == <<asked, serving, served, accepted, refusal>>

INFO_REQUEST  == "hpke-demo secp256k1-authmode request"
INFO_RESPONSE == "hpke-demo secp256k1-authmode response"

\* mod hpke_auth.  `enc` is the encapsulated key, fresh in every seal; that of a
\* request is named by its exchange, that of a response plays no part.
Seal(sender, recipient, info, enc, payload) ==
    [from |-> sender, to |-> recipient, info |-> info, enc |-> enc,
     payload |-> payload, whole |-> TRUE]

\* Variants (here and below, NAME_Variant): an operation with a bug that the
\* properties must tell from the code.  No action uses them.
Opens_AnyRecipient(recipient, sender, info, w) ==
    w.whole /\ w.from = sender /\ w.info = info

Opens(recipient, sender, info, w) ==
    w.whole /\ w.to = recipient /\ w.from = sender /\ w.info = info

\* Client::seal_request.
SealRequest(x, body) == Seal(Owner[x], ServerKey, INFO_REQUEST, x, body)

\* Server::seal_response.
SealResponse_AsRequest(client, body) ==
    Seal(ServerKey, client, INFO_REQUEST, "fresh", body)
SealResponse(client, body) == Seal(ServerKey, client, INFO_RESPONSE, "fresh", body)

Begun == {x \in Exchanges : asked[x] # NotAsked}
Requests == {SealRequest(x, asked[x]) : x \in Begun}
Responses == {SealResponse(s.client, s.answer) : s \in served}
Wires == Requests \cup Responses \cup StrayWires

Init ==
    /\ asked = [x \in Exchanges |-> NotAsked]
    /\ serving = {} /\ served = {} /\ accepted = {}
    /\ refusal = [by |-> "nobody"]

Refuse(who, w, claim) ==
    /\ refusal' = [by |-> who, wire |-> w, claim |-> claim]
    /\ UNCHANGED <<asked, serving, served, accepted>>

Ask(x, body) ==
    /\ asked[x] = NotAsked
    /\ asked' = [asked EXCEPT ![x] = body]
    /\ UNCHANGED <<serving, served, accepted, refusal>>

-----------------------------------------------------------------------------
\* Server::handle, one action per return.  That a claimed identity is no key
\* cannot follow the allowlist check, which only serialised keys pass.

Unauthorized(claim, w) ==
    /\ claim \notin Allowlist
    /\ Refuse("server", w, claim)

AuthenticationFailed(claim, w) ==
    /\ claim \in Allowlist /\ ~ Opens(ServerKey, claim, INFO_REQUEST, w)
    /\ Refuse("server", w, claim)

Handle_AnySender(claim, w) ==
    /\ claim \in Allowlist /\ Opens(ServerKey, w.from, INFO_REQUEST, w)
    /\ serving' = serving \cup {[client |-> claim, enc |-> w.enc, body |-> w.payload]}
    /\ UNCHANGED <<asked, served, accepted, refusal>>

Handle(claim, w) ==
    /\ claim \in Allowlist /\ Opens(ServerKey, claim, INFO_REQUEST, w)
    /\ serving' = serving \cup {[client |-> claim, enc |-> w.enc, body |-> w.payload]}
    /\ UNCHANGED <<asked, served, accepted, refusal>>

\* The server answers a request it has opened, to the key it opened it with.
Respond(s, a) ==
    /\ s \in serving
    /\ serving' = serving \ {s}
    /\ served' = served \cup
         {[client |-> s.client, enc |-> s.enc, body |-> s.body, answer |-> a]}
    /\ UNCHANGED <<asked, accepted, refusal>>

-----------------------------------------------------------------------------
\* Client::open_response, in exchange x: it takes nothing of the exchange.

ResponseUndecrypted(x, w) ==
    /\ ~ Opens(Owner[x], ServerKey, INFO_RESPONSE, w)
    /\ Refuse(x, w, "none")

OpenResponse_WithEnc(x, w) ==
    /\ Opens(Owner[x], ServerKey, INFO_RESPONSE, w)
    /\ accepted' = accepted \cup {<<x, w.enc>>}
    /\ UNCHANGED <<asked, serving, served, refusal>>

OpenResponse(x, w) ==
    /\ Opens(Owner[x], ServerKey, INFO_RESPONSE, w)
    /\ accepted' = accepted \cup {<<x, w.payload>>}
    /\ UNCHANGED <<asked, serving, served, refusal>>

AtServer(claim, w) ==
    Unauthorized(claim, w) \/ AuthenticationFailed(claim, w) \/ Handle(claim, w)
AtClient(x, w) == ResponseUndecrypted(x, w) \/ OpenResponse(x, w)

Next ==
    \/ \E x \in Exchanges, body \in Bodies : Ask(x, body)
    \/ \E claim \in Identities, w \in Wires : AtServer(claim, w)
    \/ \E s \in serving, a \in Answers : Respond(s, a)
    \/ \E x \in Begun, w \in Wires : AtClient(x, w)

Spec == Init /\ [][Next]_vars

-----------------------------------------------------------------------------
\* Properties.

Trusted == {x \in Exchanges : Owner[x] \in Allowlist}
Request(x) == [client |-> Owner[x], enc |-> x, body |-> asked[x]]

\* Every variable keeps its type.
TypeOK ==
    /\ asked \in [Exchanges -> Bodies \cup {NotAsked}]
    /\ \A s \in served : s.answer \in Answers
    /\ accepted \subseteq Begun \X Answers

\* Whatever identity stands beside a request, the server works only for clients
\* of its allowlist, under their own name and on what they asked.
ServedAsAsked ==
    /\ serving \subseteq {Request(x) : x \in Begun \cap Trusted}
    /\ \A s \in served : \E x \in Begun \cap Trusted :
          s = [client |-> Owner[x], enc |-> x, body |-> asked[x], answer |-> s.answer]

\* No party refuses what was sealed for it: the server no request that comes
\* with its sender's identity, the client no response to its key.
RefusalsJustified ==
    /\ refusal.by = "server" =>
          \A x \in Begun \cap Trusted :
              refusal.wire = SealRequest(x, asked[x]) => refusal.claim # Owner[x]
    /\ refusal.by \in Exchanges =>
          \A s \in served : s.client = Owner[refusal.by] =>
              refusal.wire # SealResponse(s.client, s.answer)

\* The auth-mode RPC as an implementation of Exchange, in which an exchange takes
\* an answer given to an exchange of the same client, and it need not be its own:
\* a client that makes one call after another may take for the answer to the
\* second a late, or a repeated, answer to the first.
Answered ==
    {e \in Exchanges \X Answers :
        \E s \in served : s.enc = e[1] /\ s.answer = e[2]}
SameClient == [x \in Exchanges |-> {y \in Exchanges : Owner[y] = Owner[x]}]
Ex == INSTANCE Exchange WITH
    asked <- Begun, answered <- Answered, Peers <- SameClient
ImplementsExchange == Ex!Spec

=============================================================================
