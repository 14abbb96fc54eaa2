----------------------------- MODULE SigningRpc -----------------------------
(***************************************************************************)
(* The signing variants, examples/alt/ed25519_signing.rs and               *)
(* secp256k1_signing.rs: HPKE in base mode, which names no sender, around  *)
(* payloads that their sender signs.  Both have the same structure; the    *)
(* lines of the ed25519 variant are the ones translated.                   *)
(*                                                                         *)
(* The clients have several exchanges open, each under its own reply key,  *)
(* with one server that keeps nothing between them.  The transport brings  *)
(* any wire to any party, any number of times and in any order.            *)
(* Signatures and HPKE are symbolic.                                       *)
(***************************************************************************)
CONSTANTS
    Exchanges,    \* the RPCs the clients make
    Owner,        \* whose each of them is: exchange -> identity key
    LowOrder,     \* those whose reply key no secret can be agreed with
    Allowlist,    \* the client identities the server serves
    ServerKey,    \* the server's KEM key
    ServerId,     \* the server's identity key
    Bodies,       \* bodies of requests
    Answers,      \* bodies of responses
    NotAsked,     \* no body: the exchange has not begun
    StrayWires    \* wires from anywhere else that may arrive

\* A stray wire does not decrypt, is too short for its fixed fields, or is
\* signed by neither the server nor a client of the allowlist, whatever
\* identity it claims.
Stray(w) ==
    \/ w.bytes \in {"damaged", "short"}
    \/ w.payload.sig.by \notin Allowlist \cup {ServerId}

ASSUME WireAssumption == \A w \in StrayWires : Stray(w)
ASSUME NameAssumption ==
    /\ NotAsked \notin Bodies /\ LowOrder \subseteq Exchanges
    /\ "panic" \notin Exchanges
    /\ "server" \notin Exchanges /\ "nobody" \notin Exchanges

VARIABLES
    asked,      \* the body each exchange asked with
    serving,    \* requests open_request returned, not answered yet
    served,     \* requests with the answer framed for them
    accepted,   \* pairs <<exchange, answer>>: what open_response returned
    refusal     \* the last error: at whom, for which wire and why

vars == <<asked, serving, served, accepted, refusal>>

INFO_REQUEST  == "hpke-demo request"
INFO_RESPONSE == "hpke-demo response"

\* mod identity: a signature is its signer and the transcript signed.
request_transcript(reply_pk, body) ==
    [domain |-> "request", reply_pk |-> reply_pk, body |-> body]
response_transcript(reply_pk, body) ==
    [domain |-> "response", reply_pk |-> reply_pk, body |-> body]
Sign(id, transcript) == [by |-> id, over |-> transcript]
Verify(id, transcript, sig) == sig = Sign(id, transcript)

\* mod hpke_base: a wire opens for its recipient and in its direction.  seal()
\* unwraps the sender setup, which refuses a key of low order: it returns or
\* panics.  from_bytes takes such a key, a client that draws its own has none, and
\* secp256k1 has none.
SealReturns(recipient) == recipient \notin LowOrder
Seal(recipient, info, payload) ==
    [to |-> recipient, info |-> info, payload |-> payload, bytes |-> "whole"]
Opens(recipient, info, w) ==
    w.bytes # "damaged" /\ w.to = recipient /\ w.info = info

\* Variants (here and below, NAME_Variant): an operation with a bug that the
\* properties must tell from the code.  No action uses them.
ReplyKey_OnePerClient(x) == Owner[x]

\* The key pair drawn for an exchange.
ReplyKey(x) == x

\* Client::frame_request: `id || sig || reply_pk || body`, sealed to the server.
FrameRequest(x, body) ==
    Seal(ServerKey, INFO_REQUEST,
         [id |-> Owner[x], reply_pk |-> ReplyKey(x), body |-> body,
          sig |-> Sign(Owner[x], request_transcript(ReplyKey(x), body))])

\* Server::frame_response: `sig || body`, sealed to the request's reply key.
FrameResponse_OtherKey(reply_pk, body) ==
    Seal(reply_pk, INFO_RESPONSE,
         [body |-> body, sig |-> Sign(ServerId, response_transcript(ServerKey, body))])

FrameResponse(reply_pk, body) ==
    Seal(reply_pk, INFO_RESPONSE,
         [body |-> body, sig |-> Sign(ServerId, response_transcript(reply_pk, body))])

Begun == {x \in Exchanges : asked[x] # NotAsked}
Requests == {FrameRequest(x, asked[x]) : x \in Begun}
Responses == {FrameResponse(s.reply_pk, s.answer) : s \in served}
Wires == Requests \cup Responses \cup StrayWires

Init ==
    /\ asked = [x \in Exchanges |-> NotAsked]
    /\ serving = {} /\ served = {}
    /\ accepted = {}
    /\ refusal = [by |-> "nobody"]

Refuse(who, w, reason) ==
    /\ refusal' = [by |-> who, wire |-> w, reason |-> reason]
    /\ UNCHANGED <<asked, serving, served, accepted>>

\* A client frames a request under a fresh reply key.
Ask(x, body) ==
    /\ asked[x] = NotAsked
    /\ asked' = [asked EXCEPT ![x] = body]
    /\ UNCHANGED <<serving, served, accepted, refusal>>

-----------------------------------------------------------------------------
\* Server::open_request, one action per return.

ServerOpens(w) == Opens(ServerKey, INFO_REQUEST, w)
Signed(p) == Verify(p.id, request_transcript(p.reply_pk, p.body), p.sig)

RequestUndecrypted(w) ==
    /\ ~ ServerOpens(w)
    /\ Refuse("server", w, "decrypt")

RequestMalformed(w) ==
    /\ ServerOpens(w) /\ w.bytes = "short"
    /\ Refuse("server", w, "malformed request")

RequestUnauthorized(w) ==
    /\ ServerOpens(w) /\ w.bytes # "short"
    /\ w.payload.id \notin Allowlist
    /\ Refuse("server", w, "unauthorized")

RequestBadSignature(w) ==
    /\ ServerOpens(w) /\ w.bytes # "short"
    /\ w.payload.id \in Allowlist /\ ~ Signed(w.payload)
    /\ Refuse("server", w, "bad client signature")

OpenRequest_Unverified(w) ==
    /\ ServerOpens(w) /\ w.bytes # "short"
    /\ w.payload.id \in Allowlist
    /\ serving' = serving \cup
         {[client |-> w.payload.id, reply_pk |-> w.payload.reply_pk,
           body |-> w.payload.body]}
    /\ UNCHANGED <<asked, served, accepted, refusal>>

OpenRequest(w) ==
    /\ ServerOpens(w) /\ w.bytes # "short"
    /\ w.payload.id \in Allowlist /\ Signed(w.payload)
    /\ serving' = serving \cup
         {[client |-> w.payload.id, reply_pk |-> w.payload.reply_pk,
           body |-> w.payload.body]}
    /\ UNCHANGED <<asked, served, accepted, refusal>>

\* The server answers a request it has opened, with any body.
Respond(s, a) ==
    /\ s \in serving /\ SealReturns(s.reply_pk)
    /\ serving' = serving \ {s}
    /\ served' = served \cup
         {[client |-> s.client, reply_pk |-> s.reply_pk, body |-> s.body,
           answer |-> a]}
    /\ UNCHANGED <<asked, accepted, refusal>>

\* The seal of its answer panics.  The server has nothing that the panic loses but
\* the request it was answering.
ResponsePanics(s) ==
    /\ s \in serving /\ ~ SealReturns(s.reply_pk)
    /\ serving' = serving \ {s}
    /\ refusal' = [by |-> "panic", request |-> s]
    /\ UNCHANGED <<asked, served, accepted>>

-----------------------------------------------------------------------------
\* Client::open_response in exchange x, one action per return.

ClientOpens(x, w) == Opens(ReplyKey(x), INFO_RESPONSE, w)
SignedFor(x, p) ==
    Verify(ServerId, response_transcript(ReplyKey(x), p.body), p.sig)

ResponseUndecrypted(x, w) ==
    /\ ~ ClientOpens(x, w)
    /\ Refuse(x, w, "decrypt")

ResponseMalformed(x, w) ==
    /\ ClientOpens(x, w) /\ w.bytes = "short"
    /\ Refuse(x, w, "malformed response")

ResponseBadSignature(x, w) ==
    /\ ClientOpens(x, w) /\ w.bytes # "short"
    /\ ~ SignedFor(x, w.payload)
    /\ Refuse(x, w, "bad server signature")

OpenResponse_Unverified(x, w) ==
    /\ ClientOpens(x, w) /\ w.bytes # "short"
    /\ accepted' = accepted \cup {<<x, w.payload.body>>}
    /\ UNCHANGED <<asked, serving, served, refusal>>

OpenResponse_Unsplit(x, w) ==
    /\ ClientOpens(x, w) /\ w.bytes # "short"
    /\ SignedFor(x, w.payload)
    /\ accepted' = accepted \cup {<<x, w.payload>>}
    /\ UNCHANGED <<asked, serving, served, refusal>>

OpenResponse(x, w) ==
    /\ ClientOpens(x, w) /\ w.bytes # "short"
    /\ SignedFor(x, w.payload)
    /\ accepted' = accepted \cup {<<x, w.payload.body>>}
    /\ UNCHANGED <<asked, serving, served, refusal>>

AtServer(w) ==
    \/ RequestUndecrypted(w) \/ RequestMalformed(w) \/ RequestUnauthorized(w)
    \/ RequestBadSignature(w) \/ OpenRequest(w)

AtClient(x, w) ==
    \/ ResponseUndecrypted(x, w) \/ ResponseMalformed(x, w)
    \/ ResponseBadSignature(x, w) \/ OpenResponse(x, w)

Next ==
    \/ \E x \in Exchanges, body \in Bodies : Ask(x, body)
    \/ \E w \in Wires : AtServer(w)
    \/ \E s \in serving : ResponsePanics(s) \/ \E a \in Answers : Respond(s, a)
    \/ \E x \in Begun, w \in Wires : AtClient(x, w)

Spec == Init /\ [][Next]_vars

-----------------------------------------------------------------------------
\* Properties.

Request(x) ==
    [client |-> Owner[x], reply_pk |-> ReplyKey(x), body |-> asked[x]]
Trusted == {x \in Exchanges : Owner[x] \in Allowlist}

\* Every variable keeps its type.
TypeOK ==
    /\ asked \in [Exchanges -> Bodies \cup {NotAsked}]
    /\ \A s \in served : s.answer \in Answers
    /\ accepted \subseteq Begun \X Answers

\* The server works only for clients of its allowlist, and only on what they
\* asked, under the reply key they asked it under.
ServedAsAsked ==
    /\ serving \subseteq {Request(x) : x \in Begun \cap Trusted}
    /\ \A s \in served : \E x \in Begun \cap Trusted :
          s = [client |-> Owner[x], reply_pk |-> ReplyKey(x), body |-> asked[x],
               answer |-> s.answer]

\* However responses are delivered, an exchange takes only an answer that the
\* server gave to that exchange's own request.
AnswersOwnRequest ==
    \A e \in accepted :
        \E s \in served :
            /\ s.client = Owner[e[1]] /\ s.reply_pk = ReplyKey(e[1])
            /\ s.body = asked[e[1]] /\ s.answer = e[2]

\* An error means that the wire was not meant for whoever refused it: the
\* server refuses no request of a client it allows, and no exchange refuses a
\* response framed for it.
RefusalsJustified ==
    /\ refusal.by = "server" =>
          \A x \in Begun \cap Trusted : refusal.wire # FrameRequest(x, asked[x])
    /\ refusal.by \in Exchanges =>
          \A s \in served : s.reply_pk = ReplyKey(refusal.by)
              => refusal.wire # FrameResponse(s.reply_pk, s.answer)

\* The signing RPC as an implementation of Exchange, in which an exchange takes
\* only answers given to itself.
Answered ==
    {e \in Exchanges \X Answers :
        \E s \in served : s.reply_pk = ReplyKey(e[1]) /\ s.answer = e[2]}
ItselfOnly == [x \in Exchanges |-> {x}]
Ex == INSTANCE Exchange WITH
    asked <- Begun, answered <- Answered, Peers <- ItselfOnly
ImplementsExchange == Ex!Spec

=============================================================================
