------------------------------ MODULE BwcFull ------------------------------
(***************************************************************************)
(* The served deployment of examples/bwc_full.rs: clients' send() calls,   *)
(* the relay's forward_request handlers and the wallet server, composed.   *)
(* The relay forwards each request once, so the n-th call, the handler     *)
(* that serves it and the wallet task it leads to share one name, and      *)
(* Tasks is also the set of calls.  Both HTTP hops may fail at any point,  *)
(* before the wallet got the request or after it ran it, and both reqwest  *)
(* clients give up after 30 seconds.                                       *)
(***************************************************************************)
EXTENDS WalletServer

CONSTANTS
    Conns,        \* connection ids (hex of a wallet's public key)
    NoToken,      \* no Authorization header
    TokenNames,   \* what calls present: bearer tokens, or NoToken
    Routes,       \* Relay.wallets: the connections with a wallet behind them
    Grants        \* Relay.tokens: token -> the one connection it opens

ASSUME RelayAssumption ==
    /\ Routes \subseteq Conns
    /\ NoToken \notin DOMAIN Grants

VARIABLES
    conn,      \* the connection of the string the client holds
    call,      \* a send() call: "idle", "waiting" or "returned"
    posted,    \* the sealed bytes the call posted
    token,     \* the bearer token it presented
    relay,     \* its handler in the relay
    reply,     \* the sealed reply a handler hands back
    outcome    \* what the call printed or returned

relayVars == <<relay, reply>>
callVars == <<call, posted, token, outcome>>
bwcVars == <<vars, conn, callVars, relayVars>>

\* The wallet's sealed answer: a status byte and the body or the reason.
Response(r) == Seal(WalletKey, ClientKey, Secret, INFO_RESPONSE, r)
Answer(k) == Response(result[k])

\* Variants (here and below, NAME_Variant): an operation with a bug that the
\* properties must tell from the code.  No action uses them.
Authorized_AnyConn(t, c) == t \in DOMAIN Grants

\* Relay::authorize: a token the relay issued, for exactly this connection.
Authorized(t, c) == t \in DOMAIN Grants /\ Grants[t] = c

BwcInit ==
    /\ Init
    /\ conn \in Conns
    /\ call = [k \in Tasks |-> "idle"]
    /\ posted = [k \in Tasks |-> NoWire]
    /\ token = [k \in Tasks |-> NoToken]
    /\ relay = [k \in Tasks |-> "idle"]
    /\ reply = [k \in Tasks |-> NoWire]
    /\ outcome = [k \in Tasks |-> "none"]

-----------------------------------------------------------------------------
\* The client.

\* round_trip / round_trip_unauthed: post sealed bytes, fresh or used before,
\* with some token or none.
Post(k, w, t) ==
    /\ call[k] = "idle"
    /\ w \in ClientRequests
    /\ call' = [call EXCEPT ![k] = "waiting"]
    /\ posted' = [posted EXCEPT ![k] = w]
    /\ token' = [token EXCEPT ![k] = t]
    /\ UNCHANGED <<vars, conn, outcome, relayVars>>

Returns(k, o) ==
    /\ call[k] = "waiting"
    /\ call' = [call EXCEPT ![k] = "returned"]
    /\ outcome' = [outcome EXCEPT ![k] = o]
    /\ UNCHANGED <<vars, conn, posted, token, relayVars>>

ClientRefused_Not502(k) ==
    \E status \in {"401", "404"} : relay[k] = status /\ Returns(k, status)

\* A non-2xx status: "relay rejected".
ClientRefused(k) ==
    \E status \in {"401", "404", "502"} :
        relay[k] = status /\ Returns(k, status)

\* A sealed reply: open it, split the status byte off and print the outcome.
ClientReply(k) ==
    /\ relay[k] = "replied"
    /\ Opens(ClientKey, WalletKey, Secret, INFO_RESPONSE, reply[k])
    /\ Returns(k, reply[k].payload)

\* The 30 second timeout, or the connection to the relay fails: send() returns
\* an error and drops the connection.
ClientGivesUp(k) == Returns(k, "error")

-----------------------------------------------------------------------------
\* The relay: one forward_request per call.

Handler(k, from, to) ==
    /\ call[k] # "idle"
    /\ relay[k] = from
    /\ relay' = [relay EXCEPT ![k] = to]
    /\ UNCHANGED <<vars, conn, callVars>>

RelayUnauthorized(k) ==
    Handler(k, "idle", "401") /\ ~ Authorized(token[k], conn) /\ UNCHANGED reply

RelayUnknownConn(k) ==
    /\ Handler(k, "idle", "404")
    /\ Authorized(token[k], conn) /\ conn \notin Routes
    /\ UNCHANGED reply

RelayForward(k) ==
    /\ Handler(k, "idle", "forwarding")
    /\ Authorized(token[k], conn) /\ conn \in Routes
    /\ UNCHANGED reply

RelayReply_Early(k) ==
    /\ Handler(k, "forwarding", "replied")
    /\ reply' = [reply EXCEPT ![k] = Answer(k)]

RelayReply(k) ==
    /\ Handler(k, "forwarding", "replied")
    /\ pc[k] = "done"
    /\ reply' = [reply EXCEPT ![k] = Answer(k)]

\* A transport failure or the relay's own timeout, whatever the wallet did.
RelayBadGateway(k) == Handler(k, "forwarding", "502") /\ UNCHANGED reply

\* The caller hung up: the server drops the handler at its await.
RelayDropped(k) ==
    /\ Handler(k, "forwarding", "dropped")
    /\ call[k] = "returned"
    /\ UNCHANGED reply

-----------------------------------------------------------------------------
\* The wallet, as in WalletServer, reached only by what the relay forwarded.
\* Bytes already on their way arrive even after the handler has given up.
WalletReceive_Resent(k) ==
    /\ relay[k] \in {"forwarding", "502", "dropped"}
    /\ pc[k] \in {"idle", "done"}
    /\ pc' = [pc EXCEPT ![k] = "locking"]
    /\ wire' = [wire EXCEPT ![k] = posted[k]]
    /\ now' = [now EXCEPT ![k] = clock]
    /\ UNCHANGED <<clock, high, stamp, seen, result, conn, callVars, relayVars>>

WalletReceive(k) ==
    /\ relay[k] \in {"forwarding", "502", "dropped"}
    /\ Receive(k, posted[k])
    /\ UNCHANGED <<conn, callVars, relayVars>>

WalletStep ==
    /\ \/ \E t \in Seconds : MoveClock(t)
       \/ \E n \in Nonces, t \in Seconds : ClientSeal(n, t)
       \/ \E k \in Tasks : Handle(k) \/ Reply(k)
    /\ UNCHANGED <<conn, callVars, relayVars>>

BwcNext ==
    \/ WalletStep
    \/ \E k \in Tasks, w \in ClientRequests, t \in TokenNames : Post(k, w, t)
    \/ \E k \in Tasks :
          \/ ClientRefused(k) \/ ClientReply(k) \/ ClientGivesUp(k)
          \/ RelayUnauthorized(k) \/ RelayUnknownConn(k) \/ RelayForward(k)
          \/ RelayReply(k) \/ RelayBadGateway(k) \/ RelayDropped(k)
          \/ WalletReceive(k)

BwcSpec == BwcInit /\ [][BwcNext]_bwcVars

\* tokio keeps polling whatever can run, and the wallet's mutex is held for a few
\* instructions without an await: each handler, each wallet task and each call
\* that can go on does.  A posted request reaches the relay, and a forwarded one
\* the wallet, or the relay's 30 second timeout answers for it.  The client's own
\* timeout, which covers a request lost before the relay, is not assumed to fire.
BwcFairSpec ==
    /\ BwcSpec
    /\ \A k \in Tasks :
          /\ WF_bwcVars(RelayUnauthorized(k) \/ RelayUnknownConn(k)
                        \/ RelayForward(k))
          /\ WF_bwcVars(WalletReceive(k) \/ RelayBadGateway(k))
          /\ WF_bwcVars(WalletStep /\ (Handle(k) \/ Reply(k)))
          /\ WF_bwcVars(RelayReply(k))
          /\ WF_bwcVars(ClientRefused(k) \/ ClientReply(k))

-----------------------------------------------------------------------------
\* Properties.

\* The composed variables keep their types.
BwcTypeOK ==
    /\ TypeOK
    /\ conn \in Conns
    /\ call \in [Tasks -> {"idle", "waiting", "returned"}]
    /\ posted \in [Tasks -> {NoWire} \cup ClientRequests]
    /\ token \in [Tasks -> TokenNames \cup {NoToken}]
    /\ relay \in [Tasks -> {"idle", "forwarding", "replied", "dropped",
                            "401", "404", "502"}]
    /\ reply \in [Tasks -> {NoWire} \cup {Response(r) : r \in Reasons \cup {"ok"}}]
    /\ outcome \in [Tasks -> {"none", "error", "ok", "401", "404", "502"}
                             \cup Reasons]

\* The relay's gate: the wallet spends nothing, not even a cache sweep, on a
\* call without a token for its connection, and a call refused with 401 or 404
\* never reaches the wallet, then or later.
Gated ==
    \A k \in Tasks :
        /\ pc[k] # "idle" =>
              /\ token[k] \in DOMAIN Grants /\ Grants[token[k]] = conn
              /\ conn \in Routes
        /\ outcome[k] \in {"401", "404"} => pc[k] = "idle"

\* What send() prints of the wallet is true of this call: "accepted" only if
\* the wallet executed the bytes posted, a reason only if it gave it, and
\* "replayed" only if another call got the same request executed.
OutcomeTrue ==
    \A k \in Tasks :
        outcome[k] \in Reasons \cup {"ok"} =>
            /\ wire[k] = posted[k] /\ result[k] = outcome[k]
            /\ outcome[k] = "replayed" =>
                  \E j \in Tasks : j # k /\ Accepted(j) /\ posted[j] = posted[k]

\* Sending the same sealed bytes again after an error or a 502 tells, and is as
\* safe as the wallet's clock and mutex allow: once any send of them was accepted
\* or called a replay they have been executed, and they are executed by another
\* send only if the wallet was overtaken by a reading past the expiry in between.
RetrySafe ==
    \A k \in Tasks : outcome[k] \in {"ok", "replayed"} =>
        LET runs == {i \in Tasks : Accepted(i) /\ wire[i] = posted[k]}
        IN  /\ runs # {}
            /\ \A i, j \in runs : i # j /\ now[i] <= now[j] => Overtaken(i)

\* send()'s doc: a non-2xx status "never reaches the wallet".
RefusedNeverExecuted ==
    \A k \in Tasks : outcome[k] \in {"401", "404", "502"} => ~ Accepted(k)

\* No call waits forever on the chain behind it, whatever fails in it and even
\* if the client's own timeout never fires.
EveryCallReturns == \A k \in Tasks : call[k] = "waiting" ~> call[k] = "returned"

\* The deployment as an implementation of SettledSend: an error or a 502 leaves
\* open whether the call's request ran, any other outcome settles it for good.
Sealable == {Request(n, t) : n \in Nonces, t \in Seconds}
Asked == [k \in {j \in Tasks : call[j] # "idle"} |-> posted[k]]
Ran == {[send |-> k, at |-> now[k]] : k \in {j \in Tasks : Accepted(j)}}
SS == INSTANCE SettledSend WITH
        Sends <- Tasks,
        Requests <- Sealable,
        Stamp <- [r \in Sealable |-> r.payload.timestamp],
        Times <- Seconds, Skew <- MAX_CLOCK_SKEW_SECS, Lag <- MaxLag,
        Unknown <- {"error", "502"},
        Denials <- {"401", "404"} \cup (Reasons \ {"replayed"}),
        asked <- Asked, ran <- Ran,
        told <- outcome
ImplementsSettledSend == SS!Spec

-----------------------------------------------------------------------------
\* The inductive invariants behind Gated and OutcomeTrue.

\* Where a call, its handler and its wallet task stand relative to each other.
Chain ==
    \A k \in Tasks :
        /\ relay[k] # "idle" => call[k] # "idle"
        /\ call[k] # "idle" => posted[k] \in ClientRequests
        /\ call[k] # "returned" => outcome[k] = "none"
        /\ relay[k] \in {"forwarding", "replied", "502", "dropped"} =>
              /\ token[k] \in DOMAIN Grants /\ Grants[token[k]] = conn
              /\ conn \in Routes
        /\ pc[k] # "idle" =>
              /\ relay[k] \in {"forwarding", "replied", "502", "dropped"}
              /\ wire[k] = posted[k]
        /\ relay[k] = "replied" => pc[k] = "done" /\ reply[k] = Answer(k)
        /\ outcome[k] \in {"401", "404"} => relay[k] = outcome[k]
        /\ outcome[k] \in Reasons \cup {"ok"} =>
              relay[k] = "replied" /\ outcome[k] = result[k]

BwcIInv == IInv /\ RejectionsJustified /\ BwcTypeOK /\ Chain

=============================================================================
