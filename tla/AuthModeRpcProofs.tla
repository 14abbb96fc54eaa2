------------------------- MODULE AuthModeRpcProofs -------------------------
(***************************************************************************)
(* Proofs about AuthModeRpc.  As for the signing RPC, a wire alone decides *)
(* whether a party takes it; here it tells the client's key at most, so    *)
(* what an exchange takes was answered for some exchange of its client.    *)
(***************************************************************************)
EXTENDS AuthModeRpc, TLAPS

\* The server takes this wire beside this claim.
ServerTakes(claim, w) ==
    claim \in Allowlist /\ Opens(ServerKey, claim, INFO_REQUEST, w)

\* The owner of exchange x takes this wire.
ClientTakes(x, w) == Opens(Owner[x], ServerKey, INFO_RESPONSE, w)

\* What a refused wire is, whatever has happened since.
Refused ==
    /\ refusal.by = "server" => ~ ServerTakes(refusal.claim, refusal.wire)
    /\ refusal.by \in Exchanges => ~ ClientTakes(refusal.by, refusal.wire)

\* An exchange has taken only answers to exchanges of its client.
AnswersThisClient ==
    \A e \in accepted :
        \E s \in served : s.client = Owner[e[1]] /\ s.answer = e[2]

AuthInv == TypeOK /\ ServedAsAsked /\ AnswersThisClient /\ Refused

-----------------------------------------------------------------------------
\* What the server takes was sealed in an exchange of the client claimed.
LEMMA GenuineRequest ==
    ASSUME NEW claim \in Identities, NEW w \in Wires, ServerTakes(claim, w)
    PROVE  \E x \in Begun \cap Trusted :
              claim = Owner[x] /\ w.enc = x /\ w.payload = asked[x]
  <1>1. CASE w \in Requests
    <2>1. PICK x \in Begun : w = SealRequest(x, asked[x])
      BY <1>1 DEF Requests
    <2>2. w.from = Owner[x] /\ w.enc = x /\ w.payload = asked[x]
      BY <2>1 DEF SealRequest, Seal
    <2> QED
      BY <2>2 DEF ServerTakes, Opens, Trusted, Begun
  <1>2. CASE w \in Responses
    <2>1. w.info = INFO_RESPONSE
      BY <1>2 DEF Responses, SealResponse, Seal
    <2> QED
      BY <2>1 DEF ServerTakes, Opens, INFO_REQUEST, INFO_RESPONSE
  <1>3. CASE w \in StrayWires
    BY <1>3, StrayAssumption DEF ServerTakes, Opens
  <1> QED
    BY <1>1, <1>2, <1>3 DEF Wires

\* What an exchange takes was sealed for its client.
LEMMA GenuineResponse ==
    ASSUME NEW x \in Exchanges, NEW w \in Wires, ClientTakes(x, w)
    PROVE  \E s \in served : s.client = Owner[x] /\ s.answer = w.payload
  <1>1. CASE w \in Requests
    <2>1. w.info = INFO_REQUEST
      BY <1>1 DEF Requests, SealRequest, Seal
    <2> QED
      BY <2>1 DEF ClientTakes, Opens, INFO_REQUEST, INFO_RESPONSE
  <1>2. CASE w \in Responses
    <2>1. PICK s \in served : w = SealResponse(s.client, s.answer)
      BY <1>2 DEF Responses
    <2>2. w.to = s.client /\ w.payload = s.answer
      BY <2>1 DEF SealResponse, Seal
    <2> QED
      BY <2>2 DEF ClientTakes, Opens
  <1>3. CASE w \in StrayWires
    BY <1>3, StrayAssumption DEF ClientTakes, Opens
  <1> QED
    BY <1>1, <1>2, <1>3 DEF Wires

\* A request that comes with its sender's identity is taken if that is allowed.
LEMMA RequestTaken ==
    ASSUME NEW x \in Trusted, NEW body PROVE ServerTakes(Owner[x], SealRequest(x, body))
  BY DEF ServerTakes, Opens, SealRequest, Seal, Trusted

\* A response sealed for a client is taken in each of its exchanges.
LEMMA ResponseTaken ==
    ASSUME NEW x, NEW body PROVE ClientTakes(x, SealResponse(Owner[x], body))
  BY DEF ClientTakes, Opens, SealResponse, Seal

-----------------------------------------------------------------------------
\* Initially nothing has been asked.
LEMMA AuthInit == Init => AuthInv
  BY PartyAssumption
  DEF Init, AuthInv, TypeOK, ServedAsAsked, AnswersThisClient, Refused

\* An exchange begins: those that had begun keep their bodies.
LEMMA AskInv ==
    ASSUME AuthInv, NEW x \in Exchanges, NEW body \in Bodies, Ask(x, body)
    PROVE  AuthInv'
  <1>1. /\ asked' = [asked EXCEPT ![x] = body] /\ asked[x] = NotAsked
        /\ asked \in [Exchanges -> Bodies \cup {NotAsked}]
        /\ UNCHANGED <<serving, served, accepted, refusal>>
    BY DEF Ask, AuthInv, TypeOK
  <1>2. /\ Begun \subseteq Begun'
        /\ \A y \in Begun : asked'[y] = asked[y] /\ Request(y)' = Request(y)
    BY <1>1, PartyAssumption DEF Begun, Request
  <1>3. TypeOK'
    BY <1>1, <1>2 DEF TypeOK, AuthInv
  <1>4. ServedAsAsked'
    BY <1>1, <1>2 DEF ServedAsAsked, AuthInv, Trusted
  <1>5. AnswersThisClient' /\ Refused'
    BY <1>1 DEF AnswersThisClient, Refused, AuthInv, ServerTakes, ClientTakes
  <1> QED
    BY <1>3, <1>4, <1>5 DEF AuthInv

\* An error changes nothing but the last error.
LEMMA RefuseInv ==
    ASSUME AuthInv, NEW who, NEW w, NEW claim, Refuse(who, w, claim),
           \/ who = "server" /\ ~ ServerTakes(claim, w)
           \/ who \in Exchanges /\ ~ ClientTakes(who, w)
    PROVE  AuthInv'
  <1>1. /\ refusal' = [by |-> who, wire |-> w, claim |-> claim]
        /\ UNCHANGED <<asked, serving, served, accepted>>
    BY DEF Refuse
  <1>2. TypeOK' /\ ServedAsAsked' /\ AnswersThisClient'
    BY <1>1 DEF AuthInv, TypeOK, ServedAsAsked, AnswersThisClient, Begun, Trusted,
                Request
  <1>3. Refused'
    BY <1>1, PartyAssumption DEF Refused, ServerTakes, ClientTakes
  <1> QED
    BY <1>2, <1>3 DEF AuthInv

\* A wire reaches the server: it is refused, or a genuine request.
LEMMA AtServerInv ==
    ASSUME AuthInv, NEW claim \in Identities, NEW w \in Wires, AtServer(claim, w)
    PROVE  AuthInv'
  <1>1. CASE Handle(claim, w)
    <2>1. PICK x \in Begun \cap Trusted :
            claim = Owner[x] /\ w.enc = x /\ w.payload = asked[x]
      BY <1>1, GenuineRequest DEF Handle, ServerTakes
    <2>2. /\ serving' = serving \cup {Request(x)}
          /\ UNCHANGED <<asked, served, accepted, refusal>>
      BY <1>1, <2>1 DEF Handle, Request
    <2>3. TypeOK' /\ AnswersThisClient' /\ Refused'
      BY <2>2 DEF AuthInv, TypeOK, AnswersThisClient, Begun, Refused, ServerTakes,
                  ClientTakes
    <2>4. ServedAsAsked'
      BY <2>2 DEF AuthInv, ServedAsAsked, Begun, Trusted, Request
    <2> QED
      BY <2>3, <2>4 DEF AuthInv
  <1>2. ASSUME Refuse("server", w, claim), ~ ServerTakes(claim, w)
        PROVE  AuthInv'
    BY <1>2, RefuseInv
  <1> QED
    BY <1>1, <1>2 DEF AtServer, Unauthorized, AuthenticationFailed, ServerTakes

\* The server answers a request it has opened.
LEMMA RespondInv ==
    ASSUME AuthInv, NEW s \in serving, NEW a \in Answers, Respond(s, a)
    PROVE  AuthInv'
  <1> DEFINE t == [client |-> s.client, enc |-> s.enc, body |-> s.body, answer |-> a]
  <1>1. /\ serving' = serving \ {s} /\ served' = served \cup {t}
        /\ UNCHANGED <<asked, accepted, refusal>>
    BY DEF Respond
  <1>2. PICK x \in Begun \cap Trusted : s = Request(x)
    BY DEF AuthInv, ServedAsAsked
  <1>3. t = [client |-> Owner[x], enc |-> x, body |-> asked[x], answer |-> t.answer]
    BY <1>2 DEF Request
  <1>4. TypeOK' /\ AnswersThisClient' /\ Refused'
    BY <1>1 DEF AuthInv, TypeOK, AnswersThisClient, Begun, Refused, ServerTakes,
                ClientTakes
  <1>5. ServedAsAsked'
    BY <1>1, <1>3 DEF AuthInv, ServedAsAsked, Begun, Trusted, Request
  <1> QED
    BY <1>4, <1>5 DEF AuthInv

\* A wire reaches a client: it is refused, or a response to one of its requests.
LEMMA AtClientInv ==
    ASSUME AuthInv, NEW x \in Begun, NEW w \in Wires, AtClient(x, w)
    PROVE  AuthInv'
  <1>0. x \in Exchanges
    BY DEF Begun
  <1>1. CASE OpenResponse(x, w)
    <2>1. PICK s \in served : s.client = Owner[x] /\ s.answer = w.payload
      BY <1>0, <1>1, GenuineResponse DEF OpenResponse, ClientTakes
    <2>2. /\ accepted' = accepted \cup {<<x, s.answer>>}
          /\ UNCHANGED <<asked, serving, served, refusal>>
      BY <1>1, <2>1 DEF OpenResponse
    <2>3. TypeOK'
      BY <2>2 DEF AuthInv, TypeOK, Begun
    <2>4. AnswersThisClient'
      BY <2>1, <2>2 DEF AuthInv, AnswersThisClient
    <2>5. ServedAsAsked' /\ Refused'
      BY <2>2 DEF AuthInv, ServedAsAsked, Begun, Trusted, Request, Refused,
                  ServerTakes, ClientTakes
    <2> QED
      BY <2>3, <2>4, <2>5 DEF AuthInv
  <1>2. ASSUME Refuse(x, w, "none"), ~ ClientTakes(x, w)
        PROVE  AuthInv'
    BY <1>0, <1>2, RefuseInv
  <1> QED
    BY <1>1, <1>2 DEF AtClient, ResponseUndecrypted, ClientTakes

\* Every step preserves the invariant.
LEMMA AuthNext == AuthInv /\ [Next]_vars => AuthInv'
  <1> SUFFICES ASSUME AuthInv, [Next]_vars PROVE AuthInv'
    OBVIOUS
  <1>1. CASE \E x \in Exchanges, body \in Bodies : Ask(x, body)
    BY <1>1, AskInv
  <1>2. CASE \E claim \in Identities, w \in Wires : AtServer(claim, w)
    BY <1>2, AtServerInv
  <1>3. CASE \E s \in serving, a \in Answers : Respond(s, a)
    BY <1>3, RespondInv
  <1>4. CASE \E x \in Begun, w \in Wires : AtClient(x, w)
    BY <1>4, AtClientInv
  <1>5. CASE UNCHANGED vars
    BY <1>5 DEF vars, AuthInv, TypeOK, ServedAsAsked, AnswersThisClient, Begun,
                Trusted, Request, Refused, ServerTakes, ClientTakes
  <1> QED
    BY <1>1, <1>2, <1>3, <1>4, <1>5 DEF Next

\* The invariant holds in every reachable state.
THEOREM AuthInductive == Spec => []AuthInv
  BY AuthInit, AuthNext, PTL DEF Spec

\* Every variable keeps its type.
THEOREM AuthTypeCorrect == Spec => []TypeOK
  <1>1. AuthInv => TypeOK
    BY DEF AuthInv
  <1> QED
    BY <1>1, AuthInductive, PTL

\* Whatever identity is claimed, the server works only on what allowed clients
\* asked.
THEOREM AuthServesAsAsked == Spec => []ServedAsAsked
  <1>1. AuthInv => ServedAsAsked
    BY DEF AuthInv
  <1> QED
    BY <1>1, AuthInductive, PTL

\* No party refuses what was sealed for it.
THEOREM AuthRefusalsJustified == Spec => []RefusalsJustified
  <1>1. AuthInv => RefusalsJustified
    <2> SUFFICES ASSUME AuthInv PROVE RefusalsJustified
      OBVIOUS
    <2>1. ASSUME refusal.by = "server", NEW x \in Begun \cap Trusted,
                 refusal.wire = SealRequest(x, asked[x])
          PROVE  refusal.claim # Owner[x]
      BY <2>1, RequestTaken DEF AuthInv, Refused
    <2>2. ASSUME refusal.by \in Exchanges, NEW s \in served,
                 s.client = Owner[refusal.by]
          PROVE  refusal.wire # SealResponse(s.client, s.answer)
      BY <2>2, ResponseTaken DEF AuthInv, Refused
    <2> QED
      BY <2>1, <2>2 DEF RefusalsJustified
  <1> QED
    BY <1>1, AuthInductive, PTL

-----------------------------------------------------------------------------
\* Each step of the auth-mode RPC is a step of Exchange or leaves it alone.
LEMMA AuthSimulates ==
    ASSUME AuthInv, AuthInv', [Next]_vars
    PROVE  Ex!Next \/ UNCHANGED <<Begun, Answered, accepted>>
  <1>1. ASSUME NEW x \in Exchanges, NEW body \in Bodies, Ask(x, body)
        PROVE  Ex!Ask(x)
    <2>1. /\ asked' = [asked EXCEPT ![x] = body] /\ asked[x] = NotAsked
          /\ asked \in [Exchanges -> Bodies \cup {NotAsked}]
          /\ UNCHANGED <<served, accepted>>
      BY <1>1 DEF Ask, AuthInv, TypeOK
    <2>2. Begun' = Begun \cup {x} /\ x \notin Begun
      BY <2>1, PartyAssumption DEF Begun
    <2> QED
      BY <2>1, <2>2 DEF Ex!Ask, Answered
  <1>2. ASSUME NEW claim \in Identities, NEW w \in Wires, AtServer(claim, w)
        PROVE  UNCHANGED <<Begun, Answered, accepted>>
    BY <1>2 DEF AtServer, Unauthorized, AuthenticationFailed, Handle, Refuse,
                Begun, Answered
  <1>3. ASSUME NEW s \in serving, NEW a \in Answers, Respond(s, a)
        PROVE  \E x \in Exchanges : Ex!Answer(x, a)
    <2> DEFINE t == [client |-> s.client, enc |-> s.enc, body |-> s.body, answer |-> a]
    <2>1. PICK x \in Begun \cap Trusted : s = Request(x)
      BY DEF AuthInv, ServedAsAsked
    <2>2. x \in Exchanges /\ t.enc = x /\ t.answer = a
      BY <2>1 DEF Begun, Request
    <2>3. served' = served \cup {t} /\ UNCHANGED <<asked, accepted>>
      BY <1>3 DEF Respond
    <2> HIDE DEF t
    <2>4. ASSUME NEW e \in Exchanges \X Answers
          PROVE  e \in Answered' <=> e \in Answered \/ e = <<x, a>>
      <3>1. e = <<x, a>> <=> e[1] = x /\ e[2] = a
        BY <2>2
      <3>2. (\E u \in served' : u.enc = e[1] /\ u.answer = e[2])
              <=> \/ \E u \in served : u.enc = e[1] /\ u.answer = e[2]
                  \/ e[1] = x /\ e[2] = a
        BY <2>2, <2>3
      <3> QED
        BY <3>1, <3>2 DEF Answered
    <2>5. /\ Answered' \subseteq Exchanges \X Answers
          /\ Answered \subseteq Exchanges \X Answers
          /\ <<x, a>> \in Exchanges \X Answers
      BY <2>2 DEF Answered
    <2>6. Answered' = Answered \cup {<<x, a>>}
      BY <2>4, <2>5
    <2> QED
      BY <2>1, <2>2, <2>3, <2>6 DEF Ex!Answer, Begun
  <1>4. ASSUME NEW x \in Begun, NEW w \in Wires, AtClient(x, w)
        PROVE  \/ \E a \in Answers : Ex!Accept(x, a)
               \/ UNCHANGED <<Begun, Answered, accepted>>
    <2>0. x \in Exchanges
      BY DEF Begun
    <2>1. CASE OpenResponse(x, w)
      <3>1. PICK s \in served : s.client = Owner[x] /\ s.answer = w.payload
        BY <2>0, <2>1, GenuineResponse DEF OpenResponse, ClientTakes
      <3>2. PICK y \in Begun : s.client = Owner[y] /\ s.enc = y
        BY DEF AuthInv, ServedAsAsked
      <3>3. s.answer \in Answers /\ <<y, s.answer>> \in Answered
        BY <3>2 DEF AuthInv, TypeOK, Answered, Begun
      <3>4. y \in SameClient[x]
        BY <2>0, <3>1, <3>2 DEF SameClient, Begun
      <3>5. /\ accepted' = accepted \cup {<<x, s.answer>>}
            /\ UNCHANGED <<Begun, Answered>>
        BY <2>1, <3>1 DEF OpenResponse, Begun, Answered
      <3> QED
        BY <3>3, <3>4, <3>5 DEF Ex!Accept
    <2>2. CASE ~ OpenResponse(x, w)
      BY <1>4, <2>2 DEF AtClient, ResponseUndecrypted, Refuse, Begun, Answered
    <2> QED
      BY <2>1, <2>2
  <1>5. CASE UNCHANGED vars
    BY <1>5 DEF vars, Begun, Answered
  <1>6. \A x \in Begun : x \in Exchanges
    BY DEF Begun
  <1> QED
    BY <1>1, <1>2, <1>3, <1>4, <1>5, <1>6 DEF Next, Ex!Next

\* The auth-mode RPC implements Exchange, with a client's exchanges as peers.
THEOREM AuthRefines == Spec => ImplementsExchange
  <1>1. Init => Ex!Init
    BY PartyAssumption DEF Init, Ex!Init, Begun, Answered
  <1>2. AuthInv /\ AuthInv' /\ [Next]_vars
            => [Ex!Next]_<<Begun, Answered, accepted>>
    BY AuthSimulates
  <1> QED
    BY <1>1, <1>2, AuthInductive, PTL DEF Spec, ImplementsExchange, Ex!Spec

=============================================================================
