-------------------------- MODULE SigningRpcProofs --------------------------
(***************************************************************************)
(* Proofs about SigningRpc.  What a party takes from the transport depends *)
(* on the wire alone, so two lemmas carry everything: a wire that the      *)
(* server takes is a request framed by an allowed client, and a wire that  *)
(* an exchange takes is a response framed for it.                          *)
(***************************************************************************)
EXTENDS SigningRpc, TLAPS

\* The server takes this wire: no early return of open_request applies.
ServerTakes(w) ==
    /\ ServerOpens(w) /\ w.bytes # "short"
    /\ w.payload.id \in Allowlist /\ Signed(w.payload)

\* Exchange x takes this wire.
ClientTakes(x, w) ==
    ClientOpens(x, w) /\ w.bytes # "short" /\ SignedFor(x, w.payload)

\* What a refused wire is, whatever has happened since.
Refused ==
    /\ refusal.by = "server" => ~ ServerTakes(refusal.wire)
    /\ refusal.by \in Exchanges => ~ ClientTakes(refusal.by, refusal.wire)

SigningInv == TypeOK /\ ServedAsAsked /\ AnswersOwnRequest /\ Refused

-----------------------------------------------------------------------------
\* What the server takes was framed by an allowed client.
LEMMA GenuineRequest ==
    ASSUME NEW w \in Wires, ServerTakes(w)
    PROVE  \E x \in Begun \cap Trusted :
              /\ w.payload.id = Owner[x] /\ w.payload.reply_pk = ReplyKey(x)
              /\ w.payload.body = asked[x]
  <1>1. CASE w \in Requests
    <2>1. PICK x \in Begun : w = FrameRequest(x, asked[x])
      BY <1>1 DEF Requests
    <2>2. /\ w.payload.id = Owner[x] /\ w.payload.reply_pk = ReplyKey(x)
          /\ w.payload.body = asked[x]
      BY <2>1 DEF FrameRequest, Seal
    <2> QED
      BY <2>2 DEF ServerTakes, Trusted, Begun
  <1>2. CASE w \in Responses
    <2>1. w.info = INFO_RESPONSE
      BY <1>2 DEF Responses, FrameResponse, Seal
    <2> QED
      BY <2>1 DEF ServerTakes, ServerOpens, Opens, INFO_REQUEST, INFO_RESPONSE
  <1>3. CASE w \in StrayWires
    <2>1. w.payload.sig.by = w.payload.id
      BY DEF ServerTakes, Signed, Verify, Sign
    <2>2. Stray(w)
      BY <1>3, WireAssumption
    <2> QED
      BY <2>1, <2>2 DEF Stray, ServerTakes, ServerOpens, Opens
  <1> QED
    BY <1>1, <1>2, <1>3 DEF Wires

\* What an exchange takes was framed for its reply key.
LEMMA GenuineResponse ==
    ASSUME NEW x \in Exchanges, NEW w \in Wires, ClientTakes(x, w)
    PROVE  \E s \in served : s.reply_pk = ReplyKey(x) /\ s.answer = w.payload.body
  <1>1. CASE w \in Requests
    <2>1. w.info = INFO_REQUEST
      BY <1>1 DEF Requests, FrameRequest, Seal
    <2> QED
      BY <2>1 DEF ClientTakes, ClientOpens, Opens, INFO_REQUEST, INFO_RESPONSE
  <1>2. CASE w \in Responses
    <2>1. PICK s \in served : w = FrameResponse(s.reply_pk, s.answer)
      BY <1>2 DEF Responses
    <2>2. w.to = s.reply_pk /\ w.payload.body = s.answer
      BY <2>1 DEF FrameResponse, Seal
    <2> QED
      BY <2>2 DEF ClientTakes, ClientOpens, Opens
  <1>3. CASE w \in StrayWires
    <2>1. w.payload.sig.by = ServerId
      BY DEF ClientTakes, SignedFor, Verify, Sign
    <2>2. Stray(w)
      BY <1>3, WireAssumption
    <2> QED
      BY <2>1, <2>2 DEF Stray, ClientTakes, ClientOpens, Opens
  <1> QED
    BY <1>1, <1>2, <1>3 DEF Wires

\* What an allowed client frames, the server takes.
LEMMA RequestTaken ==
    ASSUME NEW x \in Trusted, NEW body PROVE ServerTakes(FrameRequest(x, body))
  BY DEF ServerTakes, ServerOpens, Opens, Signed, Verify, FrameRequest, Seal, Trusted

\* What the server frames for a reply key, its exchange takes.
LEMMA ResponseTaken ==
    ASSUME NEW x, NEW body PROVE ClientTakes(x, FrameResponse(ReplyKey(x), body))
  BY DEF ClientTakes, ClientOpens, Opens, SignedFor, Verify, FrameResponse, Seal

-----------------------------------------------------------------------------
\* Initially nothing has been asked.
LEMMA SigningInit == Init => SigningInv
  BY NameAssumption
  DEF Init, SigningInv, TypeOK, ServedAsAsked, AnswersOwnRequest, Refused

\* An exchange begins: those that had begun keep their bodies.
LEMMA AskInv ==
    ASSUME SigningInv, NEW x \in Exchanges, NEW body \in Bodies, Ask(x, body)
    PROVE  SigningInv'
  <1>1. /\ asked' = [asked EXCEPT ![x] = body] /\ asked[x] = NotAsked
        /\ asked \in [Exchanges -> Bodies \cup {NotAsked}]
        /\ UNCHANGED <<serving, served, accepted, refusal>>
    BY DEF Ask, SigningInv, TypeOK
  <1>2. /\ Begun \subseteq Begun'
        /\ \A y \in Begun : asked'[y] = asked[y] /\ Request(y)' = Request(y)
    BY <1>1, NameAssumption DEF Begun, Request
  <1>3. Trusted' = Trusted
    BY DEF Trusted
  <1>4. TypeOK'
    BY <1>1, <1>2 DEF TypeOK, SigningInv
  <1>5. ServedAsAsked'
    BY <1>1, <1>2, <1>3 DEF ServedAsAsked, SigningInv
  <1>6. AnswersOwnRequest'
    BY <1>1, <1>2 DEF AnswersOwnRequest, SigningInv, TypeOK
  <1>7. Refused'
    BY <1>1 DEF Refused, SigningInv, ServerTakes, ClientTakes, ServerOpens,
                ClientOpens, Signed, SignedFor
  <1> QED
    BY <1>4, <1>5, <1>6, <1>7 DEF SigningInv

\* An error changes nothing but the last error.
LEMMA RefuseInv ==
    ASSUME SigningInv, NEW who, NEW w, NEW reason, Refuse(who, w, reason),
           \/ who = "server" /\ ~ ServerTakes(w)
           \/ who \in Exchanges /\ ~ ClientTakes(who, w)
    PROVE  SigningInv'
  <1>1. /\ refusal' = [by |-> who, wire |-> w, reason |-> reason]
        /\ UNCHANGED <<asked, serving, served, accepted>>
    BY DEF Refuse
  <1>2. TypeOK' /\ ServedAsAsked' /\ AnswersOwnRequest'
    BY <1>1 DEF SigningInv, TypeOK, ServedAsAsked, AnswersOwnRequest, Begun,
                Trusted, Request
  <1>3. Refused'
    BY <1>1, NameAssumption
    DEF Refused, ServerTakes, ClientTakes, ServerOpens, ClientOpens, Signed, SignedFor
  <1> QED
    BY <1>2, <1>3 DEF SigningInv

\* A wire reaches the server: it is refused, or a genuine request.
LEMMA AtServerInv ==
    ASSUME SigningInv, NEW w \in Wires, AtServer(w) PROVE SigningInv'
  <1>1. CASE OpenRequest(w)
    <2>1. PICK x \in Begun \cap Trusted :
            /\ w.payload.id = Owner[x] /\ w.payload.reply_pk = ReplyKey(x)
            /\ w.payload.body = asked[x]
      BY <1>1, GenuineRequest DEF OpenRequest, ServerTakes
    <2>2. /\ serving' = serving \cup {Request(x)}
          /\ UNCHANGED <<asked, served, accepted, refusal>>
      BY <1>1, <2>1 DEF OpenRequest, Request
    <2>3. TypeOK' /\ AnswersOwnRequest' /\ Refused'
      BY <2>2 DEF SigningInv, TypeOK, AnswersOwnRequest, Begun, Refused,
                  ServerTakes, ClientTakes, ServerOpens, ClientOpens, Signed, SignedFor
    <2>4. ServedAsAsked'
      BY <2>2 DEF SigningInv, ServedAsAsked, Begun, Trusted, Request
    <2> QED
      BY <2>3, <2>4 DEF SigningInv
  <1>2. ASSUME NEW reason, Refuse("server", w, reason), ~ ServerTakes(w)
        PROVE  SigningInv'
    BY <1>2, RefuseInv
  <1> QED
    BY <1>1, <1>2 DEF AtServer, RequestUndecrypted, RequestMalformed,
                      RequestUnauthorized, RequestBadSignature, ServerTakes

\* The server answers a request it has opened.
LEMMA RespondInv ==
    ASSUME SigningInv, NEW s \in serving, NEW a \in Answers, Respond(s, a)
    PROVE  SigningInv'
  <1> DEFINE t == [client |-> s.client, reply_pk |-> s.reply_pk,
                   body |-> s.body, answer |-> a]
  <1>1. /\ serving' = serving \ {s} /\ served' = served \cup {t}
        /\ UNCHANGED <<asked, accepted, refusal>>
    BY DEF Respond
  <1>2. PICK x \in Begun \cap Trusted : s = Request(x)
    BY DEF SigningInv, ServedAsAsked
  <1>3. t = [client |-> Owner[x], reply_pk |-> ReplyKey(x), body |-> asked[x],
             answer |-> t.answer]
    BY <1>2 DEF Request
  <1>4. TypeOK' /\ AnswersOwnRequest' /\ Refused'
    BY <1>1 DEF SigningInv, TypeOK, AnswersOwnRequest, Begun, Refused,
                ServerTakes, ClientTakes, ServerOpens, ClientOpens, Signed, SignedFor
  <1>5. ServedAsAsked'
    BY <1>1, <1>3 DEF SigningInv, ServedAsAsked, Begun, Trusted, Request
  <1> QED
    BY <1>4, <1>5 DEF SigningInv

\* Its answer cannot be sealed.
LEMMA PanicInv ==
    ASSUME SigningInv, NEW s \in serving, ResponsePanics(s) PROVE SigningInv'
  <1>1. /\ serving' \subseteq serving /\ refusal' = [by |-> "panic", request |-> s]
        /\ UNCHANGED <<asked, served, accepted>>
    BY DEF ResponsePanics
  <1>2. TypeOK' /\ AnswersOwnRequest' /\ ServedAsAsked'
    BY <1>1 DEF SigningInv, TypeOK, AnswersOwnRequest, ServedAsAsked, Begun, Trusted,
                Request
  <1>3. Refused'
    BY <1>1, NameAssumption DEF Refused
  <1> QED
    BY <1>2, <1>3 DEF SigningInv

\* A wire reaches an exchange: it is refused, or a response to its request.
LEMMA AtClientInv ==
    ASSUME SigningInv, NEW x \in Begun, NEW w \in Wires, AtClient(x, w)
    PROVE  SigningInv'
  <1>0. x \in Exchanges
    BY DEF Begun
  <1>1. CASE OpenResponse(x, w)
    <2>1. PICK s \in served : s.reply_pk = ReplyKey(x) /\ s.answer = w.payload.body
      BY <1>0, <1>1, GenuineResponse DEF OpenResponse, ClientTakes
    <2>2. /\ accepted' = accepted \cup {<<x, s.answer>>}
          /\ UNCHANGED <<asked, serving, served, refusal>>
      BY <1>1, <2>1 DEF OpenResponse
    <2>3. s.client = Owner[x] /\ s.body = asked[x]
      BY <2>1 DEF SigningInv, ServedAsAsked, ReplyKey
    <2>4. TypeOK'
      BY <2>2 DEF SigningInv, TypeOK, Begun
    <2>5. AnswersOwnRequest'
      BY <2>1, <2>2, <2>3 DEF SigningInv, AnswersOwnRequest
    <2>6. ServedAsAsked' /\ Refused'
      BY <2>2 DEF SigningInv, ServedAsAsked, Begun, Trusted, Request, Refused,
                  ServerTakes, ClientTakes, ServerOpens, ClientOpens, Signed, SignedFor
    <2> QED
      BY <2>4, <2>5, <2>6 DEF SigningInv
  <1>2. ASSUME NEW reason, Refuse(x, w, reason), ~ ClientTakes(x, w)
        PROVE  SigningInv'
    BY <1>0, <1>2, RefuseInv
  <1> QED
    BY <1>1, <1>2 DEF AtClient, ResponseUndecrypted, ResponseMalformed,
                      ResponseBadSignature, ClientTakes

\* Every step preserves the invariant.
LEMMA SigningNext == SigningInv /\ [Next]_vars => SigningInv'
  <1> SUFFICES ASSUME SigningInv, [Next]_vars PROVE SigningInv'
    OBVIOUS
  <1>1. CASE \E x \in Exchanges, body \in Bodies : Ask(x, body)
    BY <1>1, AskInv
  <1>2. CASE \E w \in Wires : AtServer(w)
    BY <1>2, AtServerInv
  <1>3. CASE \E s \in serving : ResponsePanics(s) \/ \E a \in Answers : Respond(s, a)
    BY <1>3, RespondInv, PanicInv
  <1>4. CASE \E x \in Begun, w \in Wires : AtClient(x, w)
    BY <1>4, AtClientInv
  <1>5. CASE UNCHANGED vars
    BY <1>5 DEF vars, SigningInv, TypeOK, ServedAsAsked, AnswersOwnRequest, Begun,
                Trusted, Request, Refused, ServerTakes, ClientTakes, ServerOpens,
                ClientOpens, Signed, SignedFor
  <1> QED
    BY <1>1, <1>2, <1>3, <1>4, <1>5 DEF Next

\* The invariant holds in every reachable state.
THEOREM SigningInductive == Spec => []SigningInv
  BY SigningInit, SigningNext, PTL DEF Spec

\* Every variable keeps its type.
THEOREM SigningTypeCorrect == Spec => []TypeOK
  <1>1. SigningInv => TypeOK
    BY DEF SigningInv
  <1> QED
    BY <1>1, SigningInductive, PTL

\* The server works only on what allowed clients asked.
THEOREM ServesAsAsked == Spec => []ServedAsAsked
  <1>1. SigningInv => ServedAsAsked
    BY DEF SigningInv
  <1> QED
    BY <1>1, SigningInductive, PTL

\* An exchange takes only answers to its own request.
THEOREM OwnAnswers == Spec => []AnswersOwnRequest
  <1>1. SigningInv => AnswersOwnRequest
    BY DEF SigningInv
  <1> QED
    BY <1>1, SigningInductive, PTL

\* Nobody refuses a wire that was framed for it.
THEOREM RefusalsAreJustified == Spec => []RefusalsJustified
  <1>1. SigningInv => RefusalsJustified
    <2> SUFFICES ASSUME SigningInv PROVE RefusalsJustified
      OBVIOUS
    <2>1. ASSUME refusal.by = "server", NEW x \in Begun \cap Trusted
          PROVE  refusal.wire # FrameRequest(x, asked[x])
      BY <2>1, RequestTaken DEF SigningInv, Refused
    <2>2. ASSUME refusal.by \in Exchanges, NEW s \in served,
                 s.reply_pk = ReplyKey(refusal.by)
          PROVE  refusal.wire # FrameResponse(s.reply_pk, s.answer)
      BY <2>2, ResponseTaken DEF SigningInv, Refused
    <2> QED
      BY <2>1, <2>2 DEF RefusalsJustified
  <1> QED
    BY <1>1, SigningInductive, PTL

-----------------------------------------------------------------------------
\* Each step of the signing RPC is a step of Exchange or leaves it alone.
LEMMA SimulatesExchange ==
    ASSUME SigningInv, SigningInv', [Next]_vars
    PROVE  Ex!Next \/ UNCHANGED <<Begun, Answered, accepted>>
  <1>1. ASSUME NEW x \in Exchanges, NEW body \in Bodies, Ask(x, body)
        PROVE  Ex!Ask(x)
    <2>1. /\ asked' = [asked EXCEPT ![x] = body] /\ asked[x] = NotAsked
          /\ asked \in [Exchanges -> Bodies \cup {NotAsked}]
          /\ UNCHANGED <<served, accepted>>
      BY <1>1 DEF Ask, SigningInv, TypeOK
    <2>2. Begun' = Begun \cup {x} /\ x \notin Begun
      BY <2>1, NameAssumption DEF Begun
    <2> QED
      BY <2>1, <2>2 DEF Ex!Ask, Answered
  <1>2. ASSUME NEW w \in Wires, AtServer(w)
        PROVE  UNCHANGED <<Begun, Answered, accepted>>
    BY <1>2 DEF AtServer, RequestUndecrypted, RequestMalformed,
                RequestUnauthorized, RequestBadSignature, OpenRequest, Refuse,
                Begun, Answered
  <1>3. ASSUME NEW s \in serving, NEW a \in Answers, Respond(s, a)
        PROVE  \E x \in Exchanges : Ex!Answer(x, a)
    <2>1. PICK x \in Begun \cap Trusted : s = Request(x)
      BY DEF SigningInv, ServedAsAsked
    <2>2. /\ served' = served \cup {[client |-> s.client, reply_pk |-> s.reply_pk,
                                     body |-> s.body, answer |-> a]}
          /\ UNCHANGED <<asked, accepted>>
      BY <1>3 DEF Respond
    <2>3. x \in Exchanges /\ s.reply_pk = x
      BY <2>1 DEF Begun, Request, ReplyKey
    <2>4. Answered' = Answered \cup {<<x, a>>}
      <3>1. ASSUME NEW e \in Exchanges \X Answers
            PROVE  e \in Answered' <=> e \in Answered \/ e = <<x, a>>
        <4>1. e \in Answered' <=>
                \E t \in served' : t.reply_pk = e[1] /\ t.answer = e[2]
          BY DEF Answered, ReplyKey
        <4>2. e \in Answered <=>
                \E t \in served : t.reply_pk = e[1] /\ t.answer = e[2]
          BY DEF Answered, ReplyKey
        <4>3. e = <<x, a>> <=> e[1] = x /\ e[2] = a
          BY <2>3
        <4> DEFINE t == [client |-> s.client, reply_pk |-> s.reply_pk,
                         body |-> s.body, answer |-> a]
        <4>4. served' = served \cup {t} /\ t.reply_pk = x /\ t.answer = a
          BY <2>2, <2>3
        <4> HIDE DEF t
        <4>5. (\E u \in served' : u.reply_pk = e[1] /\ u.answer = e[2])
                <=> \/ \E u \in served : u.reply_pk = e[1] /\ u.answer = e[2]
                    \/ e[1] = x /\ e[2] = a
          BY <4>4
        <4> QED
          BY <4>1, <4>2, <4>3, <4>5
      <3>2. /\ Answered' \subseteq Exchanges \X Answers
            /\ Answered \subseteq Exchanges \X Answers
            /\ <<x, a>> \in Exchanges \X Answers
        BY <2>3 DEF Answered
      <3> QED
        BY <3>1, <3>2
    <2> QED
      BY <2>1, <2>2, <2>3, <2>4 DEF Ex!Answer, Begun
  <1>4. ASSUME NEW x \in Begun, NEW w \in Wires, AtClient(x, w)
        PROVE  \/ \E a \in Answers : Ex!Accept(x, a)
               \/ UNCHANGED <<Begun, Answered, accepted>>
    <2>0. x \in Exchanges
      BY DEF Begun
    <2>1. CASE OpenResponse(x, w)
      <3>1. PICK s \in served :
              s.reply_pk = ReplyKey(x) /\ s.answer = w.payload.body
        BY <2>0, <2>1, GenuineResponse DEF OpenResponse, ClientTakes
      <3>2. s.answer \in Answers /\ <<x, s.answer>> \in Answered
        BY <2>0, <3>1 DEF SigningInv, TypeOK, Answered
      <3>3. /\ accepted' = accepted \cup {<<x, s.answer>>}
            /\ UNCHANGED <<Begun, Answered>>
        BY <2>1, <3>1 DEF OpenResponse, Begun, Answered
      <3> QED
        BY <2>0, <3>2, <3>3 DEF Ex!Accept, ItselfOnly
    <2>2. CASE ~ OpenResponse(x, w)
      BY <1>4, <2>2 DEF AtClient, ResponseUndecrypted, ResponseMalformed,
                        ResponseBadSignature, Refuse, Begun, Answered
    <2> QED
      BY <2>1, <2>2
  <1>5. CASE UNCHANGED vars
    BY <1>5 DEF vars, Begun, Answered
  <1>6. \A x \in Begun : x \in Exchanges
    BY DEF Begun
  <1>7. ASSUME NEW s \in serving, ResponsePanics(s)
        PROVE  UNCHANGED <<Begun, Answered, accepted>>
    BY <1>7 DEF ResponsePanics, Begun, Answered
  <1> QED
    BY <1>1, <1>2, <1>3, <1>4, <1>5, <1>6, <1>7 DEF Next, Ex!Next

\* The signing RPC implements Exchange, for any number of clients and exchanges.
THEOREM SigningRefines == Spec => ImplementsExchange
  <1>1. Init => Ex!Init
    BY DEF Init, Ex!Init, Begun, Answered
  <1>2. SigningInv /\ SigningInv' /\ [Next]_vars
            => [Ex!Next]_<<Begun, Answered, accepted>>
    BY SimulatesExchange
  <1> QED
    BY <1>1, <1>2, SigningInductive, PTL DEF Spec, ImplementsExchange, Ex!Spec

=============================================================================
