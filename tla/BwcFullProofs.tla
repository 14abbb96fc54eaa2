--------------------------- MODULE BwcFullProofs ---------------------------
(***************************************************************************)
(* Proofs about the composed deployment.  It implements WalletServer, so   *)
(* what is proved of the wallet holds behind the relay; the gate and the   *)
(* truth of what send() reports need the relay and the client as well.     *)
(***************************************************************************)
EXTENDS BwcFull, WalletServerProofs

-----------------------------------------------------------------------------
\* The wallet behind the relay is the wallet of WalletServer: a step of the
\* deployment is a step of the wallet or leaves its variables alone.
LEMMA StepIsWalletStep == BwcNext => [Next]_vars
  <1> SUFFICES ASSUME BwcNext PROVE Next \/ UNCHANGED vars
    OBVIOUS
  <1>1. CASE WalletStep
    BY <1>1 DEF WalletStep, Next
  <1>2. ASSUME NEW k \in Tasks, NEW w \in ClientRequests,
               NEW t \in TokenNames, Post(k, w, t)
        PROVE  UNCHANGED vars
    BY <1>2 DEF Post
  <1>3. ASSUME NEW k \in Tasks,
               ClientRefused(k) \/ ClientReply(k) \/ ClientGivesUp(k)
        PROVE  UNCHANGED vars
    BY <1>3 DEF ClientRefused, ClientReply, ClientGivesUp, Returns
  <1>4. ASSUME NEW k \in Tasks,
               \/ RelayUnauthorized(k) \/ RelayUnknownConn(k) \/ RelayForward(k)
               \/ RelayReply(k) \/ RelayBadGateway(k) \/ RelayDropped(k)
        PROVE  UNCHANGED vars
    BY <1>4 DEF RelayUnauthorized, RelayUnknownConn, RelayForward, RelayReply,
                RelayBadGateway, RelayDropped, Handler
  <1>5. ASSUME NEW k \in Tasks, WalletReceive(k) PROVE Next
    <2>1. PICK w \in ClientRequests \cup StrayWires : Receive(k, w)
      BY <1>5 DEF WalletReceive, Receive
    <2>2. QED
      BY <2>1 DEF Next
  <1>6. QED
    BY <1>1, <1>2, <1>3, <1>4, <1>5 DEF BwcNext

\* So every behaviour of the deployment is one of WalletServer.
LEMMA WalletInside == BwcSpec => Spec
  <1>1. BwcInit => Init
    BY DEF BwcInit
  <1>2. [BwcNext]_bwcVars => [Next]_vars
    BY StepIsWalletStep DEF bwcVars
  <1>3. QED
    BY <1>1, <1>2, PTL DEF BwcSpec, Spec

-----------------------------------------------------------------------------
\* BwcIInv is inductive.

\* Initially nothing is posted, forwarded or received.
LEMMA BwcInitIInv == BwcInit => BwcIInv
  <1> SUFFICES ASSUME BwcInit PROVE BwcIInv
    OBVIOUS
  <1>1. IInv /\ RejectionsJustified
    BY InitIInv DEF BwcInit, Init, RejectionsJustified
  <1>2. BwcTypeOK
    BY <1>1 DEF IInv, BwcInit, BwcTypeOK
  <1>3. Chain
    BY DEF BwcInit, Init, Chain, Reasons
  <1>4. QED
    BY <1>1, <1>2, <1>3 DEF BwcIInv

\* What the wallet's own steps never undo: requests stay sealed, and a task
\* that has finished keeps its stage, wire and result.
LEMMA WalletMonotone ==
    ASSUME IInv, [Next]_vars
    PROVE  /\ ClientRequests \subseteq ClientRequests'
           /\ \A k \in Tasks : pc[k] # "idle" => pc'[k] # "idle" /\ wire'[k] = wire[k]
           /\ \A k \in Tasks : pc[k] = "done" => pc'[k] = "done" /\ result'[k] = result[k]
  <1>1. CASE UNCHANGED vars
    BY <1>1 DEF vars, ClientRequests
  <1>2. ASSUME NEW t \in Seconds, MoveClock(t)
        PROVE  UNCHANGED <<stamp, pc, wire, result>>
    BY <1>2 DEF MoveClock
  <1>3. ASSUME NEW n \in Nonces, NEW t \in Seconds, ClientSeal(n, t)
        PROVE  ClientRequests \subseteq ClientRequests' /\ UNCHANGED <<pc, wire, result>>
    <2>1. DOMAIN stamp \subseteq DOMAIN stamp' /\ \A x \in DOMAIN stamp : stamp'[x] = stamp[x]
      BY <1>3, InsertLemma DEF ClientSeal, Insert
    <2>2. QED
      BY <1>3, <2>1 DEF ClientSeal, ClientRequests
  <1>4. ASSUME NEW k \in Tasks, NEW w \in ClientRequests \cup StrayWires, Receive(k, w)
        PROVE  /\ UNCHANGED <<stamp, result>> /\ pc[k] = "idle"
               /\ \A j \in Tasks : j # k => pc'[j] = pc[j] /\ wire'[j] = wire[j]
    BY <1>4 DEF Receive, IInv, TypeOK
  <1>5. ASSUME NEW k \in Tasks, Handle(k)
        PROVE  /\ UNCHANGED <<stamp, wire>> /\ pc[k] = "locking" /\ pc'[k] = "sealing"
               /\ \A j \in Tasks : j # k => pc'[j] = pc[j] /\ result'[j] = result[j]
    <2>1. PICK r : Return(k, r)
      BY <1>5 DEF Handle, RejectUnauthentic, RejectMalformed, RejectSkewed,
                  RejectReplayed, Accept
    <2>2. QED
      BY <2>1 DEF Return, IInv, TypeOK
  <1>6. ASSUME NEW k \in Tasks, Reply(k)
        PROVE  /\ UNCHANGED <<stamp, wire, result>> /\ pc'[k] = "done"
               /\ \A j \in Tasks : j # k => pc'[j] = pc[j]
    BY <1>6 DEF Reply, IInv, TypeOK
  <1>7. stamp' = stamp => ClientRequests' = ClientRequests
    BY DEF ClientRequests
  <1>8. CASE Next
    <2>1. CASE \E t \in Seconds : MoveClock(t)
      BY <1>2, <1>7, <2>1
    <2>2. CASE \E n \in Nonces, t \in Seconds : ClientSeal(n, t)
      BY <1>3, <2>2
    <2>3. CASE \E k \in Tasks, w \in ClientRequests \cup StrayWires : Receive(k, w)
      BY <1>4, <1>7, <2>3
    <2>4. CASE \E k \in Tasks : Handle(k)
      BY <1>5, <1>7, <2>4
    <2>5. CASE \E k \in Tasks : Reply(k)
      BY <1>6, <1>7, <2>5
    <2>6. QED
      BY <1>8, <2>1, <2>2, <2>3, <2>4, <2>5 DEF Next
  <1>9. QED
    BY <1>1, <1>8

\* The types of the composed variables.
LEMMA BwcTypeNext ==
    ASSUME BwcIInv, BwcNext, TypeOK', ClientRequests \subseteq ClientRequests'
    PROVE  BwcTypeOK'
  <1> USE DEF BwcTypeOK, BwcIInv
  <1>1. CASE WalletStep \/ \E k \in Tasks : WalletReceive(k)
    BY <1>1 DEF WalletStep, WalletReceive, callVars, relayVars
  <1>2. ASSUME NEW k \in Tasks, NEW w \in ClientRequests,
               NEW t \in TokenNames, Post(k, w, t)
        PROVE  BwcTypeOK'
    BY <1>2 DEF Post, relayVars
  <1>3. ASSUME NEW k \in Tasks,
               NEW o \in {"error", "ok", "401", "404", "502"} \cup Reasons,
               Returns(k, o)
        PROVE  BwcTypeOK'
    BY <1>3 DEF Returns, relayVars
  <1>4. ASSUME NEW k \in Tasks, ClientReply(k)
        PROVE  reply[k].payload \in {"ok"} \cup Reasons
    <2>1. reply[k] = Answer(k) /\ pc[k] = "done"
      BY <1>4 DEF ClientReply, Chain
    <2>2. result[k] \in {"ok"} \cup Reasons
      BY <2>1 DEF IInv, Stages, TypeOK
    <2>3. QED
      BY <2>1, <2>2 DEF Answer, Response, Seal
  <1>5. ASSUME NEW k \in Tasks, NEW from, NEW to \in {"forwarding", "replied",
               "dropped", "401", "404", "502"}, Handler(k, from, to),
               UNCHANGED reply \/ reply' = [reply EXCEPT ![k] = Answer(k)],
               UNCHANGED reply \/ pc[k] = "done"
        PROVE  BwcTypeOK'
    <2>1. pc[k] = "done" => result[k] \in {"ok"} \cup Reasons
      BY DEF IInv, Stages, TypeOK
    <2>2. reply' \in [Tasks -> {NoWire} \cup {Response(r) : r \in Reasons \cup {"ok"}}]
      BY <1>5, <2>1 DEF Answer
    <2>3. QED
      BY <1>5, <2>2 DEF Handler, callVars, Response
  <1>6. ASSUME NEW k \in Tasks,
               ClientRefused(k) \/ ClientReply(k) \/ ClientGivesUp(k)
        PROVE  BwcTypeOK'
    <2>1. PICK o \in {"error", "ok", "401", "404", "502"} \cup Reasons : Returns(k, o)
      BY <1>4, <1>6 DEF ClientRefused, ClientReply, ClientGivesUp
    <2>2. QED
      BY <1>3, <2>1
  <1>7. ASSUME NEW k \in Tasks,
               \/ RelayUnauthorized(k) \/ RelayUnknownConn(k) \/ RelayForward(k)
               \/ RelayReply(k) \/ RelayBadGateway(k) \/ RelayDropped(k)
        PROVE  BwcTypeOK'
    BY <1>5, <1>7 DEF RelayUnauthorized, RelayUnknownConn, RelayForward,
                      RelayReply, RelayBadGateway, RelayDropped
  <1>8. QED
    BY <1>1, <1>2, <1>6, <1>7 DEF BwcNext

\* The wallet's steps keep the chain: they move tasks that have started, and a
\* reply in flight comes from a task that has finished.
LEMMA WalletChain ==
    ASSUME BwcIInv, WalletStep
    PROVE  Chain'
  <1>1. UNCHANGED <<conn, call, posted, token, outcome, relay, reply>>
    BY DEF WalletStep, callVars, relayVars
  <1>2. \A k \in Tasks : pc[k] = "idle" => pc'[k] = "idle"
    <2>1. ASSUME NEW k \in Tasks, Handle(k) \/ Reply(k)
          PROVE  pc[k] # "idle" /\ \A j \in Tasks : j # k => pc'[j] = pc[j]
      <3>1. CASE Reply(k)
        BY <3>1 DEF Reply, BwcIInv, IInv, TypeOK
      <3>2. CASE Handle(k)
        <4>1. PICK r : Return(k, r)
          BY <3>2 DEF Handle, RejectUnauthentic, RejectMalformed, RejectSkewed,
                      RejectReplayed, Accept
        <4>2. QED
          BY <4>1 DEF Return, BwcIInv, IInv, TypeOK
      <3>3. QED
        BY <2>1, <3>1, <3>2
    <2>2. CASE UNCHANGED pc
      BY <2>2
    <2>3. QED
      BY <2>1, <2>2 DEF WalletStep, MoveClock, ClientSeal
  <1>3. [Next]_vars
    BY DEF WalletStep, Next
  <1>4. /\ ClientRequests \subseteq ClientRequests'
        /\ \A k \in Tasks : pc[k] # "idle" => wire'[k] = wire[k]
        /\ \A k \in Tasks : pc[k] = "done" => pc'[k] = "done" /\ result'[k] = result[k]
    BY <1>3, WalletMonotone DEF BwcIInv
  <1>5. QED
    BY <1>1, <1>2, <1>4 DEF BwcIInv, Chain, Answer, Response

\* A forwarded request reaches the wallet as it was posted.
LEMMA ReceiveChain ==
    ASSUME BwcIInv, NEW k \in Tasks, WalletReceive(k)
    PROVE  Chain'
  <1>1. UNCHANGED <<conn, call, posted, token, outcome, relay, reply, result,
                    ClientRequests>>
    BY DEF WalletReceive, Receive, callVars, relayVars, ClientRequests
  <1>2. /\ relay[k] \in {"forwarding", "502", "dropped"} /\ pc[k] = "idle"
        /\ wire'[k] = posted[k]
        /\ \A j \in Tasks : j # k => pc'[j] = pc[j] /\ wire'[j] = wire[j]
    BY DEF WalletReceive, Receive, BwcIInv, IInv, TypeOK
  <1>3. QED
    BY <1>1, <1>2 DEF BwcIInv, Chain, Answer, Response

\* A call is posted: nothing of its chain exists yet.
LEMMA PostChain ==
    ASSUME BwcIInv, NEW k \in Tasks, NEW w \in ClientRequests,
           NEW t \in TokenNames, Post(k, w, t)
    PROVE  Chain'
  <1>1. UNCHANGED <<conn, outcome, relay, reply, pc, wire, result, ClientRequests>>
    BY DEF Post, relayVars, vars, ClientRequests
  <1>2. /\ relay[k] = "idle" /\ pc[k] = "idle"
        /\ call'[k] = "waiting" /\ posted'[k] \in ClientRequests
        /\ outcome[k] = "none"
    BY DEF Post, BwcIInv, BwcTypeOK, Chain
  <1>3. \A j \in Tasks : j # k =>
            call'[j] = call[j] /\ posted'[j] = posted[j] /\ token'[j] = token[j]
    BY DEF Post, BwcIInv, BwcTypeOK
  <1>4. QED
    BY <1>1, <1>2, <1>3 DEF BwcIInv, Chain, Answer, Response

\* A call returns what its handler answered.
LEMMA ReturnChain ==
    ASSUME BwcIInv, NEW k \in Tasks,
           ClientRefused(k) \/ ClientReply(k) \/ ClientGivesUp(k)
    PROVE  Chain'
  <1>1. PICK o : /\ Returns(k, o)
                 /\ \/ o \in {"401", "404", "502"} /\ relay[k] = o
                    \/ relay[k] = "replied" /\ o = reply[k].payload
                    \/ o = "error"
    BY DEF ClientRefused, ClientReply, ClientGivesUp
  <1>2. /\ call[k] # "idle"
        /\ UNCHANGED <<conn, posted, token, relay, reply, pc, wire, result,
                      ClientRequests>>
    BY <1>1 DEF Returns, relayVars, vars, ClientRequests
  <1>3. /\ call'[k] = "returned" /\ outcome'[k] = o
        /\ \A j \in Tasks : j # k => call'[j] = call[j] /\ outcome'[j] = outcome[j]
    BY <1>1 DEF Returns, BwcIInv, BwcTypeOK
  <1>4. relay[k] = "replied" =>
            reply[k].payload = result[k] /\ result[k] \in {"ok"} \cup Reasons
    <2>1. relay[k] = "replied" => reply[k] = Answer(k) /\ pc[k] = "done"
      BY DEF BwcIInv, Chain
    <2>2. QED
      BY <2>1 DEF BwcIInv, IInv, Stages, TypeOK, Answer, Response, Seal
  <1>5. o \in {"401", "404"} => relay[k] = o
    BY <1>1, <1>4 DEF Reasons
  <1>6. o \in Reasons \cup {"ok"} => relay[k] = "replied" /\ o = result[k]
    BY <1>1, <1>4 DEF Reasons
  <1>7. QED
    BY <1>2, <1>3, <1>5, <1>6 DEF BwcIInv, Chain, Answer, Response

\* The handler moves: it forwards only what the relay authorised.
LEMMA RelayChain ==
    ASSUME BwcIInv, NEW k \in Tasks,
           \/ RelayUnauthorized(k) \/ RelayUnknownConn(k) \/ RelayForward(k)
           \/ RelayReply(k) \/ RelayBadGateway(k) \/ RelayDropped(k)
    PROVE  Chain'
  <1>1. PICK from, to :
            /\ Handler(k, from, to)
            /\ \/ from = "idle" /\ to \in {"401", "404"} /\ reply' = reply
               \/ /\ from = "idle" /\ to = "forwarding" /\ reply' = reply
                  /\ Authorized(token[k], conn) /\ conn \in Routes
               \/ /\ from = "forwarding" /\ to = "replied" /\ pc[k] = "done"
                  /\ reply' = [reply EXCEPT ![k] = Answer(k)]
               \/ from = "forwarding" /\ to \in {"502", "dropped"} /\ reply' = reply
    BY DEF RelayUnauthorized, RelayUnknownConn, RelayForward, RelayReply,
           RelayBadGateway, RelayDropped
  <1>2. UNCHANGED <<conn, call, posted, token, outcome, pc, wire, result, ClientRequests>>
    BY <1>1 DEF Handler, callVars, vars, ClientRequests
  <1>3. /\ call[k] # "idle" /\ relay[k] = from /\ relay'[k] = to
        /\ \A j \in Tasks : j # k => relay'[j] = relay[j]
    BY <1>1 DEF Handler, BwcIInv, BwcTypeOK
  <1>4. \A j \in Tasks : Answer(j)' = Answer(j)
    BY <1>2 DEF Answer
  <1>5. outcome[k] \notin {"401", "404", "ok"} \cup Reasons
    BY <1>1, <1>3 DEF BwcIInv, Chain
  <1>6. \A j \in Tasks : relay'[j] = "replied" => pc[j] = "done" /\ reply'[j] = Answer(j)
    <2> SUFFICES ASSUME NEW j \in Tasks, relay'[j] = "replied"
                 PROVE  pc[j] = "done" /\ reply'[j] = Answer(j)
      OBVIOUS
    <2> DOMAIN reply = Tasks
      BY DEF BwcIInv, BwcTypeOK
    <2>1. CASE j # k
      <3>1. relay[j] = "replied" /\ (reply' = reply \/ reply' = [reply EXCEPT ![k] = Answer(k)])
        BY <1>1, <1>3, <2>1
      <3>2. QED
        BY <2>1, <3>1 DEF BwcIInv, Chain
    <2>2. CASE j = k
      BY <1>1, <1>3, <2>2
    <2>3. QED
      BY <2>1, <2>2
  <1>7. QED
    BY <1>1, <1>2, <1>3, <1>4, <1>5, <1>6 DEF BwcIInv, Chain, Authorized

\* Every step of the deployment preserves BwcIInv.
LEMMA BwcNextIInv == BwcIInv /\ [BwcNext]_bwcVars => BwcIInv'
  <1> SUFFICES ASSUME BwcIInv, [BwcNext]_bwcVars PROVE BwcIInv'
    OBVIOUS
  <1>1. [Next]_vars
    BY StepIsWalletStep DEF bwcVars
  <1>2. IInv' /\ RejectionsJustified'
    BY <1>1, NextIInv, JustifiedNext DEF BwcIInv
  <1>3. CASE BwcNext
    <2>1. ClientRequests \subseteq ClientRequests'
      BY <1>1, WalletMonotone DEF BwcIInv
    <2>2. BwcTypeOK'
      BY <1>2, <1>3, <2>1, BwcTypeNext DEF IInv
    <2>3. Chain'
      BY <1>3, WalletChain, ReceiveChain, PostChain, ReturnChain, RelayChain
      DEF BwcNext
    <2>4. QED
      BY <1>2, <2>2, <2>3 DEF BwcIInv
  <1>4. CASE UNCHANGED bwcVars
    <2>1. BwcTypeOK'
      BY <1>2, <1>4 DEF IInv, BwcIInv, BwcTypeOK, bwcVars, vars, callVars,
                        relayVars, ClientRequests, Response
    <2>2. Chain'
      BY <1>4 DEF BwcIInv, Chain, Answer, Response, ClientRequests, bwcVars, vars,
                        callVars, relayVars
    <2>3. QED
      BY <1>2, <2>1, <2>2 DEF BwcIInv
  <1>5. QED
    BY <1>3, <1>4

\* The deployment's inductive invariant holds in every reachable state.
THEOREM BwcInductive == BwcSpec => []BwcIInv
  BY BwcInitIInv, BwcNextIInv, PTL DEF BwcSpec

-----------------------------------------------------------------------------
\* What the deployment guarantees.

\* The composed variables keep their types.
THEOREM BwcTypeCorrect == BwcSpec => []BwcTypeOK
  <1>1. BwcIInv => BwcTypeOK
    BY DEF BwcIInv
  <1>2. QED
    BY <1>1, BwcInductive, PTL

\* Nothing reaches the wallet without a token for its connection.
THEOREM GateHolds == BwcSpec => []Gated
  <1>1. BwcIInv => Gated
    BY DEF BwcIInv, Chain, Gated
  <1>2. QED
    BY <1>1, BwcInductive, PTL

\* What send() reports of the wallet is true of the call it reports it for.
LEMMA TrueLemma == BwcIInv => OutcomeTrue
  <1> SUFFICES ASSUME BwcIInv, NEW k \in Tasks, outcome[k] \in Reasons \cup {"ok"}
               PROVE  /\ wire[k] = posted[k] /\ result[k] = outcome[k]
                      /\ outcome[k] = "replayed" =>
                            \E j \in Tasks :
                                j # k /\ Accepted(j) /\ posted[j] = posted[k]
    BY DEF OutcomeTrue
  <1>1. relay[k] = "replied" /\ outcome[k] = result[k] /\ pc[k] = "done"
    BY DEF BwcIInv, Chain
  <1>2. wire[k] = posted[k]
    BY <1>1 DEF BwcIInv, Chain
  <1>3. ASSUME outcome[k] = "replayed"
        PROVE  \E j \in Tasks : j # k /\ Accepted(j) /\ posted[j] = posted[k]
    <2>1. PICK j \in Tasks : j # k /\ Accepted(j) /\ NonceOf(j) = NonceOf(k)
      BY <1>1, <1>3 DEF BwcIInv, RejectionsJustified
    <2>2. wire[j] = posted[j]
      <3>1. pc[j] # "idle"
        BY <2>1 DEF BwcIInv, IInv, Stages, Accepted
      <3>2. QED
        BY <3>1 DEF BwcIInv, Chain
    <2>3. wire[j] \in ClientRequests
      BY <2>1 DEF BwcIInv, IInv, ExecutedAsSealed
    <2>4. wire[k] \in ClientRequests
      <3>1. call[k] # "idle"
        BY <1>1 DEF BwcIInv, Chain
      <3>2. QED
        BY <1>2, <3>1 DEF BwcIInv, Chain
    <2>5. wire[j] = wire[k]
      BY <2>1, <2>3, <2>4 DEF ClientRequests, Request, Seal, NonceOf
    <2>6. QED
      BY <1>2, <2>1, <2>2, <2>5
  <1>4. QED
    BY <1>1, <1>2, <1>3

\* What send() reports of the wallet holds in every reachable state.
THEOREM OutcomesTrue == BwcSpec => []OutcomeTrue
  BY TrueLemma, BwcInductive, PTL

\* One answer about a request tells that it was executed; any further execution
\* had the first one overtaken.
LEMMA RetryLemma == BwcIInv /\ OnlyIfOvertaken => RetrySafe
  <1> SUFFICES ASSUME BwcIInv, OnlyIfOvertaken,
                      NEW k \in Tasks, outcome[k] \in {"ok", "replayed"}
               PROVE  /\ \E j \in Tasks : Accepted(j) /\ wire[j] = posted[k]
                      /\ \A i, j \in Tasks :
                            /\ Accepted(i) /\ wire[i] = posted[k]
                            /\ Accepted(j) /\ wire[j] = posted[k]
                            /\ i # j /\ now[i] <= now[j]
                            => Overtaken(i)
    BY DEF RetrySafe
  <1>1. \E j \in Tasks : Accepted(j) /\ wire[j] = posted[k]
    <2>1. /\ wire[k] = posted[k] /\ result[k] = outcome[k]
          /\ outcome[k] = "replayed" =>
                \E j \in Tasks : j # k /\ Accepted(j) /\ posted[j] = posted[k]
      BY TrueLemma DEF OutcomeTrue, Reasons
    <2>2. CASE outcome[k] = "ok"
      BY <2>1, <2>2 DEF Accepted
    <2>3. ASSUME NEW j \in Tasks, Accepted(j) PROVE wire[j] = posted[j]
      <3>1. pc[j] # "idle"
        BY <2>3 DEF BwcIInv, IInv, Stages, Accepted
      <3>2. QED
        BY <3>1 DEF BwcIInv, Chain
    <2>4. CASE outcome[k] = "replayed"
      BY <2>1, <2>3, <2>4
    <2>5. QED
      BY <2>2, <2>4
  <1>2. ASSUME NEW i \in Tasks, NEW j \in Tasks,
               Accepted(i), wire[i] = posted[k], Accepted(j), wire[j] = posted[k],
               i # j, now[i] <= now[j]
        PROVE  Overtaken(i)
    <2>1. Twice(i, j)
      BY <1>2 DEF Twice, NonceOf
    <2>2. QED
      BY <1>2, <2>1 DEF OnlyIfOvertaken
  <1>3. QED
    BY <1>1, <1>2

\* What is proved of the wallet holds behind the relay: a request is executed
\* again only once overtaken, however often the client sends it.
THEOREM OvertakenBehindRelay == BwcSpec => []OnlyIfOvertaken
  BY TwiceOnlyIfOvertaken, WalletInside, PTL

\* Whatever the lag, what a send is told about a request tells of its executions.
THEOREM RetryIsSafe == BwcSpec => []RetrySafe
  BY RetryLemma, BwcInductive, OvertakenBehindRelay, PTL

\* Whatever the lag, the wallet behind the relay implements AcceptSpaced.
THEOREM SpacedBehindRelay == BwcSpec => ImplementsAcceptSpaced
  BY SpacedRefinement, WalletInside, PTL

\* With a lag within the skew, no request is executed a third time, however
\* often it is sent.
THEOREM NoThirdBehindRelay == BwcSpec => []AtMostTwice
  BY NoThird, WalletInside, PTL

-----------------------------------------------------------------------------
\* The deployment implements SettledSend.

\* The runs of SettledSend are the wallet's executions.
LEMMA RunsAre ==
    /\ \A q \in Ran : q.send \in Tasks /\ Accepted(q.send) /\ q.at = now[q.send]
    /\ \A k \in Tasks : Accepted(k) => \E q \in Ran : q.send = k
    /\ \A k \in Tasks : SS!HasRun(k) <=> Accepted(k)
  <1> DEFINE rec(k) == [send |-> k, at |-> now[k]]
  <1>1. \A k : rec(k).send = k /\ rec(k).at = now[k]
    OBVIOUS
  <1>2. Ran = {rec(k) : k \in {j \in Tasks : Accepted(j)}}
    BY DEF Ran
  <1> HIDE DEF rec
  <1>3. \A q \in Ran : q.send \in Tasks /\ Accepted(q.send) /\ q.at = now[q.send]
    BY <1>1, <1>2
  <1>4. \A k \in Tasks : Accepted(k) => \E q \in Ran : q.send = k
    BY <1>1, <1>2
  <1>5. QED
    BY <1>3, <1>4 DEF SS!HasRun

\* An acceptance runs the request of its call, near its stamp and spaced from
\* every other run of it, while the call is not yet settled: the handler has not
\* replied and the relay has not refused.
LEMMA AcceptRuns ==
    ASSUME BwcIInv, BwcIInv', NEW k \in Tasks, Accept(k),
           UNCHANGED <<conn, callVars, relayVars>>
    PROVE  \E t \in Seconds : SS!Run(k, t)
  <1>1. Return(k, "ok")
    BY DEF Accept
  <1>2. /\ \A j \in Tasks : Accepted(j)' <=> (j = k \/ Accepted(j))
        /\ ~ Accepted(k) /\ UNCHANGED <<wire, stamp, now>>
    BY <1>1, ReturnLemma DEF Accepted, Return, BwcIInv
  <1>3. /\ pc[k] = "locking" /\ wire[k] = posted[k] /\ call[k] # "idle"
        /\ relay[k] \notin {"replied", "401", "404"}
    BY <1>1 DEF Return, BwcIInv, Chain
  <1>4. outcome[k] \in {"error", "502", "none"}
    BY <1>3 DEF BwcIInv, BwcTypeOK, Chain
  <1>5. k \in DOMAIN Asked /\ Asked[k] = posted[k]
    BY <1>3 DEF Asked
  <1>6. posted[k] \in Sealable /\ Fresh(now[k], posted[k].payload.timestamp)
    <2>1. posted[k] \in ClientRequests /\ Fresh(now[k], stamp[NonceOf(k)])
      <3>1. Fresh(now[k], stamp[NonceOf(k)])
        BY <1>2 DEF BwcIInv, IInv, ExecutedAsSealed, Fresh, NonceOf
      <3>2. QED
        BY <1>3, <3>1 DEF BwcIInv, Chain
    <2>2. PICK n \in DOMAIN stamp : posted[k] = Request(n, stamp[n])
      BY <2>1 DEF ClientRequests
    <2>3. posted[k].payload = [nonce |-> n, timestamp |-> stamp[n]]
      BY <2>2 DEF Request, Seal
    <2>4. NonceOf(k) = n /\ posted[k].payload.timestamp = stamp[n]
      BY <1>3, <2>3 DEF NonceOf
    <2>5. n \in Nonces /\ stamp[n] \in Seconds
      BY DEF BwcIInv, IInv, TypeOK
    <2>6. QED
      BY <2>1, <2>2, <2>4, <2>5 DEF Sealable
  <1>7. SS!Distance(now[k], [r \in Sealable |-> r.payload.timestamp][Asked[k]])
            <= MAX_CLOCK_SKEW_SECS
    BY <1>5, <1>6 DEF SS!Distance, Fresh, AbsDiff
  <1>8. ASSUME NEW j \in Tasks, Accepted(j)
        PROVE  /\ j # k /\ j \in DOMAIN Asked
               /\ Asked[j] = Asked[k] =>
                     SS!Distance(now[j], now[k]) + MaxLag > 2 * MAX_CLOCK_SKEW_SECS
    <2>1. j # k /\ Accepted(j)' /\ Accepted(k)'
      BY <1>2, <1>8
    <2>2. wire[j] = posted[j] /\ call[j] # "idle"
      BY <1>8 DEF BwcIInv, IInv, Stages, Chain, Accepted
    <2>3. j \in DOMAIN Asked /\ Asked[j] = posted[j]
      BY <2>2 DEF Asked
    <2>4. ASSUME Asked[j] = Asked[k]
          PROVE  AbsDiff(now[j], now[k]) + MaxLag > 2 * MAX_CLOCK_SKEW_SECS
      <3>1. wire[j] = wire[k]
        BY <1>3, <1>5, <2>2, <2>3, <2>4
      <3>2. Twice(j, k)'
        BY <1>2, <2>1, <3>1 DEF Twice, NonceOf
      <3>3. QED
        BY <1>2, <3>2 DEF BwcIInv, IInv, AcceptSpread
    <2>5. QED
      BY <2>1, <2>3, <2>4 DEF SS!Distance, AbsDiff
  <1>9. \A q \in Ran :
            /\ q.send # k
            /\ Asked[q.send] = Asked[k] =>
                  SS!Distance(q.at, now[k]) + MaxLag > 2 * MAX_CLOCK_SKEW_SECS
    BY <1>8, RunsAre
  <1>10. Ran' = Ran \cup {[send |-> k, at |-> now[k]]}
    BY <1>2 DEF Ran
  <1>11. UNCHANGED <<Asked, outcome>>
    BY DEF callVars, Asked
  <1>12. PICK t \in Seconds : t = now[k]
    BY DEF BwcIInv, IInv, TypeOK
  <1>13. SS!Run(k, t)
    BY <1>4, <1>5, <1>7, <1>9, <1>10, <1>11, <1>12 DEF SS!Run
  <1>14. QED
    BY <1>13

\* What a returning call reports it may be told: the relay's refusals come before
\* the wallet has the request, and the wallet's answer is true.
LEMMA ReturnTells ==
    ASSUME BwcIInv, NEW k \in Tasks,
           ClientRefused(k) \/ ClientReply(k) \/ ClientGivesUp(k)
    PROVE  \E o \in {"ok", "replayed", "401", "404", "error", "502"} \cup Reasons :
              SS!Tell(k, o)
  <1> USE DEF Asked, Ran
  <1> DEFINE denials == {"401", "404"} \cup (Reasons \ {"replayed"})
             answers == {"ok", "replayed", "401", "404", "error", "502"} \cup Reasons
  <1>1. PICK o : /\ Returns(k, o)
                 /\ \/ o \in {"401", "404"} /\ relay[k] = o
                    \/ o \in {"502", "error"}
                    \/ relay[k] = "replied" /\ o = reply[k].payload
    BY DEF ClientRefused, ClientReply, ClientGivesUp
  <1>2. /\ call[k] = "waiting" /\ UNCHANGED <<vars, posted>>
        /\ outcome' = [outcome EXCEPT ![k] = o]
        /\ call' = [call EXCEPT ![k] = "returned"]
    BY <1>1 DEF Returns
  <1>3. outcome[k] = "none" /\ k \in DOMAIN Asked
    BY <1>2 DEF BwcIInv, Chain
  <1>4. UNCHANGED <<Asked, Ran>>
    <2>1. \A j \in Tasks : call'[j] # "idle" <=> call[j] # "idle"
      BY <1>2 DEF BwcIInv, BwcTypeOK
    <2>2. UNCHANGED Asked
      BY <1>2, <2>1
    <2>3. UNCHANGED Ran
      BY <1>2 DEF vars, Accepted
    <2>4. QED
      BY <2>2, <2>3
  <1>5. /\ o \in answers
        /\ \/ o = "ok" /\ Accepted(k)
           \/ /\ o = "replayed" /\ ~ Accepted(k)
              /\ \E j \in Tasks : Accepted(j) /\ Asked[j] = Asked[k]
           \/ o \in denials /\ ~ Accepted(k)
           \/ o \in {"error", "502"}
    <2>1. CASE o \in {"401", "404"} /\ relay[k] = o
      <3>1. pc[k] = "idle"
        BY <2>1 DEF BwcIInv, Chain
      <3>2. ~ Accepted(k)
        BY <3>1 DEF BwcIInv, IInv, Stages, Accepted
      <3>3. QED
        BY <2>1, <3>2
    <2>2. CASE o \in {"502", "error"}
      BY <2>2
    <2>3. CASE relay[k] = "replied" /\ o = reply[k].payload
      <3>1. pc[k] = "done" /\ o = result[k] /\ wire[k] = posted[k]
        <4>1. pc[k] = "done" /\ reply[k] = Answer(k)
          BY <2>3 DEF BwcIInv, Chain
        <4>2. wire[k] = posted[k]
          BY <4>1 DEF BwcIInv, Chain
        <4>3. QED
          BY <2>3, <4>1, <4>2 DEF Answer, Response, Seal
      <3>2. o \in Reasons \cup {"ok"}
        BY <3>1 DEF BwcIInv, IInv, TypeOK, Stages
      <3>3. CASE o = "ok"
        BY <3>1, <3>3 DEF Accepted
      <3>4. CASE o = "replayed"
        <4>1. PICK j \in Tasks : j # k /\ Accepted(j) /\ NonceOf(j) = NonceOf(k)
          BY <3>1, <3>4 DEF BwcIInv, RejectionsJustified
        <4>2. wire[j] \in ClientRequests /\ wire[j] = posted[j] /\ call[j] # "idle"
          BY <4>1 DEF BwcIInv, IInv, ExecutedAsSealed, Stages, Chain, Accepted
        <4>3. wire[k] \in ClientRequests
          BY <1>2, <3>1 DEF BwcIInv, Chain
        <4>4. wire[j] = wire[k]
          BY <4>1, <4>2, <4>3 DEF ClientRequests, Request, Seal, NonceOf
        <4>5. Asked[j] = Asked[k] /\ Accepted(j)
          BY <1>2, <3>1, <4>1, <4>2, <4>4
        <4>6. ~ Accepted(k)
          BY <3>1, <3>4 DEF Accepted
        <4>7. QED
          BY <3>4, <4>5, <4>6
      <3>5. CASE o \in Reasons \ {"replayed"}
        <4>1. ~ Accepted(k)
          BY <3>1, <3>5 DEF Accepted, Reasons
        <4>2. QED
          BY <3>5, <4>1
      <3>6. QED
        BY <3>2, <3>3, <3>4, <3>5
    <2>4. QED
      BY <1>1, <2>1, <2>2, <2>3
  <1>6. PICK p \in answers : p = o
    BY <1>5
  <1> HIDE DEF Asked, Ran, denials, answers
  <1>7. p = "replayed" => \E q \in Ran : Asked[q.send] = Asked[k]
    <2>1. ASSUME NEW j \in Tasks, Accepted(j), Asked[j] = Asked[k]
          PROVE  \E q \in Ran : Asked[q.send] = Asked[k]
      BY <2>1, RunsAre
    <2>2. QED
      BY <1>5, <1>6, <2>1 DEF denials, Reasons
  <1>8. SS!HasRun(k) <=> Accepted(k)
    BY RunsAre
  <1>9. SS!Tell(k, p)
    BY <1>2, <1>3, <1>4, <1>5, <1>6, <1>7, <1>8 DEF SS!Tell, denials
  <1>10. QED
    BY <1>9 DEF answers

\* Whatever the lag, the deployment implements SettledSend: what a send is told by
\* the relay or the wallet is true and stays true, and the sends of one request are
\* executed further apart than twice the skew less the lag.
THEOREM SendsSettle == BwcSpec => ImplementsSettledSend
  <1>1. BwcInit => SS!Init
    BY DEF BwcInit, Init, Accepted, SS!Init, Asked, Ran
  <1>2. BwcIInv /\ BwcIInv' /\ [BwcNext]_bwcVars => [SS!Next]_<<Asked, Ran, outcome>>
    <2> SUFFICES ASSUME BwcIInv, BwcIInv', [BwcNext]_bwcVars
                 PROVE  SS!Next \/ UNCHANGED <<Asked, Ran, outcome>>
      OBVIOUS
    <2> USE DEF Asked, Ran
    <2>1. ASSUME NEW k \in Tasks, NEW w \in ClientRequests,
                 NEW t \in TokenNames, Post(k, w, t)
          PROVE  SS!Next
      <3>1. w \in Sealable
        BY DEF Sealable, ClientRequests, BwcIInv, IInv, TypeOK
      <3>2. /\ k \notin DOMAIN Asked /\ UNCHANGED <<Ran, outcome>>
            /\ Asked' = [j \in DOMAIN Asked \cup {k} |-> IF j = k THEN w ELSE Asked[j]]
        <4>1. UNCHANGED <<Ran, outcome>> /\ call[k] = "idle"
          BY <2>1 DEF Post, vars, Accepted
        <4>2. \A j \in Tasks : /\ call'[j] # "idle" <=> (j = k \/ call[j] # "idle")
                             /\ posted'[j] = IF j = k THEN w ELSE posted[j]
          BY <2>1 DEF Post, BwcIInv, BwcTypeOK
        <4>3. QED
          BY <4>1, <4>2
      <3>3. SS!Post(k, w)
        BY <3>2 DEF SS!Post
      <3>4. QED
        BY <3>1, <3>3 DEF SS!Next
    <2>2. ASSUME NEW k \in Tasks, ClientRefused(k) \/ ClientReply(k) \/ ClientGivesUp(k)
          PROVE  SS!Next
      <3>1. PICK o \in {"ok", "replayed", "401", "404", "error", "502"} \cup Reasons :
                SS!Tell(k, o)
        BY <2>2, ReturnTells
      <3>2. o \in {"ok", "replayed"} \cup ({"401", "404"} \cup (Reasons \ {"replayed"}))
                 \cup {"error", "502"}
        OBVIOUS
      <3>3. QED
        BY <3>1, <3>2 DEF SS!Next
    <2>3. ASSUME NEW k \in Tasks, Accept(k), UNCHANGED <<conn, callVars, relayVars>>
          PROVE  SS!Next
      BY <2>3, AcceptRuns DEF SS!Next
    <2>4. CASE /\ UNCHANGED callVars
               /\ \A j \in Tasks : /\ Accepted(j)' <=> Accepted(j)
                                   /\ Accepted(j) => now'[j] = now[j]
      <3>1. UNCHANGED <<Asked, outcome>>
        BY <2>4 DEF callVars
      <3>2. UNCHANGED Ran
        BY <2>4
      <3>3. QED
        BY <3>1, <3>2
    <2>5. ASSUME NEW k \in Tasks, NEW r \in Reasons, Return(k, r)
          PROVE  now' = now /\ \A j \in Tasks : Accepted(j)' <=> Accepted(j)
      BY <2>5, ReturnLemma DEF BwcIInv, Accepted, Reasons, Return
    <2>6. CASE WalletStep
      <3>1. UNCHANGED <<conn, callVars, relayVars>>
        BY <2>6 DEF WalletStep
      <3>2. CASE UNCHANGED <<result, now>>
        BY <2>4, <3>1, <3>2 DEF Accepted
      <3>3. ASSUME NEW k \in Tasks, Handle(k) PROVE SS!Next \/ UNCHANGED <<Asked, Ran, outcome>>
        BY <2>3, <2>4, <2>5, <3>1, <3>3
        DEF Handle, RejectUnauthentic, RejectMalformed, RejectSkewed, RejectReplayed, Reasons
      <3>4. QED
        BY <2>6, <3>2, <3>3 DEF WalletStep, MoveClock, ClientSeal, Reply
    <2>7. ASSUME NEW k \in Tasks,
                 \/ RelayUnauthorized(k) \/ RelayUnknownConn(k) \/ RelayForward(k)
                 \/ RelayReply(k) \/ RelayBadGateway(k) \/ RelayDropped(k)
          PROVE  UNCHANGED <<callVars, result, now>>
      BY <2>7 DEF RelayUnauthorized, RelayUnknownConn, RelayForward, RelayReply,
                  RelayBadGateway, RelayDropped, Handler, vars
    <2>8. CASE UNCHANGED <<callVars, result, now>>
      BY <2>4, <2>8 DEF Accepted
    <2>9. CASE \E k \in Tasks : WalletReceive(k)
      <3>1. PICK k \in Tasks : WalletReceive(k)
        BY <2>9
      <3>2. /\ UNCHANGED <<callVars, result>> /\ result[k] = "none"
            /\ \A j \in Tasks : j # k => now'[j] = now[j]
        BY <3>1 DEF WalletReceive, Receive, BwcIInv, IInv, Stages, TypeOK
      <3>3. QED
        BY <2>4, <3>2 DEF Accepted
    <2>10. QED
      BY <2>1, <2>2, <2>6, <2>7, <2>8, <2>9 DEF BwcNext, bwcVars, vars
  <1>3. QED
    BY <1>1, <1>2, BwcInductive, PTL DEF BwcSpec, ImplementsSettledSend, SS!Spec

=============================================================================
