------------------------- MODULE WalletServerProofs -------------------------
(***************************************************************************)
(* Proofs about WalletServer for every set of tasks and nonces, every skew *)
(* and every bound on the lag.  IInv is inductive; the safety properties   *)
(* of the wallet follow from it.                                           *)
(***************************************************************************)
EXTENDS WalletServer, TLAPS

-----------------------------------------------------------------------------
\* The cache's two operations, used by every outcome of handle().

\* retain() drops entries and changes none; what it drops is older than twice
\* the skew by the reading it was given.
LEMMA RetainLemma ==
    ASSUME NEW m, NEW t \in Nat, \A x \in DOMAIN m : m[x] \in Nat
    PROVE  /\ DOMAIN Retain(m, t) \subseteq DOMAIN m
           /\ \A x \in DOMAIN Retain(m, t) :
                 /\ Retain(m, t)[x] = m[x]
                 /\ t - m[x] <= 2 * MAX_CLOCK_SKEW_SECS
           /\ \A x \in DOMAIN m \ DOMAIN Retain(m, t) :
                 t > m[x] + 2 * MAX_CLOCK_SKEW_SECS
  BY TimeAssumption DEF Retain, SaturatingSub

\* insert() binds its key and leaves every other entry alone.
LEMMA InsertLemma ==
    ASSUME NEW m, NEW k, NEW v
    PROVE  /\ DOMAIN Insert(m, k, v) = DOMAIN m \cup {k}
           /\ Insert(m, k, v)[k] = v
           /\ \A x \in DOMAIN m : x # k => Insert(m, k, v)[x] = m[x]
  BY DEF Insert

\* A wire that opens and carries a nonce is one the client sealed.
LEMMA GenuineWire ==
    ASSUME NEW w \in ClientRequests \cup StrayWires,
           Opened(w), w.payload # Malformed
    PROVE  \E n \in DOMAIN stamp :
               /\ w = Request(n, stamp[n])
               /\ w.payload.nonce = n
               /\ w.payload.timestamp = stamp[n]
  <1>1. w \notin StrayWires
    BY WireAssumption DEF Stray, Opened, Opens
  <1>2. PICK n \in DOMAIN stamp : w = Request(n, stamp[n])
    BY <1>1 DEF ClientRequests
  <1>3. w.payload = [nonce |-> n, timestamp |-> stamp[n]]
    BY <1>2 DEF Request, Seal
  <1>4. QED
    BY <1>2, <1>3

-----------------------------------------------------------------------------
\* IInv is inductive.

\* Initially no task has started and the cache is empty.
LEMMA InitIInv == Init => IInv
  BY TimeAssumption
  DEF Init, IInv, TypeOK, LagBounded, Stages, ExecutedAsSealed, Remembered,
      CacheExplained, CacheBounded, AcceptSpread, Twice, Accepted, Seconds

\* The clock moves: only LagBounded speaks of it.
LEMMA MoveClockIInv ==
    ASSUME IInv, NEW t \in Seconds, MoveClock(t)
    PROVE  IInv'
  <1> USE DEF IInv, MoveClock
  <1>1. high' \in Seconds /\ high' >= high /\ high' >= t
    BY DEF Larger, TypeOK, Seconds
  <1>2. TypeOK'
    BY <1>1 DEF TypeOK, ClientRequests
  <1>3. LagBounded'
    BY <1>1, TimeAssumption DEF LagBounded, TypeOK, Seconds
  <1>4. Stages' /\ ExecutedAsSealed' /\ Remembered' /\ CacheExplained'
        /\ CacheBounded' /\ AcceptSpread'
    BY DEF Stages, ExecutedAsSealed, Remembered, Overtaken, CacheExplained,
           CacheBounded, AcceptSpread, Twice, Accepted, NonceOf, ClientRequests
  <1>5. QED
    BY <1>2, <1>3, <1>4

\* The client seals under a fresh nonce: the requests sealed before stay.
LEMMA ClientSealIInv ==
    ASSUME IInv, NEW n \in Nonces, NEW t \in Seconds, ClientSeal(n, t)
    PROVE  IInv'
  <1> USE DEF IInv, ClientSeal
  <1>1. /\ DOMAIN stamp' = DOMAIN stamp \cup {n}
        /\ stamp' \in [DOMAIN stamp' -> Seconds]
        /\ \A x \in DOMAIN stamp : stamp'[x] = stamp[x]
    BY InsertLemma DEF TypeOK, Insert
  <1>2. ClientRequests \subseteq ClientRequests'
    BY <1>1 DEF ClientRequests
  <1>3. TypeOK'
    BY <1>1, <1>2 DEF TypeOK
  <1>4. Stages'
    BY <1>2 DEF Stages
  <1>5. ExecutedAsSealed'
    <2> SUFFICES ASSUME NEW k \in Tasks, Accepted(k)
                 PROVE  /\ wire[k] \in ClientRequests'
                        /\ Fresh(now[k], stamp'[NonceOf(k)])
      BY DEF ExecutedAsSealed, Accepted, NonceOf, Fresh
    <2>1. wire[k] \in ClientRequests /\ Fresh(now[k], stamp[NonceOf(k)])
      BY DEF ExecutedAsSealed
    <2>2. NonceOf(k) \in DOMAIN stamp
      BY <2>1 DEF ClientRequests, Request, Seal, NonceOf
    <2>3. QED
      BY <1>1, <1>2, <2>1, <2>2
  <1>6. LagBounded' /\ Remembered' /\ CacheExplained' /\ CacheBounded'
        /\ AcceptSpread'
    BY DEF LagBounded, Remembered, Overtaken, CacheExplained, CacheBounded,
           AcceptSpread, Twice, Accepted, NonceOf
  <1>7. QED
    BY <1>3, <1>4, <1>5, <1>6

\* A task starts: its reading is the current clock, within MaxStepBack of high.
LEMMA ReceiveIInv ==
    ASSUME IInv, NEW k \in Tasks, NEW w \in ClientRequests \cup StrayWires,
           Receive(k, w)
    PROVE  IInv'
  <1> USE DEF IInv, Receive
  <1>1. TypeOK'
    BY DEF TypeOK, ClientRequests
  <1>2. LagBounded'
    BY TimeAssumption DEF LagBounded, TypeOK, Seconds
  <1>3. Stages'
    BY DEF Stages, TypeOK, ClientRequests
  <1>4. result[k] = "none"
    BY DEF Stages
  <1>5. \A j \in Tasks :
            result[j] # "none" =>
                j # k /\ wire'[j] = wire[j] /\ now'[j] = now[j]
    BY <1>4 DEF TypeOK
  <1>6. \A j \in Tasks :
            Accepted(j) => /\ Accepted(j)' /\ NonceOf(j)' = NonceOf(j)
                           /\ now'[j] = now[j] /\ wire'[j] = wire[j]
    BY <1>5 DEF Accepted, NonceOf
  <1>7. ExecutedAsSealed'
    BY <1>6 DEF ExecutedAsSealed, Accepted, ClientRequests
  <1>8. CacheExplained' /\ AcceptSpread'
    BY <1>6 DEF CacheExplained, AcceptSpread, Twice, Accepted
  <1>9. CacheBounded'
    BY <1>5 DEF CacheBounded
  <1>10. \A j \in Tasks : Accepted(j) /\ Overtaken(j) => Overtaken(j)'
    BY <1>5, <1>6 DEF Overtaken
  <1>11. Remembered'
    BY <1>6, <1>10 DEF Remembered, Accepted
  <1>12. QED
    BY <1>1, <1>2, <1>3, <1>7, <1>8, <1>9, <1>11

\* The reply is sealed: no local the properties speak of changes.
LEMMA ReplyIInv ==
    ASSUME IInv, NEW k \in Tasks, Reply(k)
    PROVE  IInv'
  <1> USE DEF IInv, Reply
  <1>1. TypeOK' /\ LagBounded' /\ Stages'
    BY DEF TypeOK, LagBounded, Stages, ClientRequests
  <1>2. ExecutedAsSealed' /\ Remembered' /\ CacheExplained' /\ CacheBounded'
        /\ AcceptSpread'
    BY DEF ExecutedAsSealed, Remembered, Overtaken, CacheExplained,
           CacheBounded, AcceptSpread, Twice, Accepted, NonceOf, ClientRequests
  <1>3. QED
    BY <1>1, <1>2

\* What every return of handle() leaves alone, whatever it does to the cache.
LEMMA ReturnLemma ==
    ASSUME IInv, NEW k \in Tasks, NEW r \in Reasons \cup {"ok"}, Return(k, r)
    PROVE  /\ LagBounded' /\ Stages'
           /\ result[k] = "none" /\ result' \in [Tasks -> Reasons \cup {"none", "ok"}]
           /\ result'[k] = r
           /\ \A j \in Tasks : j # k => result'[j] = result[j]
           /\ \A j \in Tasks : NonceOf(j)' = NonceOf(j)
           /\ pc' \in [Tasks -> {"idle", "locking", "sealing", "done"}]
           /\ ClientRequests' = ClientRequests
           /\ now[k] \in Nat /\ now[k] <= high /\ high - now[k] <= MaxLag
           /\ \A x \in DOMAIN seen : seen[x] \in Nat
  <1> USE DEF IInv, Return
  <1>1. result[k] = "none" /\ result' \in [Tasks -> Reasons \cup {"none", "ok"}]
    BY DEF Stages, TypeOK
  <1>2. LagBounded'
    BY DEF LagBounded, TypeOK
  <1>3. ClientRequests' = ClientRequests
    BY DEF ClientRequests
  <1>4. Stages'
    BY <1>3 DEF Stages, TypeOK, Reasons
  <1>5. now[k] \in Nat /\ now[k] <= high /\ high - now[k] <= MaxLag
    BY DEF LagBounded, TypeOK, Seconds
  <1>6. QED
    BY <1>1, <1>2, <1>3, <1>4, <1>5 DEF TypeOK, NonceOf, Seconds

\* A returning task overtakes what its reading is past, and what was overtaken
\* stays so.
LEMMA OvertakenLemma ==
    ASSUME IInv, NEW k \in Tasks, NEW r \in Reasons \cup {"ok"}, Return(k, r),
           NEW j \in Tasks,
           Overtaken(j) \/ now[k] > now[j] + 2 * MAX_CLOCK_SKEW_SECS
    PROVE  Overtaken(j)'
  <1>1. /\ result[k] = "none" /\ result'[k] = r /\ r # "none" /\ now' = now
        /\ \A m \in Tasks : m # k => result'[m] = result[m]
    BY ReturnLemma DEF Return, Reasons
  <1>2. QED
    BY <1>1 DEF Overtaken

\* Rejections only expire entries, and what they expire is past twice the skew.
LEMMA RejectIInv ==
    ASSUME IInv, NEW k \in Tasks, NEW r \in Reasons, Return(k, r),
           seen' = Retain(seen, now[k])
    PROVE  IInv'
  <1>1. /\ DOMAIN seen' \subseteq DOMAIN seen
        /\ \A x \in DOMAIN seen' :
              seen'[x] = seen[x] /\ now[k] - seen[x] <= 2 * MAX_CLOCK_SKEW_SECS
        /\ \A x \in DOMAIN seen \ DOMAIN seen' :
              now[k] > seen[x] + 2 * MAX_CLOCK_SKEW_SECS
    BY RetainLemma, ReturnLemma
  <1>2. \A j \in Tasks :
            /\ Accepted(j)' <=> Accepted(j)
            /\ Accepted(j) => j # k
    BY ReturnLemma DEF Accepted, Reasons
  <1>3. UNCHANGED <<clock, high, stamp, wire, now>>
    BY DEF Return
  <1>4. TypeOK'
    <2>1. seen' = [x \in DOMAIN seen' |-> seen'[x]]
      BY DEF Retain
    <2>2. seen' \in [DOMAIN seen' -> Seconds]
      BY <1>1, <2>1 DEF IInv, TypeOK
    <2>3. QED
      BY <1>1, <1>3, <2>2, ReturnLemma DEF IInv, TypeOK
  <1>5. ExecutedAsSealed'
    BY <1>2, <1>3, ReturnLemma DEF IInv, ExecutedAsSealed, Fresh
  <1>6. Remembered'
    <2> SUFFICES ASSUME NEW j \in Tasks, Accepted(j),
                        NonceOf(j) \notin DOMAIN seen' \/ seen'[NonceOf(j)] # now[j]
                 PROVE  Overtaken(j)'
      BY <1>2, <1>3, ReturnLemma DEF Remembered
    <2>1. CASE NonceOf(j) \in DOMAIN seen /\ seen[NonceOf(j)] = now[j]
      <3>1. now[k] > now[j] + 2 * MAX_CLOCK_SKEW_SECS
        BY <1>1, <2>1
      <3>2. QED
        BY <3>1, OvertakenLemma
    <2>2. CASE Overtaken(j)
      BY <2>2, OvertakenLemma
    <2>3. QED
      BY <2>1, <2>2 DEF IInv, Remembered
  <1>7. CacheExplained'
    BY <1>1, <1>2, <1>3, ReturnLemma DEF IInv, CacheExplained
  <1>8. CacheBounded'
    <2> SUFFICES ASSUME NEW n \in DOMAIN seen', NEW j \in Tasks,
                        result'[j] # "none"
                 PROVE  now[j] - seen[n] <= Larger(2 * MAX_CLOCK_SKEW_SECS, MaxLag)
      BY <1>1, <1>3 DEF CacheBounded
    <2>1. CASE j = k
      BY <1>1, <2>1, ReturnLemma, TimeAssumption DEF Larger
    <2>2. CASE j # k
      BY <1>1, <2>2, ReturnLemma DEF IInv, CacheBounded
    <2>3. QED
      BY <2>1, <2>2
  <1>9. AcceptSpread'
    BY <1>2, <1>3, ReturnLemma DEF IInv, AcceptSpread, Twice
  <1>10. QED
    BY <1>4, <1>5, <1>6, <1>7, <1>8, <1>9, ReturnLemma DEF IInv

\* An acceptance: the nonce is not in the cache after the expiry, so an earlier
\* execution of it has been forgotten, and the newest reading is past twice
\* the skew after that execution.
LEMMA AcceptIInv ==
    ASSUME IInv, NEW k \in Tasks, Accept(k)
    PROVE  IInv'
  <1> DEFINE n == NonceOf(k)
             kept == Retain(seen, now[k])
  <1>1. Return(k, "ok") /\ seen' = Insert(kept, n, now[k]) /\ n \notin DOMAIN kept
    BY DEF Accept, NonceOf
  <1>2. UNCHANGED <<clock, high, stamp, wire, now>>
    BY <1>1 DEF Return
  <1>3. wire[k] \in ClientRequests /\ n \in DOMAIN stamp /\ Fresh(now[k], stamp[n])
    <2>1. wire[k] \in ClientRequests \cup StrayWires
      BY <1>1 DEF IInv, Stages, Return
    <2>2. Opened(wire[k]) /\ wire[k].payload # Malformed
          /\ Fresh(now[k], wire[k].payload.timestamp)
      BY DEF Accept
    <2>3. QED
      BY <2>1, <2>2, GenuineWire DEF ClientRequests, NonceOf
  <1>4. /\ DOMAIN kept \subseteq DOMAIN seen
        /\ \A x \in DOMAIN kept :
              kept[x] = seen[x] /\ now[k] - seen[x] <= 2 * MAX_CLOCK_SKEW_SECS
        /\ \A x \in DOMAIN seen \ DOMAIN kept :
              now[k] > seen[x] + 2 * MAX_CLOCK_SKEW_SECS
    BY <1>1, RetainLemma, ReturnLemma
  <1>5. /\ DOMAIN seen' = DOMAIN kept \cup {n}
        /\ seen'[n] = now[k]
        /\ \A x \in DOMAIN kept : seen'[x] = seen[x]
        /\ seen' = [x \in DOMAIN seen' |-> seen'[x]]
    <2> HIDE DEF n, kept
    <2>1. DOMAIN seen' = DOMAIN kept \cup {n}
      BY <1>1 DEF Insert
    <2>2. seen' = [x \in DOMAIN seen' |-> seen'[x]]
      BY <1>1 DEF Insert
    <2>3. seen'[n] = now[k]
      BY <1>1 DEF Insert
    <2>4. \A x \in DOMAIN kept : seen'[x] = seen[x]
      BY <1>1, <1>4 DEF Insert
    <2>5. QED
      BY <2>1, <2>2, <2>3, <2>4
  <1>6. \A j \in Tasks : Accepted(j)' <=> (j = k \/ Accepted(j))
    BY <1>1, ReturnLemma DEF Accepted
  <1>7. TypeOK'
    <2>1. n \in Nonces /\ now[k] \in Seconds
      BY <1>3 DEF IInv, TypeOK
    <2>2. seen' \in [DOMAIN seen' -> Seconds]
      BY <1>4, <1>5, <2>1 DEF IInv, TypeOK
    <2>3. DOMAIN seen' \subseteq Nonces
      BY <1>4, <1>5, <2>1 DEF IInv, TypeOK
    <2>4. QED
      BY <1>1, <1>2, <2>2, <2>3, ReturnLemma DEF IInv, TypeOK
  <1>8. ExecutedAsSealed'
    BY <1>1, <1>2, <1>3, <1>6, ReturnLemma DEF IInv, ExecutedAsSealed, Fresh
  <1>9. Remembered'
    <2> SUFFICES ASSUME NEW j \in Tasks, j # k, Accepted(j),
                        ~ (NonceOf(j) \in DOMAIN seen' /\ seen'[NonceOf(j)] = now[j])
                 PROVE  Overtaken(j)'
      BY <1>1, <1>2, <1>5, <1>6, ReturnLemma DEF Remembered
    <2>1. CASE NonceOf(j) \in DOMAIN seen /\ seen[NonceOf(j)] = now[j]
      <3>1. NonceOf(j) \notin DOMAIN kept
        BY <1>1, <1>5, <2>1
      <3>2. now[k] > now[j] + 2 * MAX_CLOCK_SKEW_SECS
        BY <1>4, <2>1, <3>1
      <3>3. QED
        BY <1>1, <3>2, OvertakenLemma
    <2>2. CASE Overtaken(j)
      BY <1>1, <2>2, OvertakenLemma
    <2>3. QED
      BY <2>1, <2>2 DEF IInv, Remembered
  <1>10. CacheExplained'
    <2> SUFFICES ASSUME NEW x \in DOMAIN seen'
                 PROVE  \E j \in Tasks : Accepted(j)' /\ NonceOf(j) = x /\ seen'[x] = now[j]
      BY <1>1, <1>2, ReturnLemma DEF CacheExplained
    <2>1. CASE x = n
      BY <1>5, <1>6, <2>1
    <2>2. CASE x # n
      BY <1>4, <1>5, <1>6, <2>2 DEF IInv, CacheExplained
    <2>3. QED
      BY <2>1, <2>2
  <1>11. CacheBounded'
    <2> SUFFICES ASSUME NEW x \in DOMAIN seen', NEW j \in Tasks,
                        result'[j] # "none"
                 PROVE  now[j] - seen'[x] <= Larger(2 * MAX_CLOCK_SKEW_SECS, MaxLag)
      BY <1>2 DEF CacheBounded
    <2>1. now[j] \in Nat /\ now[j] <= high /\ high \in Nat
      BY DEF IInv, LagBounded, TypeOK, Seconds
    <2>2. CASE x = n
      BY <1>1, <1>5, <2>1, <2>2, ReturnLemma, TimeAssumption DEF Larger
    <2>3. CASE x # n /\ j = k
      BY <1>1, <1>4, <1>5, <2>3, ReturnLemma, TimeAssumption DEF Larger
    <2>4. CASE x # n /\ j # k
      BY <1>1, <1>4, <1>5, <2>4, ReturnLemma DEF IInv, CacheBounded
    <2>5. QED
      BY <2>2, <2>3, <2>4
  <1>12. AcceptSpread'
    <2>1. \A j \in Tasks : j # k /\ Accepted(j) /\ NonceOf(j) = n =>
              now[k] + MaxLag > now[j] + 2 * MAX_CLOCK_SKEW_SECS
      <3> SUFFICES ASSUME NEW j \in Tasks, j # k, Accepted(j), NonceOf(j) = n
                   PROVE  now[k] + MaxLag > now[j] + 2 * MAX_CLOCK_SKEW_SECS
        OBVIOUS
      <3>1. now[j] \in Nat /\ high \in Nat
        BY DEF IInv, TypeOK, Seconds
      <3>2. CASE n \in DOMAIN seen /\ seen[n] = now[j]
        BY <1>1, <1>4, <3>1, <3>2, ReturnLemma, TimeAssumption
      <3>3. CASE Overtaken(j)
        <4>1. PICK m \in Tasks : now[m] > now[j] + 2 * MAX_CLOCK_SKEW_SECS
          BY <3>3 DEF Overtaken
        <4>2. now[m] \in Nat /\ now[m] <= high
          BY DEF IInv, LagBounded, TypeOK, Seconds
        <4>3. QED
          BY <1>1, <3>1, <4>1, <4>2, ReturnLemma, TimeAssumption
      <3>4. QED
        BY <3>2, <3>3 DEF IInv, Remembered
    <2>2. \A j \in Tasks : j # k /\ Accepted(j) /\ NonceOf(j) = n =>
              /\ AbsDiff(now[j], now[k]) + MaxLag > 2 * MAX_CLOCK_SKEW_SECS
              /\ AbsDiff(now[k], now[j]) + MaxLag > 2 * MAX_CLOCK_SKEW_SECS
      BY <1>1, <2>1, ReturnLemma, TimeAssumption DEF AbsDiff, IInv, TypeOK, Seconds
    <2>3. QED
      BY <1>1, <1>2, <1>6, <2>2, ReturnLemma DEF IInv, AcceptSpread, Twice
  <1>13. QED
    BY <1>1, <1>7, <1>8, <1>9, <1>10, <1>11, <1>12, ReturnLemma DEF IInv

\* A step that changes no variable keeps the invariant.
LEMMA StutterIInv == ASSUME IInv, UNCHANGED vars PROVE IInv'
  BY DEF vars, IInv, TypeOK, LagBounded, Stages, ExecutedAsSealed, Remembered,
         Overtaken, CacheExplained, CacheBounded, AcceptSpread, Twice, Accepted,
         NonceOf, ClientRequests

\* Every step of the wallet and its surroundings preserves IInv.
LEMMA NextIInv == IInv /\ [Next]_vars => IInv'
  <1> SUFFICES ASSUME IInv, [Next]_vars PROVE IInv'
    OBVIOUS
  <1>1. ASSUME NEW t \in Seconds, MoveClock(t) PROVE IInv'
    BY <1>1, MoveClockIInv
  <1>2. ASSUME NEW n \in Nonces, NEW t \in Seconds, ClientSeal(n, t) PROVE IInv'
    BY <1>2, ClientSealIInv
  <1>3. ASSUME NEW k \in Tasks, NEW w \in ClientRequests \cup StrayWires,
               Receive(k, w)
        PROVE  IInv'
    BY <1>3, ReceiveIInv
  <1>4. ASSUME NEW k \in Tasks, Handle(k) PROVE IInv'
    <2>1. CASE RejectUnauthentic(k)
      BY <2>1, RejectIInv DEF RejectUnauthentic, Reasons
    <2>2. CASE RejectMalformed(k)
      BY <2>2, RejectIInv DEF RejectMalformed, Reasons
    <2>3. CASE RejectSkewed(k)
      BY <2>3, RejectIInv DEF RejectSkewed, Reasons
    <2>4. CASE RejectReplayed(k)
      BY <2>4, RejectIInv DEF RejectReplayed, Reasons
    <2>5. CASE Accept(k)
      BY <2>5, AcceptIInv
    <2>6. QED
      BY <1>4, <2>1, <2>2, <2>3, <2>4, <2>5 DEF Handle
  <1>5. ASSUME NEW k \in Tasks, Reply(k) PROVE IInv'
    BY <1>5, ReplyIInv
  <1>6. CASE UNCHANGED vars
    BY <1>6, StutterIInv
  <1>7. QED
    BY <1>1, <1>2, <1>3, <1>4, <1>5, <1>6 DEF Next

\* The inductive invariant holds in every reachable state.
THEOREM Inductive == Spec => []IInv
  BY InitIInv, NextIInv, PTL DEF Spec

-----------------------------------------------------------------------------
\* The safety properties of the wallet.

\* Every variable keeps its type.
THEOREM TypeCorrect == Spec => []TypeOK
  <1>1. IInv => TypeOK
    BY DEF IInv
  <1>2. QED
    BY <1>1, Inductive, PTL

\* Executions of one request lie more than 2x the skew less the lag apart.
THEOREM Spread == Spec => []AcceptSpread
  <1>1. IInv => AcceptSpread
    BY DEF IInv
  <1>2. QED
    BY <1>1, Inductive, PTL

\* The wallet executes only what its client sealed for it, while it is fresh.
THEOREM Genuine == Spec => []ExecutedAsSealed
  <1>1. IInv => ExecutedAsSealed
    BY DEF IInv
  <1>2. QED
    BY <1>1, Inductive, PTL

\* Only an execution puts a nonce in the cache.
THEOREM Explained == Spec => []CacheExplained
  <1>1. IInv => CacheExplained
    BY DEF IInv
  <1>2. QED
    BY <1>1, Inductive, PTL

\* No entry outlives the window, or the lag if that is longer.
THEOREM Bounded == Spec => []CacheBounded
  <1>1. IInv => CacheBounded
    BY DEF IInv
  <1>2. QED
    BY <1>1, Inductive, PTL

\* Executions of one request are at most twice the skew apart: both readings
\* were within the skew of the one timestamp sealed into it.
LEMMA WindowLemma == IInv => ExposureWindow
  <1> SUFFICES ASSUME IInv, NEW j \in Tasks, NEW k \in Tasks, Twice(j, k)
               PROVE  AbsDiff(now[j], now[k]) <= 2 * MAX_CLOCK_SKEW_SECS
    BY DEF ExposureWindow
  <1>1. /\ Fresh(now[j], stamp[NonceOf(j)]) /\ Fresh(now[k], stamp[NonceOf(j)])
        /\ NonceOf(j) \in DOMAIN stamp
    BY DEF IInv, ExecutedAsSealed, Twice, ClientRequests, Request, Seal, NonceOf
  <1>2. now[j] \in Nat /\ now[k] \in Nat /\ stamp[NonceOf(j)] \in Nat
    BY <1>1 DEF IInv, TypeOK, Seconds
  <1>3. QED
    BY <1>1, <1>2, TimeAssumption DEF Fresh, AbsDiff

\* In every reachable state, executions of one request lie within 2x the skew.
THEOREM Window == Spec => []ExposureWindow
  BY WindowLemma, Inductive, PTL

\* The two executions are spread, and both within the skew of one stamp: so the
\* stamp is well past the one reading and well before the other.
LEMMA MarginLemma == IInv => ReplayMargin
  <1> SUFFICES ASSUME IInv, NEW j \in Tasks, NEW k \in Tasks, Twice(j, k),
                      now[j] <= now[k]
               PROVE  /\ stamp[NonceOf(j)] + MaxLag > now[j] + MAX_CLOCK_SKEW_SECS
                      /\ now[k] + MaxLag > stamp[NonceOf(j)] + MAX_CLOCK_SKEW_SECS
    BY DEF ReplayMargin
  <1>1. /\ Fresh(now[j], stamp[NonceOf(j)]) /\ Fresh(now[k], stamp[NonceOf(j)])
        /\ NonceOf(j) \in DOMAIN stamp
    BY DEF IInv, ExecutedAsSealed, Twice, ClientRequests, Request, Seal, NonceOf
  <1>2. now[j] \in Nat /\ now[k] \in Nat /\ stamp[NonceOf(j)] \in Nat
    BY <1>1 DEF IInv, TypeOK, Seconds
  <1>3. AbsDiff(now[j], now[k]) + MaxLag > 2 * MAX_CLOCK_SKEW_SECS
    BY DEF IInv, AcceptSpread
  <1>4. QED
    BY <1>1, <1>2, <1>3, TimeAssumption DEF Fresh, AbsDiff

\* handle() runs a request twice only if its stamp is ahead of the earlier
\* reading and behind the later one, each by more than the skew less the lag.
THEOREM Margin == Spec => []ReplayMargin
  BY MarginLemma, Inductive, PTL

\* Of three executions of one request the first and the last would be twice the
\* spread apart, which is more than the window has room for.
LEMMA TwiceLemma == IInv => AtMostTwice
  <1> SUFFICES ASSUME IInv, MaxLag <= MAX_CLOCK_SKEW_SECS,
                      NEW i \in Tasks, NEW j \in Tasks, NEW k \in Tasks,
                      Twice(i, j), Twice(j, k), Twice(i, k)
               PROVE  FALSE
    BY DEF AtMostTwice
  <1>1. now[i] \in Nat /\ now[j] \in Nat /\ now[k] \in Nat
    BY DEF IInv, TypeOK, Seconds
  <1>2. /\ AbsDiff(now[i], now[j]) + MaxLag > 2 * MAX_CLOCK_SKEW_SECS
        /\ AbsDiff(now[j], now[k]) + MaxLag > 2 * MAX_CLOCK_SKEW_SECS
        /\ AbsDiff(now[i], now[k]) + MaxLag > 2 * MAX_CLOCK_SKEW_SECS
    BY DEF IInv, AcceptSpread
  <1>3. /\ AbsDiff(now[i], now[j]) <= 2 * MAX_CLOCK_SKEW_SECS
        /\ AbsDiff(now[j], now[k]) <= 2 * MAX_CLOCK_SKEW_SECS
        /\ AbsDiff(now[i], now[k]) <= 2 * MAX_CLOCK_SKEW_SECS
    BY WindowLemma DEF ExposureWindow
  <1>4. QED
    BY <1>1, <1>2, <1>3, TimeAssumption DEF AbsDiff

\* With a lag within the skew, handle() runs no request a third time.
THEOREM NoThird == Spec => []AtMostTwice
  BY TwiceLemma, Inductive, PTL

\* The case to exclude is that of the second execution overtaking the first by
\* its own reading: that is over twice the skew away, where one stamp lets no two
\* readings be.
LEMMA OvertakenFirst ==
    ASSUME IInv, NEW k \in Tasks, Accept(k),
           NEW j \in Tasks, Accepted(j), NonceOf(j) = NonceOf(k)
    PROVE  Overtaken(j)
  <1>1. Return(k, "ok") /\ NonceOf(k) \notin DOMAIN Retain(seen, now[k])
    BY DEF Accept, NonceOf
  <1>2. j # k /\ Twice(j, k)' /\ now' = now
    <2>1. j # k /\ result'[j] = "ok" /\ result'[k] = "ok"
          /\ NonceOf(j)' = NonceOf(j) /\ NonceOf(k)' = NonceOf(k)
      BY <1>1, ReturnLemma DEF Accepted
    <2>2. QED
      BY <1>1, <2>1 DEF Twice, Accepted, Return
  <1>3. AbsDiff(now[j], now[k]) <= 2 * MAX_CLOCK_SKEW_SECS
    <2>1. ExposureWindow'
      BY AcceptIInv, WindowLemma, PTL
    <2>2. QED
      BY <1>2, <2>1 DEF ExposureWindow
  <1>4. now[j] \in Nat /\ now[k] \in Nat
    BY DEF IInv, TypeOK, Seconds
  <1>5. CASE NonceOf(j) \in DOMAIN seen /\ seen[NonceOf(j)] = now[j]
    <2>1. now[k] > now[j] + 2 * MAX_CLOCK_SKEW_SECS
      BY <1>1, <1>5, RetainLemma, ReturnLemma
    <2>2. QED
      BY <1>3, <1>4, <2>1, TimeAssumption DEF AbsDiff
  <1>6. QED
    BY <1>5 DEF IInv, Remembered

\* Only an acceptance adds an execution, and it finds the earlier ones of its
\* request overtaken; if its reading is older than theirs, so is it itself.
LEMMA OvertakenNext ==
    IInv /\ OnlyIfOvertaken /\ [Next]_vars => OnlyIfOvertaken'
  <1> SUFFICES ASSUME IInv, OnlyIfOvertaken, [Next]_vars
               PROVE  OnlyIfOvertaken'
    OBVIOUS
  <1>1. ASSUME NEW k \in Tasks, Accept(k) PROVE OnlyIfOvertaken'
    <2>1. Return(k, "ok")
      BY <1>1 DEF Accept
    <2>2. /\ \A j \in Tasks : Accepted(j)' <=> (j = k \/ Accepted(j))
          /\ \A j \in Tasks : NonceOf(j)' = NonceOf(j)
          /\ now' = now /\ ~ Accepted(k)
      BY <2>1, ReturnLemma DEF Accepted, Return
    <2>3. ASSUME NEW i \in Tasks, NEW j \in Tasks, Twice(i, j)', now[i] <= now[j]
          PROVE  Overtaken(i)'
      <3>1. i # j /\ NonceOf(i) = NonceOf(j)
        BY <2>2, <2>3 DEF Twice
      <3>2. CASE i # k /\ j # k
        <4>1. Twice(i, j)
          BY <2>2, <2>3, <3>1, <3>2 DEF Twice
        <4>2. QED
          BY <2>1, <2>3, <4>1, OvertakenLemma DEF OnlyIfOvertaken
      <3>3. CASE j = k
        <4>1. Accepted(i)
          BY <2>2, <2>3, <3>1, <3>3 DEF Twice
        <4>2. QED
          BY <1>1, <2>1, <3>1, <3>3, <4>1, OvertakenFirst, OvertakenLemma
      <3>4. CASE i = k
        <4>1. Accepted(j) /\ Overtaken(j)
          BY <1>1, <2>2, <2>3, <3>1, <3>4, OvertakenFirst DEF Twice
        <4>2. PICK m \in Tasks :
                  result[m] # "none" /\ now[m] > now[j] + 2 * MAX_CLOCK_SKEW_SECS
          BY <4>1 DEF Overtaken
        <4>3. now[i] \in Nat /\ now[j] \in Nat /\ now[m] \in Nat
          BY DEF IInv, TypeOK, Seconds
        <4>4. now[m] > now[i] + 2 * MAX_CLOCK_SKEW_SECS
          BY <2>3, <4>2, <4>3, TimeAssumption
        <4>5. Overtaken(i)
          BY <4>2, <4>4 DEF Overtaken
        <4>6. QED
          BY <2>1, <4>5, OvertakenLemma
      <3>5. QED
        BY <3>2, <3>3, <3>4
    <2>4. QED
      BY <2>2, <2>3 DEF OnlyIfOvertaken
  <1>2. ASSUME NEW k \in Tasks, NEW r \in Reasons, Return(k, r)
        PROVE  OnlyIfOvertaken'
    <2>1. /\ \A j \in Tasks : Accepted(j)' <=> Accepted(j)
          /\ \A j \in Tasks : NonceOf(j)' = NonceOf(j)
          /\ now' = now
      BY <1>2, ReturnLemma DEF Accepted, Reasons, Return
    <2>2. \A j \in Tasks : Overtaken(j) => Overtaken(j)'
      BY <1>2, OvertakenLemma
    <2>3. QED
      BY <2>1, <2>2 DEF OnlyIfOvertaken, Twice
  <1>3. ASSUME NEW k \in Tasks, NEW w \in ClientRequests \cup StrayWires,
               Receive(k, w)
        PROVE  OnlyIfOvertaken'
    <2>1. /\ result' = result /\ result[k] = "none"
          /\ \A j \in Tasks : j # k => wire'[j] = wire[j] /\ now'[j] = now[j]
      BY <1>3 DEF Receive, IInv, Stages, TypeOK
    <2>2. /\ \A j \in Tasks : Accepted(j)' <=> Accepted(j)
          /\ \A j \in Tasks : Accepted(j) => /\ j # k /\ now'[j] = now[j]
                                             /\ NonceOf(j)' = NonceOf(j)
      BY <2>1 DEF Accepted, NonceOf
    <2>3. \A j \in Tasks : Accepted(j) /\ Overtaken(j) => Overtaken(j)'
      BY <2>1, <2>2 DEF Overtaken
    <2>4. QED
      BY <2>2, <2>3 DEF OnlyIfOvertaken, Twice
  <1>4. CASE UNCHANGED <<wire, now, result>>
    BY <1>4 DEF OnlyIfOvertaken, Overtaken, Twice, Accepted, NonceOf
  <1>5. QED
    BY <1>1, <1>2, <1>3, <1>4
    DEF Next, vars, MoveClock, ClientSeal, Reply, Handle, RejectUnauthentic,
        RejectMalformed, RejectSkewed, RejectReplayed, Reasons

\* Whatever the lag and however the tasks interleave, a request is executed a
\* second time only after a third task's reading overtook the first execution.
THEOREM TwiceOnlyIfOvertaken == Spec => []OnlyIfOvertaken
  <1>1. Init => OnlyIfOvertaken
    BY DEF Init, OnlyIfOvertaken, Twice, Accepted
  <1>2. QED
    BY <1>1, OvertakenNext, Inductive, PTL DEF Spec

-----------------------------------------------------------------------------
\* What a step does to the cache, to the answers and to the abstract wallet.

\* No step changes the receive time of an entry it keeps.  The case to exclude
\* is an acceptance that expires its own nonce and inserts it anew: both
\* readings would be within the skew of the one timestamp, yet over twice the
\* skew apart.
LEMMA AcceptKeepsTimes ==
    ASSUME IInv, NEW k \in Tasks, Accept(k),
           NEW n \in DOMAIN seen, n \in DOMAIN seen'
    PROVE  seen'[n] = seen[n]
  <1> DEFINE kept == Retain(seen, now[k])
  <1>1. Return(k, "ok") /\ seen' = Insert(kept, NonceOf(k), now[k])
        /\ NonceOf(k) \notin DOMAIN kept
    BY DEF Accept, NonceOf
  <1>2. /\ \A x \in DOMAIN kept : kept[x] = seen[x]
        /\ \A x \in DOMAIN seen \ DOMAIN kept :
              now[k] > seen[x] + 2 * MAX_CLOCK_SKEW_SECS
    BY <1>1, RetainLemma, ReturnLemma
  <1> HIDE DEF kept
  <1>3. CASE n # NonceOf(k)
    BY <1>1, <1>2, <1>3 DEF Insert
  <1>4. CASE n = NonceOf(k)
    <2>1. IInv' BY AcceptIInv
    <2>2. PICK j \in Tasks : Accepted(j) /\ NonceOf(j) = n /\ seen[n] = now[j]
      BY DEF IInv, CacheExplained
    <2>3. j # k
      BY <1>1, <2>2, ReturnLemma DEF Accepted
    <2>4. Twice(j, k)' /\ now'[j] = now[j] /\ now'[k] = now[k]
      <3>1. NonceOf(j)' = NonceOf(j) /\ NonceOf(k)' = NonceOf(k)
            /\ result'[j] = result[j] /\ result'[k] = "ok"
        BY <1>1, <2>3, ReturnLemma
      <3>2. now'[j] = now[j] /\ now'[k] = now[k]
        BY <1>1 DEF Return
      <3>3. QED
        BY <1>4, <2>2, <2>3, <3>1, <3>2 DEF Twice, Accepted
    <2>5. AbsDiff(now[j], now[k]) <= 2 * MAX_CLOCK_SKEW_SECS
      <3>1. ExposureWindow'
        BY <2>1, WindowLemma, PTL
      <3>2. QED
        BY <2>4, <3>1 DEF ExposureWindow
    <2>6. now[k] > now[j] + 2 * MAX_CLOCK_SKEW_SECS
      BY <1>1, <1>2, <1>4, <2>2
    <2>7. now[k] \in Nat /\ now[j] \in Nat
      BY DEF IInv, TypeOK, Seconds
    <2>8. QED
      BY <2>5, <2>6, <2>7, TimeAssumption DEF AbsDiff
  <1>5. QED
    BY <1>3, <1>4

\* A replay never prolongs an entry, and no task forgets and re-accepts.
THEOREM NoRefresh == Spec => NeverRefreshed
  <1>1. ASSUME IInv, [Next]_vars, NEW n \in DOMAIN seen, n \in DOMAIN seen'
        PROVE  seen'[n] = seen[n]
    <2>1. CASE \E k \in Tasks : Accept(k)
      BY <1>1, <2>1, AcceptKeepsTimes
    <2>2. CASE \E k \in Tasks : seen' = Retain(seen, now[k])
      BY <1>1, <2>2 DEF Retain
    <2>3. CASE UNCHANGED seen
      BY <2>3
    <2>4. QED
      BY <1>1, <2>1, <2>2, <2>3
      DEF Next, vars, MoveClock, ClientSeal, Receive, Reply, Handle,
          RejectUnauthentic, RejectMalformed, RejectSkewed, RejectReplayed
  <1>2. IInv /\ [Next]_vars =>
            [\A n \in DOMAIN seen \cap DOMAIN seen' : seen'[n] = seen[n]]_vars
    BY <1>1
  <1>3. QED
    BY <1>2, Inductive, PTL DEF Spec, NeverRefreshed

\* What the client seals opens at the wallet and parses.
LEMMA RequestsOpen ==
    TypeOK => \A w \in ClientRequests : Opened(w) /\ w.payload # Malformed
  <1> SUFFICES ASSUME TypeOK, NEW w \in ClientRequests
               PROVE  Opened(w) /\ w.payload # Malformed
    OBVIOUS
  <1>1. PICK n \in DOMAIN stamp : w = Request(n, stamp[n])
    BY DEF ClientRequests
  <1>2. n \in Nonces /\ stamp[n] \in 0..Horizon
    BY DEF TypeOK, Seconds
  <1>3. w.payload # Malformed
    BY <1>1, <1>2, WireAssumption DEF Request, Seal
  <1>4. Opened(w)
    BY <1>1, WireAssumption DEF Request, Seal, Opened, Opens, PskBundleOk
  <1>5. QED
    BY <1>3, <1>4

\* handle() returns one result.
LEMMA OneResult ==
    ASSUME IInv, NEW k \in Tasks, NEW q, NEW r, Return(k, q), Return(k, r)
    PROVE  q = r
  BY DEF IInv, TypeOK, Return

\* The reasons a client gets are the right ones.  A cached nonce was executed by
\* another task; and what the client sealed opens and parses, now and later.
LEMMA JustifiedNext ==
    IInv /\ RejectionsJustified /\ [Next]_vars => RejectionsJustified'
  <1> SUFFICES ASSUME IInv, RejectionsJustified, [Next]_vars
               PROVE  RejectionsJustified'
    OBVIOUS
  <1>1. ASSUME NEW k \in Tasks, Handle(k) PROVE RejectionsJustified'
    <2>1. PICK r \in Reasons \cup {"ok"} : Return(k, r)
      BY <1>1 DEF Handle, RejectUnauthentic, RejectMalformed, RejectSkewed,
                  RejectReplayed, Accept, Reasons
    <2>2. /\ result[k] = "none" /\ result'[k] = r
          /\ \A j \in Tasks : j # k => result'[j] = result[j]
          /\ \A j \in Tasks : NonceOf(j)' = NonceOf(j)
          /\ ClientRequests' = ClientRequests /\ wire' = wire
      BY <2>1, ReturnLemma DEF Return
    <2>3. \A j \in Tasks : Accepted(j) => j # k /\ Accepted(j)'
      BY <2>2 DEF Accepted
    <2>4. r = "replayed" => \E j \in Tasks : Accepted(j) /\ NonceOf(j) = NonceOf(k)
      <3> SUFFICES ASSUME r = "replayed"
                   PROVE  \E j \in Tasks : Accepted(j) /\ NonceOf(j) = NonceOf(k)
        OBVIOUS
      <3>1. RejectReplayed(k)
        <4>1. \A q : Return(k, q) => q = "replayed"
          BY <2>1, OneResult
        <4>2. QED
          BY <1>1, <4>1
          DEF Handle, RejectUnauthentic, RejectMalformed, RejectSkewed, Accept
      <3>2. NonceOf(k) \in DOMAIN seen
        BY <3>1 DEF RejectReplayed, Retain, NonceOf
      <3>3. QED
        BY <3>2 DEF IInv, CacheExplained
    <2>5. r \in {"unauthentic", "malformed"} => wire[k] \notin ClientRequests
      <3>1. \A w \in ClientRequests : Opened(w) /\ w.payload # Malformed
        BY RequestsOpen DEF IInv
      <3>2. r \in {"unauthentic", "malformed"} =>
                ~ Opened(wire[k]) \/ wire[k].payload = Malformed
        <4>1. \A q : Return(k, q) => q = r
          BY <2>1, OneResult
        <4>2. QED
          BY <1>1, <4>1
          DEF Handle, RejectUnauthentic, RejectMalformed, RejectSkewed,
              RejectReplayed, Accept
      <3>3. QED
        BY <3>1, <3>2
    <2>6. QED
      BY <2>2, <2>3, <2>4, <2>5 DEF RejectionsJustified
  <1>2. ASSUME NEW k \in Tasks, NEW w \in ClientRequests \cup StrayWires,
               Receive(k, w)
        PROVE  RejectionsJustified'
    <2>1. result[k] = "none" /\ result' = result /\ ClientRequests' = ClientRequests
      BY <1>2 DEF IInv, Stages, Receive, ClientRequests
    <2>2. \A j \in Tasks : j # k => wire'[j] = wire[j]
      BY <1>2 DEF Receive, IInv, TypeOK
    <2>3. QED
      BY <2>1, <2>2 DEF RejectionsJustified, Accepted, NonceOf
  <1>3. ASSUME NEW n \in Nonces, NEW t \in Seconds, ClientSeal(n, t)
        PROVE  RejectionsJustified'
    <2>1. UNCHANGED <<wire, result>>
      BY <1>3 DEF ClientSeal
    <2>2. ASSUME NEW k \in Tasks, result[k] \in {"unauthentic", "malformed"}
          PROVE  wire[k] \notin ClientRequests'
      <3>1. wire[k] \in StrayWires
        BY <2>2 DEF RejectionsJustified, IInv, Stages
      <3>2. ~ Opened(wire[k]) \/ wire[k].payload = Malformed
        BY <3>1, WireAssumption DEF Stray, Opened, Opens
      <3>3. TypeOK'
        BY <1>3, ClientSealIInv DEF IInv
      <3>4. (\A w \in ClientRequests : Opened(w) /\ w.payload # Malformed)'
        BY <3>3, RequestsOpen, PTL
      <3>5. QED
        BY <3>2, <3>4
    <2>3. QED
      BY <2>1, <2>2 DEF RejectionsJustified, Accepted, NonceOf
  <1>4. CASE UNCHANGED <<stamp, wire, result>>
    BY <1>4 DEF RejectionsJustified, Accepted, NonceOf, ClientRequests
  <1>5. QED
    BY <1>1, <1>2, <1>3, <1>4 DEF Next, vars, MoveClock, Reply

\* "replayed" only for a request another task executed; the client's own
\* requests are never refused as unauthentic or malformed.
THEOREM Justified == Spec => []RejectionsJustified
  <1>1. Init => RejectionsJustified
    BY DEF Init, RejectionsJustified
  <1>2. QED
    BY <1>1, JustifiedNext, Inductive, PTL DEF Spec

\* Whatever the lag, the wallet implements AcceptSpaced: sealing is Issue, an
\* acceptance is Execute at the reading it was checked against.
THEOREM SpacedRefinement == Spec => ImplementsAcceptSpaced
  <1> DEFINE rec(k) == [task |-> k, nonce |-> NonceOf(k), at |-> now[k]]
             done == {rec(k) : k \in {j \in Tasks : Accepted(j)}}
  <1>1. Init => AS!Init
    BY DEF Init, AS!Init, Accepted
  <1>2. IInv /\ IInv' /\ [Next]_vars => [AS!Next]_<<stamp, done>>
    <2> SUFFICES ASSUME IInv, IInv', [Next]_vars
                 PROVE  AS!Next \/ UNCHANGED <<stamp, done>>
      OBVIOUS
    <2>1. ASSUME NEW n \in Nonces, NEW t \in Seconds, ClientSeal(n, t)
          PROVE  AS!Issue(n, t)
      BY <2>1 DEF ClientSeal, Insert, Accepted, NonceOf, AS!Issue
    <2>2. ASSUME NEW k \in Tasks, Accept(k)
          PROVE  \E n \in Nonces, t \in Seconds : AS!Execute(k, n, t)
      <3>1. Return(k, "ok") /\ UNCHANGED <<stamp, wire, now>>
        BY <2>2 DEF Accept, Return
      <3>2. /\ \A j \in Tasks : NonceOf(j)' = NonceOf(j)
            /\ \A j \in Tasks : Accepted(j)' <=> (j = k \/ Accepted(j))
            /\ ~ Accepted(k)
        BY <3>1, ReturnLemma DEF Accepted
      <3>3. /\ NonceOf(k) \in DOMAIN stamp /\ NonceOf(k) \in Nonces
            /\ now[k] \in Seconds /\ Fresh(now[k], stamp[NonceOf(k)])
        <4>1. wire[k] \in ClientRequests' /\ Fresh(now[k], stamp[NonceOf(k)])
          BY <3>1, <3>2 DEF IInv, ExecutedAsSealed, Fresh
        <4>2. NonceOf(k) \in DOMAIN stamp
          BY <3>1, <4>1 DEF ClientRequests, Request, Seal, NonceOf
        <4>3. QED
          BY <4>1, <4>2 DEF IInv, TypeOK
      <3>4. \A j \in Tasks : Accepted(j) =>
                /\ j # k
                /\ NonceOf(j) = NonceOf(k) =>
                      AbsDiff(now[j], now[k]) + MaxLag > 2 * MAX_CLOCK_SKEW_SECS
        BY <3>1, <3>2 DEF IInv, AcceptSpread, Twice
      <3>5. /\ \A e \in done : \E j \in Tasks : Accepted(j) /\ e = rec(j)
            /\ \A j \in Tasks : /\ rec(j).task = j /\ rec(j).nonce = NonceOf(j)
                               /\ rec(j).at = now[j]
        OBVIOUS
      <3>6. \A e \in done :
                /\ e.task # k
                /\ e.nonce = NonceOf(k) =>
                      AbsDiff(e.at, now[k]) + MaxLag > 2 * MAX_CLOCK_SKEW_SECS
        <4> HIDE DEF done, rec
        <4>1. QED
          BY <3>4, <3>5
      <3>7. done' = done \cup {rec(k)}
        BY <3>1, <3>2
      <3>8. PICK n \in Nonces, t \in Seconds : n = NonceOf(k) /\ t = now[k]
        BY <3>3
      <3>9. AS!Execute(k, n, t)
        BY <3>1, <3>3, <3>6, <3>7, <3>8 DEF AS!Execute, AS!Distance, AbsDiff, Fresh
      <3>10. QED
        BY <3>9
    <2>3. ASSUME NEW k \in Tasks, NEW r \in Reasons, Return(k, r)
          PROVE  UNCHANGED <<stamp, done>>
      <3>1. \A j \in Tasks : NonceOf(j)' = NonceOf(j) /\ (Accepted(j)' <=> Accepted(j))
        BY <2>3, ReturnLemma DEF Accepted, Reasons
      <3>2. QED
        BY <2>3, <3>1 DEF Return
    <2>4. ASSUME NEW k \in Tasks, NEW w \in ClientRequests \cup StrayWires,
                 Receive(k, w)
          PROVE  UNCHANGED <<stamp, done>>
      <3>1. result' = result /\ stamp' = stamp /\ ~ Accepted(k)
            /\ \A j \in Tasks : j # k => wire'[j] = wire[j] /\ now'[j] = now[j]
        BY <2>4 DEF Receive, IInv, Stages, TypeOK, Accepted
      <3>2. QED
        BY <3>1 DEF Accepted, NonceOf
    <2>5. CASE UNCHANGED <<stamp, wire, now, result>>
      BY <2>5 DEF Accepted, NonceOf
    <2>6. QED
      BY <2>1, <2>2, <2>3, <2>4, <2>5
      DEF Next, vars, MoveClock, Reply, Handle, RejectUnauthentic, Reasons,
          RejectMalformed, RejectSkewed, RejectReplayed, AS!Next
  <1>3. QED
    BY <1>1, <1>2, Inductive, PTL DEF Spec, ImplementsAcceptSpaced, AS!Spec

=============================================================================
