---------------------------- MODULE WalletServer ----------------------------
(***************************************************************************)
(* The wallet server of examples/bwc_full.rs (mod wallet).  axum runs one  *)
(* task per POST /request on a multi-threaded runtime; the tasks share the *)
(* replay cache `seen` behind a mutex.  handle() reads the system clock    *)
(* BEFORE it takes the mutex, so between the two other tasks may run and   *)
(* the clock may move.                                                     *)
(*                                                                         *)
(* A task is used once.  Its locals (the clock reading, the wire, the      *)
(* result) stay in place when it ends, and are the history the properties  *)
(* speak about.  A request's body is identified with its nonce.            *)
(***************************************************************************)
EXTENDS Integers

CONSTANTS
    Tasks,                \* one per POST /request the server receives
    Nonces,               \* the 16-byte nonces the client draws
    ClientKey, WalletKey, \* the two X25519 static keypairs
    Secret,               \* the connection secret (PSK)
    EmptyPsk,             \* the secret of zero bytes
    Malformed,            \* a plaintext shorter than NONCE_LEN + TS_LEN
    NoWire,               \* the wire of a task that has not started
    StrayWires,           \* wires from anywhere else that may arrive
    MAX_CLOCK_SKEW_SECS,  \* the freshness window, each way
    MaxLag,               \* how far a reading in use may trail the newest
    MaxStepBack,          \* how far the system clock may be set back
    Horizon               \* bound: the last second the clock reaches

\* Both key pairs come from gen_keypair, which draws no low-order key.
INSTANCE Channel WITH LowOrder <- {}

\* Every wire the client did not seal for this wallet differs from those it
\* did in a credential, the direction, its bytes or its framing.
Stray(w) ==
    \/ w.from # ClientKey \/ w.to # WalletKey \/ w.psk # Secret
    \/ w.info # INFO_REQUEST \/ w.bytes # "whole" \/ w.payload = Malformed

ASSUME TimeAssumption ==
    /\ MAX_CLOCK_SKEW_SECS \in Nat /\ Horizon \in Nat
    /\ MaxLag \in Nat /\ MaxStepBack \in 0..MaxLag
ASSUME WireAssumption ==
    /\ \A w \in StrayWires : Stray(w)
    /\ Secret # EmptyPsk
    /\ \A n \in Nonces, t \in 0..Horizon :
          Malformed # [nonce |-> n, timestamp |-> t]

VARIABLES
    clock,    \* SystemTime::now() on the wallet's host, unix seconds
    high,     \* the newest value the clock has had (history)
    stamp,    \* nonce -> timestamp, of every request the client has sealed
    seen,     \* the replay cache: nonce -> receive time
    pc,       \* where each task stands
    wire,     \* the sealed bytes each task received
    now,      \* handle()'s local `now`
    result    \* what handle() returned

vars == <<clock, high, stamp, seen, pc, wire, now, result>>

Seconds == 0..Horizon
Reasons == {"unauthentic", "malformed", "clock skew", "replayed"}

AbsDiff(a, b) == IF a < b THEN b - a ELSE a - b
SaturatingSub(a, b) == IF a < b THEN 0 ELSE a - b
Larger(a, b) == IF a < b THEN b ELSE a

\* Variants (here and below, NAME_Variant): an operation with a bug that the
\* properties must tell from the code.  No action uses them.
Retain_OneSkew(m, t) ==
    [x \in {n \in DOMAIN m : SaturatingSub(t, m[n]) <= MAX_CLOCK_SKEW_SECS} |-> m[x]]
Retain_Strict(m, t) ==
    [x \in {n \in DOMAIN m : SaturatingSub(t, m[n]) < 2 * MAX_CLOCK_SKEW_SECS} |-> m[x]]

\* HashMap::insert and HashMap::retain of entries no older than 2x the skew.
Insert(m, k, v) == [x \in DOMAIN m \cup {k} |-> IF x = k THEN v ELSE m[x]]
Retain(m, t) ==
    [x \in {n \in DOMAIN m :
               SaturatingSub(t, m[n]) <= 2 * MAX_CLOCK_SKEW_SECS} |-> m[x]]

\* Client::seal: `nonce || timestamp || body`, sealed to the wallet.
Request(n, t) ==
    Seal(ClientKey, WalletKey, Secret, INFO_REQUEST,
         [nonce |-> n, timestamp |-> t])
ClientRequests == {Request(n, stamp[n]) : n \in DOMAIN stamp}

Opened_AsResponse(w) == Opens(WalletKey, ClientKey, Secret, INFO_RESPONSE, w)
Fresh_PastOnly(t, ts) == SaturatingSub(t, ts) <= MAX_CLOCK_SKEW_SECS

Opened(w) == Opens(WalletKey, ClientKey, Secret, INFO_REQUEST, w)
Fresh(t, ts) == AbsDiff(t, ts) <= MAX_CLOCK_SKEW_SECS

Init ==
    /\ clock \in Seconds /\ high = clock
    /\ stamp = [n \in {} |-> 0]
    /\ seen = [n \in {} |-> 0]
    /\ pc = [k \in Tasks |-> "idle"]
    /\ wire = [k \in Tasks |-> NoWire]
    /\ now = [k \in Tasks |-> 0]
    /\ result = [k \in Tasks |-> "none"]

-----------------------------------------------------------------------------
\* The environment.

\* The system clock moves: it runs on, is stepped forward, or is stepped back
\* by at most MaxStepBack.  A task that has read the clock takes the mutex
\* before its reading trails the newest one by more than MaxLag.
MoveClock(t) ==
    /\ t # clock
    /\ high' = Larger(high, t)
    /\ high' - t <= MaxStepBack
    /\ \A k \in Tasks : pc[k] = "locking" => high' - now[k] <= MaxLag
    /\ clock' = t
    /\ UNCHANGED <<stamp, seen, pc, wire, now, result>>

\* The client seals a request under a fresh nonce, stamped by its own clock.
ClientSeal(n, t) ==
    /\ n \notin DOMAIN stamp
    /\ stamp' = Insert(stamp, n, t)
    /\ UNCHANGED <<clock, high, seen, pc, wire, now, result>>

-----------------------------------------------------------------------------
\* A task of the wallet.

\* POST /request arrives.  The transport delivers any wire, any number of
\* times and in any order.  handle() starts by reading the clock.
Receive(k, w) ==
    /\ pc[k] = "idle"
    /\ w \in ClientRequests \cup StrayWires
    /\ pc' = [pc EXCEPT ![k] = "locking"]
    /\ wire' = [wire EXCEPT ![k] = w]
    /\ now' = [now EXCEPT ![k] = clock]
    /\ UNCHANGED <<clock, high, stamp, seen, result>>

\* The rest of handle(), under the mutex: expire old nonces, then decrypt,
\* parse, check freshness and replay, and remember the nonce.
Return(k, r) ==
    /\ pc[k] = "locking"
    /\ pc' = [pc EXCEPT ![k] = "sealing"]
    /\ result' = [result EXCEPT ![k] = r]
    /\ UNCHANGED <<clock, high, stamp, wire, now>>

RejectUnauthentic(k) ==
    /\ Return(k, "unauthentic")
    /\ ~ Opened(wire[k])
    /\ seen' = Retain(seen, now[k])

RejectMalformed(k) ==
    /\ Return(k, "malformed")
    /\ Opened(wire[k]) /\ wire[k].payload = Malformed
    /\ seen' = Retain(seen, now[k])

RejectSkewed_NoSweep(k) ==
    /\ Return(k, "clock skew")
    /\ Opened(wire[k]) /\ wire[k].payload # Malformed
    /\ ~ Fresh(now[k], wire[k].payload.timestamp)
    /\ UNCHANGED seen

RejectSkewed_Burns(k) ==
    /\ Return(k, "clock skew")
    /\ Opened(wire[k]) /\ wire[k].payload # Malformed
    /\ ~ Fresh(now[k], wire[k].payload.timestamp)
    /\ seen' = Insert(Retain(seen, now[k]), wire[k].payload.nonce, now[k])

RejectSkewed(k) ==
    /\ Return(k, "clock skew")
    /\ Opened(wire[k]) /\ wire[k].payload # Malformed
    /\ ~ Fresh(now[k], wire[k].payload.timestamp)
    /\ seen' = Retain(seen, now[k])

RejectReplayed_Refreshes(k) ==
    /\ Return(k, "replayed")
    /\ Opened(wire[k]) /\ wire[k].payload # Malformed
    /\ Fresh(now[k], wire[k].payload.timestamp)
    /\ wire[k].payload.nonce \in DOMAIN Retain(seen, now[k])
    /\ seen' = Insert(Retain(seen, now[k]), wire[k].payload.nonce, now[k])

RejectReplayed_Forgets(k) ==
    /\ Return(k, "replayed")
    /\ Opened(wire[k]) /\ wire[k].payload # Malformed
    /\ Fresh(now[k], wire[k].payload.timestamp)
    /\ wire[k].payload.nonce \in DOMAIN Retain(seen, now[k])
    /\ seen' = [n \in DOMAIN Retain(seen, now[k]) \ {wire[k].payload.nonce} |-> seen[n]]

RejectReplayed(k) ==
    /\ Return(k, "replayed")
    /\ Opened(wire[k]) /\ wire[k].payload # Malformed
    /\ Fresh(now[k], wire[k].payload.timestamp)
    /\ wire[k].payload.nonce \in DOMAIN Retain(seen, now[k])
    /\ seen' = Retain(seen, now[k])

Accept(k) ==
    /\ Return(k, "ok")
    /\ Opened(wire[k]) /\ wire[k].payload # Malformed
    /\ Fresh(now[k], wire[k].payload.timestamp)
    /\ wire[k].payload.nonce \notin DOMAIN Retain(seen, now[k])
    /\ seen' = Insert(Retain(seen, now[k]), wire[k].payload.nonce, now[k])

Handle_DropsReplays(k) ==
    RejectUnauthentic(k) \/ RejectMalformed(k) \/ RejectSkewed(k) \/ Accept(k)

Handle(k) ==
    \/ RejectUnauthentic(k) \/ RejectMalformed(k) \/ RejectSkewed(k)
    \/ RejectReplayed(k) \/ Accept(k)

\* post_request seals handle()'s result to the client, outside the mutex.
Reply(k) ==
    /\ pc[k] = "sealing"
    /\ pc' = [pc EXCEPT ![k] = "done"]
    /\ UNCHANGED <<clock, high, stamp, seen, wire, now, result>>

Next ==
    \/ \E t \in Seconds : MoveClock(t)
    \/ \E n \in Nonces, t \in Seconds : ClientSeal(n, t)
    \/ \E k \in Tasks, w \in ClientRequests \cup StrayWires : Receive(k, w)
    \/ \E k \in Tasks : Handle(k) \/ Reply(k)

Spec == Init /\ [][Next]_vars

-----------------------------------------------------------------------------
\* Properties.

Accepted(k) == result[k] = "ok"
NonceOf(k) == wire[k].payload.nonce
Twice(j, k) ==
    j # k /\ Accepted(j) /\ Accepted(k) /\ NonceOf(j) = NonceOf(k)

\* Every variable keeps its type; the cache maps nonces to clock readings.
TypeOK ==
    /\ clock \in Seconds /\ high \in Seconds
    /\ DOMAIN stamp \subseteq Nonces
    /\ stamp \in [DOMAIN stamp -> Seconds]
    /\ DOMAIN seen \subseteq Nonces
    /\ seen \in [DOMAIN seen -> Seconds]
    /\ pc \in [Tasks -> {"idle", "locking", "sealing", "done"}]
    /\ wire \in [Tasks -> {NoWire} \cup ClientRequests \cup StrayWires]
    /\ now \in [Tasks -> Seconds]
    /\ result \in [Tasks -> Reasons \cup {"none", "ok"}]

\* The replay cache's purpose: "rejects any nonce already seen this session",
\* so no request is executed by two tasks.
AtMostOnce == \A j, k \in Tasks : ~ Twice(j, k)

\* What the cache gives when a reading may be stale at the lock: two
\* executions of one request lie, by the readings they were checked against,
\* more than 2x the skew less MaxLag apart.
AcceptSpread ==
    \A j, k \in Tasks : Twice(j, k) =>
        AbsDiff(now[j], now[k]) + MaxLag > 2 * MAX_CLOCK_SKEW_SECS

\* "a captured request is acceptable across a 2x-skew window": executions of
\* one request are never further apart than the cache's expiry assumes.
ExposureWindow ==
    \A j, k \in Tasks : Twice(j, k) =>
        AbsDiff(now[j], now[k]) <= 2 * MAX_CLOCK_SKEW_SECS

\* A task has swept the cache by a reading past the expiry of what k's execution
\* left in it.
Overtaken(k) ==
    \E m \in Tasks :
        result[m] # "none" /\ now[m] > now[k] + 2 * MAX_CLOCK_SKEW_SECS

\* However tasks, clock and mutex interleave, a request is executed again only
\* after a third task has swept the cache past the expiry of the execution with
\* the earlier reading: neither the second execution's own sweep nor any number
\* of replays gets its nonce out.
OnlyIfOvertaken ==
    \A j, k \in Tasks : Twice(j, k) /\ now[j] <= now[k] => Overtaken(j)

\* What a second execution takes: a stamp more than the skew less MaxLag ahead
\* of the earlier reading, and a later reading more than the skew less MaxLag
\* past the stamp.  With a lag within the skew, a request whose client's clock
\* is not ahead of the wallet's is executed once.
ReplayMargin ==
    \A j, k \in Tasks : Twice(j, k) /\ now[j] <= now[k] =>
        /\ stamp[NonceOf(j)] + MaxLag > now[j] + MAX_CLOCK_SKEW_SECS
        /\ now[k] + MaxLag > stamp[NonceOf(j)] + MAX_CLOCK_SKEW_SECS

\* However the race at the mutex goes, with a lag within the skew it is lost at
\* most once per request: no three tasks execute the same one.
AtMostTwice ==
    MaxLag <= MAX_CLOCK_SKEW_SECS =>
        \A i, j, k \in Tasks : ~ (Twice(i, j) /\ Twice(j, k) /\ Twice(i, k))

\* Whatever is delivered, the wallet executes only what its client sealed for
\* it under the connection's secret, and only inside the freshness window.
ExecutedAsSealed ==
    \A k \in Tasks : Accepted(k) =>
        /\ wire[k] \in ClientRequests
        /\ Fresh(now[k], stamp[NonceOf(k)])

\* A nonce is in the cache only because a task executed its request, and the
\* time kept is that task's reading: a request rejected for its timestamp is
\* not burned, and stays acceptable once it is fresh.
CacheExplained ==
    \A n \in DOMAIN seen : \E k \in Tasks :
        Accepted(k) /\ NonceOf(k) = n /\ seen[n] = now[k]

\* The client never gets a wrong reason: "replayed" only for a request some
\* other task executed, "unauthentic" or "malformed" never for its own.
RejectionsJustified ==
    \A k \in Tasks :
        /\ result[k] = "replayed" =>
              \E j \in Tasks : j # k /\ Accepted(j) /\ NonceOf(j) = NonceOf(k)
        /\ result[k] \in {"unauthentic", "malformed"} =>
              wire[k] \notin ClientRequests

\* The cache stays small: every handle(), whatever it returns, drops what can
\* no longer matter, so no entry is older than the window (or the lag) by any
\* reading a task has used.
CacheBounded ==
    \A n \in DOMAIN seen, k \in Tasks :
        result[k] # "none" =>
            now[k] - seen[n] <= Larger(2 * MAX_CLOCK_SKEW_SECS, MaxLag)

\* An entry's receive time never changes while it stays: a replay does not
\* prolong it, and no task expires a nonce and accepts it again in one go
\* (which needs the expiry to be no shorter than twice the skew).
NeverRefreshed ==
    [][\A n \in DOMAIN seen \cap DOMAIN seen' : seen'[n] = seen[n]]_vars

\* Every request a task has taken up is answered, accepted or not, as long as
\* tasks that have started are run.
Answered == \A k \in Tasks : pc[k] = "locking" ~> pc[k] = "done"

\* The wallet as an implementation of AcceptSpaced, for any lag.
AS == INSTANCE AcceptSpaced WITH
        stamps <- stamp,
        executions <- {[task |-> k, nonce |-> NonceOf(k), at |-> now[k]] :
                          k \in {j \in Tasks : Accepted(j)}},
        Times <- Seconds, Skew <- MAX_CLOCK_SKEW_SECS, Lag <- MaxLag
ImplementsAcceptSpaced == AS!Spec

-----------------------------------------------------------------------------
\* The inductive invariant behind the safety properties.

\* The clock trails its newest value by at most MaxStepBack, a reading that is
\* still to be used by at most MaxLag.
LagBounded ==
    /\ clock <= high /\ high - clock <= MaxStepBack
    /\ \A k \in Tasks :
          /\ now[k] <= high
          /\ pc[k] = "locking" => high - now[k] <= MaxLag

\* A started task holds a wire, and has a result once it has left the mutex.
Stages ==
    \A k \in Tasks :
        /\ pc[k] # "idle" => wire[k] \in ClientRequests \cup StrayWires
        /\ result[k] = "none" <=> pc[k] \in {"idle", "locking"}

\* The cache remembers each execution until a task sweeps it by a reading past
\* the expiry.
Remembered ==
    \A k \in Tasks : Accepted(k) =>
        \/ NonceOf(k) \in DOMAIN seen /\ seen[NonceOf(k)] = now[k]
        \/ Overtaken(k)

IInv ==
    /\ TypeOK /\ LagBounded /\ Stages /\ ExecutedAsSealed
    /\ Remembered /\ CacheExplained /\ CacheBounded /\ AcceptSpread

=============================================================================
