# A TLA+ model of hpke-demo (Bitcoin Wallet Connect over HPKE)

The repository shows one-shot, mutually authenticated RPC over HPKE through a
relay that is not trusted with the contents. This directory models its served
deployment (`examples/bwc_full.rs`), the two library files it stands on
(`src/channel.rs`, `src/connect.rs`), the upgrade to a post-quantum suite
(`examples/bwc_post_quantum_upgrade.rs`) and the RPC variants
(`examples/alt/*.rs`), checks the models with TLC and proves their safety
properties with TLAPS. Paths below are relative to the repository.

## The system

| Component | State it keeps | Operations | What makes it correct |
|---|---|---|---|
| **Sealing layer**, `src/channel.rs` | none | `gen_keypair`, `seal`, `open` | a message opens only for its recipient, from its sender, under its secret and in its direction |
| **Connection string**, `src/connect.rs` | the locals of `parse` | `to_uri`, `parse`, `Version::parse`/`as_u8` | acceptance does not depend on the order of the params; an unknown version always rejects; the token leaves the query and nothing else does; rendering and parsing agree |
| **Wallet server**, `bwc_full.rs` `mod wallet` | the replay cache `seen` behind a mutex; per task the clock reading, the wire, the result | `post_request`, `handle` | executes only what its client sealed, while fresh, and again only if it is overtaken at its mutex; the cache stays small; the reasons it gives are true; every request is answered |
| **Relay**, `bwc_full.rs` `mod relay` | tables `tokens` and `wallets`, written before it serves; per call the pending forward | `authorize`, `forward_request`, `register`, `add_token` | nothing reaches a wallet without the token for its connection |
| **Client**, `bwc_full.rs` `mod client` | its keys and the parsed string; per call the pending round trip | `new`, `seal`, `send`, `round_trip`, `round_trip_unauthed` | what a call reports is true of that call; sending again after a failure is as safe as the wallet's mutex allows; every call returns |
| **Demo script**, `bwc_full.rs` `main` | — | sets up the three, makes four calls, shuts down | its setup gives the initial states, its calls are behaviours of the composition |
| **Version upgrade**, `examples/bwc_post_quantum_upgrade.rs` | the wallet's key pair of each suite; the client's `ParsedConn` | `connection_string`, `ParsedConn::parse`, `client_seal`, `Wallet::open`, `hex::encode`/`decode` | a string reads back as what the wallet wrote; no message to one of its keys is sealed with the other suite; what opens was sealed as the string says, up to zeros at the end of a v2 secret; nothing fails between parties that use a string as issued |
| **Signing RPC**, `examples/alt/*_signing.rs` | the reply key of each open exchange; the server keeps nothing | `frame_request`, `open_request`, `frame_response`, `open_response` | the server works only on what allowed clients asked; an exchange takes only an answer to its own request; no genuine message is refused |
| **Auth-mode RPC**, `examples/alt/secp256k1_authmode.rs` | none | `seal_request`, `handle`, `seal_response`, `open_response` | the server works only for allowed clients, under their own name; a client takes only answers made for it, late or repeated ones to its earlier calls included; nothing sealed for a party is refused |
| **Minimal round trip**, `examples/bwc_basic.rs` | — | one request, one reply | uses the sealing layer and the string correctly |
| **Randomness and crate root**, `src/rng.rs`, `src/lib.rs` | — | adapters | — |

How they interact: a client seals a request, posts it to the relay over HTTP
with a bearer token, the relay checks the token against the connection in the
URL, forwards the bytes to the wallet over a second HTTP hop and waits; the
wallet runs the request in a task of its own, seals the answer, and the relay
hands it back on the call that is still open. Only the wallet's tasks share
mutable state. The connection string is how the client learns the wallet's key,
the secret and its token.

What is hard here:

* **Interleaving.** axum runs one task per request on a multi-threaded runtime.
  `handle` reads the system clock first and takes the mutex after, so a task may
  check a request against a reading that other tasks have left behind.
* **Boundaries.** The cache's expiry (2x the skew, `<=`) and the freshness check
  (the skew, `>`, both ways) have to fit each other to the second.
* **Lost answers.** Either hop can fail before the wallet got the request or
  after it ran it; both clients give up after 30 seconds, and bytes on their way
  arrive after that. The caller cannot tell these apart and may send again.
* **Separate values.** A string's version, key and secret, and an auth-mode
  request's claimed identity, travel apart from what they describe; any of them may
  arrive changed, or beside something else.
* **Early returns.** `parse` returns at the first bad pair, `handle` at the first
  failed check, after the sweep of the cache.

`PROJECT.json` lists these hazards one by one at their lines.

## Modules

| Module | Models |
|---|---|
| `Channel` | `src/channel.rs`: what a wire is bound to, when `open` succeeds, and when `seal` panics on its expect (an empty PSK, a low-order key) |
| `AcceptSpaced` | nothing in the code: the wallet's promise for any lag, "only what was issued, only near its stamp, and again only when twice the skew less the lag has passed since" |
| `AcceptOnce` | nothing in the code: what the promise would be without lag, "only what was issued, each at most once"; used in `AcceptSpacedProofs` alone |
| `AcceptSpacedProofs` | about these two alone: the first is the second when the lag is 0 |
| `WalletServer` | `mod wallet`, with the client's `seal` and the transport as its surroundings |
| `WalletServerProofs` | theorems about `WalletServer` |
| `BwcFull` | client calls, relay handlers and the wallet, composed; EXTENDS `WalletServer` |
| `SettledSend` | nothing in the code: what a client may make of its sends, "a send runs only before it is told an answer, runs of one request keep the spacing of `AcceptSpaced`, what a send is told is true and stays true, an error says nothing" |
| `BwcFullProofs` | theorems about `BwcFull`; EXTENDS `WalletServerProofs` |
| `ConnString` | `ConnString::parse`, `to_uri`, `Version`, the version gate of `main`, `Client::new` |
| `ConnStringProofs` | theorems about `ConnString` |
| `HexCodec` | the `hex` module of `bwc_post_quantum_upgrade.rs`, byte by byte |
| `VersionUpgrade` | the rest of it: strings, the client's and the wallet's side of both suites; EXTENDS `HexCodec` |
| `VersionUpgradeProofs` | theorems about both |
| `ExtremeTheorems` | nothing in the code: a set of naturals has a least and a greatest element, for the two parsers |
| `Exchange` | nothing in the code: the promise "an exchange takes only an answer the server gave to that very exchange, or to one the protocol cannot tell from it (`Peers`), and only allowed clients are answered" |
| `SigningRpc` | `examples/alt/ed25519_signing.rs`, and with it `secp256k1_signing.rs`, which has the same structure |
| `SigningRpcProofs` | theorems about `SigningRpc` |
| `AuthModeRpc` | `examples/alt/secp256k1_authmode.rs` |
| `AuthModeRpcProofs` | theorems about `AuthModeRpc` |
| `MCWalletServer`, `MCBwcFull`, `MCConnString`, `MCVersionUpgrade`, `MCSigningRpc`, `MCAuthModeRpc` | instances for TLC |

### WalletServer

`seen` is the `HashMap` behind the mutex, a function from nonces to receive
times. `pc`, `wire`, `now` and `result` are the locals of the tasks: `now[k]` is
`handle`'s `now`, `result[k]` its `Result`. A task is used once, so its locals
stay behind as the history that the properties speak of. `clock` is
`SystemTime::now()` on the wallet's host; `high`, its newest value so far, is
history and appears in no condition of the code.

| Action | Code |
|---|---|
| `Receive` | the request reaches `post_request`; `handle` reads `now` (before the mutex) |
| `Handle` = `RejectUnauthentic` / `RejectMalformed` / `RejectSkewed` / `RejectReplayed` / `Accept` | the rest of `handle`, one disjunct per return: `retain` first in all of them, then `open`, the length check, the freshness check, the lookup, the insert |
| `Reply` | `post_request` seals the result, outside the mutex |
| `ClientSeal` | `Client::seal`: fresh nonce, the client's own clock, sealed to the wallet |
| `MoveClock` | the host's clock runs, is stepped forward, or is set back |

`handle` has no await and holds the mutex from the sweep to its return, so its
second half is one step; the reading of the clock is another. `Receive` takes
any request the client ever sealed, any number of times, in any order, and any
wire of `StrayWires`: wires that differ from the client's in a key, the secret,
the direction, their bytes or their framing. How long a task may wait between
the reading and the mutex is a constant: `MaxLag` bounds how far a reading in
use may trail the newest value of the clock (a task preempted at the lock, or a
clock set back). The code gives no bound, so theorems are stated for every
`MaxLag`; `AtMostTwice` names the one it needs, a lag within the skew.

Seen as `AcceptSpaced`, a stamp is what `ClientSeal` put into the request, and an
execution is a task, its nonce and its reading `now[k]`. The abstract wallet has
no cache, no mutex and no sweep: it compares a new execution with all earlier
ones. `Overtaken(k)` is the other way to say what the race takes: some task has
swept the cache by a reading past the expiry of what `k`'s execution left there.

### BwcFull

The relay forwards each call once and never retries, so the n-th call, its
handler in the relay and the wallet task it may lead to share a name `k`.
`call[k]`, `posted[k]`, `token[k]`, `outcome[k]` belong to the client, `relay[k]`
and `reply[k]` to the handler.

| Action | Code |
|---|---|
| `Post` | `round_trip` (the client's token) and `round_trip_unauthed` (another or none), with bytes just sealed or sealed before |
| `ClientReply`, `ClientRefused`, `ClientGivesUp` | the ends of `send`: sealed reply opened and split, non-2xx status, transport error or the 30 s timeout |
| `RelayUnauthorized`, `RelayUnknownConn`, `RelayForward` | `authorize`, the lookup in `wallets`, the inline post |
| `RelayReply`, `RelayBadGateway` | the wallet's answer, or a failure of that hop at any moment |
| `RelayDropped` | the caller hung up, and the server drops the handler at its await |
| `WalletReceive` | the forwarded bytes arrive, even after the handler gave up |
| `WalletStep` | the steps of `WalletServer` |

`tokens` and `wallets` are written before the relay serves, so they are constants
(`Grants`, `Routes`). `NoToken` is the token of a call that sends none.

Seen as `SettledSend`, a call is a send, `Asked` its bytes, `Ran` the calls whose
task executed and at which reading, and `outcome` what it was told; an error and a
502 are `Unknown`, the wallet's refusals, a 401 and a 404 are `Denials`. The
abstract client may still have a request executed after it was told an error, and
never after a denial.

### ConnString

A query is a sequence of pairs, what `split('&')` and `split_once('=')` make of
the text. `parse` takes one pair per step and stops where the code returns, with
`fields` its locals. `Hex` and `Encode` are functions given by the instance:
partial, and not injective (`aa` and `AA` are one byte).

`to_uri` escapes nothing, so a token, a param or a relay that holds a separator
reads back as something else. Characters are not modelled; the instance says what
such a value is read as: `Split` gives the pairs that `parse` makes of a pair with
a `&` in it, or with a `=` in its key, which `split_once` cuts at the first
(`a=b` with the value `c` is read as `a` with the value `b=c`); `SplitRelay` gives
the relay and the leading pairs of a relay with a `?`. `ToUri` is
`to_uri` composed with that. A text that a client is handed is one of `Uris`, or
was rendered from a ConnString of `Minted`, which a wallet filled in itself;
`Render` is `to_uri` on one that was parsed, as in `main`. `first` remembers what
was rendered. `RefuseVersion` and `ClientNew` are what `main` and `Client::new`
do with a parsed string.

### HexCodec and VersionUpgrade

`encode` and `decode` work on sequences of bytes, the text being its UTF-8 bytes.
Each pair of them goes through `u8::from_str_radix`, which takes digits of either
case and a leading `+`; slicing the text between the bytes of one character
panics, as in the code.

| Variable or action | Code |
|---|---|
| `Connections` | what the wallet has issued: a version, a secret, the client key it registered or none |
| `text`, `conn` | what the client was handed last and the `ParsedConn` it made of it |
| `Hand` | `ParsedConn::parse`, in the order of its returns |
| `SealV1`, `SealV2` | `client_seal`, one disjunct per error, and the panics of `v1::seal` on an empty secret and on a key it cannot agree with |
| `OpenV1`, `OpenV2` | `Wallet::open` of any message, whole or cut short, for any connection |

The client is handed any string the wallet issued, and strings with a value or a
pair changed: another version, the other key, an invalid key, another secret, text
that is not hex. Key types are told apart as in the code, by length and by the
conversions that refuse a key of the right length (`LowOrder`, `InvalidXWing`).
`Salt` is what HKDF makes of the secret: an HMAC key that fits a block is padded
with zeros, so secrets that differ in zeros at the end derive the same key; a
longer one is hashed first. `OpenedAsIssued` says how far this goes: what a v2
wallet opens was sealed under its secret or one that fits a block and differs from
it in zeros at the end, and under no other secret of any length.

### SigningRpc

The variables are what the two sides hold: the bodies the exchanges asked with,
the requests `open_request` has returned (`serving`), the answers framed for them
(`served`), what `open_response` has returned (`accepted`) and the last error
(`refusal`). An exchange's reply key is the exchange itself, fresh as in `main`.
The requests and responses on the wire follow from these. Every wire may reach the
server (`AtServer`) and every open exchange (`AtClient`), any number of times and
in any order; `AtServer` and `AtClient` have one disjunct per return of
`open_request` and `open_response`, in their order. Stray wires are damaged,
truncated, or signed by someone else in another's name, as in the rejected cases
of `main`. `Respond` returns or panics: sealing to a low-order reply key
(`LowOrder`), which `from_bytes` takes, fails the expect of `seal`. A client draws
its reply keys and has none; the model has one all the same, to show what it does
to the other exchanges. `secp256k1_signing.rs` has one more error, a client key
that is not a curve point; it comes after the allowlist check, which only
serialised keys pass.

### AuthModeRpc

The same variables and the same transport, with HPKE's auth mode in the place of
the signatures: a wire is bound to two keys and a direction. The identity stands
beside the request in the clear, so `AtServer` takes any claim with any wire. A
response goes to the client's own key and `open_response` is given nothing of the
exchange, so an answer to another exchange of the same client opens as well. That
is what `Peers` of `Exchange` is for (`SameClient` here, the exchange alone in
`SigningRpc`). It is not a matter of exchanges open at the same time: a client that
makes one call after another may take for the second answer a late or a repeated
first one.

### Variants

Operators named `NAME_Variant` (`Retain_OneSkew`, `RelayReply_Early`, ...) are
copies of an operation with one plausible bug: a shorter expiry, a dropped check,
a wrong order. No action uses them. `PROJECT.json` pairs each property of a
passing run with one that violates it when it takes the place of the original,
so that no property holds whatever the code does.

## What the runs show

| Run | Instance | Shows |
|---|---|---|
| `wallet_race` | 5 tasks, 1 nonce, lag 1, step back 1 | the inductive invariant; the wallet implements `AcceptSpaced`; `OnlyIfOvertaken`, `ReplayMargin`, `AtMostTwice`: what a second execution of a request takes, and that there is no third; `CacheBounded`; `NeverRefreshed` |
| `wallet_stray` | 2 tasks, 2 nonces, seven kinds of stray wire | only the client's requests are executed, only executions leave a nonce behind, no reason given is false |
| `bwc_retry` | 3 calls of one request, both hops failing anywhere, lag 1 | `OutcomeTrue`; `RetrySafe`: a definite answer settles the request for all its sends, unless the wallet is overtaken at its mutex; the three parties together implement `SettledSend` |
| `bwc_gate` | 2 calls, two connections, every token and none | the inductive invariant of the deployment; `Gated`; every request the wallet takes up is answered and every call returns, even if the client's timeout never fires |
| `conn_parse` | every query of up to 5 pairs out of 11; 84 minted strings | acceptance, the error of a rejected text, the origin of every field, what is forwarded; exactly which ConnStrings survive rendering and parsing |
| `upgrade` | four connections of both versions, their strings and some forty altered ones, two messages | strings parse as issued, `NoDowngrade`, `OpenedAsIssued`, `FailuresJustified`: among others, `parse` panics only over a character that is not ASCII |
| `signing` | three exchanges of an allowed client, one of them under a low-order reply key, two bodies each way, a stranger's wires | who is served, whose answer is taken, what is refused; implements `Exchange` |
| `authmode` | two exchanges of one allowed client, one of another, one body, two answers, every claim beside every wire | who is served, what is refused; implements `Exchange` with a client's exchanges as `Peers` |
| `wallet_race_replay` | 3 tasks, lag 1 | violates `AtMostOnce` |
| `bwc_502` | 2 calls | violates `RefusedNeverExecuted` |
| `conn_version_first` | queries of up to 2 pairs | violates `VersionFirst` |
| `conn_empty_secret` | plain strings | violates `SealNeverPanics` |

### Bounds

* `MAX_CLOCK_SKEW_SECS` is 1 in place of 300. The code only compares differences
  of seconds with the skew and with twice the skew, so one second already has a
  value on, before and after either boundary. `Horizon` leaves room for a request
  to be accepted, to expire and to be delivered again.
* `MaxLag` and `MaxStepBack` are 0 or 1: none, or as long as the skew. `MaxLag` is 1
  wherever the question touches the race at the mutex; it is 0 in `bwc_gate` and
  `bwc_502`, whose questions do not.
* Three tasks are what one replay through the race takes: one executes, one expires
  the nonce, one was overtaken. A third execution takes two more, one that expires
  the nonce again and one overtaken again. `wallet_race` has these five, and with a
  lag of twice the skew they do reach a third execution before `Horizon`; at lag 1
  the stamp's window is what forbids it.
* Two nonces let one request's sweep act on another's entry.
* Five pairs are the three required ones and two more in every place, such as a
  repeated token, an unknown or a malformed pair.
* Two exchanges of one client are what it takes to deliver a response to the wrong
  one; two answers tell theirs apart. In `authmode` a second allowed client is
  whose name can be claimed wrongly, and the stranger is allowed nowhere.
* Tasks, calls, bodies, answers and an auth-mode client's exchanges that the
  specifications do not tell apart are symmetry sets, in runs of safety properties
  only.
* Minted strings combine a plain and a splitting value for the token, a param and
  the relay, params with a `=` in the key, and a param with the key of a field.
* In `upgrade` a v1 key has one byte and a v2 key two in place of 32 and 1216: the
  code tells them apart by length alone. Secrets have two bytes, one of them with
  a zero at the end, and HMAC's block three (`HMAC_BLOCK`): strings are altered to
  hold secrets shorter than the wallet's, longer ones that fit a block, and one
  that does not. Two messages (`MaxSealed`) are one of each version, or
  two that differ in what they were sealed by; after the second no text is handed
  out, since nothing further can be sealed with it.

The proofs have none of these bounds.

### Fairness

Liveness is asked of the served deployment only; the other examples are
scripts of calls, with nothing that must eventually happen.

`BwcFairSpec` assumes that what has started keeps moving: tokio polls every task
that can run, `handle` has no await, and the wallet's mutex is held for a few
instructions and never across one. So a wallet task that holds a request finishes,
a relay handler that was called goes on, and a call that has its answer returns.
Of the hops it assumes that a forward ends one way or another, the wallet gets the
bytes or the relay's own 30 second timeout answers, and that a posted request
reaches the relay. This last is more than the code ensures: a request lost before
the relay is ended by the client's 30 second timeout and nothing else. That
timeout is not assumed to fire, so what `EveryCallReturns` shows is that the chain
behind the first hop needs none of its help. Nothing is assumed of the clock or of
arrivals.

Runs do not check for deadlock: tasks and calls are used once, so every instance
comes to rest when they are used up.

## What is proved

For all values of the constants, from the named assumptions of the modules:

* `TimeAssumption`: times are naturals, the step back lies within the lag. The lag
  itself is any natural.
* `WireAssumption`: stray wires differ from the client's, and are not signed by the
  parties; the connection's secret is not empty, since `PskBundle::new` refuses an
  empty one.
* `RelayAssumption`: the wallets served are known connections, and no grant is made
  to the lack of a token.
* `PartyAssumption`, `StrayAssumption`: exchanges have owners, the server is no
  client, and a whole stray wire was sealed by neither the server nor an allowed
  client.
* `HexAssumption` and `TextAssumption` of `ConnString`: what was encoded decodes
  to what it was; a pair with a key of BWC's that splits has no hex digits or
  version for its value (such a key has no `=`, and neither of these a `&`); a
  text that has been read splits no further.
* `KeyAssumption`, `ConnectionAssumption`, `TextAssumption` of `VersionUpgrade`: keys
  of the two suites differ in length, the wallet's own keys are valid, its secrets
  have one length, which fits HMAC's block (32 bytes of 64).
* `NameAssumption` and the rest: markers such as `NoQuery` are none of the things
  they stand beside.

**The wallet.** `IInv` is inductive (`InitIInv`, one lemma per action, `NextIInv`,
`Inductive`). The properties alone are not: `AcceptSpread` says that a request
executed again was executed long ago, and to keep it one has to know that the
cache still holds the nonce of every recent execution. That is `Remembered`: an
execution's nonce is in the cache with its own receive time, or the clock has
been past twice the skew after it. The sweep keeps it because a reading is never
newer than `high`; and a task that does not find the nonce has a reading no more
than `MaxLag` behind `high` (`LagBounded`), which is the spread. `CacheExplained`
gives the converse, that the cache holds nothing else; `Stages` ties results to
program counters.

From it: `TypeCorrect`, `Spread`, `Genuine`, `Explained`, `Bounded` are
conjuncts; `Window` follows from freshness against the one timestamp sealed into
a request; `NoRefresh` (an action property) from the sweep and the window;
`Justified` with `IInv` as context.

`Spread` and `Window` bound the distance of two executions of one request from
below and from above. Between them lies what the race at the mutex can do.
`Margin`: the request's stamp is more than the skew less `MaxLag` ahead of the
earlier reading and as much behind the later one. `NoThird`: with a lag within the
skew, three executions do not fit.

`TwiceOnlyIfOvertaken` says the same without numbers, and for every lag: of two
executions of one request, the earlier was overtaken by a task whose sweep was
past its expiry. By `Remembered`, an `Accept` that does not find the nonce comes
after such a sweep, or its own was one; the window rules out the latter
(`OvertakenFirst`). If the new execution has the older reading, the sweep that
overtook the other is past its expiry as well (`OvertakenNext`).

`SpacedRefinement` shows, for every lag, that the wallet implements
`AcceptSpaced`: an `Accept` is an `Execute`, whose guard is `ExecutedAsSealed` and
`AcceptSpread` in the state after the step, and every other action issues or
stutters. `SpacedIsOnce` is about the abstract specifications alone: with `Lag = 0`,
`AcceptSpaced` implements `AcceptOnce`, for any set of times and any skew
(`SpacedInv` is its inductive invariant, `Span` its hypothesis that times and the
skew are integers and naturals). It says that the lag is all that lies between the
wallet and accepting once; the wallet as written has one.

**The deployment.** A step of `BwcFull` is a step of `WalletServer` or a stutter,
so the wallet's theorems carry over to the relay's traffic
(`OvertakenBehindRelay`, `SpacedBehindRelay`, `NoThirdBehindRelay`). `Chain` says
where a call, its handler and its task stand to each other, and makes `BwcIInv`
inductive; `GateHolds` and `OutcomesTrue` follow. `RetryIsSafe` combines them with
`OnlyIfOvertaken`: that a replay was called one, or an acceptance reported, means
that the request ran, and another send runs it only if the wallet was overtaken.
`SendsSettle` is the refinement of `SettledSend`, for every lag. Two steps carry
it. An acceptance may come after its call was told an error, but not after it was
denied: `Chain` keeps a denial to calls whose task has not started or has answered
(`AcceptRuns`). And what a returning call is told is true of what has run by then
(`ReturnTells`), which needs of `Chain` that a call has no outcome before it
returns.

**The signing RPC.** What a party takes depends on the wire alone. Two lemmas say
that what the server takes was framed by an allowed client (`GenuineRequest`) and
what an exchange takes was framed for it (`GenuineResponse`); two say that such
wires are taken. From them `ServedAsAsked` and `AnswersOwnRequest` are inductive
together (`ServesAsAsked`, `OwnAnswers`), `RefusalsAreJustified` follows once the
invariant remembers what the last refused wire is (a panic of `Respond` leaves no
trace in what was served, `PanicInv`), and `SigningRefines` maps each
step to one of `Exchange`.

**The auth-mode RPC.** As above, from who can have sealed what opens
(`GenuineRequest`, `GenuineResponse`), an exchange's answers being those given to
its client (`AnswersThisClient`). `AuthRefines` maps each step to one of
`Exchange`, an `OpenResponse` to taking an answer given to one of the client's
exchanges: no theorem says that it is the client's own, since it need not be.

**The connection string.** `ParseInv` says of the loop what it has done to the
pairs before `pos`: none of them is bad, a field is absent if none has its key and
has the value of the last that does (`FieldsRead`), and the n-th of the others is
the n-th kept (`OthersKept`); and of an outcome, which pair or missing key it
comes from (`OutcomeExplained`). Every turn adds one pair to the prefix
(`TurnInv`), so no induction over the text is needed. At the end the prefix is the
text, which gives `OrderPlaysNoPart`, `LastValueCounts` and `ForwardsVerbatim`.
`FirstErrorWins` is about where the loop stops: at a bad pair with none before it
(`StopsAtFirst`), or past the end, where a field is absent if and only if the text
lacks its key (`AbsentIfLacking`).
`RoundTrips` has two directions: the text of a plain ConnString has each key once
in the places `to_uri` puts them (`PlainText`, `PlainKeys`, `PlainComesBack`); and
if one comes back, its params are those forwarded, so none has a key of BWC's, and
none splits, for what has been read is whole.

**The version upgrade.** `HexRoundTrip`: what `encode` writes, `decode` reads, for
any bytes and in either case. The codec is a map over positions, so this
is a fact about each pair of digits. `DecodesApart` is the converse: texts that
decode to the same bytes are one text in upper case, as long as neither has a `+`,
which `from_str_radix` takes for a sign. `StringsParseAsIssued` follows through the
definition of `Parse`, in which the first failing pair is a least element and the
last value a greatest one. `NoDowngrade` and `OpenedAsIssued` come from an
invariant on the shape of sealed messages: what each suite accepts for a key has
its length, and the wallet's two keys differ in it. `SaltTells` is the argument
for secrets: whatever derives the same as a secret that fits a block fits one too,
and has the same bytes but for zeros at the end. `ParsePanics` finds the byte that
is not ASCII in any text over which `parse` panics.

No theorem about the code assumes that there is no lag. That a request is executed
at most once is false of it, as `wallet_race_replay` shows; `SpacedRefinement`,
`TwiceOnlyIfOvertaken`, `Margin` and `NoThird` are what holds.

**Only model-checked:** the liveness properties (`Answered`, `EveryCallReturns`).

## Where the code and its words disagree

1. **A stale reading lets a replay through** (`wallet_race_replay`). A task reads
   the clock, is overtaken before it gets the mutex, another task with a later
   reading sweeps the nonce of an executed request, and the first one then finds
   its replay fresh and unknown. `Margin` says what it takes: a request stamped
   more than the skew less the lag ahead of the first execution's reading, so with
   a wait at the mutex far below the skew one stamped nearly the whole skew ahead;
   and `NoThird`, for a lag within the skew, that it
   happens once to a request. `SettledSend` and `RetrySafe` allow for it. Reading the
   clock under the mutex closes it for a clock that is not set back.
2. **A 502 may mean executed** (`bwc_502`). `send`'s doc says a non-2xx status
   never reaches the wallet; the relay answers 502 for any failure of its hop.
3. **The version is not read first** (`conn_version_first`). `parse` reports the
   first bad pair in the order of the text (`FirstErrorReported`): a malformed param
   before `v=3` hides the unknown version. Acceptance is
   still as documented (`AcceptedWhateverOrder`).
4. **An empty secret builds a client that panics** (`conn_empty_secret`). `parse`
   and `Client::new` take `secret=`; `seal` expects it cannot be.

`derive`'s doc in the upgrade example says that only a holder of the secret can
derive the message key. Its HMAC salt does not tell a secret from the same with
zeros cut off or added at the end, so a holder of one of those can as well. For the
32 random bytes of a real secret this is a remark and no disagreement worth a run;
`OpenedAsIssued` states what holds.

## Idealisations

* HPKE is symbolic: a message opens exactly under the parameters it was sealed
  under. Nonces are fresh.
* The relay is the code's own. It answers each call from its own forward; a
  sealed response names no request, so a relay that crossed two answers would not
  be noticed (a TODO of the source). `OutcomeTrue` rests on this.
* A body is its nonce. JSON envelopes are well formed; what axum's extractor and
  a failed base64 or hex decoding of the envelope do is left out.
* Not modelled: logging and printing, opening and serving the sockets, and the
  graceful shutdown, which `main` sends after its last call has returned.
* In `SigningRpc`, signatures are symbolic and a reply key is always well formed
  (any 32 bytes are an X25519 key). How id, signature, reply key and body are laid
  out in the payload is left out, and with it the difference in lengths between
  the two curves; a payload is whole or too short.
* In `AuthModeRpc` a key is the name of its holder. That bytes are no curve point
  can only be an error after the allowlist check, which such bytes do not pass.
* In `VersionUpgrade` v2's KEM is ideal, as HPKE is: a message sealed to a key opens
  with that key, under equal salts. An encapsulated key or a ciphertext of the
  right length that is not well formed counts as one that does not decrypt.

## Not modelled

* `examples/bwc_basic.rs`: one request and one reply through the library, with no
  state and no choice. Its request without a frame is the malformed wire of
  `wallet_stray`.
* `src/rng.rs` and `src/lib.rs`: adapters of the system generator, no logic.
* `mod display` and the other printing of the examples; the JSON envelopes.
* The graceful shutdown of the two servers, see above.
* Crash and restart: the wallet keeps its cache in memory and the repository
  claims nothing across a restart ("already seen this session").

## What could come next

* The byte layout of the signed payloads, for which the two signing variants would
  have to be told apart.
* The shutdown of the servers, if `main` is ever changed to stop them with calls
  still open: then the question is whether every call still returns.
