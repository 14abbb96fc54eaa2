----------------------------- MODULE ConnString -----------------------------
(***************************************************************************)
(* The BWC connection string (src/connect.rs) and the client built from it *)
(* (main and Client::new of examples/bwc_full.rs).  A URI is its scheme,   *)
(* its relay and its query: the pairs between the `&`s, in order.  A pair  *)
(* is a key with a value, or NoEquals, text without a `=`; an empty query  *)
(* is one such pair.  parse() is a machine that takes a pair per step, so  *)
(* that its early returns happen where the code has them.                  *)
(***************************************************************************)
EXTENDS Naturals, FiniteSets, SequencesExt

CONSTANTS
    Uris,         \* the texts a client may be handed
    Words,        \* what a key, a value or a relay may be
    NoEquals,     \* a pair with no `=`
    NoQuery,      \* the query of a URI with no `?`
    Absent,       \* None
    Bytes,        \* byte strings
    EmptyPsk,     \* the one of length zero
    Hex,          \* hex::decode: text -> bytes, undefined on what is not hex
    Encode,       \* hex::encode: bytes -> text
    X25519Keys,   \* the byte strings that are X25519 public keys
    LowOrder,     \* those of them HPKE refuses to seal to
    Minted,       \* the ConnStrings a wallet may fill in and render
    Split,        \* pairs with a `&`, or with a `=` in the key -> the pairs that
                  \* their text is read as
    SplitRelay    \* relays with a `?` in them -> the relay they are read as, and
                  \* the pairs that are read in the place of `v`

Recognised == {"v", "wallet_pk", "secret", "token"}
Versions == [n \in {"1", "2"} |-> IF n = "1" THEN "V1" ELSE "V2"]
AsU8(version) == CHOOSE n \in DOMAIN Versions : Versions[n] = version

Pair(key, val) == [key |-> key, val |-> val]
TextPairs == [key : Words, val : Words]

\* What a text may be.
Queries == Seq(TextPairs \cup {NoEquals})
Texts == [bwc : BOOLEAN, relay : Words, query : Queries \cup {NoQuery}]

\* What a ConnString may be.
ConnStrings ==
    [relay : Words,
     fields : [version : {"V1", "V2"}, wallet_pk : Bytes, secret : Bytes,
               token : Words \cup {Absent}, relay_params : Seq(TextPairs)]]

ASSUME NameAssumption ==
    /\ NoEquals \notin TextPairs /\ NoQuery \notin Queries
    /\ Absent \notin Words \cup Bytes \cup {"V1", "V2"}
    /\ Recognised \cup DOMAIN Versions \cup DOMAIN Hex \subseteq Words

ASSUME HexAssumption ==
    /\ Encode \in [Bytes -> DOMAIN Hex] /\ Hex \in [DOMAIN Hex -> Bytes]
    /\ \A b \in Bytes : Hex[Encode[b]] = b
    /\ X25519Keys \subseteq Bytes /\ EmptyPsk \in Bytes \ X25519Keys
    /\ LowOrder \subseteq X25519Keys

INSTANCE Channel

VARIABLES
    uri,       \* the text being parsed
    pos,       \* the pair the loop is at
    fields,    \* the locals version, wallet_pk, secret, token, relay_params
    outcome,   \* "parsing", "ok" or the error parse() returned
    first,     \* [relay, fields]: the ConnString the text was rendered from
    client     \* "none", "built", or why there is no client

connVars == <<uri, pos, fields, outcome, first, client>>

NoFields == [version |-> Absent, wallet_pk |-> Absent, secret |-> Absent,
             token |-> Absent, relay_params |-> <<>>]

\* What the text of params is read as: parse splits it at every `&`, and each
\* piece at its first `=`.  Each param is read as itself if none is in Split.
ReadBack(params) ==
    IF Range(params) \cap DOMAIN Split = {} THEN params
    ELSE FlattenSeq([i \in DOMAIN params |->
            IF params[i] \in DOMAIN Split THEN Split[params[i]] ELSE <<params[i]>>])

\* to_uri(): version, key and secret, then the token, then the other params, as
\* the text it returns is read.
Lead(f) ==
    <<Pair("v", AsU8(f.version)), Pair("wallet_pk", Encode[f.wallet_pk]),
      Pair("secret", Encode[f.secret])>>

\* Variants (here and below, NAME_Variant): an operation with a bug that the
\* properties must tell from the code.  No action uses them.
Params_NoToken(f) == f.relay_params
Params(f) ==
    (IF f.token = Absent THEN <<>> ELSE <<Pair("token", f.token)>>) \o f.relay_params

ToUri(c) ==
    LET lead == Lead(c.fields)
        params == ReadBack(Params(c.fields))
    IN  IF c.relay \notin DOMAIN SplitRelay
        THEN [bwc |-> TRUE, relay |-> c.relay, query |-> lead \o params]
        ELSE [bwc |-> TRUE, relay |-> SplitRelay[c.relay].relay,
              query |-> SplitRelay[c.relay].lead \o Tail(lead) \o params]

\* What has been read holds no `&`, nor a `=` in a key: it is read as itself.
Whole(u) ==
    /\ u.relay \notin DOMAIN SplitRelay
    /\ u.query # NoQuery => Range(u.query) \cap DOMAIN Split = {}

ASSUME TextAssumption ==
    /\ Minted \subseteq ConnStrings
    /\ \A p \in DOMAIN Split :
          p.key \in Recognised => p.val \notin DOMAIN Hex \cup DOMAIN Versions
    /\ \A u \in Uris \cup {ToUri(c) : c \in Minted} : u \in Texts /\ Whole(u)

\* A client is handed any text, or one that a wallet rendered.
Init ==
    /\ \/ uri \in Uris /\ first = Absent
       \/ first \in Minted /\ uri = ToUri(first)
    /\ pos = 1 /\ fields = NoFields /\ outcome = "parsing" /\ client = "none"

-----------------------------------------------------------------------------
\* parse().

Fail(reason) ==
    /\ outcome' = reason
    /\ UNCHANGED <<uri, pos, fields, first, client>>

Scanning == outcome = "parsing" /\ uri.bwc /\ uri.query # NoQuery
AtPair == Scanning /\ pos <= Len(uri.query)
AtEnd == Scanning /\ pos > Len(uri.query)

BadScheme ==
    outcome = "parsing" /\ ~ uri.bwc /\ Fail("not a bwc:// URI")

BadQuery ==
    outcome = "parsing" /\ uri.bwc /\ uri.query = NoQuery /\ Fail("missing query")

BadPair == AtPair /\ uri.query[pos] = NoEquals /\ Fail("malformed param")

\* A turn of the loop that the match accepts, and leaves the locals as `after`.
Take(after) ==
    /\ fields' = after
    /\ pos' = pos + 1
    /\ UNCHANGED <<uri, outcome, first, client>>

Value == uri.query[pos].val
Here(key) == AtPair /\ uri.query[pos] # NoEquals /\ uri.query[pos].key = key

TakeVersion_Lenient ==
    /\ Here("v")
    /\ Take(IF Value \in DOMAIN Versions
            THEN [fields EXCEPT !.version = Versions[Value]] ELSE fields)

TakeVersion ==
    /\ Here("v")
    /\ \/ Value \in DOMAIN Versions /\ Take([fields EXCEPT !.version = Versions[Value]])
       \/ Value \notin DOMAIN Versions /\ Fail("UNSUPPORTED_VERSION")

TakeHex_Raw(key) == Here(key) /\ Take([fields EXCEPT ![key] = Value])

TakeHex(key) ==
    /\ Here(key)
    /\ \/ Value \in DOMAIN Hex /\ Take([fields EXCEPT ![key] = Hex[Value]])
       \/ Value \notin DOMAIN Hex /\ Fail("bad hex")

TakeToken_KeepsFirst ==
    /\ Here("token")
    /\ Take(IF fields.token = Absent THEN [fields EXCEPT !.token = Value] ELSE fields)

TakeToken_AlsoForwards ==
    /\ Here("token")
    /\ Take([fields EXCEPT !.token = Value,
                           !.relay_params = Append(@, uri.query[pos])])

TakeToken == Here("token") /\ Take([fields EXCEPT !.token = Value])

TakeOther ==
    /\ AtPair /\ uri.query[pos] # NoEquals
    /\ uri.query[pos].key \notin Recognised
    /\ Take([fields EXCEPT !.relay_params = Append(@, uri.query[pos])])

MissingField_KeyFirst ==
    /\ AtEnd
    /\ \/ fields.wallet_pk = Absent /\ Fail("missing wallet_pk")
       \/ /\ fields.wallet_pk # Absent /\ fields.version = Absent
          /\ Fail("missing v")
       \/ /\ fields.version # Absent /\ fields.wallet_pk # Absent
          /\ fields.secret = Absent /\ Fail("missing secret")

MissingField ==
    /\ AtEnd
    /\ \/ fields.version = Absent /\ Fail("missing v")
       \/ /\ fields.version # Absent /\ fields.wallet_pk = Absent
          /\ Fail("missing wallet_pk")
       \/ /\ fields.version # Absent /\ fields.wallet_pk # Absent
          /\ fields.secret = Absent /\ Fail("missing secret")

Parsed ==
    /\ AtEnd
    /\ \A f \in {"version", "wallet_pk", "secret"} : fields[f] # Absent
    /\ outcome' = "ok"
    /\ UNCHANGED <<uri, pos, fields, first, client>>

-----------------------------------------------------------------------------
\* What is done with a parsed string.

\* Render it and parse the rendering (as main does with the minted string).
Render ==
    /\ outcome = "ok" /\ first = Absent
    /\ first' = [relay |-> uri.relay, fields |-> fields]
    /\ uri' = ToUri([relay |-> uri.relay, fields |-> fields])
    /\ pos' = 1 /\ fields' = NoFields /\ outcome' = "parsing"
    /\ UNCHANGED client

\* main refuses a version it does not implement, before it reads the key.
RefuseVersion ==
    /\ outcome = "ok" /\ client = "none" /\ fields.version # "V1"
    /\ client' = "unsupported"
    /\ UNCHANGED <<uri, pos, fields, outcome, first>>

\* Client::new reads the key as an X25519 key; it does not look at the secret.
ClientNew ==
    /\ outcome = "ok" /\ client = "none" /\ fields.version = "V1"
    /\ client' = IF fields.wallet_pk \in X25519Keys THEN "built" ELSE "malformed"
    /\ UNCHANGED <<uri, pos, fields, outcome, first>>

Next ==
    \/ BadScheme \/ BadQuery \/ BadPair
    \/ TakeVersion \/ TakeHex("wallet_pk") \/ TakeHex("secret")
    \/ TakeToken \/ TakeOther \/ MissingField \/ Parsed
    \/ Render \/ RefuseVersion \/ ClientNew

Spec == Init /\ [][Next]_connVars

-----------------------------------------------------------------------------
\* Properties.  Each reads the text as a whole, not pair by pair.

\* The loop stays inside the text and every local keeps its type.
TypeOK ==
    /\ uri.query # NoQuery => pos \in 1..(Len(uri.query) + 1)
    /\ fields.version \in {Absent, "V1", "V2"}
    /\ fields.wallet_pk \in Bytes \cup {Absent}
    /\ fields.secret \in Bytes \cup {Absent}
    /\ client \in {"none", "built", "unsupported", "malformed"}

Pairs == IF uri.query = NoQuery THEN {} ELSE Range(uri.query)
KeyIs(key, p) == p # NoEquals /\ p.key = key
LastOf(key) ==
    LET q == uri.query
        at == {i \in DOMAIN q : KeyIs(key, q[i])}
    IN  q[CHOOSE i \in at : \A j \in at : j <= i].val

\* A pair that makes parse() fail, wherever it stands.
Bad(p) ==
    \/ p = NoEquals
    \/ KeyIs("v", p) /\ p.val \notin DOMAIN Versions
    \/ (KeyIs("wallet_pk", p) \/ KeyIs("secret", p)) /\ p.val \notin DOMAIN Hex

\* "Params are order-independent": whether a text is accepted depends on which
\* pairs it has, not on where they stand; one unknown version anywhere, even
\* beside a known one, rejects it.
AcceptedWhateverOrder ==
    outcome # "parsing" =>
        (outcome = "ok" <=>
            /\ uri.bwc /\ uri.query # NoQuery
            /\ \A p \in Pairs : ~ Bad(p)
            /\ \A key \in {"v", "wallet_pk", "secret"} :
                  \E p \in Pairs : KeyIs(key, p))

\* The error a text is rejected with tells what to mend: that of the first pair
\* no client can take or, if all can be taken, the first of the three required
\* keys that no pair has.
ErrorOf(p) ==
    IF p = NoEquals THEN "malformed param"
    ELSE IF p.key = "v" THEN "UNSUPPORTED_VERSION" ELSE "bad hex"
Lacks(key) == \A p \in Pairs : ~ KeyIs(key, p)
FirstErrorReported ==
    LET q == uri.query
        leads(i) == Bad(q[i]) /\ \A j \in 1..(i - 1) : ~ Bad(q[j])
    IN  outcome \notin {"parsing", "ok"} =>
            \/ ~ uri.bwc /\ outcome = "not a bwc:// URI"
            \/ uri.bwc /\ q = NoQuery /\ outcome = "missing query"
            \/ /\ uri.bwc /\ q # NoQuery
               /\ \E i \in 1..Len(q) : leads(i) /\ outcome = ErrorOf(q[i])
            \/ /\ uri.bwc /\ q # NoQuery /\ \A p \in Pairs : ~ Bad(p)
               /\ \/ Lacks("v") /\ outcome = "missing v"
                  \/ /\ ~ Lacks("v") /\ Lacks("wallet_pk")
                     /\ outcome = "missing wallet_pk"
                  \/ /\ ~ Lacks("v") /\ ~ Lacks("wallet_pk") /\ Lacks("secret")
                     /\ outcome = "missing secret"

\* Of a key given twice the last value counts, and no field of a parsed string
\* comes from anywhere but its own key.
FieldsFromLast ==
    outcome = "ok" =>
        /\ fields.version = Versions[LastOf("v")]
        /\ fields.wallet_pk = Hex[LastOf("wallet_pk")]
        /\ fields.secret = Hex[LastOf("secret")]
        /\ fields.token = IF \E p \in Pairs : KeyIs("token", p)
                          THEN LastOf("token") ELSE Absent

\* The query the client sends to the relay is what it was given less what BWC
\* defines: never the token or the secret, nothing dropped or reordered.  The
\* n-th pair of the text that has another key is the n-th that is sent.
ForwardedVerbatim ==
    LET q == uri.query
        others(n) == {i \in 1..n : q[i].key \notin Recognised}
    IN  outcome = "ok" =>
            /\ \A i \in DOMAIN fields.relay_params :
                  fields.relay_params[i].key \notin Recognised
            /\ Len(fields.relay_params) = Cardinality(others(Len(q)))
            /\ \A i \in others(Len(q)) :
                  fields.relay_params[Cardinality(others(i))] = q[i]

\* Nothing in a ConnString reads as anything else once it stands in a text.
Plain(c) ==
    /\ c.relay \notin DOMAIN SplitRelay
    /\ Range(Params(c.fields)) \cap DOMAIN Split = {}
    /\ \A i \in DOMAIN c.fields.relay_params :
          c.fields.relay_params[i].key \notin Recognised

\* Rendering and parsing gives a ConnString back exactly when its relay holds no
\* `?`, no param a `&` or a `=` in its key, and no forwarded param has a key of
\* BWC's: so always if it was parsed, and a wallet that fills in anything else
\* hands out something else, or nothing.
RoundTrip ==
    first # Absent /\ outcome # "parsing" =>
        (Plain(first) <=>
            outcome = "ok" /\ first = [relay |-> uri.relay, fields |-> fields])

\* "`v` is parsed first": an unknown version is what the client reports,
\* whatever else is wrong with the text.
VersionFirst ==
    outcome \notin {"parsing", "not a bwc:// URI", "missing query"}
        /\ (\E p \in Pairs : KeyIs("v", p) /\ p.val \notin DOMAIN Versions)
    => outcome = "UNSUPPORTED_VERSION"

\* seal()'s `expect("non-empty psk + psk_id")` and `expect("sender setup")`: a
\* client that was built has a secret it can seal under and a key to seal to.
SealNeverPanics == client = "built" => SealReturns(fields.wallet_pk, fields.secret)

=============================================================================
