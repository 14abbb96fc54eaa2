--------------------------- MODULE VersionUpgrade ---------------------------
(***************************************************************************)
(* examples/bwc_post_quantum_upgrade.rs: a wallet with a key pair of each  *)
(* suite has issued connection strings of both versions.  A client seals   *)
(* with the suite that the string it was last handed names, and the wallet *)
(* opens what reaches it under a connection's version, secret and          *)
(* registered client key.  Strings and messages of both versions are in    *)
(* use at once: a string may reach the client altered, and a message may   *)
(* be opened for any connection, or cut short.                             *)
(*                                                                         *)
(* v1 is Channel's AuthPSK sealing.  v2 seals under a key derived from an  *)
(* X-Wing shared secret, with the connection secret as the HKDF salt, and  *)
(* names no sender; it is idealised as Channel is.                         *)
(***************************************************************************)
EXTENDS HexCodec, FiniteSets

CONSTANTS
    Connections,       \* what the wallet issued: [version, secret, client_pk]
    StrayTexts,        \* other texts a client may be handed
    ParamNames,        \* the keys of the pairs of a query
    NoText, NoConn,    \* before the first of them; when there is no ParsedConn
    NoEquals, NoQuery, \* a pair with no `=`; the query of a text with no `?`
    ClientKeys,        \* X25519 identities of clients
    NoKey,             \* None: no identity, or none registered
    Bodies,            \* plaintexts
    V1Key, V2Key,      \* the wallet's public keys, as bytes
    PUBLIC_KEY_LEN, ENCAPSULATION_KEY_SIZE,  \* the lengths of keys of each suite
    LowOrder,          \* X25519 keys whose shared secret is refused (all zero)
    InvalidXWing,      \* byte strings of its length that are no X-Wing key
    SecretLen,         \* the wallet's secrets are random_bytes::<SecretLen>()
    HMAC_BLOCK,        \* the block of HMAC-SHA256, 64 bytes
    MaxSealed          \* bound: the messages sealed; no text is handed out after

C == INSTANCE Channel WITH EmptyPsk <- <<>>

\* Version: `1` is 49.
One == <<49>>
Two == <<50>>
AsU8(version) == IF version = "V1" THEN One ELSE Two
VersionParse(val) ==
    IF val = One THEN Ok("V1")
    ELSE IF val = Two THEN Ok("V2")
    ELSE Err("UNSUPPORTED_VERSION")

\* A ParsedConn; `relay` is left out.
ParsedConn ==
    [version : {"V1", "V2"}, wallet_pk : Seq(Octets), secret : Seq(Octets)]

ASSUME KeyAssumption ==
    /\ PUBLIC_KEY_LEN # ENCAPSULATION_KEY_SIZE
    /\ V1Key \in Seq(Octets) /\ Len(V1Key) = PUBLIC_KEY_LEN
    /\ V2Key \in Seq(Octets) /\ Len(V2Key) = ENCAPSULATION_KEY_SIZE
    /\ \A k \in InvalidXWing : Len(k) = ENCAPSULATION_KEY_SIZE
    /\ V1Key \notin LowOrder /\ V2Key \notin InvalidXWing

ASSUME ConnectionAssumption ==
    /\ SecretLen \in Nat \ {0} /\ HMAC_BLOCK \in Nat /\ SecretLen <= HMAC_BLOCK
    /\ \A c \in Connections :
          /\ c.version \in {"V1", "V2"}
          /\ c.secret \in Seq(Octets) /\ Len(c.secret) = SecretLen
          /\ c.client_pk \in ClientKeys \cup {NoKey}
    /\ NoKey \notin ClientKeys

VARIABLES
    text,     \* the text the client was handed last
    conn,     \* the ParsedConn made of it
    sealed,   \* messages, with the ParsedConn and identity they were sealed by
    opened,   \* [conn, wire]: what Wallet::open returned a body of
    failure   \* how the last call failed, if it did

vars == <<text, conn, sealed, opened, failure>>

NoFailure == [op |-> "none"]

-----------------------------------------------------------------------------
\* Wallet::connection_string.

Pair(key, val) == [key |-> key, val |-> val]

\* Variants (here and below, NAME_Variant): an operation with a bug that the
\* properties must tell from the code.  No action uses them.
KeyFor_OneKey(version) == V1Key
KeyFor(version) == IF version = "V1" THEN V1Key ELSE V2Key

ConnectionString(c) ==
    [bwc |-> TRUE,
     query |-> <<Pair("v", AsU8(c.version)),
                 Pair("wallet_pk", Encode(KeyFor(c.version))),
                 Pair("secret", Encode(c.secret))>>]

Texts == {ConnectionString(c) : c \in Connections} \cup StrayTexts

\* What a text may be: its scheme and its query, split at the `&`s.
Pairs == [key : ParamNames, val : Seq(Octets)]
AnyText == [bwc : BOOLEAN, query : Seq(Pairs \cup {NoEquals}) \cup {NoQuery}]

ASSUME TextAssumption ==
    /\ StrayTexts \subseteq AnyText
    /\ {"v", "wallet_pk", "secret"} \subseteq ParamNames
    /\ NoEquals \notin Pairs /\ NoQuery \notin Seq(Pairs \cup {NoEquals})
    /\ NoText \notin AnyText /\ NoConn \notin ParsedConn

-----------------------------------------------------------------------------
\* ParsedConn::parse.

\* One turn of its loop.
ParsePair(p) ==
    IF p = NoEquals THEN Err("malformed param")
    ELSE IF p.key = "v" THEN VersionParse(p.val)
    ELSE IF p.key \in {"wallet_pk", "secret"} THEN Decode(p.val)
    ELSE Ok("ignored")

\* The loop over the pairs stops at the first that fails; of a key that is given
\* twice the last value stays.
Parse(t) ==
    LET q == t.query
        at(key) == {i \in DOMAIN q : q[i] # NoEquals /\ q[i].key = key}
        fails == {i \in DOMAIN q : ParsePair(q[i]).is # "ok"}
        first == CHOOSE i \in fails : \A j \in fails : i <= j
        value(key) ==
            ParsePair(q[CHOOSE i \in at(key) : \A j \in at(key) : j <= i]).val
    IN  IF ~ t.bwc THEN Err("not a bwc:// URI")
        ELSE IF q = NoQuery THEN Err("missing query")
        ELSE IF fails # {} THEN ParsePair(q[first])
        ELSE IF at("v") = {} THEN Err("missing v")
        ELSE IF at("wallet_pk") = {} THEN Err("missing wallet_pk")
        ELSE IF at("secret") = {} THEN Err("missing secret")
        ELSE Ok([version |-> value("v"), wallet_pk |-> value("wallet_pk"),
                 secret |-> value("secret")])

Init ==
    /\ text = NoText /\ conn = NoConn
    /\ sealed = {} /\ opened = {} /\ failure = NoFailure

Hand(t) ==
    LET parsed == Parse(t)
    IN  /\ text' = t
        /\ \/ /\ parsed.is = "ok"
              /\ conn' = parsed.val /\ failure' = NoFailure
           \/ /\ parsed.is # "ok"
              /\ conn' = NoConn
              /\ failure' = [op |-> "parse", why |-> parsed.val]
        /\ UNCHANGED <<sealed, opened>>

-----------------------------------------------------------------------------
\* client_seal, on the ParsedConn the client has.

INFO_V2 == "bwc-v2 request"

\* v1::pk_from_bytes; v2::seal's two conversions.
IsX25519_Prefix(bytes) == Len(bytes) >= PUBLIC_KEY_LEN
IsX25519(bytes) == Len(bytes) = PUBLIC_KEY_LEN
IsXWingLong(bytes) == Len(bytes) = ENCAPSULATION_KEY_SIZE

\* derive(): HMAC pads its key, here the secret, with zeros to a block, so
\* secrets that differ in trailing zeros give the same AEAD key and nonce.  It
\* hashes a longer one first, which here stands for its own hash.
ByteAt(secret, i) == IF i \in DOMAIN secret THEN secret[i] ELSE 0
Salt(secret) ==
    IF Len(secret) > HMAC_BLOCK THEN secret
    ELSE [i \in 1..HMAC_BLOCK |-> ByteAt(secret, i)]

Failed(id, why) ==
    /\ failure' = [op |-> "seal", why |-> why, id |-> id]
    /\ UNCHANGED <<text, conn, sealed, opened>>

Sealed(id, wire) ==
    /\ sealed' = sealed \cup {[conn |-> conn, id |-> id, wire |-> wire]}
    /\ failure' = NoFailure
    /\ UNCHANGED <<text, conn, opened>>

\* v1::seal; it panics on an empty secret, and on a key it cannot agree with.
V1Seals(id, body) ==
    /\ C!SealReturns(conn.wallet_pk, conn.secret)
    /\ Sealed(id, C!Seal(id, conn.wallet_pk, conn.secret, C!INFO_REQUEST, body))
V1Panics(id) ==
    /\ ~ C!SealReturns(conn.wallet_pk, conn.secret)
    /\ Failed(id, "panic")

SealV1(id, body) ==
    /\ conn # NoConn /\ conn.version = "V1"
    /\ \/ ~ IsX25519(conn.wallet_pk) /\ Failed(id, "malformed KEM public key")
       \/ /\ IsX25519(conn.wallet_pk) /\ id = NoKey
          /\ Failed(id, "v1 requires a client identity keypair")
       \/ /\ IsX25519(conn.wallet_pk) /\ id # NoKey
          /\ V1Seals(id, body) \/ V1Panics(id)

SealV2(id, body) ==
    /\ conn # NoConn /\ conn.version = "V2"
    /\ \/ ~ IsXWingLong(conn.wallet_pk) /\ Failed(id, "bad X-Wing key length")
       \/ conn.wallet_pk \in InvalidXWing /\ Failed(id, "invalid X-Wing key")
       \/ /\ IsXWingLong(conn.wallet_pk) /\ conn.wallet_pk \notin InvalidXWing
          /\ Sealed(NoKey, C!Seal(NoKey, conn.wallet_pk, Salt(conn.secret), INFO_V2, body))

-----------------------------------------------------------------------------
\* Wallet::open, of any message under any connection.

\* A message may be cut short on its way.
Delivered ==
    {m.wire : m \in sealed} \cup {[m.wire EXCEPT !.bytes = "short"] : m \in sealed}

Refused(c, w, why) ==
    /\ failure' = [op |-> "open", why |-> why, conn |-> c, wire |-> w]
    /\ UNCHANGED <<text, conn, sealed, opened>>

Opened(c, w) ==
    /\ opened' = opened \cup {[conn |-> c, wire |-> w]}
    /\ failure' = NoFailure
    /\ UNCHANGED <<text, conn, sealed>>

V1Decrypts(c, w) == C!Opens(V1Key, c.client_pk, c.secret, C!INFO_REQUEST, w)
V2Decrypts_AnySecret(c, w) ==
    w.bytes = "whole" /\ w.to = V2Key /\ w.info = INFO_V2
V2Decrypts(c, w) ==
    w.bytes = "whole" /\ w.to = V2Key /\ w.psk = Salt(c.secret) /\ w.info = INFO_V2

OpenV1(c, w) ==
    /\ c.version = "V1"
    /\ \/ c.client_pk = NoKey /\ Refused(c, w, "v1 requires the client's registered key")
       \/ /\ c.client_pk # NoKey /\ w.bytes = "short"
          /\ Refused(c, w, "v1 message too short")
       \/ /\ c.client_pk # NoKey /\ w.bytes # "short" /\ ~ V1Decrypts(c, w)
          /\ Refused(c, w, "v1 authentication/decryption failed")
       \/ c.client_pk # NoKey /\ V1Decrypts(c, w) /\ Opened(c, w)

\* A v1 message may be shorter than an X-Wing ciphertext without being cut.
OpenV2(c, w) ==
    /\ c.version = "V2"
    /\ \/ /\ w.bytes = "short" \/ w.info = C!INFO_REQUEST
          /\ Refused(c, w, "v2 message too short")
       \/ /\ w.bytes # "short" /\ ~ V2Decrypts(c, w)
          /\ Refused(c, w, "v2 authentication/decryption failed")
       \/ V2Decrypts(c, w) /\ Opened(c, w)

Seals == \E id \in ClientKeys \cup {NoKey}, body \in Bodies :
    SealV1(id, body) \/ SealV2(id, body)
Opens == \E c \in Connections, w \in Delivered : OpenV1(c, w) \/ OpenV2(c, w)

Next ==
    \/ Cardinality(sealed) < MaxSealed /\ \E t \in Texts : Hand(t)
    \/ Cardinality(sealed) < MaxSealed /\ Seals
    \/ Opens

Spec == Init /\ [][Next]_vars

-----------------------------------------------------------------------------
\* Properties.

\* The ParsedConn that a connection's string stands for.
AsIssued(c) ==
    [version |-> c.version, wallet_pk |-> KeyFor(c.version), secret |-> c.secret]

\* A text in upper-case hex.
Upper(hex) == [i \in DOMAIN hex |-> IF hex[i] \in 97..102 THEN hex[i] - 32 ELSE hex[i]]
InUpperCase(t) ==
    [t EXCEPT !.query[2].val = Upper(@), !.query[3].val = Upper(@)]

\* A ParsedConn holds bytes, whatever digits they came from.
TypeOK ==
    /\ text \in Texts \cup {NoText}
    /\ conn \in ParsedConn \cup {NoConn}

\* What a client reads from a string is what the wallet wrote into it, in either
\* case of hex.
ParsesAsIssued ==
    \A c \in Connections :
        text \in {ConnectionString(c), InUpperCase(ConnectionString(c))} =>
            conn = AsIssued(c)

\* Whatever happens to a string on the way, no message to one of the wallet's
\* keys is sealed with the suite of the other.
NoDowngrade ==
    \A m \in sealed, v \in {"V1", "V2"} :
        m.conn.wallet_pk = KeyFor(v) => m.conn.version = v

\* What the wallet opens for a connection was sealed as that connection's string
\* says: with its suite, to its key, by its client under its secret if it is v1,
\* and if it is v2 under its secret or one that HMAC cannot tell from it, which
\* fits a block and has other zeros at its end.
SameButZeros(s, t) == \A i \in 1..HMAC_BLOCK : ByteAt(s, i) = ByteAt(t, i)
OpenedAsIssued ==
    \A e \in opened :
        \E m \in sealed :
            /\ m.wire = e.wire
            /\ m.conn.version = e.conn.version
            /\ m.conn.wallet_pk = KeyFor(e.conn.version)
            /\ e.conn.version = "V1" =>
                  m.id = e.conn.client_pk /\ m.conn.secret = e.conn.secret
            /\ e.conn.version = "V2" =>
                  /\ Len(m.conn.secret) <= HMAC_BLOCK
                  /\ SameButZeros(m.conn.secret, e.conn.secret)

\* No call fails between a client and a wallet that use a string as issued: it
\* parses, its client can seal with it, and the wallet opens what it sealed.  On
\* any other text parse() panics only over a character that is not ASCII.
FailuresJustified ==
    /\ failure.op = "parse" =>
          /\ \A c \in Connections : text # ConnectionString(c)
          /\ failure.why = "panic" =>
                \E i \in DOMAIN text.query :
                    /\ text.query[i] # NoEquals
                    /\ \E j \in DOMAIN text.query[i].val : text.query[i].val[j] > 127
    /\ failure.op = "seal" =>
          \A c \in Connections :
              text = ConnectionString(c) => c.version = "V1" /\ failure.id = NoKey
    /\ failure.op = "open" =>
          \A m \in sealed :
              m.conn = AsIssued(failure.conn) /\ m.wire = failure.wire =>
                  failure.conn.version = "V1" /\ m.id # failure.conn.client_pk

=============================================================================
