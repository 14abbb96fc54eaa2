---------------------------- MODULE MCConnString ----------------------------
(* ConnString for TLC: every query of up to MaxPairs pairs over a few values. *)
EXTENDS ConnString, TLC

CONSTANTS MaxPairs, Pk, Psk

\* `aa` and `AA` are one key; `bb` is a secret and no key; `zz` is not hex.
MCBytes == {Pk, Psk, EmptyPsk}
MCHex == ("aa" :> Pk) @@ ("AA" :> Pk) @@ ("bb" :> Psk) @@ ("" :> EmptyPsk)
MCEncode == (Pk :> "aa") @@ (Psk :> "bb") @@ (EmptyPsk :> "")

MCWords == {"v", "wallet_pk", "secret", "token", "region", "a", "1", "2", "3", "aa",
            "AA", "bb", "", "zz", "t", "u", "x", "1?v=1", "x&y", "t&secret=aa",
            "a=b", "c", "b=c", "token=z", "y", "z=y", "relay", "relay?a=1"}
MCPairs ==
    {Pair("v", "1"), Pair("v", "2"), Pair("v", "3"),
     Pair("wallet_pk", "AA"), Pair("wallet_pk", "bb"), Pair("secret", "bb"),
     Pair("secret", "zz"), Pair("token", "t"), Pair("token", "u"),
     Pair("region", "x"), NoEquals}
MCUris ==
    {[bwc |-> TRUE, relay |-> "relay", query |-> q] :
        q \in UNION {[1..n -> MCPairs] : n \in 1..MaxPairs}}
    \cup {[bwc |-> b, relay |-> "relay", query |-> NoQuery] : b \in BOOLEAN}

\* Minted strings: a token and a param that hold a `&`, params with a `=` in the
\* key, one of which is read as a token, a param with the key of the token, a
\* relay that holds a `?`, and any combination with plain ones.
TokenPair == Pair("token", "t&secret=aa")
RegionPair == Pair("region", "x&y")
MCSplit ==
    (TokenPair :> <<Pair("token", "t"), Pair("secret", "aa")>>)
    @@ (RegionPair :> <<Pair("region", "x"), NoEquals>>)
    @@ (Pair("a=b", "c") :> <<Pair("a", "b=c")>>)
    @@ (Pair("token=z", "y") :> <<Pair("token", "z=y")>>)
MCSplitRelay ==
    "relay?a=1" :> [relay |-> "relay", lead |-> <<Pair("a", "1?v=1")>>]
MCMinted ==
    [relay : {"relay", "relay?a=1"},
     fields : [version : {"V1", "V2"}, wallet_pk : {Pk}, secret : {Psk},
               token : {Absent, "t", TokenPair.val},
               relay_params : {<<>>, <<Pair("region", "x")>>, <<RegionPair>>,
                               <<Pair("a=b", "c")>>, <<Pair("a", "b=c")>>,
                               <<Pair("token=z", "y")>>,
                               <<Pair("token", "u"), Pair("region", "x")>>}]]

\* Texts with only the fields every string has, the secret perhaps empty.
PlainUris ==
    {[bwc |-> TRUE, relay |-> "relay", query |-> q] :
        q \in [1..3 -> {Pair("v", "1"), Pair("wallet_pk", "aa"),
                        Pair("secret", "bb"), Pair("secret", "")}]}

=============================================================================
