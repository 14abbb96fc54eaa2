--------------------------- MODULE MCWalletServer ---------------------------
(* WalletServer for TLC: the wires of everyone but the client. *)
EXTENDS WalletServer, TLC

CONSTANTS OtherKey, OtherSecret, StrayTime

\* One of each: another secret, another sender, a message to another wallet,
\* a message of the other direction, a damaged one, a truncated one, and the
\* client's own body without a nonce and timestamp (as bwc_basic frames it).
MCStrayWires ==
    LET claims == [nonce : Nonces, timestamp : {StrayTime}]
        req(c) == Seal(ClientKey, WalletKey, Secret, INFO_REQUEST, c)
    IN  {Seal(ClientKey, WalletKey, OtherSecret, INFO_REQUEST, c) : c \in claims}
        \cup {Seal(OtherKey, WalletKey, Secret, INFO_REQUEST, c) : c \in claims}
        \cup {Seal(ClientKey, OtherKey, Secret, INFO_REQUEST, c) : c \in claims}
        \cup {Seal(ClientKey, WalletKey, Secret, INFO_RESPONSE, c) : c \in claims}
        \cup {[req(c) EXCEPT !.bytes = b] : c \in claims, b \in {"damaged", "short"}}
        \cup {req(Malformed)}

\* No stray wires: runs about the order of tasks and the clock.
NoStrayWires == {}

TaskSymmetry == Permutations(Tasks)
NonceSymmetry == Permutations(Nonces)

=============================================================================
