------------------------------ MODULE Channel ------------------------------
(***************************************************************************)
(* The BWC v1 sealing layer (src/channel.rs): one-shot HPKE in AuthPSK     *)
(* mode, symbolically.  A keypair is the name of its holder.  A wire       *)
(* message records what the HPKE key schedule binds it to: the sender's    *)
(* static key, the recipient's key, the connection secret and the `info`   *)
(* string of its direction.  HPKE itself (the `hpke` crate) is idealised:  *)
(* a message opens under exactly the parameters it was sealed under.       *)
(***************************************************************************)
CONSTANTS
    EmptyPsk,    \* the secret of zero bytes (`secret=` with no value)
    LowOrder     \* recipient keys whose shared secret is zero, which HPKE refuses

INFO_REQUEST  == "bwc-v1 request"
INFO_RESPONSE == "bwc-v1 response"

\* PskBundle::new refuses an empty PSK beside the non-empty PSK_ID; open()
\* returns that refusal as an error.
PskBundleOk(psk) == psk # EmptyPsk

\* seal() unwraps the sender setup, which has no PSK bundle for the empty secret
\* and no shared secret with a low-order key: it returns or panics.
SealReturns(recipient, psk) == PskBundleOk(psk) /\ recipient \notin LowOrder

\* What seal() returns when it returns: `enc || ciphertext`.  `bytes` is how they
\* reach the receiver: "whole", or damaged on the way, or shorter than an enc.
Seal(sender, recipient, psk, info, plaintext) ==
    [from |-> sender, to |-> recipient, psk |-> psk, info |-> info,
     payload |-> plaintext, bytes |-> "whole"]

\* A variant with a bug, for the properties to reject: the secret is not bound.
Opens_AnyPsk(recipient, sender, psk, info, wire) ==
    /\ wire.bytes = "whole" /\ PskBundleOk(psk)
    /\ wire.to = recipient /\ wire.from = sender /\ wire.info = info

\* open() returns the plaintext of `wire` rather than an error.
Opens(recipient, sender, psk, info, wire) ==
    /\ wire.bytes = "whole"
    /\ PskBundleOk(psk)
    /\ wire.to = recipient
    /\ wire.from = sender
    /\ wire.psk = psk
    /\ wire.info = info

=============================================================================
