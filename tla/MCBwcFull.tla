----------------------------- MODULE MCBwcFull -----------------------------
(* BwcFull for TLC: one served connection, one that only has a token. *)
EXTENDS BwcFull, TLC

CONSTANTS Ours, Orphan, Good, Other

\* The token of our connection, and that of one no wallet is registered for.
MCGrants == (Good :> Ours) @@ (Other :> Orphan)
OneGrant == Good :> Ours
NoStrays == {}
CallSymmetry == Permutations(Tasks)

=============================================================================
