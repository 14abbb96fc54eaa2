-------------------------- MODULE MCVersionUpgrade --------------------------
(* VersionUpgrade for TLC: four connections, and strings with one change. *)
EXTENDS VersionUpgrade, TLC

CONSTANTS Alice, Bob

\* Keys of one and two bytes; secrets of two, one of them with a zero at the end.
MCV1Key == <<175>>
MCV2Key == <<10, 255>>
MCLowOrder == {<<0>>}
MCInvalidXWing == {<<255, 255>>}
MCConnections ==
    {[version |-> "V1", secret |-> <<171, 0>>, client_pk |-> Alice],
     [version |-> "V1", secret |-> <<171, 0>>, client_pk |-> NoKey],
     [version |-> "V2", secret |-> <<171, 0>>, client_pk |-> NoKey],
     [version |-> "V2", secret |-> <<15, 160>>, client_pk |-> NoKey]}

\* `ab` (the zero cut off), with zeros to a block and past it; `ac` and `abcd`;
\* ``, `abc`, `zz`, `+b` and `a` `e-acute` `b`.
OtherSecrets ==
    {Encode(<<171>>), Encode(<<171, 0, 0>>), Encode(<<171, 0, 0, 0>>),
     Encode(<<172>>), Encode(<<171, 205>>),
     <<>>, <<97, 98, 99>>, <<122, 122>>, <<43, 98>>, <<97, 195, 169, 98>>}
OtherKeys == {Encode(k) : k \in {V1Key, V2Key} \cup LowOrder \cup InvalidXWing}

\* The string of a connection with one value replaced, or all in upper case.
Altered(c) ==
    LET t == ConnectionString(c)
        with(i, val) == [t EXCEPT !.query[i].val = val]
    IN  {with(1, v) : v \in {One, Two, <<51>>}}
        \cup {with(2, k) : k \in OtherKeys} \cup {with(3, s) : s \in OtherSecrets}
        \cup {InUpperCase(t)}

\* The same with its pairs changed.
Malformed(c) ==
    LET t == ConnectionString(c)
        q == t.query
        query(p) == [t EXCEPT !.query = p]
    IN  {[t EXCEPT !.bwc = FALSE], query(NoQuery), query(<<NoEquals>>),
         query(Tail(q)), query(<<q[1], q[3]>>), query(<<q[1], q[2]>>),
         query(q \o <<Pair("region", <<120>>), Pair("v", One)>>)}

MCStrayTexts ==
    UNION {Altered(c) : c \in {x \in Connections : x.secret = <<171, 0>>}}
    \cup Malformed(CHOOSE c \in Connections : c.version = "V2")

=============================================================================
