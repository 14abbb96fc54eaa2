------------------------ MODULE VersionUpgradeProofs ------------------------
(***************************************************************************)
(* Proofs about VersionUpgrade: that hex text reads back as the bytes it   *)
(* was made of, that a string parses to what the wallet wrote, and, from   *)
(* the invariant that a sealed message has the shape its string gave it,   *)
(* that versions do not mix.                                               *)
(***************************************************************************)
EXTENDS VersionUpgrade, ExtremeTheorems, SequenceTheorems, TLAPS

\* The codec.

\* Two digits read back as the byte they were made of, in either case.
LEMMA DigitsRead ==
    ASSUME NEW b \in Octets
    PROVE  /\ b \div 16 \in 0..15 /\ b % 16 \in 0..15
           /\ b = 16 * (b \div 16) + (b % 16)
  BY DEF Octets

LEMMA DigitValue ==
    ASSUME NEW n \in 0..15
    PROVE  /\ Digit(n) \in 48..102 /\ Value(Digit(n)) = n
           /\ LET u == IF Digit(n) \in 97..102 THEN Digit(n) - 32 ELSE Digit(n)
              IN  u \in 48..70 /\ Value(u) = n
  BY DEF Digit, Value

\* What the two digits of each byte are.
LEMMA EncodeShape ==
    ASSUME NEW b \in Seq(Octets)
    PROVE  /\ Encode(b) \in Seq(Octets) /\ Len(Encode(b)) = 2 * Len(b)
           /\ DOMAIN Encode(b) = 1..(2 * Len(b))
           /\ \A i \in 1..Len(b) :
                 /\ Encode(b)[2 * i - 1] = Digit(b[i] \div 16)
                 /\ Encode(b)[2 * i] = Digit(b[i] % 16)
  <1> DEFINE n == 2 * Len(b)
             d(i) == IF i % 2 = 1 THEN Digit(b[(i + 1) \div 2] \div 16)
                     ELSE Digit(b[(i + 1) \div 2] % 16)
  <1>0. n \in Nat /\ Encode(b) = [i \in 1..n |-> d(i)]
    BY DEF Encode
  <1>1. \A i \in 1..n : d(i) \in Octets
    <2> TAKE i \in 1..n
    <2>1. (i + 1) \div 2 \in 1..Len(b)
      OBVIOUS
    <2>2. b[(i + 1) \div 2] \in Octets
      BY <2>1
    <2>3. b[(i + 1) \div 2] \div 16 \in 0..15 /\ b[(i + 1) \div 2] % 16 \in 0..15
      BY <2>2, DigitsRead
    <2>4. \A k \in 0..15 : Digit(k) \in Octets
      BY DEF Digit, Octets
    <2> QED
      BY <2>3, <2>4
  <1>2. \A i \in 1..Len(b) :
          /\ 2 * i - 1 \in 1..n /\ d(2 * i - 1) = Digit(b[i] \div 16)
          /\ 2 * i \in 1..n /\ d(2 * i) = Digit(b[i] % 16)
    <2> TAKE i \in 1..Len(b)
    <2>1. /\ (2 * i - 1) % 2 = 1 /\ (2 * i - 1 + 1) \div 2 = i
          /\ (2 * i) % 2 = 0 /\ (2 * i + 1) \div 2 = i
      OBVIOUS
    <2>2. 2 * i - 1 \in 1..n /\ 2 * i \in 1..n
      OBVIOUS
    <2> QED
      BY <2>1, <2>2
  <1> HIDE DEF d, n
  <1>3. Encode(b) \in Seq(Octets) /\ Len(Encode(b)) = n
    BY <1>0, <1>1, IsASeq
  <1>4. DOMAIN Encode(b) = 1..n
    BY <1>0
  <1>5. \A i \in 1..n : Encode(b)[i] = d(i)
    BY <1>0
  <1> QED
    BY <1>2, <1>3, <1>4, <1>5 DEF n

\* A pair of hex digits is sliced off and reads as a byte.
LEMMA PairReads ==
    ASSUME NEW b \in Octets, NEW c, NEW d,
           c \in 48..102, d \in 48..102,
           Value(c) = b \div 16, Value(d) = b % 16
    PROVE  ~ Continues(c) /\ Reads(c, d) /\ ReadByte(c, d) = b
  BY DigitsRead DEF Continues, Reads, ReadByte, NoDigit

\* Any text of the right length whose pairs are the digits of the bytes decodes
\* to them.
LEMMA DecodesTo ==
    ASSUME NEW b \in Seq(Octets), NEW t \in Seq(Octets), Len(t) = 2 * Len(b),
           \A i \in 1..Len(b) :
              /\ t[2 * i - 1] \in 48..102 /\ t[2 * i] \in 48..102
              /\ Value(t[2 * i - 1]) = b[i] \div 16 /\ Value(t[2 * i]) = b[i] % 16
    PROVE  Decode(t) = Ok(b)
  <1> DEFINE pairs == 1..(Len(t) \div 2)
             fails == {i \in pairs :
                         ~ Slices(t, i) \/ ~ Reads(t[2 * i - 1], t[2 * i])}
  <1>1. Len(t) % 2 # 1 /\ pairs = 1..Len(b)
    OBVIOUS
  <1>2. \A i \in pairs : Reads(t[2 * i - 1], t[2 * i])
                         /\ ReadByte(t[2 * i - 1], t[2 * i]) = b[i]
                         /\ ~ Continues(t[2 * i - 1])
    <2> TAKE i \in pairs
    <2> DEFINE c == t[2 * i - 1]
               d == t[2 * i]
    <2>1. /\ b[i] \in Octets /\ c \in 48..102 /\ d \in 48..102
          /\ Value(c) = b[i] \div 16 /\ Value(d) = b[i] % 16
      BY <1>1
    <2> HIDE DEF c, d
    <2>2. ~ Continues(c) /\ Reads(c, d) /\ ReadByte(c, d) = b[i]
      BY <2>1, PairReads
    <2> QED
      BY <2>2 DEF c, d
  <1>3. \A i \in pairs : Slices(t, i)
    <2> SUFFICES ASSUME NEW i \in pairs, i < Len(t) \div 2
                 PROVE  ~ Continues(t[2 * i + 1])
      BY <1>2 DEF Slices
    <2>1. i + 1 \in pairs /\ 2 * (i + 1) - 1 = 2 * i + 1
      BY <1>1
    <2> QED
      BY <1>2, <2>1
  <1>4. fails = {}
    BY <1>2, <1>3
  <1>5. [i \in pairs |-> ReadByte(t[2 * i - 1], t[2 * i])] = b
    BY <1>1, <1>2
  <1> QED
    BY <1>1, <1>4, <1>5 DEF Decode

\* What is encoded decodes to the same bytes, in either case.
THEOREM HexRoundTrip ==
    ASSUME NEW b \in Seq(Octets)
    PROVE  /\ Decode(Encode(b)) = Ok(b) /\ Decode(Upper(Encode(b))) = Ok(b)
           /\ Encode(b) \in Seq(Octets) /\ Upper(Encode(b)) \in Seq(Octets)
  <1> DEFINE e == Encode(b)
  <1>1. ASSUME NEW i \in 1..Len(b)
        PROVE  /\ e[2 * i - 1] = Digit(b[i] \div 16) /\ e[2 * i] = Digit(b[i] % 16)
               /\ b[i] \div 16 \in 0..15 /\ b[i] % 16 \in 0..15
               /\ 2 * i - 1 \in DOMAIN e /\ 2 * i \in DOMAIN e
    <2>1. b[i] \in Octets /\ 2 * i - 1 \in 1..(2 * Len(b)) /\ 2 * i \in 1..(2 * Len(b))
      OBVIOUS
    <2> QED
      BY <2>1, EncodeShape, DigitsRead
  <1>2. e \in Seq(Octets) /\ Len(e) = 2 * Len(b)
    BY EncodeShape
  <1>3. Upper(e) \in Seq(Octets) /\ Len(Upper(e)) = 2 * Len(b)
    <2> DEFINE u(i) == IF e[i] \in 97..102 THEN e[i] - 32 ELSE e[i]
    <2>1. 2 * Len(b) \in Nat /\ \A i \in 1..(2 * Len(b)) : u(i) \in Octets
      <3>1. \A i \in 1..(2 * Len(b)) : e[i] \in Octets
        BY <1>2
      <3> HIDE DEF e
      <3> QED
        BY <3>1 DEF Octets
    <2>2. Upper(e) = [i \in 1..(2 * Len(b)) |-> u(i)]
      BY EncodeShape DEF Upper
    <2> HIDE DEF u
    <2>3. Upper(e) \in Seq(Octets)
      BY <2>1, <2>2, IsASeq
    <2> QED
      BY <2>1, <2>2, <2>3
  <1>4. \A i \in DOMAIN e :
          Upper(e)[i] = IF e[i] \in 97..102 THEN e[i] - 32 ELSE e[i]
    BY DEF Upper
  <1> HIDE DEF e
  <1>5. Decode(e) = Ok(b)
    <2>1. ASSUME NEW i \in 1..Len(b)
          PROVE  /\ e[2 * i - 1] \in 48..102 /\ e[2 * i] \in 48..102
                 /\ Value(e[2 * i - 1]) = b[i] \div 16
                 /\ Value(e[2 * i]) = b[i] % 16
      <3> DEFINE h == b[i] \div 16
                 l == b[i] % 16
      <3>1. /\ e[2 * i - 1] = Digit(h) /\ e[2 * i] = Digit(l)
            /\ h \in 0..15 /\ l \in 0..15
        BY <1>1
      <3> HIDE DEF h, l
      <3>2. /\ Digit(h) \in 48..102 /\ Value(Digit(h)) = h
            /\ Digit(l) \in 48..102 /\ Value(Digit(l)) = l
        BY <3>1, DigitValue
      <3> QED
        BY <3>1, <3>2 DEF h, l
    <2> QED
      BY <1>2, <2>1, DecodesTo
  <1>6. Decode(Upper(e)) = Ok(b)
    <2>1. ASSUME NEW i \in 1..Len(b)
          PROVE  /\ Upper(e)[2 * i - 1] \in 48..102 /\ Upper(e)[2 * i] \in 48..102
                 /\ Value(Upper(e)[2 * i - 1]) = b[i] \div 16
                 /\ Value(Upper(e)[2 * i]) = b[i] % 16
      <3> DEFINE h == b[i] \div 16
                 l == b[i] % 16
                 u(c) == IF c \in 97..102 THEN c - 32 ELSE c
      <3>1. /\ Upper(e)[2 * i - 1] = u(Digit(h)) /\ Upper(e)[2 * i] = u(Digit(l))
            /\ h \in 0..15 /\ l \in 0..15
        BY <1>1, <1>4
      <3> HIDE DEF h, l
      <3>2. /\ u(Digit(h)) \in 48..70 /\ Value(u(Digit(h))) = h
            /\ u(Digit(l)) \in 48..70 /\ Value(u(Digit(l))) = l
        BY <3>1, DigitValue
      <3> HIDE DEF u
      <3>3. /\ Upper(e)[2 * i - 1] \in 48..102 /\ Upper(e)[2 * i] \in 48..102
            /\ Value(Upper(e)[2 * i - 1]) = h /\ Value(Upper(e)[2 * i]) = l
        BY <3>1, <3>2
      <3> QED
        BY <3>3 DEF h, l
    <2> QED
      BY <1>3, <2>1, DecodesTo
  <1> QED
    BY <1>2, <1>3, <1>5, <1>6 DEF e

\* What a text that decodes is made of, pair by pair.
LEMMA DecodedPairs ==
    ASSUME NEW t \in Seq(Octets), Decode(t).is = "ok"
    PROVE  /\ Len(t) = 2 * (Len(t) \div 2) /\ Len(Decode(t).val) = Len(t) \div 2
           /\ \A i \in 1..(Len(t) \div 2) :
                 /\ Reads(t[2 * i - 1], t[2 * i])
                 /\ Decode(t).val[i] = ReadByte(t[2 * i - 1], t[2 * i])
  <1> DEFINE n == Len(t) \div 2
             byte(i) == ReadByte(t[2 * i - 1], t[2 * i])
             fails == {i \in 1..n :
                         ~ Slices(t, i) \/ ~ Reads(t[2 * i - 1], t[2 * i])}
  <1>1. /\ fails = {} /\ Len(t) % 2 # 1
        /\ Decode(t) = Ok([i \in 1..n |-> byte(i)])
    BY DEF Decode, Ok, Err, Panic
  <1>2. n \in Nat /\ Len(t) = 2 * n
    BY <1>1
  <1>3. Decode(t).val = [i \in 1..n |-> byte(i)]
    BY <1>1 DEF Ok
  <1>4. \A i \in 1..n : Reads(t[2 * i - 1], t[2 * i])
    BY <1>1
  <1> HIDE DEF n, byte
  <1>5. Len(Decode(t).val) = n /\ \A i \in 1..n : Decode(t).val[i] = byte(i)
    BY <1>2, <1>3
  <1> QED
    BY <1>2, <1>4, <1>5 DEF n, byte

\* Two digits of one value differ in case at most.
LEMMA SameDigit ==
    ASSUME NEW c \in Octets, NEW d \in Octets,
           Value(c) < NoDigit, Value(c) = Value(d)
    PROVE  (IF c \in 97..102 THEN c - 32 ELSE c) = (IF d \in 97..102 THEN d - 32 ELSE d)
  BY DEF Octets, Value, NoDigit

\* Two pairs of digits, with no sign before them, that read as one byte.
LEMMA SamePair ==
    ASSUME NEW c \in Octets, NEW d \in Octets, NEW e \in Octets, NEW f \in Octets,
           Reads(c, d), Reads(e, f), c # 43, e # 43,
           ReadByte(c, d) = ReadByte(e, f)
    PROVE  /\ Value(c) < NoDigit /\ Value(c) = Value(e)
           /\ Value(d) < NoDigit /\ Value(d) = Value(f)
  <1>1. \A x \in Octets : Value(x) \in 0..16
    BY DEF Octets, Value, NoDigit
  <1>2. /\ Value(c) \in 0..15 /\ Value(d) \in 0..15
        /\ Value(e) \in 0..15 /\ Value(f) \in 0..15
    BY <1>1 DEF Reads, NoDigit
  <1>3. 16 * Value(c) + Value(d) = 16 * Value(e) + Value(f)
    BY DEF ReadByte
  <1> QED
    BY <1>2, <1>3 DEF NoDigit

\* decode() forgets nothing but the case of the digits: two texts without `+`
\* that decode to the same bytes are one text in upper case.  With `+` they need
\* not be, since from_str_radix takes a sign for a missing digit.
THEOREM DecodesApart ==
    ASSUME NEW s \in Seq(Octets), NEW t \in Seq(Octets),
           \A i \in 1..Len(s) : s[i] # 43,
           \A i \in 1..Len(t) : t[i] # 43,
           Decode(s).is = "ok", Decode(t) = Decode(s)
    PROVE  Upper(s) = Upper(t)
  <1> DEFINE n == Len(s) \div 2
  <1>1. /\ n \in Nat /\ Len(s) = 2 * n /\ Len(t) = 2 * n
        /\ \A i \in 1..n :
              /\ Reads(s[2 * i - 1], s[2 * i]) /\ Reads(t[2 * i - 1], t[2 * i])
              /\ ReadByte(s[2 * i - 1], s[2 * i]) = ReadByte(t[2 * i - 1], t[2 * i])
    <2>1. /\ Len(s) = 2 * n /\ Len(Decode(s).val) = n
          /\ \A i \in 1..n :
                /\ Reads(s[2 * i - 1], s[2 * i])
                /\ Decode(s).val[i] = ReadByte(s[2 * i - 1], s[2 * i])
      BY DecodedPairs
    <2>2. /\ Len(t) = 2 * (Len(t) \div 2) /\ Len(Decode(s).val) = Len(t) \div 2
          /\ \A i \in 1..(Len(t) \div 2) :
                /\ Reads(t[2 * i - 1], t[2 * i])
                /\ Decode(s).val[i] = ReadByte(t[2 * i - 1], t[2 * i])
      <3>1. Decode(t).is = "ok"
        OBVIOUS
      <3> HIDE DEF n
      <3> QED
        BY <3>1, DecodedPairs
    <2>3. n \in Nat
      OBVIOUS
    <2> HIDE DEF n
    <2>4. Len(t) \div 2 = n
      BY <2>1, <2>2
    <2> QED
      BY <2>1, <2>2, <2>3, <2>4
  <1> HIDE DEF n
  <1>2. ASSUME NEW i \in 1..n
        PROVE  /\ Value(s[2 * i - 1]) < NoDigit /\ Value(s[2 * i - 1]) = Value(t[2 * i - 1])
               /\ Value(s[2 * i]) < NoDigit /\ Value(s[2 * i]) = Value(t[2 * i])
    <2>1. 2 * i - 1 \in 1..(2 * n) /\ 2 * i \in 1..(2 * n)
      BY <1>1
    <2>2. /\ s[2 * i - 1] \in Octets /\ s[2 * i] \in Octets
          /\ t[2 * i - 1] \in Octets /\ t[2 * i] \in Octets
          /\ s[2 * i - 1] # 43 /\ t[2 * i - 1] # 43
      BY <1>1, <2>1
    <2> QED
      BY <1>1, <2>2, SamePair
  <1>3. \A j \in 1..(2 * n) : Value(s[j]) < NoDigit /\ Value(s[j]) = Value(t[j])
    <2> SUFFICES ASSUME NEW j \in 1..(2 * n)
                 PROVE  Value(s[j]) < NoDigit /\ Value(s[j]) = Value(t[j])
      OBVIOUS
    <2>1. PICK i \in 1..n : j = 2 * i - 1 \/ j = 2 * i
      <3>1. (j + 1) \div 2 \in 1..n
        BY <1>1
      <3>2. j = 2 * ((j + 1) \div 2) - 1 \/ j = 2 * ((j + 1) \div 2)
        BY <1>1
      <3> QED
        BY <3>1, <3>2
    <2> QED
      BY <1>2, <2>1
  <1>4. \A j \in 1..(2 * n) :
          (IF s[j] \in 97..102 THEN s[j] - 32 ELSE s[j])
             = (IF t[j] \in 97..102 THEN t[j] - 32 ELSE t[j])
    <2>1. \A j \in 1..(2 * n) : s[j] \in Octets /\ t[j] \in Octets
      BY <1>1
    <2> QED
      BY <1>3, <2>1, SameDigit
  <1>5. DOMAIN s = 1..(2 * n) /\ DOMAIN t = 1..(2 * n)
    BY <1>1
  <1> QED
    BY <1>4, <1>5 DEF Upper

\* What decodes, decodes to bytes.
LEMMA DecodeType ==
    ASSUME NEW t \in Seq(Octets), Decode(t).is = "ok"
    PROVE  Decode(t).val \in Seq(Octets)
  <1> DEFINE n == Len(t) \div 2
             byte(i) == ReadByte(t[2 * i - 1], t[2 * i])
             fails == {i \in 1..n :
                         ~ Slices(t, i) \/ ~ Reads(t[2 * i - 1], t[2 * i])}
  <1>1. fails = {} /\ Decode(t) = Ok([i \in 1..n |-> byte(i)])
    BY DEF Decode, Ok, Err, Panic
  <1>2. n \in Nat /\ \A i \in 1..n : byte(i) \in Octets
    <2>1. ASSUME NEW i \in 1..n PROVE byte(i) \in Octets
      <3> DEFINE c == t[2 * i - 1]
                 d == t[2 * i]
      <3>1. c \in Octets /\ d \in Octets /\ Reads(c, d)
        BY <1>1
      <3> HIDE DEF c, d
      <3>2. ReadByte(c, d) \in Octets
        BY <3>1 DEF Reads, ReadByte, Value, NoDigit, Octets
      <3> QED
        BY <3>2 DEF c, d
    <2> QED
      BY <2>1
  <1> HIDE DEF n, byte
  <1>3. [i \in 1..n |-> byte(i)] \in Seq(Octets)
    BY <1>2, IsASeq
  <1> QED
    BY <1>1, <1>3 DEF Ok

-----------------------------------------------------------------------------
\* Strings.

\* A string with the three pairs in the order of connection_string.
ThreePairs(v, k, s) ==
    [bwc |-> TRUE,
     query |-> <<Pair("v", v), Pair("wallet_pk", k), Pair("secret", s)>>]

\* It is a text.
LEMMA ThreePairsText ==
    ASSUME NEW v \in Seq(Octets), NEW k \in Seq(Octets), NEW s \in Seq(Octets)
    PROVE  ThreePairs(v, k, s) # NoText
  <1> DEFINE q == <<Pair("v", v), Pair("wallet_pk", k), Pair("secret", s)>>
  <1>1. \A key \in {"v", "wallet_pk", "secret"}, x \in Seq(Octets) :
          Pair(key, x) \in Pairs
    BY TextAssumption DEF Pair, Pairs
  <1>2. q \in Seq(Pairs \cup {NoEquals})
    BY <1>1
  <1> HIDE DEF q
  <1>3. [bwc |-> TRUE, query |-> q] \in AnyText
    BY <1>2 DEF AnyText
  <1> QED
    BY <1>3, TextAssumption DEF ThreePairs, q

\* Three good pairs make a ParsedConn of their values.
LEMMA ParsesThree ==
    ASSUME NEW v \in Seq(Octets), NEW k \in Seq(Octets), NEW s \in Seq(Octets),
           VersionParse(v).is = "ok", Decode(k).is = "ok", Decode(s).is = "ok"
    PROVE  Parse(ThreePairs(v, k, s)) =
              Ok([version |-> VersionParse(v).val, wallet_pk |-> Decode(k).val,
                  secret |-> Decode(s).val])
  <1> DEFINE t == ThreePairs(v, k, s)
             q == t.query
             at(key) == {i \in DOMAIN q : q[i] # NoEquals /\ q[i].key = key}
             fails == {i \in DOMAIN q : ParsePair(q[i]).is # "ok"}
             value(key) ==
                 ParsePair(q[CHOOSE i \in at(key) : \A j \in at(key) : j <= i]).val
  <1>1. /\ DOMAIN q = 1..3 /\ q[1] = Pair("v", v) /\ q[2] = Pair("wallet_pk", k)
        /\ q[3] = Pair("secret", s) /\ t.bwc
    BY DEF ThreePairs
  <1>2. /\ q[1] \in Pairs /\ q[2] \in Pairs /\ q[3] \in Pairs
        /\ q[1].key = "v" /\ q[1].val = v /\ q[2].key = "wallet_pk" /\ q[2].val = k
        /\ q[3].key = "secret" /\ q[3].val = s
    <2>1. \A key \in ParamNames, x \in Seq(Octets) :
            Pair(key, x) \in Pairs /\ Pair(key, x).key = key /\ Pair(key, x).val = x
      BY DEF Pair, Pairs
    <2>2. {"v", "wallet_pk", "secret"} \subseteq ParamNames
      BY TextAssumption
    <2> HIDE DEF q
    <2>3. q[1] \in Pairs /\ q[1].key = "v" /\ q[1].val = v
      BY <1>1, <2>1, <2>2
    <2>4. q[2] \in Pairs /\ q[2].key = "wallet_pk" /\ q[2].val = k
      BY <1>1, <2>1, <2>2
    <2>5. q[3] \in Pairs /\ q[3].key = "secret" /\ q[3].val = s
      BY <1>1, <2>1, <2>2
    <2> QED
      BY <2>3, <2>4, <2>5
  <1>3. q \in Seq(Pairs \cup {NoEquals})
    BY <1>2 DEF ThreePairs
  <1>4. q # NoQuery /\ q[1] # NoEquals /\ q[2] # NoEquals /\ q[3] # NoEquals
    BY <1>2, <1>3, TextAssumption
  <1> HIDE DEF q, t
  <1>5. /\ ParsePair(q[1]) = VersionParse(v) /\ ParsePair(q[2]) = Decode(k)
        /\ ParsePair(q[3]) = Decode(s)
    BY <1>2, <1>4 DEF ParsePair
  <1>6. at("v") = {1} /\ at("wallet_pk") = {2} /\ at("secret") = {3}
    BY <1>1, <1>2, <1>4
  <1>7. fails = {}
    BY <1>1, <1>5
  <1>8. /\ value("v") = VersionParse(v).val /\ value("wallet_pk") = Decode(k).val
        /\ value("secret") = Decode(s).val
    <2>1. \A n \in {1, 2, 3} : (CHOOSE i \in {n} : \A j \in {n} : j <= i) = n
      OBVIOUS
    <2> QED
      BY <1>5, <1>6, <2>1
  <1> HIDE DEF value
  <1>9. Parse(t) = Ok([version |-> value("v"), wallet_pk |-> value("wallet_pk"),
                       secret |-> value("secret")])
    BY <1>1, <1>4, <1>6, <1>7 DEF Parse, q, value
  <1> QED
    BY <1>8, <1>9 DEF t

\* A string of the wallet's parses to what it wrote, in either case of hex.
LEMMA IssuedParses ==
    ASSUME NEW c \in Connections,
           NEW t \in {ConnectionString(c), InUpperCase(ConnectionString(c))}
    PROVE  /\ Parse(t) = Ok(AsIssued(c)) /\ AsIssued(c) \in ParsedConn
           /\ t # NoText
  <1> DEFINE v == AsU8(c.version)
             k == KeyFor(c.version)
  <1>1. /\ c.version \in {"V1", "V2"} /\ c.secret \in Seq(Octets)
        /\ k \in Seq(Octets)
    BY ConnectionAssumption, KeyAssumption DEF KeyFor
  <1>2. v \in Seq(Octets) /\ VersionParse(v) = Ok(c.version)
    <2>1. One \in Seq(Octets) /\ Two \in Seq(Octets) /\ One # Two
      BY DEF One, Two, Octets
    <2> QED
      BY <1>1, <2>1 DEF AsU8, VersionParse
  <1>3. AsIssued(c) = [version |-> c.version, wallet_pk |-> k, secret |-> c.secret]
    BY DEF AsIssued
  <1>4. AsIssued(c) \in ParsedConn
    BY <1>1, <1>3 DEF ParsedConn
  <1> HIDE DEF v, k
  <1>5. CASE t = ConnectionString(c)
    <2>1. t = ThreePairs(v, Encode(k), Encode(c.secret))
      BY <1>5 DEF ConnectionString, ThreePairs, v, k
    <2>2. /\ Decode(Encode(k)) = Ok(k) /\ Decode(Encode(c.secret)) = Ok(c.secret)
          /\ Encode(k) \in Seq(Octets) /\ Encode(c.secret) \in Seq(Octets)
      BY <1>1, HexRoundTrip
    <2>3. Parse(t) = Ok([version |-> c.version, wallet_pk |-> k,
                         secret |-> c.secret])
      BY <1>2, <2>1, <2>2, ParsesThree DEF Ok
    <2> QED
      BY <1>2, <1>3, <1>4, <2>1, <2>2, <2>3, ThreePairsText
  <1>6. CASE t = InUpperCase(ConnectionString(c))
    <2>1. t = ThreePairs(v, Upper(Encode(k)), Upper(Encode(c.secret)))
      <3> DEFINE q == ConnectionString(c).query
                 u == t.query
                 w == ThreePairs(v, Upper(Encode(k)), Upper(Encode(c.secret))).query
      <3>1. /\ DOMAIN q = 1..3 /\ q[1] = Pair("v", v)
            /\ q[2] = Pair("wallet_pk", Encode(k))
            /\ q[3] = Pair("secret", Encode(c.secret))
        BY DEF ConnectionString, v, k
      <3>2. u = [q EXCEPT ![2] = [q[2] EXCEPT !.val = Upper(q[2].val)],
                          ![3] = [q[3] EXCEPT !.val = Upper(q[3].val)]]
        BY <1>6 DEF InUpperCase, ConnectionString
      <3> HIDE DEF q, u
      <3>3. /\ DOMAIN u = 1..3 /\ u[1] = Pair("v", v)
            /\ u[2] = Pair("wallet_pk", Upper(Encode(k)))
            /\ u[3] = Pair("secret", Upper(Encode(c.secret)))
        BY <3>1, <3>2 DEF Pair
      <3>4. u = [i \in 1..3 |-> u[i]]
        BY <3>2, <3>3
      <3>5. w = [i \in 1..3 |-> u[i]]
        BY <3>3 DEF ThreePairs
      <3>6. t = [bwc |-> TRUE, query |-> u]
        BY <1>6 DEF InUpperCase, ConnectionString, u
      <3> QED
        BY <3>4, <3>5, <3>6 DEF ThreePairs
    <2>2. /\ Decode(Upper(Encode(k))) = Ok(k)
          /\ Decode(Upper(Encode(c.secret))) = Ok(c.secret)
          /\ Upper(Encode(k)) \in Seq(Octets)
          /\ Upper(Encode(c.secret)) \in Seq(Octets)
      BY <1>1, HexRoundTrip
    <2>3. Parse(t) = Ok([version |-> c.version, wallet_pk |-> k,
                         secret |-> c.secret])
      BY <1>2, <2>1, <2>2, ParsesThree DEF Ok
    <2> QED
      BY <1>2, <1>3, <1>4, <2>1, <2>2, <2>3, ThreePairsText
  <1> QED
    BY <1>5, <1>6

\* What parses is a ParsedConn, whatever the text.
LEMMA ParseType ==
    ASSUME NEW t \in Texts, Parse(t).is = "ok"
    PROVE  Parse(t).val \in ParsedConn
  <1>1. CASE t \in {ConnectionString(c) : c \in Connections}
    <2>1. PICK c \in Connections : t = ConnectionString(c)
      BY <1>1
    <2>2. Parse(t) = Ok(AsIssued(c)) /\ AsIssued(c) \in ParsedConn
      BY <2>1, IssuedParses
    <2> QED
      BY <2>2 DEF Ok
  <1>2. CASE t \in StrayTexts
    <2> DEFINE q == t.query
               at(key) == {i \in DOMAIN q : q[i] # NoEquals /\ q[i].key = key}
               fails == {i \in DOMAIN q : ParsePair(q[i]).is # "ok"}
               last(key) == CHOOSE i \in at(key) : \A j \in at(key) : j <= i
               value(key) == ParsePair(q[last(key)]).val
    <2>1. t.query \in Seq(Pairs \cup {NoEquals}) \cup {NoQuery}
      BY <1>2, TextAssumption DEF AnyText
    <2>2. q # NoQuery
      BY DEF Parse, Err
    <2>3. DOMAIN q = 1..Len(q) /\ Len(q) \in Nat
      BY <2>1, <2>2
    <2>4. fails = {}
      <3>1. SUFFICES ASSUME fails # {} PROVE FALSE
        OBVIOUS
      <3>2. \E i \in fails : \A j \in fails : i <= j
        <4>1. fails \subseteq Nat
          BY <2>3
        <4> HIDE DEF fails
        <4> QED
          BY <3>1, <4>1, LeastExists
      <3>3. (CHOOSE i \in fails : \A j \in fails : i <= j) \in fails
        BY <3>2
      <3> QED
        BY <2>2, <3>1, <3>3 DEF Parse, Err
    <2>5. at("v") # {} /\ at("wallet_pk") # {} /\ at("secret") # {}
      BY <2>2, <2>4 DEF Parse, Err
    <2>6. \A key \in {"v", "wallet_pk", "secret"} : last(key) \in at(key)
      <3> TAKE key \in {"v", "wallet_pk", "secret"}
      <3>1. at(key) \subseteq 1..Len(q) /\ at(key) # {}
        BY <2>3, <2>5
      <3> HIDE DEF at
      <3>2. \E i \in at(key) : \A j \in at(key) : j <= i
        BY <2>3, <3>1, GreatestExists
      <3> QED
        BY <3>2
    <2>7. \A i \in DOMAIN q :
            /\ q[i] \in Pairs \cup {NoEquals} /\ ParsePair(q[i]).is = "ok"
      BY <2>1, <2>2, <2>4
    <2>8. value("v") \in {"V1", "V2"}
      BY <2>6, <2>7 DEF ParsePair, VersionParse, Ok, Err
    <2>9. ASSUME NEW key \in {"wallet_pk", "secret"}
          PROVE  value(key) \in Seq(Octets)
      <3> DEFINE i == last(key)
      <3>1. i \in DOMAIN q /\ q[i] # NoEquals /\ q[i].key = key
        BY <2>6
      <3> HIDE DEF last
      <3>2. q[i] \in Pairs /\ q[i].key = key /\ ParsePair(q[i]) = Decode(q[i].val)
        BY <2>7, <3>1 DEF ParsePair
      <3> QED
        BY <2>7, <3>1, <3>2, DecodeType DEF Pairs
    <2>10. Parse(t) = Ok([version |-> value("v"), wallet_pk |-> value("wallet_pk"),
                          secret |-> value("secret")])
      BY <2>2, <2>4, <2>5 DEF Parse, Err
    <2> HIDE DEF value
    <2> QED
      BY <2>8, <2>9, <2>10 DEF Ok, ParsedConn
  <1> QED
    BY <1>1, <1>2 DEF Texts

\* A text that makes decode() panic has a byte that is not ASCII.
LEMMA DecodePanics ==
    ASSUME NEW t \in Seq(Octets), Decode(t).is # "ok", Decode(t).val = "panic"
    PROVE  \E j \in DOMAIN t : t[j] > 127
  <1> DEFINE n == Len(t) \div 2
             fails == {i \in 1..n :
                         ~ Slices(t, i) \/ ~ Reads(t[2 * i - 1], t[2 * i])}
             first == CHOOSE i \in fails : \A j \in fails : i <= j
  <1>1. fails # {} /\ ~ Slices(t, first)
    BY DEF Decode, Ok, Err, Panic
  <1>2. first \in fails
    <2>1. fails \subseteq Nat
      OBVIOUS
    <2> HIDE DEF fails
    <2>2. \E i \in fails : \A j \in fails : i <= j
      BY <1>1, <2>1, LeastExists
    <2> QED
      BY <2>2
  <1>3. first \in 1..n
    BY <1>2
  <1> HIDE DEF first, fails
  <1>4. \/ Continues(t[2 * first - 1])
        \/ first < n /\ Continues(t[2 * first + 1])
    BY <1>1 DEF Slices
  <1>5. /\ 2 * first - 1 \in DOMAIN t
        /\ first < n => 2 * first + 1 \in DOMAIN t
    BY <1>3
  <1>6. \A c : Continues(c) => c > 127
    BY DEF Continues
  <1> QED
    BY <1>4, <1>5, <1>6

\* A text that makes parse() panic has one in the value of a pair.
LEMMA ParsePanics ==
    ASSUME NEW t \in StrayTexts, Parse(t).is # "ok", Parse(t).val = "panic"
    PROVE  \E i \in DOMAIN t.query :
              /\ t.query[i] # NoEquals
              /\ \E j \in DOMAIN t.query[i].val : t.query[i].val[j] > 127
  <1> DEFINE q == t.query
             fails == {i \in DOMAIN q : ParsePair(q[i]).is # "ok"}
             first == CHOOSE i \in fails : \A j \in fails : i <= j
  <1>1. fails # {} /\ ParsePair(q[first]).val = "panic" /\ q # NoQuery
    BY DEF Parse, Ok, Err
  <1>2. q \in Seq(Pairs \cup {NoEquals})
    BY <1>1, TextAssumption DEF AnyText
  <1>3. first \in fails
    <2>1. fails \subseteq Nat
      BY <1>2
    <2> HIDE DEF fails
    <2>2. \E i \in fails : \A j \in fails : i <= j
      BY <1>1, <2>1, LeastExists
    <2> QED
      BY <2>2
  <1>4. first \in DOMAIN q /\ ParsePair(q[first]).is # "ok"
    BY <1>3
  <1> DEFINE p == q[first]
  <1>5. p \in Pairs \cup {NoEquals} /\ ParsePair(p).is # "ok" /\ ParsePair(p).val = "panic"
    <2>1. p \in Pairs \cup {NoEquals}
      <3> HIDE DEF first, fails
      <3> QED
        BY <1>2, <1>4
    <2> QED
      BY <1>1, <1>4, <2>1
  <1> HIDE DEF first, fails, p
  <1>6. p # NoEquals /\ p.key # "v" /\ Decode(p.val) = ParsePair(p)
    BY <1>5 DEF ParsePair, VersionParse, Ok, Err
  <1>7. p.val \in Seq(Octets)
    BY <1>5, <1>6 DEF Pairs
  <1>8. \E j \in DOMAIN p.val : p.val[j] > 127
    BY <1>5, <1>6, <1>7, DecodePanics
  <1> QED
    BY <1>4, <1>6, <1>8 DEF p

\* HMAC tells a secret that fits a block from all that differ from it in more
\* than zeros at the end.
LEMMA SaltTells ==
    ASSUME NEW a \in Seq(Octets), NEW b \in Seq(Octets),
           Len(b) <= HMAC_BLOCK, Salt(a) = Salt(b)
    PROVE  Len(a) <= HMAC_BLOCK /\ SameButZeros(a, b)
  <1>0. HMAC_BLOCK \in Nat /\ Len(a) \in Nat /\ Len(b) \in Nat
    BY ConnectionAssumption
  <1>1. Salt(b) = [i \in 1..HMAC_BLOCK |-> ByteAt(b, i)]
    BY <1>0 DEF Salt
  <1>2. Len(a) <= HMAC_BLOCK
    <2> SUFFICES ASSUME Len(a) > HMAC_BLOCK PROVE FALSE
      BY <1>0
    <2>1. Salt(a) = a
      BY DEF Salt
    <2>2. DOMAIN a = 1..HMAC_BLOCK /\ DOMAIN a = 1..Len(a)
      BY <1>1, <2>1
    <2>3. Len(a) \in 1..Len(a) /\ Len(a) \notin 1..HMAC_BLOCK
      BY <1>0
    <2> QED
      BY <2>2, <2>3
  <1>3. Salt(a) = [i \in 1..HMAC_BLOCK |-> ByteAt(a, i)]
    BY <1>0, <1>2 DEF Salt
  <1> QED
    BY <1>1, <1>2, <1>3 DEF SameButZeros

-----------------------------------------------------------------------------
\* The invariant.

\* What the client has is what its text parses to.
ReadFromText ==
    /\ text = NoText => conn = NoConn
    /\ text # NoText =>
          conn = IF Parse(text).is = "ok" THEN Parse(text).val ELSE NoConn

\* A message is sealed with its string's suite, to a key of that suite's length.
SealedShape(m) ==
    /\ m.conn \in ParsedConn
    /\ \/ /\ m.conn.version = "V1" /\ m.id \in ClientKeys
          /\ IsX25519(m.conn.wallet_pk) /\ m.conn.secret # <<>>
          /\ \E body : m.wire = C!Seal(m.id, m.conn.wallet_pk, m.conn.secret,
                                       C!INFO_REQUEST, body)
       \/ /\ m.conn.version = "V2" /\ IsXWingLong(m.conn.wallet_pk)
          /\ \E body : m.wire = C!Seal(NoKey, m.conn.wallet_pk, Salt(m.conn.secret),
                                       INFO_V2, body)

\* What its parameters are, field by field.
LEMMA SealedFields ==
    ASSUME NEW m, SealedShape(m)
    PROVE  /\ m.conn.version \in {"V1", "V2"} /\ m.conn.secret \in Seq(Octets)
           /\ "bytes" \in DOMAIN m.wire /\ m.wire.bytes = "whole"
           /\ m.wire.to = m.conn.wallet_pk
           /\ m.conn.version = "V1" =>
                 /\ m.wire.from = m.id /\ m.wire.psk = m.conn.secret
                 /\ m.wire.info = C!INFO_REQUEST
           /\ m.conn.version = "V2" =>
                 m.wire.psk = Salt(m.conn.secret) /\ m.wire.info = INFO_V2
  <1>1. m.conn.version \in {"V1", "V2"} /\ m.conn.secret \in Seq(Octets)
    BY DEF SealedShape, ParsedConn
  <1>2. CASE m.conn.version = "V1"
    <2>1. PICK body : m.wire = C!Seal(m.id, m.conn.wallet_pk, m.conn.secret,
                                      C!INFO_REQUEST, body)
      BY <1>2 DEF SealedShape
    <2> QED
      BY <1>1, <1>2, <2>1 DEF C!Seal
  <1>3. CASE m.conn.version = "V2"
    <2>1. PICK body : m.wire = C!Seal(NoKey, m.conn.wallet_pk, Salt(m.conn.secret),
                                      INFO_V2, body)
      BY <1>3 DEF SealedShape
    <2> QED
      BY <1>1, <1>3, <2>1 DEF C!Seal
  <1> QED
    BY <1>1, <1>2, <1>3

\* The wallet takes this message for this connection.
Takes(c, w) ==
    IF c.version = "V1" THEN c.client_pk # NoKey /\ V1Decrypts(c, w)
    ELSE V2Decrypts(c, w)

\* A client with this ParsedConn and this identity can seal.
Sealable(p, id) ==
    IF p.version = "V1"
    THEN IsX25519(p.wallet_pk) /\ id # NoKey /\ C!SealReturns(p.wallet_pk, p.secret)
    ELSE IsXWingLong(p.wallet_pk) /\ p.wallet_pk \notin InvalidXWing

OpenedTaken ==
    \A e \in opened :
        /\ e.conn \in Connections /\ Takes(e.conn, e.wire)
        /\ \E m \in sealed : m.wire = e.wire

FailureExplained ==
    /\ failure.op = "parse" =>
          text # NoText /\ Parse(text).is # "ok" /\ failure.why = Parse(text).val
    /\ failure.op = "seal" => conn # NoConn /\ ~ Sealable(conn, failure.id)
    /\ failure.op = "open" =>
          failure.conn \in Connections /\ ~ Takes(failure.conn, failure.wire)

UpgradeInv ==
    /\ TypeOK /\ ReadFromText /\ OpenedTaken /\ FailureExplained
    /\ \A m \in sealed : SealedShape(m)

\* Initially no text has been handed out.
LEMMA UpgradeInit == Init => UpgradeInv
  BY DEF Init, UpgradeInv, TypeOK, ReadFromText, OpenedTaken, FailureExplained,
         NoFailure

\* A text is handed to the client.
LEMMA HandInv ==
    ASSUME UpgradeInv, NEW t \in Texts, Hand(t) PROVE UpgradeInv'
  <1>1. /\ text' = t /\ UNCHANGED <<sealed, opened>>
        /\ conn' = IF Parse(t).is = "ok" THEN Parse(t).val ELSE NoConn
        /\ Parse(t).is # "ok" => failure'.op = "parse" /\ failure'.why = Parse(t).val
        /\ Parse(t).is = "ok" => failure'.op = "none"
        /\ t # NoText
    BY TextAssumption, IssuedParses DEF Hand, NoFailure, Texts
  <1>2. TypeOK'
    BY <1>1, ParseType DEF TypeOK, Texts
  <1>3. ReadFromText' /\ OpenedTaken' /\ FailureExplained'
    BY <1>1 DEF UpgradeInv, ReadFromText, OpenedTaken, FailureExplained, Takes,
                V1Decrypts, V2Decrypts, C!Opens, C!PskBundleOk
  <1>4. (\A m \in sealed : SealedShape(m))'
    BY <1>1 DEF UpgradeInv, SealedShape
  <1> QED
    BY <1>2, <1>3, <1>4 DEF UpgradeInv

\* A call that fails changes nothing but the last failure.
LEMMA FailInv ==
    ASSUME UpgradeInv, UNCHANGED <<text, conn, sealed, opened>>,
           \/ failure'.op = "seal" /\ conn # NoConn /\ ~ Sealable(conn, failure'.id)
           \/ /\ failure'.op = "open" /\ failure'.conn \in Connections
              /\ ~ Takes(failure'.conn, failure'.wire)
    PROVE  UpgradeInv'
  BY DEF UpgradeInv, TypeOK, ReadFromText, OpenedTaken, FailureExplained

\* A message is sealed.
LEMMA SealedInv ==
    ASSUME UpgradeInv, conn # NoConn, NEW id, NEW wire, Sealed(id, wire),
           SealedShape([conn |-> conn, id |-> id, wire |-> wire])
    PROVE  UpgradeInv'
  <1>1. /\ sealed' = sealed \cup {[conn |-> conn, id |-> id, wire |-> wire]}
        /\ failure'.op = "none" /\ UNCHANGED <<text, conn, opened>>
    BY DEF Sealed, NoFailure
  <1>2. TypeOK' /\ ReadFromText' /\ FailureExplained'
    BY <1>1 DEF UpgradeInv, TypeOK, ReadFromText, FailureExplained
  <1>3. OpenedTaken'
    BY <1>1 DEF UpgradeInv, OpenedTaken
  <1>4. (\A m \in sealed : SealedShape(m))'
    BY <1>1 DEF UpgradeInv
  <1> QED
    BY <1>2, <1>3, <1>4 DEF UpgradeInv

\* client_seal, with either suite.
LEMMA SealInv ==
    ASSUME UpgradeInv, NEW id \in ClientKeys \cup {NoKey}, NEW body \in Bodies,
           SealV1(id, body) \/ SealV2(id, body)
    PROVE  UpgradeInv'
  <1>0. conn # NoConn /\ conn \in ParsedConn
    BY DEF SealV1, SealV2, UpgradeInv, TypeOK
  <1>1. ASSUME NEW why, Failed(id, why), ~ Sealable(conn, id) PROVE UpgradeInv'
    BY <1>0, <1>1, FailInv DEF Failed
  <1>2. ASSUME SealV1(id, body) PROVE UpgradeInv'
    <2>1. CASE V1Seals(id, body) /\ IsX25519(conn.wallet_pk) /\ id # NoKey
      <3> DEFINE wire == C!Seal(id, conn.wallet_pk, conn.secret, C!INFO_REQUEST, body)
      <3>1. conn.version = "V1" /\ Sealed(id, wire) /\ conn.secret # <<>>
        BY <1>2, <2>1 DEF SealV1, V1Seals, C!SealReturns, C!PskBundleOk
      <3>2. SealedShape([conn |-> conn, id |-> id, wire |-> wire])
        BY <1>0, <2>1, <3>1 DEF SealedShape
      <3> QED
        BY <1>0, <3>1, <3>2, SealedInv
    <2> QED
      BY <1>1, <1>2, <2>1 DEF SealV1, V1Panics, Sealable
  <1>3. ASSUME SealV2(id, body) PROVE UpgradeInv'
    <2> DEFINE wire == C!Seal(NoKey, conn.wallet_pk, Salt(conn.secret), INFO_V2, body)
    <2>1. CASE IsXWingLong(conn.wallet_pk) /\ Sealed(NoKey, wire)
      <3>1. SealedShape([conn |-> conn, id |-> NoKey, wire |-> wire])
        BY <1>0, <1>3, <2>1 DEF SealedShape, SealV2
      <3> QED
        BY <1>0, <2>1, <3>1, SealedInv
    <2> QED
      BY <1>1, <1>3, <2>1 DEF SealV2, Sealable
  <1> QED
    BY <1>2, <1>3

\* A message in transit is whole only if it is as it was sealed.
LEMMA WholeAsSealed ==
    ASSUME UpgradeInv, NEW w \in Delivered, w.bytes = "whole"
    PROVE  \E m \in sealed : m.wire = w
  <1>1. SUFFICES ASSUME NEW m \in sealed, w = [m.wire EXCEPT !.bytes = "short"]
                 PROVE  FALSE
    BY DEF Delivered
  <1>2. "bytes" \in DOMAIN m.wire
    BY SealedFields DEF UpgradeInv
  <1> QED
    BY <1>1, <1>2

\* Wallet::open, of either version.
LEMMA OpenInv ==
    ASSUME UpgradeInv, NEW c \in Connections, NEW w \in Delivered,
           OpenV1(c, w) \/ OpenV2(c, w)
    PROVE  UpgradeInv'
  <1>1. CASE Opened(c, w) /\ Takes(c, w)
    <2>1. /\ opened' = opened \cup {[conn |-> c, wire |-> w]}
          /\ failure'.op = "none" /\ UNCHANGED <<text, conn, sealed>>
      BY <1>1 DEF Opened, NoFailure
    <2>2. w.bytes = "whole"
      BY <1>1 DEF Takes, V1Decrypts, V2Decrypts, C!Opens
    <2>3. \E m \in sealed : m.wire = w
      BY <2>2, WholeAsSealed
    <2>4. OpenedTaken'
      BY <1>1, <2>1, <2>3 DEF UpgradeInv, OpenedTaken
    <2> QED
      BY <2>1, <2>4 DEF UpgradeInv, TypeOK, ReadFromText, FailureExplained
  <1>2. ASSUME NEW why, Refused(c, w, why), ~ Takes(c, w) PROVE UpgradeInv'
    BY <1>2, FailInv DEF Refused
  <1>3. w.bytes = "short" => ~ V1Decrypts(c, w) /\ ~ V2Decrypts(c, w)
    BY DEF V1Decrypts, V2Decrypts, C!Opens
  <1>4. w.info = C!INFO_REQUEST => ~ V2Decrypts(c, w)
    BY DEF V2Decrypts, C!INFO_REQUEST, INFO_V2
  <1>5. CASE OpenV1(c, w)
    BY <1>1, <1>2, <1>3, <1>5 DEF OpenV1, Takes
  <1>6. CASE OpenV2(c, w)
    BY <1>1, <1>2, <1>3, <1>4, <1>6 DEF OpenV2, Takes
  <1> QED
    BY <1>5, <1>6

\* Every step preserves the invariant.
LEMMA UpgradeNext == UpgradeInv /\ [Next]_vars => UpgradeInv'
  <1> SUFFICES ASSUME UpgradeInv, [Next]_vars PROVE UpgradeInv'
    OBVIOUS
  <1>1. CASE \E t \in Texts : Hand(t)
    BY <1>1, HandInv
  <1>2. CASE Seals
    BY <1>2, SealInv DEF Seals
  <1>3. CASE Opens
    BY <1>3, OpenInv DEF Opens
  <1>4. CASE UNCHANGED vars
    BY <1>4 DEF vars, UpgradeInv, TypeOK, ReadFromText, OpenedTaken,
                FailureExplained
  <1> QED
    BY <1>1, <1>2, <1>3, <1>4 DEF Next

\* The invariant holds in every reachable state.
THEOREM UpgradeInductive == Spec => []UpgradeInv
  BY UpgradeInit, UpgradeNext, PTL DEF Spec

-----------------------------------------------------------------------------
\* What the client has is a ParsedConn of bytes, whatever text it was handed.
THEOREM UpgradeTypeCorrect == Spec => []TypeOK
  <1>1. UpgradeInv => TypeOK
    BY DEF UpgradeInv
  <1> QED
    BY <1>1, UpgradeInductive, PTL

\* A string of the wallet's parses to what the wallet wrote, for keys and secrets
\* of any bytes.
THEOREM StringsParseAsIssued == Spec => []ParsesAsIssued
  <1>1. UpgradeInv => ParsesAsIssued
    <2> SUFFICES ASSUME UpgradeInv, NEW c \in Connections,
                        text \in {ConnectionString(c),
                                  InUpperCase(ConnectionString(c))}
                 PROVE  conn = AsIssued(c)
      BY DEF ParsesAsIssued
    <2>1. Parse(text) = Ok(AsIssued(c)) /\ text # NoText
      BY IssuedParses
    <2> QED
      BY <2>1 DEF UpgradeInv, ReadFromText, Ok
  <1> QED
    BY <1>1, UpgradeInductive, PTL

\* No message to one of the wallet's keys is sealed with the other suite.
THEOREM VersionsDoNotMix == Spec => []NoDowngrade
  <1>1. UpgradeInv => NoDowngrade
    BY KeyAssumption
    DEF UpgradeInv, NoDowngrade, SealedShape, KeyFor, IsX25519, IsXWingLong
  <1> QED
    BY <1>1, UpgradeInductive, PTL

\* What the wallet opens for a connection was sealed as its string says.
THEOREM OpensAsIssued == Spec => []OpenedAsIssued
  <1>1. UpgradeInv => OpenedAsIssued
    <2> SUFFICES ASSUME UpgradeInv, NEW e \in opened
                 PROVE  \E m \in sealed :
                          /\ m.wire = e.wire
                          /\ m.conn.version = e.conn.version
                          /\ m.conn.wallet_pk = KeyFor(e.conn.version)
                          /\ e.conn.version = "V1" =>
                                /\ m.id = e.conn.client_pk
                                /\ m.conn.secret = e.conn.secret
                          /\ e.conn.version = "V2" =>
                                /\ Len(m.conn.secret) <= HMAC_BLOCK
                                /\ SameButZeros(m.conn.secret, e.conn.secret)
      BY DEF OpenedAsIssued
    <2>1. /\ e.conn \in Connections /\ Takes(e.conn, e.wire)
          /\ e.conn.version \in {"V1", "V2"}
          /\ e.conn.secret \in Seq(Octets) /\ Len(e.conn.secret) <= HMAC_BLOCK
      BY ConnectionAssumption DEF UpgradeInv, OpenedTaken
    <2>2. PICK m \in sealed : m.wire = e.wire
      BY DEF UpgradeInv, OpenedTaken
    <2>3. /\ m.conn.version \in {"V1", "V2"} /\ m.conn.secret \in Seq(Octets)
          /\ m.wire.to = m.conn.wallet_pk
          /\ m.conn.version = "V1" =>
                /\ m.wire.from = m.id /\ m.wire.psk = m.conn.secret
                /\ m.wire.info = C!INFO_REQUEST
          /\ m.conn.version = "V2" =>
                m.wire.psk = Salt(m.conn.secret) /\ m.wire.info = INFO_V2
      BY SealedFields DEF UpgradeInv
    <2>4. CASE e.conn.version = "V1"
      BY <2>1, <2>2, <2>3, <2>4
      DEF Takes, V1Decrypts, C!Opens, C!INFO_REQUEST, INFO_V2, KeyFor
    <2>5. CASE e.conn.version = "V2"
      <3>1. /\ m.conn.version = "V2" /\ m.conn.wallet_pk = V2Key
            /\ Salt(m.conn.secret) = Salt(e.conn.secret)
        BY <2>1, <2>2, <2>3, <2>5
        DEF Takes, V2Decrypts, C!INFO_REQUEST, INFO_V2
      <3>2. /\ Len(m.conn.secret) <= HMAC_BLOCK
            /\ SameButZeros(m.conn.secret, e.conn.secret)
        BY <2>1, <2>3, <3>1, SaltTells
      <3> QED
        BY <2>2, <2>5, <3>1, <3>2 DEF KeyFor
    <2> QED
      BY <2>1, <2>4, <2>5
  <1> QED
    BY <1>1, UpgradeInductive, PTL

\* No call fails between a client and a wallet that use a string as issued.
THEOREM NoFailureAsIssued == Spec => []FailuresJustified
  <1>1. UpgradeInv => FailuresJustified
    <2> SUFFICES ASSUME UpgradeInv PROVE FailuresJustified
      OBVIOUS
    <2>1. ASSUME failure.op = "parse", NEW c \in Connections
          PROVE  text # ConnectionString(c)
      BY <2>1, IssuedParses DEF UpgradeInv, FailureExplained, Ok
    <2>2. ASSUME failure.op = "seal", NEW c \in Connections,
                 text = ConnectionString(c)
          PROVE  c.version = "V1" /\ failure.id = NoKey
      <3>1. conn = AsIssued(c)
        BY <2>2, IssuedParses DEF UpgradeInv, FailureExplained, ReadFromText, Ok
      <3>2. /\ conn.version = c.version /\ conn.wallet_pk = KeyFor(c.version)
            /\ conn.secret = c.secret /\ Len(c.secret) # 0
            /\ c.version \in {"V1", "V2"}
        BY <3>1, ConnectionAssumption DEF AsIssued
      <3>3. ~ Sealable(conn, failure.id)
        BY <2>2 DEF UpgradeInv, FailureExplained
      <3> QED
        BY <3>2, <3>3, KeyAssumption
        DEF Sealable, IsX25519, IsXWingLong, KeyFor, C!SealReturns, C!PskBundleOk
    <2>3. ASSUME failure.op = "open", NEW m \in sealed,
                 m.conn = AsIssued(failure.conn), m.wire = failure.wire
          PROVE  failure.conn.version = "V1" /\ m.id # failure.conn.client_pk
      <3> DEFINE c == failure.conn
      <3>1. /\ c \in Connections /\ ~ Takes(c, m.wire) /\ SealedShape(m)
            /\ c.version \in {"V1", "V2"} /\ Len(c.secret) # 0
        BY <2>3, ConnectionAssumption DEF UpgradeInv, FailureExplained
      <3>2. /\ m.conn.version = "V1" => m.id \in ClientKeys
            /\ c.client_pk \in ClientKeys \cup {NoKey}
        BY <3>1, ConnectionAssumption DEF SealedShape
      <3>3. /\ m.conn.version = c.version /\ m.conn.wallet_pk = KeyFor(c.version)
            /\ m.conn.secret = c.secret
        BY <2>3 DEF AsIssued
      <3> HIDE DEF c
      <3> QED
        BY <3>1, <3>2, <3>3, SealedFields, ConnectionAssumption
        DEF Takes, V1Decrypts, V2Decrypts, C!Opens, C!PskBundleOk, KeyFor, c
    <2>4. ASSUME failure.op = "parse", failure.why = "panic"
          PROVE  \E i \in DOMAIN text.query :
                    /\ text.query[i] # NoEquals
                    /\ \E j \in DOMAIN text.query[i].val : text.query[i].val[j] > 127
      <3>1. /\ text \in Texts /\ Parse(text).is # "ok" /\ Parse(text).val = "panic"
        BY <2>4 DEF UpgradeInv, TypeOK, FailureExplained
      <3>2. text \in StrayTexts
        BY <3>1, IssuedParses DEF Texts, Ok
      <3> QED
        BY <3>1, <3>2, ParsePanics
    <2> QED
      BY <2>1, <2>2, <2>3, <2>4 DEF FailuresJustified
  <1> QED
    BY <1>1, UpgradeInductive, PTL

=============================================================================
