-------------------------- MODULE ConnStringProofs --------------------------
(***************************************************************************)
(* Theorems about ConnString: what a prefix of the text decides about the  *)
(* locals of parse() is an inductive invariant, and at the end of the text *)
(* it is what the properties say of the text as a whole.                   *)
(***************************************************************************)
EXTENDS ConnString, ExtremeTheorems, SequenceTheorems, FiniteSetTheorems, TLAPS

\* What the locals of parse() may hold.
Locals ==
    [version : {"V1", "V2", Absent}, wallet_pk : Bytes \cup {Absent},
     secret : Bytes \cup {Absent}, token : Words \cup {Absent},
     relay_params : Seq(TextPairs)]

\* The pairs of the text that have a key, and those with a key of nobody's,
\* among the first n.
Of(key, n) == {i \in 1..n : KeyIs(key, uri.query[i])}
Others(n) == {i \in 1..n : uri.query[i].key \notin Recognised}

\* How many pairs a token takes in the text of a ConnString with these fields.
Tokens(f) == IF f.token = Absent THEN 0 ELSE 1

Newest(i, S) == i \in S /\ \A j \in S : j <= i

\* The text is a text, and the one the ConnString in `first` renders to.
TextKnown ==
    /\ uri \in Texts /\ Whole(uri)
    /\ \/ first = Absent
       \/ first \in ConnStrings /\ uri = ToUri(first)

\* The locals, whatever has been read.
LocalsTyped ==
    /\ fields \in Locals /\ pos \in Nat \ {0}
    /\ client \in {"none", "built", "unsupported", "malformed"}

\* The loop is inside a query, or has not begun.
Inside ==
    IF uri.bwc /\ uri.query # NoQuery
    THEN /\ pos <= Len(uri.query) + 1
         /\ \A i \in 1..(pos - 1) : ~ Bad(uri.query[i])
    ELSE pos = 1

\* The newest of the pairs behind the loop decides its field.
FieldsRead ==
    /\ Of("v", pos - 1) = {} => fields.version = Absent
    /\ Of("wallet_pk", pos - 1) = {} => fields.wallet_pk = Absent
    /\ Of("secret", pos - 1) = {} => fields.secret = Absent
    /\ Of("token", pos - 1) = {} => fields.token = Absent
    /\ \A i \in 1..(pos - 1) :
          /\ Newest(i, Of("v", pos - 1)) =>
                fields.version = Versions[uri.query[i].val]
          /\ Newest(i, Of("wallet_pk", pos - 1)) =>
                fields.wallet_pk = Hex[uri.query[i].val]
          /\ Newest(i, Of("secret", pos - 1)) =>
                fields.secret = Hex[uri.query[i].val]
          /\ Newest(i, Of("token", pos - 1)) => fields.token = uri.query[i].val

\* The pairs behind the loop that are nobody's are the forwarded ones, in order.
OthersKept ==
    /\ \A k \in DOMAIN fields.relay_params :
          /\ fields.relay_params[k].key \notin Recognised
          /\ uri.query # NoQuery /\ fields.relay_params[k] \in Range(uri.query)
    /\ Len(fields.relay_params) = Cardinality(Others(pos - 1))
    /\ \A i \in Others(pos - 1) :
          fields.relay_params[Cardinality(Others(i))] = uri.query[i]

\* Why parse() has returned.
OutcomeExplained ==
    /\ outcome = "ok" =>
          /\ uri.bwc /\ uri.query # NoQuery /\ pos = Len(uri.query) + 1
          /\ fields.version # Absent /\ fields.wallet_pk # Absent
          /\ fields.secret # Absent
    /\ outcome \notin {"ok", "parsing"} =>
          \/ ~ uri.bwc \/ uri.query = NoQuery
          \/ pos <= Len(uri.query) /\ Bad(uri.query[pos])
          \/ /\ pos = Len(uri.query) + 1
             /\ \/ fields.version = Absent \/ fields.wallet_pk = Absent
                \/ fields.secret = Absent

ParseInv ==
    /\ TextKnown /\ LocalsTyped /\ Inside
    /\ FieldsRead /\ OthersKept /\ OutcomeExplained

-----------------------------------------------------------------------------
\* The initial states, and those in which a rendered text is parsed.

BeginsToParse ==
    /\ TextKnown /\ pos = 1 /\ fields = NoFields /\ outcome = "parsing"
    /\ client \in {"none", "built", "unsupported", "malformed"}

LEMMA NothingRead == BeginsToParse => ParseInv
  <1> SUFFICES ASSUME BeginsToParse PROVE ParseInv
    OBVIOUS
  <1> USE DEF BeginsToParse
  <1>1. 1..(pos - 1) = {}
    OBVIOUS
  <1>2. Of("v", pos - 1) = {} /\ Of("wallet_pk", pos - 1) = {}
        /\ Of("secret", pos - 1) = {} /\ Of("token", pos - 1) = {}
        /\ Others(pos - 1) = {}
    BY <1>1 DEF Of, Others
  <1>3. LocalsTyped
    BY DEF LocalsTyped, Locals, NoFields
  <1>4. Inside
    <2>1. uri.query # NoQuery => Len(uri.query) \in Nat
      BY DEF TextKnown, Texts, Queries
    <2> QED
      BY <1>1, <2>1 DEF Inside
  <1>5. FieldsRead
    BY <1>1, <1>2 DEF FieldsRead, NoFields
  <1>6. OthersKept
    <2>1. fields.relay_params = <<>>
      BY DEF NoFields
    <2>2. DOMAIN fields.relay_params = {} /\ Len(fields.relay_params) = 0
      BY <2>1
    <2> QED
      BY <1>2, <2>2, FS_EmptySet DEF OthersKept
  <1>7. OutcomeExplained
    BY DEF OutcomeExplained
  <1> QED
    BY <1>3, <1>4, <1>5, <1>6, <1>7 DEF ParseInv

LEMMA ParseInit == Init => ParseInv
  <1> SUFFICES ASSUME Init PROVE ParseInv
    OBVIOUS
  <1>1. ASSUME uri \in Uris, first = Absent PROVE TextKnown
    BY <1>1, TextAssumption DEF TextKnown
  <1>2. ASSUME first \in Minted, uri = ToUri(first) PROVE TextKnown
    <2>1. uri \in {ToUri(c) : c \in Minted}
      BY <1>2
    <2> QED
      BY <1>2, <2>1, TextAssumption DEF TextKnown
  <1>3. TextKnown
    BY <1>1, <1>2 DEF Init
  <1> QED
    BY <1>3, NothingRead DEF Init, BeginsToParse

-----------------------------------------------------------------------------
\* A turn of the loop: the pair at `pos` joins those behind the loop.

\* What `after` must be for the turn to keep the invariant.
TurnTaken(after) ==
    LET p == uri.query[pos] IN
    /\ after \in Locals
    /\ ~ Bad(p)
    /\ after.version = IF KeyIs("v", p) THEN Versions[p.val] ELSE fields.version
    /\ after.wallet_pk =
          IF KeyIs("wallet_pk", p) THEN Hex[p.val] ELSE fields.wallet_pk
    /\ after.secret = IF KeyIs("secret", p) THEN Hex[p.val] ELSE fields.secret
    /\ after.token = IF KeyIs("token", p) THEN p.val ELSE fields.token
    /\ after.relay_params = IF p.key \in Recognised THEN fields.relay_params
                            ELSE Append(fields.relay_params, p)

LEMMA OfGrows ==
    ASSUME NEW key, NEW n \in Nat
    PROVE  /\ KeyIs(key, uri.query[n + 1]) => Of(key, n + 1) = Of(key, n) \cup {n + 1}
           /\ ~ KeyIs(key, uri.query[n + 1]) => Of(key, n + 1) = Of(key, n)
  <1>1. 1..(n + 1) = (1..n) \cup {n + 1}
    OBVIOUS
  <1> QED
    BY <1>1 DEF Of

\* The newest pair of a key after the turn.
LEMMA NewestTurns ==
    ASSUME NEW key, NEW n \in Nat, NEW i \in 1..(n + 1), Newest(i, Of(key, n + 1))
    PROVE  IF KeyIs(key, uri.query[n + 1]) THEN i = n + 1
           ELSE i \in 1..n /\ Newest(i, Of(key, n))
  <1>1. CASE KeyIs(key, uri.query[n + 1])
    <2>1. n + 1 \in Of(key, n + 1)
      BY <1>1, OfGrows
    <2>2. n + 1 <= i
      BY <2>1 DEF Newest
    <2> QED
      BY <1>1, <2>2
  <1>2. CASE ~ KeyIs(key, uri.query[n + 1])
    <2>1. Of(key, n + 1) = Of(key, n)
      BY <1>2, OfGrows
    <2> QED
      BY <1>2, <2>1 DEF Newest, Of
  <1> QED
    BY <1>1, <1>2

LEMMA OthersGrow ==
    ASSUME NEW n \in Nat
    PROVE  /\ IsFiniteSet(Others(n)) /\ Cardinality(Others(n)) \in Nat
           /\ Others(n + 1) = IF uri.query[n + 1].key \in Recognised THEN Others(n)
                              ELSE Others(n) \cup {n + 1}
           /\ Cardinality(Others(n + 1)) =
                IF uri.query[n + 1].key \in Recognised THEN Cardinality(Others(n))
                ELSE Cardinality(Others(n)) + 1
  <1>1. IsFiniteSet(1..n)
    BY FS_Interval
  <1>2. IsFiniteSet(Others(n))
    BY <1>1, FS_Subset DEF Others
  <1>3. Cardinality(Others(n)) \in Nat
    BY <1>2, FS_CardinalityType
  <1>4. Others(n + 1) = IF uri.query[n + 1].key \in Recognised THEN Others(n)
                        ELSE Others(n) \cup {n + 1}
    <2>1. 1..(n + 1) = (1..n) \cup {n + 1}
      OBVIOUS
    <2> QED
      BY <2>1 DEF Others
  <1>5. n + 1 \notin Others(n)
    BY DEF Others
  <1> QED
    BY <1>2, <1>3, <1>4, <1>5, FS_AddElement

LEMMA TurnInv ==
    ASSUME ParseInv, AtPair, NEW after, TurnTaken(after), Take(after)
    PROVE  ParseInv'
  <1> DEFINE n == pos - 1
             p == uri.query[pos]
  <1>1. /\ n \in Nat /\ n + 1 = pos /\ pos' = pos + 1 /\ pos' - 1 = n + 1
        /\ pos \in Nat /\ pos \in 1..Len(uri.query) /\ Len(uri.query) \in Nat
        /\ uri.query \in Queries /\ uri.bwc /\ uri.query # NoQuery
    BY DEF AtPair, Scanning, ParseInv, LocalsTyped, Take, TextKnown, Texts, Queries
  <1>2. fields' = after /\ uri' = uri /\ outcome' = outcome /\ first' = first
        /\ client' = client /\ outcome = "parsing"
    BY DEF Take, AtPair, Scanning
  <1>3. TextKnown'
    BY <1>2 DEF ParseInv, TextKnown
  <1>4. LocalsTyped'
    BY <1>1, <1>2 DEF ParseInv, LocalsTyped, TurnTaken
  <1>5. Inside'
    <2>1. \A i \in 1..(n + 1) : i \in 1..n \/ i = pos
      BY <1>1
    <2>2. \A i \in 1..(n + 1) : ~ Bad(uri.query[i])
      BY <1>1, <2>1 DEF ParseInv, Inside, TurnTaken
    <2> QED
      BY <1>1, <1>2, <2>2 DEF Inside, Bad, KeyIs
  <1> DEFINE pr(key) == KeyIs(key, uri.query[n + 1])
  <1>6. \A key : Of(key, pos - 1)' = Of(key, n + 1)
    BY <1>1, <1>2 DEF Of
  <1>7. FieldsRead'
    <2>1. ASSUME NEW key, Of(key, n + 1) = {}
          PROVE  Of(key, n) = {} /\ ~ KeyIs(key, p)
      <3>1. Of(key, n) \cup (IF KeyIs(key, p) THEN {pos} ELSE {}) = {}
        BY <1>1, <2>1, OfGrows
      <3> QED
        BY <3>1
    <2>2. \A key, i : i \in 1..(n + 1) /\ Newest(i, Of(key, n + 1)) =>
             IF KeyIs(key, p) THEN i = pos ELSE i \in 1..n /\ Newest(i, Of(key, n))
      BY <1>1, NewestTurns
    <2>3. /\ Of("v", n + 1) = {} => after.version = Absent
          /\ Of("wallet_pk", n + 1) = {} => after.wallet_pk = Absent
          /\ Of("secret", n + 1) = {} => after.secret = Absent
          /\ Of("token", n + 1) = {} => after.token = Absent
      BY <2>1 DEF ParseInv, FieldsRead, TurnTaken
    <2>4. \A i \in 1..(n + 1) : Newest(i, Of("v", n + 1)) =>
             after.version = Versions[uri.query[i].val]
      BY <2>2 DEF ParseInv, FieldsRead, TurnTaken
    <2>5. \A i \in 1..(n + 1) : Newest(i, Of("wallet_pk", n + 1)) =>
             after.wallet_pk = Hex[uri.query[i].val]
      BY <2>2 DEF ParseInv, FieldsRead, TurnTaken
    <2>6. \A i \in 1..(n + 1) : Newest(i, Of("secret", n + 1)) =>
             after.secret = Hex[uri.query[i].val]
      BY <2>2 DEF ParseInv, FieldsRead, TurnTaken
    <2>7. \A i \in 1..(n + 1) : Newest(i, Of("token", n + 1)) =>
             after.token = uri.query[i].val
      BY <2>2 DEF ParseInv, FieldsRead, TurnTaken
    <2> QED
      BY <1>1, <1>2, <1>6, <2>3, <2>4, <2>5, <2>6, <2>7 DEF FieldsRead, Newest
  <1>8. OthersKept'
    <2>1. \A m : Others(m)' = Others(m)
      BY <1>2 DEF Others
    <2>2. fields.relay_params \in Seq(TextPairs) /\ p \in Range(uri.query)
      BY <1>1 DEF ParseInv, LocalsTyped, Locals, Range, Queries
    <2>3. CASE p.key \in Recognised
      <3>1. Others(n + 1) = Others(n) /\ after.relay_params = fields.relay_params
        BY <1>1, <2>3, OthersGrow DEF TurnTaken
      <3> QED
        BY <1>1, <1>2, <2>1, <3>1 DEF ParseInv, OthersKept
    <2>4. CASE p.key \notin Recognised
      <3> DEFINE rp == fields.relay_params
      <3>1. after.relay_params = Append(rp, p)
        BY <2>4 DEF TurnTaken
      <3>2. /\ Others(n + 1) = Others(n) \cup {pos}
            /\ Cardinality(Others(n)) \in Nat
            /\ Cardinality(Others(n + 1)) = Cardinality(Others(n)) + 1
        BY <1>1, <2>4, OthersGrow
      <3>3. Len(rp) = Cardinality(Others(n))
        BY DEF ParseInv, OthersKept
      <3>4. /\ Len(Append(rp, p)) = Len(rp) + 1
            /\ Append(rp, p)[Len(rp) + 1] = p
            /\ \A k \in 1..Len(rp) : Append(rp, p)[k] = rp[k]
            /\ DOMAIN Append(rp, p) = 1..(Len(rp) + 1)
            /\ DOMAIN rp = 1..Len(rp)
        BY <2>2
      <3>5. \A k \in DOMAIN Append(rp, p) :
               /\ Append(rp, p)[k].key \notin Recognised
               /\ Append(rp, p)[k] \in Range(uri.query)
        <4>1. \A k \in 1..(Len(rp) + 1) : k \in 1..Len(rp) \/ k = Len(rp) + 1
          BY <3>2, <3>3
        <4> QED
          BY <2>2, <2>4, <3>4, <4>1 DEF ParseInv, OthersKept
      <3>6. \A i \in Others(n) : Cardinality(Others(i)) \in 1..Len(rp)
        <4> SUFFICES ASSUME NEW i \in Others(n)
                     PROVE  Cardinality(Others(i)) \in 1..Len(rp)
          OBVIOUS
        <4>1. i \in 1..n /\ i \in Others(i) /\ Others(i) \subseteq Others(n)
          BY <1>1 DEF Others
        <4>2. IsFiniteSet(Others(n)) /\ IsFiniteSet(Others(i))
          BY <1>1, <4>1, OthersGrow, FS_Subset
        <4>3. Cardinality(Others(i)) <= Cardinality(Others(n))
              /\ Cardinality(Others(i)) \in Nat
          BY <4>1, <4>2, FS_Subset, FS_CardinalityType
        <4>4. Cardinality(Others(i)) # 0
          BY <4>1, <4>2, FS_EmptySet
        <4> QED
          BY <3>2, <3>3, <4>3, <4>4
      <3>7. \A i \in Others(n) : Append(rp, p)[Cardinality(Others(i))] = uri.query[i]
        BY <3>4, <3>6 DEF ParseInv, OthersKept
      <3>8. Append(rp, p)[Cardinality(Others(n + 1))] = uri.query[pos]
        BY <3>2, <3>3, <3>4
      <3>9. \A i \in Others(n + 1) :
               Append(rp, p)[Cardinality(Others(i))] = uri.query[i]
        BY <1>1, <3>2, <3>7, <3>8
      <3> QED
        BY <1>1, <1>2, <2>1, <3>1, <3>2, <3>3, <3>4, <3>5, <3>9 DEF OthersKept
    <2> QED
      BY <2>3, <2>4
  <1>9. OutcomeExplained'
    BY <1>2 DEF OutcomeExplained
  <1> QED
    BY <1>3, <1>4, <1>5, <1>7, <1>8, <1>9 DEF ParseInv

-----------------------------------------------------------------------------
\* Each action.

LEMMA TakeVersionInv ==
    ASSUME ParseInv, Here("v"), Value \in DOMAIN Versions,
           Take([fields EXCEPT !.version = Versions[Value]])
    PROVE  ParseInv'
  <1> DEFINE after == [fields EXCEPT !.version = Versions[Value]]
  <1>1. AtPair /\ uri.query[pos] # NoEquals /\ uri.query[pos].key = "v"
    BY DEF Here
  <1>2. Versions[Value] \in {"V1", "V2"}
    BY DEF Versions
  <1>3. fields \in Locals
    BY DEF ParseInv, LocalsTyped
  <1>4. TurnTaken(after)
    BY <1>1, <1>2, <1>3 DEF TurnTaken, Locals, Bad, KeyIs, Value, Recognised
  <1> QED
    BY <1>1, <1>4, TurnInv

LEMMA TakeHexInv ==
    ASSUME ParseInv, NEW key \in {"wallet_pk", "secret"}, Here(key),
           Value \in DOMAIN Hex, Take([fields EXCEPT ![key] = Hex[Value]])
    PROVE  ParseInv'
  <1>1. AtPair /\ uri.query[pos] # NoEquals /\ uri.query[pos].key = key
    BY DEF Here
  <1>2. Hex[Value] \in Bytes
    BY HexAssumption
  <1>3. fields \in Locals
    BY DEF ParseInv, LocalsTyped
  <1>4. CASE key = "wallet_pk"
    <2>1. TurnTaken([fields EXCEPT !.wallet_pk = Hex[Value]])
      BY <1>1, <1>2, <1>3, <1>4
         DEF TurnTaken, Locals, Bad, KeyIs, Value, Recognised
    <2> QED
      BY <1>1, <1>4, <2>1, TurnInv
  <1>5. CASE key = "secret"
    <2>1. TurnTaken([fields EXCEPT !.secret = Hex[Value]])
      BY <1>1, <1>2, <1>3, <1>5
         DEF TurnTaken, Locals, Bad, KeyIs, Value, Recognised
    <2> QED
      BY <1>1, <1>5, <2>1, TurnInv
  <1> QED
    BY <1>4, <1>5

\* A pair of the text that is not NoEquals has a key and a value.
LEMMA PairTyped ==
    ASSUME ParseInv, AtPair, uri.query[pos] # NoEquals
    PROVE  uri.query[pos] \in TextPairs
  <1>1. uri.query \in Queries /\ pos \in 1..Len(uri.query)
    BY DEF AtPair, Scanning, ParseInv, TextKnown, LocalsTyped, Texts
  <1> QED
    BY <1>1 DEF Queries

LEMMA TakeTokenInv ==
    ASSUME ParseInv, TakeToken PROVE ParseInv'
  <1>1. AtPair /\ uri.query[pos] # NoEquals /\ uri.query[pos].key = "token"
    BY DEF TakeToken, Here
  <1>2. uri.query[pos] \in TextPairs
    BY <1>1, PairTyped
  <1>3. fields \in Locals /\ Value \in Words
    BY <1>2 DEF ParseInv, LocalsTyped, Value, TextPairs
  <1>4. TurnTaken([fields EXCEPT !.token = Value])
    BY <1>1, <1>3 DEF TurnTaken, Locals, Bad, KeyIs, Value, Recognised
  <1> QED
    BY <1>1, <1>4, TurnInv DEF TakeToken

LEMMA TakeOtherInv ==
    ASSUME ParseInv, TakeOther PROVE ParseInv'
  <1> DEFINE p == uri.query[pos]
  <1>1. AtPair /\ p # NoEquals /\ p.key \notin Recognised
    BY DEF TakeOther
  <1>2. p \in TextPairs
    BY <1>1, PairTyped
  <1>3. fields \in Locals
    BY DEF ParseInv, LocalsTyped
  <1>4. Append(fields.relay_params, p) \in Seq(TextPairs)
    BY <1>2, <1>3 DEF Locals
  <1>5. TurnTaken([fields EXCEPT !.relay_params = Append(@, p)])
    BY <1>1, <1>3, <1>4 DEF TurnTaken, Locals, Bad, KeyIs, Recognised
  <1> QED
    BY <1>1, <1>5, TurnInv DEF TakeOther

\* parse() returns an error at the scheme, the query, a pair or the end.
LEMMA FailInv ==
    ASSUME ParseInv, NEW reason, reason \notin {"ok", "parsing"}, Fail(reason),
           \/ outcome = "parsing" /\ ~ uri.bwc
           \/ outcome = "parsing" /\ uri.query = NoQuery
           \/ AtPair /\ Bad(uri.query[pos])
           \/ /\ AtEnd
              /\ \/ fields.version = Absent \/ fields.wallet_pk = Absent
                 \/ fields.secret = Absent
    PROVE  ParseInv'
  <1>1. UNCHANGED <<uri, pos, fields, first, client>> /\ outcome' = reason
    BY DEF Fail
  <1>2. AtEnd => pos = Len(uri.query) + 1
    BY DEF AtEnd, Scanning, ParseInv, Inside, LocalsTyped, TextKnown, Texts, Queries
  <1>3. OutcomeExplained'
    BY <1>1, <1>2 DEF OutcomeExplained, AtPair, Bad, KeyIs
  <1>4. TextKnown' /\ LocalsTyped'
    BY <1>1 DEF ParseInv, TextKnown, LocalsTyped
  <1>5. Inside'
    BY <1>1 DEF ParseInv, Inside, Bad, KeyIs
  <1>6. FieldsRead'
    BY <1>1 DEF ParseInv, FieldsRead, Of, Newest, KeyIs
  <1>7. OthersKept'
    BY <1>1 DEF ParseInv, OthersKept, Others
  <1> QED
    BY <1>3, <1>4, <1>5, <1>6, <1>7 DEF ParseInv

\* Steps that leave parse() where it is: its return, and what is done with what
\* it returned.
LEMMA StandsInv ==
    ASSUME ParseInv, UNCHANGED <<uri, pos, fields, first>>,
           \/ UNCHANGED outcome
           \/ Parsed,
           client' \in {"none", "built", "unsupported", "malformed"}
    PROVE  ParseInv'
  <1>1. OutcomeExplained'
    <2>1. AtEnd => pos = Len(uri.query) + 1
      BY DEF AtEnd, Scanning, ParseInv, Inside, LocalsTyped, TextKnown, Texts, Queries
    <2> QED
      BY <2>1 DEF ParseInv, OutcomeExplained, Parsed, AtEnd, Scanning, Bad, KeyIs
  <1>2. TextKnown' /\ LocalsTyped'
    BY DEF ParseInv, TextKnown, LocalsTyped
  <1>3. Inside'
    BY DEF ParseInv, Inside, Bad, KeyIs
  <1>4. FieldsRead'
    BY DEF ParseInv, FieldsRead, Of, Newest, KeyIs
  <1>5. OthersKept'
    BY DEF ParseInv, OthersKept, Others
  <1> QED
    BY <1>1, <1>2, <1>3, <1>4, <1>5 DEF ParseInv

\* A pair behind the loop is one of the text.
LEMMA NewestOf ==
    ASSUME ParseInv, uri.bwc, uri.query # NoQuery, NEW key, Of(key, pos - 1) # {}
    PROVE  \E i \in 1..(pos - 1) :
              /\ Newest(i, Of(key, pos - 1)) /\ i \in 1..Len(uri.query)
              /\ uri.query[i] \in TextPairs /\ uri.query[i].key = key
              /\ ~ Bad(uri.query[i])
  <1>1. /\ pos - 1 \in Nat /\ pos - 1 <= Len(uri.query) /\ Len(uri.query) \in Nat
        /\ uri.query \in Queries
    BY DEF ParseInv, LocalsTyped, Inside, TextKnown, Texts, Queries
  <1>2. Of(key, pos - 1) \subseteq 1..(pos - 1)
    BY DEF Of
  <1>3. PICK i \in Of(key, pos - 1) : \A j \in Of(key, pos - 1) : j <= i
    BY <1>1, <1>2, GreatestExists
  <1>4. i \in 1..(pos - 1) /\ i \in 1..Len(uri.query)
    BY <1>1, <1>2
  <1>5. uri.query[i] \in TextPairs \cup {NoEquals}
    BY <1>1, <1>4 DEF Queries
  <1>6. uri.query[i] # NoEquals /\ uri.query[i].key = key
    BY DEF Of, KeyIs
  <1>7. ~ Bad(uri.query[i])
    BY <1>4 DEF ParseInv, Inside
  <1> QED
    BY <1>3, <1>4, <1>5, <1>6, <1>7 DEF Newest

-----------------------------------------------------------------------------
\* Rendering.

LEMMA Prepend ==
    ASSUME NEW S, NEW t \in S, NEW s \in Seq(S)
    PROVE  /\ <<t>> \o s \in Seq(S) /\ Len(<<t>> \o s) = Len(s) + 1
           /\ (<<t>> \o s)[1] = t
           /\ \A i \in 2..(Len(s) + 1) : (<<t>> \o s)[i] = s[i - 1]
           /\ Range(<<t>> \o s) = {t} \cup Range(s)
  <1>1. <<t>> \in Seq(S) /\ Len(<<t>>) = 1 /\ <<t>>[1] = t /\ Len(s) \in Nat
    OBVIOUS
  <1>2. /\ <<t>> \o s \in Seq(S) /\ Len(<<t>> \o s) = Len(s) + 1
        /\ \A i \in 1..(Len(s) + 1) :
              (<<t>> \o s)[i] = IF i <= 1 THEN <<t>>[i] ELSE s[i - 1]
    BY <1>1, ConcatProperties
  <1>3. \A i \in 1..(Len(s) + 1) :
           (<<t>> \o s)[i] = IF i = 1 THEN t ELSE s[i - 1]
    BY <1>1, <1>2
  <1>4. DOMAIN (<<t>> \o s) = 1..(Len(s) + 1) /\ DOMAIN s = 1..Len(s)
    BY <1>2
  <1>5. \A i \in 1..(Len(s) + 1) : i = 1 \/ i - 1 \in 1..Len(s)
    BY <1>1
  <1>6. 1 \in 1..(Len(s) + 1) /\ \A i \in 1..Len(s) :
           i + 1 \in 1..(Len(s) + 1) /\ i + 1 # 1 /\ (i + 1) - 1 = i
    BY <1>1
  <1>7. Range(<<t>> \o s) \subseteq {t} \cup Range(s)
    BY <1>3, <1>4, <1>5 DEF Range
  <1>8. t \in Range(<<t>> \o s)
    BY <1>3, <1>4, <1>6 DEF Range
  <1>9. ASSUME NEW i \in 1..Len(s) PROVE s[i] \in Range(<<t>> \o s)
    <2>1. (<<t>> \o s)[i + 1] = s[i]
      BY <1>3, <1>6
    <2> QED
      BY <1>4, <1>6, <2>1 DEF Range
  <1>10. {t} \cup Range(s) \subseteq Range(<<t>> \o s)
    BY <1>4, <1>8, <1>9 DEF Range
  <1> QED
    BY <1>2, <1>3, <1>7, <1>10

\* The pairs of a rendered query.
LEMMA ParamsTyped ==
    ASSUME NEW c \in ConnStrings
    PROVE  LET f == c.fields IN
           /\ Params(f) \in Seq(TextPairs)
           /\ f.token = Absent => Params(f) = f.relay_params
           /\ f.token # Absent =>
                 /\ Pair("token", f.token) \in TextPairs
                 /\ Params(f) = <<Pair("token", f.token)>> \o f.relay_params
           /\ Range(Params(f)) =
                 (IF f.token = Absent THEN {} ELSE {Pair("token", f.token)})
                 \cup Range(f.relay_params)
  <1> DEFINE f == c.fields
             t == Pair("token", f.token)
  <1>1. f.relay_params \in Seq(TextPairs) /\ f.token \in Words \cup {Absent}
    BY DEF ConnStrings
  <1>2. CASE f.token = Absent
    <2>1. Params(f) = <<>> \o f.relay_params
      BY <1>2 DEF Params
    <2>2. Params(f) = f.relay_params
      BY <1>1, <2>1, ConcatEmptySeq
    <2> QED
      BY <1>1, <1>2, <2>2
  <1>3. CASE f.token # Absent
    <2>1. t \in TextPairs
      BY <1>1, <1>3, NameAssumption DEF TextPairs, Pair, Recognised
    <2>2. Params(f) = <<t>> \o f.relay_params
      BY <1>3 DEF Params
    <2> QED
      BY <1>1, <1>3, <2>1, <2>2, Prepend
  <1> QED
    BY <1>2, <1>3

LEMMA LeadTyped ==
    ASSUME NEW c \in ConnStrings
    PROVE  LET f == c.fields IN
           /\ AsU8(f.version) \in DOMAIN Versions
           /\ Versions[AsU8(f.version)] = f.version
           /\ Encode[f.wallet_pk] \in DOMAIN Hex
           /\ Hex[Encode[f.wallet_pk]] = f.wallet_pk
           /\ Encode[f.secret] \in DOMAIN Hex
           /\ Hex[Encode[f.secret]] = f.secret
           /\ Lead(f) \in Seq(TextPairs) /\ Len(Lead(f)) = 3
           /\ \A i \in 1..3 : Lead(f)[i] \notin DOMAIN Split
  <1> DEFINE f == c.fields
  <1>1. f.version \in {"V1", "V2"} /\ f.wallet_pk \in Bytes /\ f.secret \in Bytes
    BY DEF ConnStrings
  <1>2. \E n \in DOMAIN Versions : Versions[n] = f.version
    <2>1. Versions["1"] = "V1" /\ Versions["2"] = "V2" /\ DOMAIN Versions = {"1", "2"}
      BY DEF Versions
    <2> QED
      BY <1>1, <2>1
  <1>3. AsU8(f.version) \in DOMAIN Versions /\ Versions[AsU8(f.version)] = f.version
    BY <1>2 DEF AsU8
  <1>4. /\ Encode[f.wallet_pk] \in DOMAIN Hex
        /\ Hex[Encode[f.wallet_pk]] = f.wallet_pk
        /\ Encode[f.secret] \in DOMAIN Hex /\ Hex[Encode[f.secret]] = f.secret
    BY <1>1, HexAssumption
  <1>5. AsU8(f.version) \in Words /\ DOMAIN Hex \subseteq Words
    BY <1>3, NameAssumption
  <1>6. /\ Pair("v", AsU8(f.version)) \in TextPairs
        /\ Pair("wallet_pk", Encode[f.wallet_pk]) \in TextPairs
        /\ Pair("secret", Encode[f.secret]) \in TextPairs
    BY <1>4, <1>5, NameAssumption DEF TextPairs, Pair, Recognised
  <1>7. Lead(f) \in Seq(TextPairs) /\ Len(Lead(f)) = 3
    BY <1>6 DEF Lead
  <1>8. \A i \in 1..3 : Lead(f)[i] \notin DOMAIN Split
    <2>1. /\ Pair("v", AsU8(f.version)) \notin DOMAIN Split
          /\ Pair("wallet_pk", Encode[f.wallet_pk]) \notin DOMAIN Split
          /\ Pair("secret", Encode[f.secret]) \notin DOMAIN Split
      BY <1>3, <1>4, TextAssumption DEF Pair, Recognised
    <2> QED
      BY <2>1 DEF Lead
  <1> QED
    BY <1>3, <1>4, <1>7, <1>8

\* If nothing splits, a rendered text is a text that holds just its pairs.
LEMMA RenderedWhole ==
    ASSUME NEW c \in ConnStrings, c.relay \notin DOMAIN SplitRelay,
           Range(Params(c.fields)) \cap DOMAIN Split = {}
    PROVE  /\ ToUri(c) = [bwc |-> TRUE, relay |-> c.relay,
                          query |-> Lead(c.fields) \o Params(c.fields)]
           /\ Lead(c.fields) \o Params(c.fields) \in Seq(TextPairs)
           /\ ToUri(c) \in Texts /\ Whole(ToUri(c))
  <1> DEFINE lead == Lead(c.fields)
             params == Params(c.fields)
             q == lead \o params
  <1>1. /\ lead \in Seq(TextPairs) /\ Len(lead) = 3
        /\ \A i \in 1..3 : lead[i] \notin DOMAIN Split
    BY LeadTyped
  <1>2. params \in Seq(TextPairs)
    BY ParamsTyped
  <1>3. ToUri(c) = [bwc |-> TRUE, relay |-> c.relay, query |-> q]
    BY DEF ToUri, ReadBack
  <1> HIDE DEF lead, params
  <1>4. /\ q \in Seq(TextPairs) /\ Len(q) = 3 + Len(params)
        /\ \A i \in 1..Len(q) : q[i] = IF i <= 3 THEN lead[i] ELSE params[i - 3]
    <2>1. Len(params) \in Nat
      BY <1>2
    <2>2. q \in Seq(TextPairs) /\ Len(q) = Len(lead) + Len(params)
      BY <1>1, <1>2, ConcatProperties
    <2>3. \A i \in 1..(Len(lead) + Len(params)) :
             q[i] = IF i <= Len(lead) THEN lead[i] ELSE params[i - Len(lead)]
      BY <1>1, <1>2, ConcatProperties
    <2> QED
      BY <1>1, <2>1, <2>2, <2>3
  <1>5. q \in Queries
    BY <1>4 DEF Queries
  <1>6. c.relay \in Words
    BY DEF ConnStrings
  <1>7. ToUri(c) \in Texts
    BY <1>3, <1>5, <1>6 DEF Texts
  <1>8. \A i \in 1..Len(q) : q[i] \notin DOMAIN Split
    <2> SUFFICES ASSUME NEW i \in 1..Len(q) PROVE q[i] \notin DOMAIN Split
      OBVIOUS
    <2>1. CASE i <= 3
      BY <1>1, <1>4, <2>1
    <2>2. CASE i > 3
      <3>1. i - 3 \in DOMAIN params
        BY <1>2, <1>4, <2>2
      <3>2. params[i - 3] \in Range(params)
        BY <3>1 DEF Range
      <3>3. q[i] = params[i - 3]
        BY <1>4, <2>2
      <3> QED
        BY <3>2, <3>3 DEF params
    <2> QED
      BY <2>1, <2>2
  <1>9. Whole(ToUri(c))
    <2>1. DOMAIN q = 1..Len(q)
      BY <1>4
    <2>2. Range(q) \cap DOMAIN Split = {}
      BY <1>8, <2>1 DEF Range
    <2> QED
      BY <1>3, <2>2 DEF Whole
  <1> QED
    BY <1>3, <1>4, <1>7, <1>9 DEF lead, params

\* A token that was parsed stands in the text as a pair.
LEMMA TokenFromText ==
    ASSUME ParseInv, outcome = "ok", fields.token # Absent
    PROVE  Pair("token", fields.token) \in Range(uri.query)
  <1> DEFINE q == uri.query
  <1>1. uri.bwc /\ q # NoQuery
    BY DEF ParseInv, OutcomeExplained
  <1>2. Of("token", pos - 1) # {}
    BY DEF ParseInv, FieldsRead
  <1>3. PICK i \in 1..(pos - 1) :
           /\ Newest(i, Of("token", pos - 1)) /\ i \in 1..Len(q)
           /\ q[i] \in TextPairs /\ q[i].key = "token"
    BY <1>1, <1>2, NewestOf
  <1>4. fields.token = q[i].val
    BY <1>3 DEF ParseInv, FieldsRead
  <1>5. q[i] = Pair("token", fields.token)
    BY <1>3, <1>4 DEF Pair, TextPairs
  <1>6. DOMAIN q = 1..Len(q)
    BY <1>1 DEF ParseInv, TextKnown, Texts, Queries
  <1> QED
    BY <1>3, <1>5, <1>6 DEF Range

\* What was parsed is a ConnString in which nothing splits.
LEMMA ParsedPlain ==
    ASSUME ParseInv, outcome = "ok"
    PROVE  LET c == [relay |-> uri.relay, fields |-> fields]
           IN  c \in ConnStrings /\ Plain(c)
  <1> DEFINE c == [relay |-> uri.relay, fields |-> fields]
  <1>1. /\ uri.query # NoQuery /\ uri \in Texts /\ Whole(uri)
        /\ fields \in Locals /\ fields.version # Absent
        /\ fields.wallet_pk # Absent /\ fields.secret # Absent
    BY DEF ParseInv, OutcomeExplained, TextKnown, LocalsTyped
  <1>2. c \in ConnStrings
    BY <1>1 DEF ConnStrings, Locals, Texts
  <1>3. Range(fields.relay_params) \subseteq Range(uri.query)
    BY DEF ParseInv, OthersKept, Range
  <1>4. Range(Params(fields)) \subseteq Range(uri.query)
    <2>1. c.fields = fields
      OBVIOUS
    <2>2. Range(Params(fields)) =
             (IF fields.token = Absent THEN {} ELSE {Pair("token", fields.token)})
             \cup Range(fields.relay_params)
      BY <1>2, <2>1, ParamsTyped
    <2> QED
      BY <1>3, <2>2, TokenFromText
  <1>5. Plain(c)
    BY <1>1, <1>4 DEF Plain, Whole, ParseInv, OthersKept
  <1> QED
    BY <1>2, <1>5

LEMMA RenderInv ==
    ASSUME ParseInv, Render PROVE ParseInv'
  <1> DEFINE c == [relay |-> uri.relay, fields |-> fields]
  <1>1. c \in ConnStrings /\ Plain(c)
    BY ParsedPlain DEF Render
  <1>2. ToUri(c) \in Texts /\ Whole(ToUri(c))
    BY <1>1, RenderedWhole DEF Plain
  <1> HIDE DEF c
  <1>3. /\ uri' = ToUri(c) /\ first' = c /\ pos' = 1 /\ fields' = NoFields
        /\ outcome' = "parsing" /\ client' = client
    BY DEF Render, c
  <1>4. TextKnown'
    <2>1. uri' \in Texts /\ Whole(uri')
      BY <1>2, <1>3
    <2>2. Whole(uri)' = Whole(uri')
      BY DEF Whole
    <2>3. first' \in ConnStrings /\ uri' = ToUri(first')
      BY <1>1, <1>3
    <2> QED
      BY <2>1, <2>2, <2>3 DEF TextKnown
  <1>5. client \in {"none", "built", "unsupported", "malformed"}
    BY DEF ParseInv, LocalsTyped
  <1>6. BeginsToParse'
    BY <1>3, <1>4, <1>5 DEF BeginsToParse, NoFields
  <1> QED
    BY <1>6, NothingRead, PTL

-----------------------------------------------------------------------------

\* Every step preserves the invariant.
LEMMA ParseNext == ParseInv /\ [Next]_connVars => ParseInv'
  <1> SUFFICES ASSUME ParseInv, [Next]_connVars PROVE ParseInv'
    OBVIOUS
  <1>1. ASSUME NEW reason, reason \notin {"ok", "parsing"}, Fail(reason),
               \/ outcome = "parsing" /\ ~ uri.bwc
               \/ outcome = "parsing" /\ uri.query = NoQuery
               \/ AtPair /\ Bad(uri.query[pos])
               \/ /\ AtEnd
                  /\ \/ fields.version = Absent \/ fields.wallet_pk = Absent
                     \/ fields.secret = Absent
        PROVE  ParseInv'
    BY <1>1, FailInv
  <1>2. CASE BadScheme
    BY <1>1, <1>2, Zenon DEF BadScheme
  <1>3. CASE BadQuery
    BY <1>1, <1>3, Zenon DEF BadQuery
  <1>4. CASE BadPair
    BY <1>1, <1>4, Zenon DEF BadPair, Bad
  <1>5. CASE TakeVersion
    <2>1. Here("v") => AtPair /\ KeyIs("v", uri.query[pos])
      BY DEF Here, KeyIs
    <2>2. CASE Value \in DOMAIN Versions
      BY <1>5, <2>2, TakeVersionInv DEF TakeVersion
    <2>3. CASE Value \notin DOMAIN Versions
      <3>1. Bad(uri.query[pos]) /\ AtPair
        BY <1>5, <2>1, <2>3 DEF TakeVersion, Bad, Value
      <3> QED
        BY <1>1, <1>5, <2>3, <3>1, Zenon DEF TakeVersion
    <2> QED
      BY <2>2, <2>3
  <1>6. ASSUME NEW key \in {"wallet_pk", "secret"}, TakeHex(key)
        PROVE  ParseInv'
    <2>1. Here(key) => AtPair /\ KeyIs(key, uri.query[pos])
      BY DEF Here, KeyIs
    <2>2. CASE Value \in DOMAIN Hex
      BY <1>6, <2>2, TakeHexInv DEF TakeHex
    <2>3. CASE Value \notin DOMAIN Hex
      <3>1. Bad(uri.query[pos]) /\ AtPair
        BY <1>6, <2>1, <2>3, Zenon DEF TakeHex, Bad, Value
      <3> QED
        BY <1>1, <1>6, <2>3, <3>1, Zenon DEF TakeHex
    <2> QED
      BY <2>2, <2>3
  <1>7. CASE TakeToken
    BY <1>7, TakeTokenInv
  <1>8. CASE TakeOther
    BY <1>8, TakeOtherInv
  <1>9. CASE MissingField
    BY <1>1, <1>9, Zenon DEF MissingField
  <1>10. CASE Parsed
    <2>1. UNCHANGED <<uri, pos, fields, first>> /\ client' = client
      BY <1>10 DEF Parsed
    <2> QED
      BY <1>10, <2>1, StandsInv DEF ParseInv, LocalsTyped
  <1>11. CASE Render
    BY <1>11, RenderInv
  <1>12. CASE RefuseVersion \/ ClientNew
    BY <1>12, StandsInv DEF RefuseVersion, ClientNew
  <1>13. CASE UNCHANGED connVars
    BY <1>13, StandsInv DEF connVars, ParseInv, LocalsTyped
  <1> QED
    BY <1>2, <1>3, <1>4, <1>5, <1>6, <1>7, <1>8, <1>9, <1>10, <1>11, <1>12, <1>13
       DEF Next

\* The invariant holds in every reachable state.
THEOREM ParseInductive == Spec => []ParseInv
  BY ParseInit, ParseNext, PTL DEF Spec

-----------------------------------------------------------------------------
\* The loop stays inside the text and every local keeps its type.
THEOREM ParseTypeCorrect == Spec => []TypeOK
  <1>1. ParseInv => TypeOK
    <2> SUFFICES ASSUME ParseInv PROVE TypeOK
      OBVIOUS
    <2>1. uri.query # NoQuery => pos \in 1..(Len(uri.query) + 1)
      <3> SUFFICES ASSUME uri.query # NoQuery PROVE pos \in 1..(Len(uri.query) + 1)
        OBVIOUS
      <3>1. Len(uri.query) \in Nat /\ pos \in Nat \ {0}
        BY DEF ParseInv, TextKnown, Texts, Queries, LocalsTyped
      <3> QED
        BY <3>1 DEF ParseInv, Inside
    <2> QED
      BY <2>1 DEF ParseInv, LocalsTyped, Locals, TypeOK
  <1> QED
    BY <1>1, ParseInductive, PTL

\* At the end of the text, the loop has seen all of it.
LEMMA AllRead ==
    ASSUME ParseInv, outcome = "ok"
    PROVE  /\ uri.bwc /\ uri.query # NoQuery /\ uri.query \in Queries
           /\ Len(uri.query) \in Nat /\ DOMAIN uri.query = 1..Len(uri.query)
           /\ pos - 1 = Len(uri.query) /\ pos = Len(uri.query) + 1
           /\ \A p \in Pairs : ~ Bad(p)
           /\ \A key : Of(key, pos - 1) = {i \in DOMAIN uri.query :
                                                KeyIs(key, uri.query[i])}
  <1>1. /\ uri.bwc /\ uri.query # NoQuery /\ uri.query \in Queries
        /\ Len(uri.query) \in Nat /\ DOMAIN uri.query = 1..Len(uri.query)
        /\ pos - 1 = Len(uri.query) /\ pos = Len(uri.query) + 1
    BY DEF ParseInv, OutcomeExplained, TextKnown, Texts, Queries
  <1>2. \A p \in Pairs : ~ Bad(p)
    BY <1>1 DEF Pairs, Range, ParseInv, Inside
  <1> QED
    BY <1>1, <1>2 DEF Of

\* When the whole text is behind the loop, a required field is absent exactly if
\* no pair has its key: the newest that has it was read to a value.
LEMMA AbsentIfLacking ==
    ASSUME ParseInv, uri.bwc, uri.query # NoQuery, pos = Len(uri.query) + 1
    PROVE  /\ \A p \in Pairs : ~ Bad(p)
           /\ fields.version = Absent <=> Lacks("v")
           /\ fields.wallet_pk = Absent <=> Lacks("wallet_pk")
           /\ fields.secret = Absent <=> Lacks("secret")
  <1> DEFINE q == uri.query
  <1>1. /\ Len(q) \in Nat /\ DOMAIN q = 1..Len(q) /\ q \in Queries
        /\ pos - 1 = Len(q)
    BY DEF ParseInv, TextKnown, Texts, Queries
  <1>2. \A p \in Pairs : ~ Bad(p)
    BY <1>1 DEF Pairs, Range, ParseInv, Inside
  <1>3. ASSUME NEW key PROVE Lacks(key) <=> Of(key, pos - 1) = {}
    BY <1>1 DEF Lacks, Pairs, Range, Of
  <1>4. ASSUME NEW key, ~ Lacks(key)
        PROVE  \E i \in 1..(pos - 1) :
                  /\ Newest(i, Of(key, pos - 1))
                  /\ KeyIs(key, q[i]) /\ ~ Bad(q[i])
    <2>1. PICK i \in 1..(pos - 1) : Newest(i, Of(key, pos - 1)) /\ ~ Bad(q[i])
      BY <1>3, <1>4, NewestOf
    <2> QED
      BY <2>1 DEF Newest, Of
  <1>5. ASSUME ~ Lacks("v") PROVE fields.version # Absent
    <2>1. PICK i \in 1..(pos - 1) :
             Newest(i, Of("v", pos - 1)) /\ KeyIs("v", q[i]) /\ ~ Bad(q[i])
      BY <1>4, <1>5
    <2>2. fields.version = Versions[q[i].val] /\ q[i].val \in DOMAIN Versions
      BY <2>1 DEF ParseInv, FieldsRead, Bad
    <2> QED
      BY <2>2, NameAssumption DEF Versions
  <1>6. ASSUME ~ Lacks("wallet_pk") PROVE fields.wallet_pk # Absent
    <2>1. PICK i \in 1..(pos - 1) :
             /\ Newest(i, Of("wallet_pk", pos - 1))
             /\ KeyIs("wallet_pk", q[i]) /\ ~ Bad(q[i])
      BY <1>4, <1>6
    <2>2. fields.wallet_pk = Hex[q[i].val] /\ q[i].val \in DOMAIN Hex
      BY <2>1 DEF ParseInv, FieldsRead, Bad
    <2> QED
      BY <2>2, NameAssumption, HexAssumption
  <1>7. ASSUME ~ Lacks("secret") PROVE fields.secret # Absent
    <2>1. PICK i \in 1..(pos - 1) :
             /\ Newest(i, Of("secret", pos - 1))
             /\ KeyIs("secret", q[i]) /\ ~ Bad(q[i])
      BY <1>4, <1>7
    <2>2. fields.secret = Hex[q[i].val] /\ q[i].val \in DOMAIN Hex
      BY <2>1 DEF ParseInv, FieldsRead, Bad
    <2> QED
      BY <2>2, NameAssumption, HexAssumption
  <1> QED
    BY <1>2, <1>3, <1>5, <1>6, <1>7 DEF ParseInv, FieldsRead

\* parse() accepts exactly the texts without a bad pair that have all three keys.
LEMMA Acceptance == ParseInv => AcceptedWhateverOrder
  <1> DEFINE accepted ==
               /\ uri.bwc /\ uri.query # NoQuery
               /\ \A p \in Pairs : ~ Bad(p)
               /\ \A key \in {"v", "wallet_pk", "secret"} :
                     \E p \in Pairs : KeyIs(key, p)
  <1>1. ASSUME ParseInv, outcome = "ok" PROVE accepted
    <2>1. uri.bwc /\ uri.query # NoQuery /\ pos = Len(uri.query) + 1
      BY <1>1, AllRead
    <2>2. /\ fields.version # Absent /\ fields.wallet_pk # Absent
          /\ fields.secret # Absent
      BY <1>1 DEF ParseInv, OutcomeExplained
    <2> QED
      BY <1>1, <2>1, <2>2, AbsentIfLacking DEF Lacks
  <1>2. ASSUME ParseInv, outcome \notin {"ok", "parsing"}, accepted PROVE FALSE
    <2> DEFINE q == uri.query
    <2>1. Len(q) \in Nat /\ DOMAIN q = 1..Len(q) /\ pos \in Nat \ {0}
      BY <1>2 DEF ParseInv, TextKnown, Texts, Queries, LocalsTyped
    <2>2. ~ (pos <= Len(q) /\ Bad(q[pos]))
      BY <1>2, <2>1 DEF Pairs, Range
    <2>3. /\ pos = Len(q) + 1
          /\ \/ fields.version = Absent \/ fields.wallet_pk = Absent
             \/ fields.secret = Absent
      BY <1>2, <2>2 DEF ParseInv, OutcomeExplained
    <2> QED
      BY <1>2, <2>3, AbsentIfLacking DEF Lacks
  <1> QED
    BY <1>1, <1>2 DEF AcceptedWhateverOrder

\* Whether a text is accepted depends on which pairs it has, not on their order;
\* an unknown version anywhere rejects it.
THEOREM OrderPlaysNoPart == Spec => []AcceptedWhateverOrder
  BY Acceptance, ParseInductive, PTL

\* parse() stops at a pair only if it is bad, and those before it were not; and
\* at the end it asks for the three fields in one order.
LEMMA StopsAtFirst ==
    ASSUME ParseInv, FirstErrorReported, NEW reason, reason \notin {"ok", "parsing"},
           Fail(reason),
           \/ BadScheme \/ BadQuery \/ BadPair \/ TakeVersion
           \/ TakeHex("wallet_pk") \/ TakeHex("secret") \/ MissingField
    PROVE  FirstErrorReported'
  <1>1. outcome' = reason /\ uri' = uri /\ pos' = pos
    BY DEF Fail
  <1>2. Len(uri.query') = Len(uri.query) /\ Pairs' = Pairs
    BY <1>1 DEF Pairs
  <1>3. uri.query # NoQuery => Len(uri.query) \in Nat /\ pos \in Nat \ {0}
    BY DEF ParseInv, TextKnown, Texts, Queries, LocalsTyped
  <1>4. CASE ~ uri.bwc
    <2>1. outcome' = "not a bwc:// URI"
      BY <1>1, <1>4 DEF BadScheme, BadQuery, BadPair, TakeVersion, TakeHex, Here,
                        MissingField, AtPair, AtEnd, Scanning, Fail
    <2> QED
      BY <1>1, <1>4, <2>1 DEF FirstErrorReported
  <1>5. CASE uri.bwc /\ uri.query = NoQuery
    <2>1. outcome' = "missing query"
      BY <1>1, <1>5 DEF BadScheme, BadQuery, BadPair, TakeVersion, TakeHex, Here,
                        MissingField, AtPair, AtEnd, Scanning, Fail
    <2> QED
      BY <1>1, <1>5, <2>1 DEF FirstErrorReported
  <1>6. CASE uri.bwc /\ uri.query # NoQuery /\ AtPair
    <2>1. Bad(uri.query[pos]) /\ reason = ErrorOf(uri.query[pos])
      <3>1. CASE BadPair
        BY <1>1, <3>1 DEF BadPair, Fail, Bad, ErrorOf
      <3>2. CASE TakeVersion
        BY <1>1, <3>2 DEF TakeVersion, Here, Take, Value, AtPair, Scanning, Fail,
                          Bad, KeyIs, ErrorOf
      <3>3. CASE TakeHex("wallet_pk") \/ TakeHex("secret")
        BY <1>1, <3>3 DEF TakeHex, Here, Take, Value, AtPair, Scanning, Fail, Bad,
                          KeyIs, ErrorOf
      <3>4. ~ BadScheme /\ ~ BadQuery /\ ~ MissingField
        <4>1. pos <= Len(uri.query) /\ ~ (pos > Len(uri.query))
          BY <1>3, <1>6 DEF AtPair
        <4>2. QED
          BY <1>6, <4>1 DEF BadScheme, BadQuery, MissingField, AtEnd
      <3> QED
        BY <3>1, <3>2, <3>3, <3>4
    <2>2. pos \in 1..Len(uri.query) /\ \A j \in 1..(pos - 1) : ~ Bad(uri.query[j])
      BY <1>6 DEF AtPair, ParseInv, Inside, LocalsTyped, TextKnown, Texts, Queries
    <2>3. \A i : Bad(uri.query[i])' <=> Bad(uri.query[i])
      BY <1>1 DEF Bad, KeyIs
    <2> QED
      BY <1>1, <1>6, <2>1, <2>2, <2>3 DEF FirstErrorReported, ErrorOf
  <1>7. CASE uri.bwc /\ uri.query # NoQuery /\ ~ AtPair
    <2>1. MissingField
      BY <1>7 DEF BadScheme, BadQuery, BadPair, TakeVersion, TakeHex, Here
    <2>2. pos = Len(uri.query) + 1
      <3>1. pos > Len(uri.query)
        BY <2>1 DEF MissingField, AtEnd
      <3>2. pos <= Len(uri.query) + 1
        BY <1>7 DEF ParseInv, Inside
      <3> QED
        BY <1>3, <1>7, <3>1, <3>2
    <2>3. /\ \A p \in Pairs : ~ Bad(p)
          /\ \/ Lacks("v") /\ reason = "missing v"
             \/ ~ Lacks("v") /\ Lacks("wallet_pk") /\ reason = "missing wallet_pk"
             \/ /\ ~ Lacks("v") /\ ~ Lacks("wallet_pk") /\ Lacks("secret")
                /\ reason = "missing secret"
      BY <1>1, <1>7, <2>1, <2>2, AbsentIfLacking DEF MissingField, Fail
    <2>4. \A key : Lacks(key)' <=> Lacks(key)
      BY <1>2 DEF Lacks, KeyIs
    <2>5. \A p \in Pairs' : ~ Bad(p)
      BY <1>2, <2>3
    <2> QED
      BY <1>1, <1>7, <2>3, <2>4, <2>5 DEF FirstErrorReported, Bad, KeyIs
  <1> QED
    BY <1>4, <1>5, <1>6, <1>7

\* The error reported is that of the first pair that cannot be taken or, if all
\* can, of the first required key that no pair has.
THEOREM FirstErrorWins == Spec => []FirstErrorReported
  <1>1. Init => FirstErrorReported
    BY DEF Init, FirstErrorReported
  <1>2. ParseInv /\ FirstErrorReported /\ [Next]_connVars => FirstErrorReported'
    <2> SUFFICES ASSUME ParseInv, FirstErrorReported, [Next]_connVars
                 PROVE  FirstErrorReported'
      OBVIOUS
    <2>1. CASE outcome' \in {"ok", "parsing"}
      BY <2>1 DEF FirstErrorReported
    <2>2. CASE UNCHANGED <<uri, outcome>>
      BY <2>2 DEF FirstErrorReported, Pairs, Lacks, Bad, KeyIs, ErrorOf
    <2>3. CASE outcome' \notin {"ok", "parsing"} /\ Fail(outcome')
               /\ \/ BadScheme \/ BadQuery \/ BadPair \/ TakeVersion
                  \/ TakeHex("wallet_pk") \/ TakeHex("secret") \/ MissingField
      BY <2>3, StopsAtFirst
    <2> QED
      BY <2>1, <2>2, <2>3
      DEF Next, connVars, BadScheme, BadQuery, BadPair, TakeVersion, TakeHex, TakeToken,
          TakeOther, Take, MissingField, Parsed, Render, RefuseVersion, ClientNew, Fail
  <1> QED
    BY <1>1, <1>2, ParseInductive, PTL DEF Spec

-----------------------------------------------------------------------------

\* The pair that LastOf takes is the newest when the whole text has been read.
LEMMA LastIsNewest ==
    ASSUME ParseInv, outcome = "ok", NEW key, Of(key, pos - 1) # {}
    PROVE  \E i \in 1..(pos - 1) :
              Newest(i, Of(key, pos - 1)) /\ LastOf(key) = uri.query[i].val
  <1> DEFINE at == {i \in DOMAIN uri.query : KeyIs(key, uri.query[i])}
             last == CHOOSE i \in at : \A j \in at : j <= i
  <1>1. at = Of(key, pos - 1) /\ uri.bwc /\ uri.query # NoQuery
    BY AllRead
  <1>2. \E i \in at : \A j \in at : j <= i
    BY <1>1, NewestOf DEF Newest
  <1>3. last \in at /\ \A j \in at : j <= last
    BY <1>2
  <1>4. LastOf(key) = uri.query[last].val
    BY DEF LastOf
  <1>5. last \in 1..(pos - 1)
    BY <1>1, <1>3 DEF Of
  <1> QED
    BY <1>1, <1>3, <1>4, <1>5 DEF Newest

\* Of a key given twice the last value counts, and a field has no other source.
THEOREM LastValueCounts == Spec => []FieldsFromLast
  <1>1. ASSUME ParseInv, outcome = "ok" PROVE FieldsFromLast
    <2>1. /\ Of("v", pos - 1) # {} /\ Of("wallet_pk", pos - 1) # {}
          /\ Of("secret", pos - 1) # {}
      BY <1>1 DEF ParseInv, OutcomeExplained, FieldsRead
    <2>2. fields.version = Versions[LastOf("v")]
      BY <1>1, <2>1, LastIsNewest DEF ParseInv, FieldsRead
    <2>3. fields.wallet_pk = Hex[LastOf("wallet_pk")]
      BY <1>1, <2>1, LastIsNewest DEF ParseInv, FieldsRead
    <2>4. fields.secret = Hex[LastOf("secret")]
      BY <1>1, <2>1, LastIsNewest DEF ParseInv, FieldsRead
    <2>5. CASE Of("token", pos - 1) = {}
      <3>1. fields.token = Absent
        BY <1>1, <2>5 DEF ParseInv, FieldsRead
      <3>2. ~ \E p \in Pairs : KeyIs("token", p)
        BY <1>1, <2>5, AllRead DEF Pairs, Range
      <3> QED
        BY <2>2, <2>3, <2>4, <3>1, <3>2 DEF FieldsFromLast
    <2>6. CASE Of("token", pos - 1) # {}
      <3>1. fields.token = LastOf("token")
        BY <1>1, <2>6, LastIsNewest DEF ParseInv, FieldsRead
      <3>2. \E p \in Pairs : KeyIs("token", p)
        BY <1>1, <2>6, AllRead DEF Pairs, Range
      <3> QED
        BY <2>2, <2>3, <2>4, <3>1, <3>2 DEF FieldsFromLast
    <2> QED
      BY <2>5, <2>6
  <1>2. ParseInv => FieldsFromLast
    BY <1>1 DEF FieldsFromLast
  <1> QED
    BY <1>2, ParseInductive, PTL

\* The token and the secret never reach the relay in the query, and nothing else
\* is dropped or moved.
THEOREM ForwardsVerbatim == Spec => []ForwardedVerbatim
  <1>1. ASSUME ParseInv, outcome = "ok" PROVE ForwardedVerbatim
    <2>1. pos - 1 = Len(uri.query)
      BY <1>1, AllRead
    <2> QED
      BY <1>1, <2>1 DEF ForwardedVerbatim, ParseInv, OthersKept, Others
  <1>2. ParseInv => ForwardedVerbatim
    BY <1>1 DEF ForwardedVerbatim
  <1> QED
    BY <1>2, ParseInductive, PTL

-----------------------------------------------------------------------------
LEMMA TokensAre ==
    ASSUME NEW f
    PROVE  Tokens(f) \in 0..1 /\ (Tokens(f) = 1 <=> f.token # Absent)
  BY DEF Tokens

\* The text of a plain ConnString, pair by pair: after the three of Lead, a
\* token if there is one, and then the others, which no key of BWC's stands in.
LEMMA PlainText ==
    ASSUME NEW c \in ConnStrings, Plain(c), uri = ToUri(c)
    PROVE  LET f == c.fields
               q == uri.query
               t == Tokens(f)
           IN  /\ uri.bwc /\ q \in Seq(TextPairs) /\ uri.relay = c.relay
               /\ f.relay_params \in Seq(TextPairs)
               /\ Len(q) = 3 + t + Len(f.relay_params)
               /\ q[1] = Pair("v", AsU8(f.version))
               /\ q[2] = Pair("wallet_pk", Encode[f.wallet_pk])
               /\ q[3] = Pair("secret", Encode[f.secret])
               /\ f.token # Absent => q[4] = Pair("token", f.token)
               /\ \A i \in (4 + t)..Len(q) :
                     /\ i - 3 - t \in 1..Len(f.relay_params)
                     /\ q[i] = f.relay_params[i - 3 - t]
                     /\ q[i].key \notin Recognised
  <1> DEFINE f == c.fields
             lead == Lead(f)
             params == Params(f)
             rp == f.relay_params
             q == lead \o params
  <1>1. /\ ToUri(c) = [bwc |-> TRUE, relay |-> c.relay, query |-> q]
        /\ q \in Seq(TextPairs)
    BY RenderedWhole DEF Plain
  <1>2. /\ lead \in Seq(TextPairs) /\ Len(lead) = 3
        /\ lead[1] = Pair("v", AsU8(f.version))
        /\ lead[2] = Pair("wallet_pk", Encode[f.wallet_pk])
        /\ lead[3] = Pair("secret", Encode[f.secret])
    BY LeadTyped DEF Lead
  <1>3. rp \in Seq(TextPairs) /\ Len(rp) \in Nat /\ DOMAIN rp = 1..Len(rp)
    BY DEF ConnStrings
  <1>4. \A i \in 1..Len(rp) : rp[i].key \notin Recognised
    BY <1>3 DEF Plain
  <1>5. params \in Seq(TextPairs)
    BY ParamsTyped
  <1>6. f.token = Absent => params = rp
    BY ParamsTyped
  <1> DEFINE tok == Pair("token", f.token)
  <1>7. ASSUME f.token # Absent
        PROVE  /\ Len(params) = Len(rp) + 1
               /\ params[1] = tok
               /\ \A i \in 2..Len(params) : params[i] = rp[i - 1]
    <2>1. tok \in TextPairs /\ params = <<tok>> \o rp
      BY <1>7, ParamsTyped
    <2> HIDE DEF tok, params, rp
    <2>2. /\ Len(<<tok>> \o rp) = Len(rp) + 1 /\ (<<tok>> \o rp)[1] = tok
          /\ \A i \in 2..(Len(rp) + 1) : (<<tok>> \o rp)[i] = rp[i - 1]
      BY <1>3, <2>1, Prepend
    <2> QED
      BY <2>1, <2>2
  <1> HIDE DEF lead, params, rp, tok
  <1>8. /\ Len(params) \in Nat /\ Len(q) = 3 + Len(params)
        /\ \A i \in 1..(3 + Len(params)) :
              q[i] = IF i <= 3 THEN lead[i] ELSE params[i - 3]
    <2>1. Len(params) \in Nat
      BY <1>5
    <2>2. Len(q) = Len(lead) + Len(params)
      BY <1>2, <1>5, ConcatProperties
    <2>3. \A i \in 1..(Len(lead) + Len(params)) :
             q[i] = IF i <= Len(lead) THEN lead[i] ELSE params[i - Len(lead)]
      BY <1>2, <1>5, ConcatProperties
    <2> QED
      BY <1>2, <2>1, <2>2, <2>3
  <1> HIDE DEF q
  <1>9. q[1] = lead[1] /\ q[2] = lead[2] /\ q[3] = lead[3]
    BY <1>8
  <1> DEFINE t == Tokens(f)
  <1>10. Len(q) = 3 + t + Len(rp)
    BY <1>3, <1>6, <1>7, <1>8, TokensAre DEF params
  <1>11. ASSUME f.token # Absent PROVE q[4] = tok
    <2>1. Len(params) = Len(rp) + 1 /\ 1 \in 1..Len(params) /\ 4 \in 1..(3 + Len(params))
      BY <1>3, <1>7, <1>8, <1>11 DEF params, rp
    <2>2. params[1] = tok
      BY <1>7, <1>11, <2>1 DEF params, rp, tok
    <2> QED
      BY <1>8, <2>1, <2>2
  <1>12. ASSUME NEW i \in (4 + t)..Len(q)
         PROVE  /\ i - 3 - t \in 1..Len(rp)
                /\ q[i] = rp[i - 3 - t]
                /\ q[i].key \notin Recognised
    <2>1. t \in 0..1 /\ i \in Nat /\ i - 3 - t \in 1..Len(rp)
      BY <1>3, <1>10, TokensAre
    <2>2. q[i] = params[i - 3] /\ i - 3 \in 1..Len(params)
      BY <1>8, <1>12, <2>1
    <2>3. params[i - 3] = rp[i - 3 - t]
      <3>1. CASE f.token = Absent
        <4>1. i - 3 - t = i - 3
          BY <2>1, <3>1, TokensAre
        <4> HIDE DEF t
        <4> QED
          BY <1>6, <3>1, <4>1
      <3>2. CASE f.token # Absent
        <4>1. i - 3 \in 2..Len(params) /\ i - 3 - t = (i - 3) - 1
          BY <1>12, <2>1, <2>2, <3>2, TokensAre
        <4>2. \A j \in 2..Len(params) : params[j] = rp[j - 1]
          BY <1>7, <3>2
        <4> HIDE DEF t
        <4>3. params[i - 3] = rp[(i - 3) - 1]
          BY <4>1, <4>2
        <4> QED
          BY <4>1, <4>3
      <3> QED
        BY <3>1, <3>2
    <2> QED
      BY <1>4, <2>1, <2>2, <2>3 DEF rp
  <1>13. uri.query = q /\ uri.bwc /\ uri.relay = c.relay
    BY <1>1
  <1> QED
    BY <1>1, <1>2, <1>3, <1>9, <1>10, <1>11, <1>12, <1>13 DEF lead, params, rp, tok, q

-----------------------------------------------------------------------------

\* Each key of BWC's stands once in it, where Lead has it.
LEMMA PlainKeys ==
    ASSUME ParseInv, first # Absent, Plain(first)
    PROVE  LET q == uri.query
               t == Tokens(first.fields)
           IN  /\ \A i \in 1..Len(q) : q[i] # NoEquals /\ ~ Bad(q[i])
               /\ \A i \in 1..Len(q) :
                     /\ q[i].key = "v" <=> i = 1
                     /\ q[i].key = "wallet_pk" <=> i = 2
                     /\ q[i].key = "secret" <=> i = 3
                     /\ q[i].key = "token" <=> t = 1 /\ i = 4
                     /\ q[i].key \notin Recognised <=> i >= 4 + t
               /\ Len(q) = 3 + t + Len(first.fields.relay_params)
               /\ Len(first.fields.relay_params) \in Nat
  <1> DEFINE q == uri.query
             f == first.fields
             rp == f.relay_params
             t == Tokens(f)
  <1>1. first \in ConnStrings /\ uri = ToUri(first)
    BY DEF ParseInv, TextKnown
  <1>2. /\ q \in Seq(TextPairs) /\ rp \in Seq(TextPairs)
        /\ Len(q) = 3 + t + Len(rp)
        /\ q[1] = Pair("v", AsU8(f.version))
        /\ q[2] = Pair("wallet_pk", Encode[f.wallet_pk])
        /\ q[3] = Pair("secret", Encode[f.secret])
        /\ f.token # Absent => q[4] = Pair("token", f.token)
        /\ \A i \in (4 + t)..Len(q) : q[i].key \notin Recognised
    BY <1>1, PlainText
  <1>3. Len(rp) \in Nat /\ t \in 0..1 /\ Len(q) \in Nat
    BY <1>2, TokensAre
  <1>4. /\ AsU8(f.version) \in DOMAIN Versions
        /\ Encode[f.wallet_pk] \in DOMAIN Hex /\ Encode[f.secret] \in DOMAIN Hex
    BY <1>1, LeadTyped
  <1>5. ASSUME NEW i \in 1..Len(q) PROVE q[i] # NoEquals
    BY <1>2, NameAssumption
  <1>6. /\ q[1].key = "v" /\ q[2].key = "wallet_pk" /\ q[3].key = "secret"
        /\ t = 1 => q[4].key = "token"
    BY <1>2, TokensAre DEF Pair
  <1>7. \A i \in 1..Len(q) :
           i = 1 \/ i = 2 \/ i = 3 \/ (t = 1 /\ i = 4) \/ i \in (4 + t)..Len(q)
    BY <1>3
  <1>8. \A i \in (4 + t)..Len(q) : i >= 4 + t /\ i # 1 /\ i # 2 /\ i # 3
                                 /\ ~ (t = 1 /\ i = 4)
    BY <1>3
  <1> HIDE DEF q, t
  <1>9. ASSUME NEW i \in 1..Len(q)
        PROVE  /\ q[i].key = "v" <=> i = 1
               /\ q[i].key = "wallet_pk" <=> i = 2
               /\ q[i].key = "secret" <=> i = 3
               /\ q[i].key = "token" <=> t = 1 /\ i = 4
               /\ q[i].key \notin Recognised <=> i >= 4 + t
    <2>1. CASE i = 1
      BY <1>3, <1>6, <2>1 DEF Recognised
    <2>2. CASE i = 2
      BY <1>3, <1>6, <2>2 DEF Recognised
    <2>3. CASE i = 3
      BY <1>3, <1>6, <2>3 DEF Recognised
    <2>4. CASE t = 1 /\ i = 4
      BY <1>6, <2>4 DEF Recognised
    <2>5. CASE i \in (4 + t)..Len(q)
      <3>1. q[i].key \notin Recognised
        BY <1>2, <2>5
      <3>2. i >= 4 + t /\ i # 1 /\ i # 2 /\ i # 3 /\ ~ (t = 1 /\ i = 4)
        BY <1>8, <2>5
      <3> QED
        BY <3>1, <3>2 DEF Recognised
    <2> QED
      BY <1>7, <2>1, <2>2, <2>3, <2>4, <2>5
  <1>10. ASSUME NEW i \in 1..Len(q) PROVE ~ Bad(q[i])
    <2>1. i = 1 => q[i].val \in DOMAIN Versions
      BY <1>2, <1>4 DEF Pair
    <2>2. i = 2 \/ i = 3 => q[i].val \in DOMAIN Hex
      BY <1>2, <1>4 DEF Pair
    <2> QED
      BY <1>5, <1>9, <2>1, <2>2 DEF Bad, KeyIs
  <1> QED
    BY <1>2, <1>3, <1>5, <1>9, <1>10 DEF q, t

\* So it parses, and the locals are the fields it was rendered from.
LEMMA PlainComesBack ==
    ASSUME ParseInv, first # Absent, outcome # "parsing", Plain(first)
    PROVE  outcome = "ok" /\ first = [relay |-> uri.relay, fields |-> fields]
  <1> DEFINE q == uri.query
             f == first.fields
             rp == f.relay_params
             t == Tokens(f)
             n == Len(q)
  <1>1. first \in ConnStrings /\ uri = ToUri(first)
    BY DEF ParseInv, TextKnown
  <1>2. /\ uri.bwc /\ q \in Seq(TextPairs) /\ uri.relay = first.relay
        /\ rp \in Seq(TextPairs)
        /\ q[1] = Pair("v", AsU8(f.version))
        /\ q[2] = Pair("wallet_pk", Encode[f.wallet_pk])
        /\ q[3] = Pair("secret", Encode[f.secret])
        /\ f.token # Absent => q[4] = Pair("token", f.token)
        /\ \A i \in (4 + t)..n : q[i] = rp[i - 3 - t]
    BY <1>1, PlainText
  <1>3. /\ \A i \in 1..n : q[i] # NoEquals /\ ~ Bad(q[i])
        /\ \A i \in 1..n :
              /\ q[i].key = "v" <=> i = 1
              /\ q[i].key = "wallet_pk" <=> i = 2
              /\ q[i].key = "secret" <=> i = 3
              /\ q[i].key = "token" <=> t = 1 /\ i = 4
              /\ q[i].key \notin Recognised <=> i >= 4 + t
        /\ n = 3 + t + Len(rp) /\ Len(rp) \in Nat
    BY PlainKeys
  <1>4. t \in 0..1 /\ n \in Nat /\ DOMAIN q = 1..n /\ 1 \in 1..n /\ 2 \in 1..n
        /\ 3 \in 1..n /\ (t = 1 => 4 \in 1..n)
    BY <1>2, <1>3, TokensAre
  <1>5. q # NoQuery
    <2>1. q \in Queries
      BY <1>2 DEF Queries
    <2> QED
      BY <2>1, NameAssumption
  <1>6. outcome = "ok"
    <2>1. \A p \in Pairs : ~ Bad(p)
      BY <1>3, <1>4, <1>5 DEF Pairs, Range
    <2>2. /\ q[1] \in Pairs /\ KeyIs("v", q[1])
          /\ q[2] \in Pairs /\ KeyIs("wallet_pk", q[2])
          /\ q[3] \in Pairs /\ KeyIs("secret", q[3])
      BY <1>3, <1>4, <1>5 DEF Pairs, Range, KeyIs
    <2>3. \A key \in {"v", "wallet_pk", "secret"} : \E p \in Pairs : KeyIs(key, p)
      BY <2>2
    <2> QED
      BY <1>2, <1>5, <2>1, <2>3, Acceptance DEF AcceptedWhateverOrder
  <1>7. pos - 1 = n
    BY <1>6, AllRead
  <1>8. /\ \A i \in 1..n : KeyIs("v", q[i]) <=> i = 1
        /\ \A i \in 1..n : KeyIs("wallet_pk", q[i]) <=> i = 2
        /\ \A i \in 1..n : KeyIs("secret", q[i]) <=> i = 3
        /\ \A i \in 1..n : KeyIs("token", q[i]) <=> t = 1 /\ i = 4
    BY <1>3 DEF KeyIs
  <1>9. /\ Of("v", n) = {1} /\ Of("wallet_pk", n) = {2} /\ Of("secret", n) = {3}
        /\ t = 0 => Of("token", n) = {}
        /\ t = 1 => Of("token", n) = {4}
    BY <1>4, <1>8 DEF Of
  <1>10. /\ Newest(1, Of("v", n)) /\ Newest(2, Of("wallet_pk", n))
         /\ Newest(3, Of("secret", n)) /\ (t = 1 => Newest(4, Of("token", n)))
    BY <1>9 DEF Newest
  <1>11. /\ fields.version = Versions[q[1].val]
         /\ fields.wallet_pk = Hex[q[2].val]
         /\ fields.secret = Hex[q[3].val]
         /\ t = 1 => fields.token = q[4].val
         /\ t = 0 => fields.token = Absent
    BY <1>4, <1>7, <1>9, <1>10 DEF ParseInv, FieldsRead
  <1>12. /\ fields.version = f.version /\ fields.wallet_pk = f.wallet_pk
         /\ fields.secret = f.secret /\ fields.token = f.token
    BY <1>1, <1>2, <1>4, <1>11, LeadTyped, TokensAre DEF Pair
  <1>13. ASSUME NEW m \in (3 + t)..n
         PROVE  Others(m) = (4 + t)..m /\ Cardinality(Others(m)) = m - 3 - t
    <2>1. m \in Nat /\ \A i \in 1..m : i \in 1..n
      BY <1>4
    <2>2. Others(m) = {i \in 1..m : i >= 4 + t}
      BY <1>3, <2>1 DEF Others
    <2>3. Others(m) = (4 + t)..m
      BY <1>4, <2>1, <2>2
    <2>4. Cardinality((4 + t)..m) = m - 3 - t
      <3>1. 4 + t \in Int /\ m \in Int
        BY <1>4, <2>1
      <3>2. Cardinality((4 + t)..m) = IF 4 + t > m THEN 0 ELSE m - (4 + t) + 1
        BY <3>1, FS_Interval
      <3> QED
        BY <1>4, <2>1, <3>2
    <2> QED
      BY <2>3, <2>4
  <1>14. fields.relay_params = rp
    <2>1. fields.relay_params \in Seq(TextPairs)
      BY DEF ParseInv, LocalsTyped, Locals
    <2>2. Len(fields.relay_params) = Len(rp)
      <3>1. n \in (3 + t)..n
        BY <1>3, <1>4
      <3> QED
        BY <1>3, <1>4, <1>7, <1>13, <3>1 DEF ParseInv, OthersKept
    <2>3. ASSUME NEW k \in 1..Len(rp) PROVE fields.relay_params[k] = rp[k]
      <3>1. /\ 3 + t + k \in (3 + t)..n /\ 3 + t + k \in (4 + t)..n
            /\ (3 + t + k) - 3 - t = k /\ n \in (3 + t)..n
        BY <1>3, <1>4
      <3>2. 3 + t + k \in Others(n) /\ Cardinality(Others(3 + t + k)) = k
        BY <1>13, <3>1
      <3>3. fields.relay_params[k] = q[3 + t + k]
        BY <1>7, <3>2 DEF ParseInv, OthersKept
      <3> QED
        BY <1>2, <3>1, <3>3
    <2> QED
      BY <1>2, <2>1, <2>2, <2>3, SeqEqual
  <1>15. fields \in Locals
    BY DEF ParseInv, LocalsTyped
  <1>16. f = fields
    BY <1>1, <1>12, <1>14, <1>15 DEF ConnStrings, Locals
  <1> QED
    BY <1>1, <1>2, <1>6, <1>16 DEF ConnStrings

\* Rendering and parsing gives a ConnString back exactly when it is plain.
THEOREM RoundTrips == Spec => []RoundTrip
  <1>1. ASSUME ParseInv, first # Absent, outcome = "ok",
               first = [relay |-> uri.relay, fields |-> fields]
        PROVE  Plain(first)
    BY <1>1, ParsedPlain
  <1>2. ParseInv => RoundTrip
    BY <1>1, PlainComesBack DEF RoundTrip
  <1> QED
    BY <1>2, ParseInductive, PTL

=============================================================================
