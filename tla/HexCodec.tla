------------------------------ MODULE HexCodec ------------------------------
(***************************************************************************)
(* The hex codec of examples/bwc_post_quantum_upgrade.rs (mod hex).  A     *)
(* text is the sequence of its UTF-8 bytes, as a &str is.                  *)
(***************************************************************************)
EXTENDS Naturals, Sequences

Octets == 0..255

\* The three ends of a call that parses: a value, an error, a panic.
Ok(value) == [is |-> "ok", val |-> value]
Err(reason) == [is |-> "err", val |-> reason]
Panic == [is |-> "panic", val |-> "panic"]

\* HEX: `0` is 48 and `a` is 97.
Digit(n) == IF n < 10 THEN 48 + n ELSE 87 + n

\* Variants (here and below, NAME_Variant): an operation with a bug that the
\* properties must tell from the code.  Nothing uses them.
Encode_LowFirst(bytes) ==
    [i \in 1..(2 * Len(bytes)) |->
        LET b == bytes[(i + 1) \div 2]
        IN  IF i % 2 = 1 THEN Digit(b % 16) ELSE Digit(b \div 16)]

Encode(bytes) ==
    [i \in 1..(2 * Len(bytes)) |->
        LET b == bytes[(i + 1) \div 2]
        IN  IF i % 2 = 1 THEN Digit(b \div 16) ELSE Digit(b % 16)]

\* u8::from_str_radix(_, 16) on two bytes: digits of either case, after a `+`
\* (43) if there is one.
NoDigit == 16
Value(c) ==
    IF c \in 48..57 THEN c - 48
    ELSE IF c \in 97..102 THEN c - 87
    ELSE IF c \in 65..70 THEN c - 55
    ELSE NoDigit
Reads(c, d) == (c = 43 \/ Value(c) < NoDigit) /\ Value(d) < NoDigit
ReadByte_PlusIsADigit(c, d) == 16 * (IF c = 43 THEN 16 ELSE Value(c)) + Value(d)
ReadByte(c, d) == IF c = 43 THEN Value(d) ELSE 16 * Value(c) + Value(d)

\* A slice may not begin or end inside a character.
Continues(c) == c \in 128..191
Slices(text, i) ==
    /\ ~ Continues(text[2 * i - 1])
    /\ i < Len(text) \div 2 => ~ Continues(text[2 * i + 1])

\* decode(): the first pair that is no byte ends it, with an error if it can be
\* sliced off and with a panic if it cannot.
Decode(text) ==
    LET pairs == 1..(Len(text) \div 2)
        byte(i) == ReadByte(text[2 * i - 1], text[2 * i])
        fails == {i \in pairs :
                    ~ Slices(text, i) \/ ~ Reads(text[2 * i - 1], text[2 * i])}
        first == CHOOSE i \in fails : \A j \in fails : i <= j
    IN  IF Len(text) % 2 = 1 THEN Err("odd-length hex")
        ELSE IF fails = {} THEN Ok([i \in pairs |-> byte(i)])
        ELSE IF Slices(text, first) THEN Err("bad hex") ELSE Panic

=============================================================================
