---------------------------- MODULE AddressParser ----------------------------
(***************************************************************************)
(* parse_bit_address() and BitAddress::to_string() of Address.cpp. A       *)
(* string is a sequence of characters; the unsigned arithmetic of the      *)
(* digits keeps its width, UintMax being the largest uint32_t.             *)
(*                                                                         *)
(* The variable input grows by one character at a time: the states of the  *)
(* module are the inputs the parser is checked for.                        *)
(***************************************************************************)
EXTENDS Integers, Sequences, SequencesExt

CONSTANTS
    UintMax,    \* std::numeric_limits<std::uint32_t>::max()
    Alphabet,   \* the characters an input is made of
    MaxLen      \* bound on the length of an input

ASSUME ParserAssumption == UintMax \in Nat /\ UintMax >= 9 /\ MaxLen \in Nat

VARIABLE input

Numerals == <<"0", "1", "2", "3", "4", "5", "6", "7", "8", "9">>

Digit == [c \in ToSet(Numerals) |-> CHOOSE n \in 0 .. 9 : Numerals[n + 1] = c]

IsDigit(c) == c \in DOMAIN Digit

IsSpace(c) == c \in {" ", "tab"}

Lower == [i |-> "I", e |-> "E", q |-> "Q", a |-> "A", m |-> "M", x |-> "X",
          b |-> "B", w |-> "W", d |-> "D"]

Upper(c) == IF c \in DOMAIN Lower THEN Lower[c] ELSE c

AreaOf == [I |-> "Input", E |-> "Input", Q |-> "Output", A |-> "Output",
           M |-> "Marker"]

Trim(s) ==
    LET black == {i \in 1 .. Len(s) : ~IsSpace(s[i])}
    IN  IF black = {} THEN <<>> ELSE SubSeq(s, Min(black), Max(black))

\* The character at a position of s, or "end" behind its last one.
At(s, pos) == IF pos <= Len(s) THEN s[pos] ELSE "end"

-----------------------------------------------------------------------------
(* read_number(): the digits from pos on, as a uint32_t. *)

\* (mutant: the guard compares before dividing, and the product wraps)
Fits_Wraps(value, digit) == ((value * 10) % (UintMax + 1)) + digit <= UintMax

\* "value > (kMax - digit) / 10" is the overflow test, in unsigned arithmetic.
Fits(value, digit) == value <= (UintMax - digit) \div 10

\* The first position from pos on that holds no digit.
DigitsEnd(s, pos) == Min({i \in pos .. Len(s) + 1 : ~IsDigit(At(s, i))})

\* One round of the loop: ok is the result so far, and pos stays at the digit that
\* does not fit.
Take(acc, c) ==
    IF acc.ok /\ Fits(acc.value, Digit[c])
    THEN [ok |-> TRUE, value |-> (acc.value * 10 + Digit[c]) % (UintMax + 1),
          pos |-> acc.pos + 1]
    ELSE [acc EXCEPT !.ok = FALSE]

ReadNumber(s, pos) ==
    LET stop == DigitsEnd(s, pos)
        read[i \in pos .. stop] ==      \* when the loop has come to position i
            IF i = pos THEN [ok |-> IsDigit(At(s, pos)), value |-> 0, pos |-> pos]
            ELSE Take(read[i - 1], s[i - 1])
    IN  read[stop]

-----------------------------------------------------------------------------
(* parse_bit_address() and to_string(). *)

Rejected(reason) == [ok |-> FALSE, reason |-> reason]

Accepted(area, byte, bit) == [ok |-> TRUE, area |-> area, byte |-> byte, bit |-> bit]

\* (mutant: a size prefix is skipped whatever it says)
ParseBitAddress_AnyPrefix(address) ==
    LET s == Trim(address)
        a == IF At(s, 1) = "%" THEN 2 ELSE 1
        n == IF IsDigit(At(s, a + 1)) THEN a + 1 ELSE a + 2
        byte == ReadNumber(s, n)
        bit == ReadNumber(s, byte.pos + 1)
    IN  IF /\ Upper(At(s, a)) \in DOMAIN AreaOf
           /\ byte.ok /\ At(s, byte.pos) = "." /\ bit.ok /\ bit.value <= 7
           /\ bit.pos = Len(s) + 1
        THEN Accepted(AreaOf[Upper(s[a])], byte.value, bit.value)
        ELSE Rejected("syntax")

\* The tests in the order of the code, which decides the message.
ParseBitAddress(address) ==
    LET s == Trim(address)
        a == IF At(s, 1) = "%" THEN 2 ELSE 1
        n == IF Upper(At(s, a + 1)) = "X" THEN a + 2 ELSE a + 1
        byte == ReadNumber(s, n)
        bit == ReadNumber(s, byte.pos + 1)
    IN  IF s = <<>> THEN Rejected("empty")
        ELSE IF Upper(At(s, 1)) = "D" /\ Upper(At(s, 2)) = "B" THEN Rejected("data_block")
        ELSE IF a > Len(s) THEN Rejected("no_area")
        ELSE IF Upper(s[a]) \notin DOMAIN AreaOf THEN Rejected("unknown_area")
        ELSE IF Upper(At(s, a + 1)) \in {"B", "W", "D"} THEN Rejected("wide_access")
        ELSE IF ~byte.ok
             THEN Rejected(IF byte.pos <= Len(s) THEN "byte_expected" ELSE "byte_missing")
        ELSE IF byte.pos > Len(s) THEN Rejected("bit_missing")
        ELSE IF s[byte.pos] # "." THEN Rejected("dot_expected")
        ELSE IF ~bit.ok THEN Rejected("bit_expected")
        ELSE IF bit.pos # Len(s) + 1 THEN Rejected("trailing")
        ELSE IF bit.value > 7 THEN Rejected("bit_range")
        ELSE Accepted(AreaOf[Upper(s[a])], byte.value, bit.value)

\* std::to_string() of an unsigned value.
Decimal[n \in Nat] ==
    IF n < 10 THEN <<Numerals[n + 1]>>
    ELSE Append(Decimal[n \div 10], Numerals[(n % 10) + 1])

Letter == [Input |-> "I", Output |-> "Q", Marker |-> "M"]

\* (mutant: the byte offset is printed without its last digit)
AddressToString_Truncated(r) ==
    <<"%", Letter[r.area]>> \o Decimal[r.byte \div 10] \o <<".">> \o Decimal[r.bit]

AddressToString(r) ==
    <<"%", Letter[r.area]>> \o Decimal[r.byte] \o <<".">> \o Decimal[r.bit]

-----------------------------------------------------------------------------

Init == input = <<>>

Next ==
    /\ Len(input) < MaxLen
    /\ \E c \in Alphabet : input' = Append(input, c)

Spec == Init /\ [][Next]_input

-----------------------------------------------------------------------------
(* The grammar of README.md, "Addresses", as the set of all spellings. *)

Words(S, low, high) == UNION {[1 .. n -> S \cap Alphabet] : n \in low .. high}

\* The number a numeral stands for.
Value(w) ==
    LET first[n \in 0 .. Len(w)] ==     \* the number of its first n digits
            IF n = 0 THEN 0 ELSE first[n - 1] * 10 + Digit[w[n]]
    IN  first[Len(w)]

\* The numerals that may stand for a byte offset or a bit index.
Numeral(limit) ==
    {w \in Words(DOMAIN Digit, 1, MaxLen - 3) : Value(w) <= limit}

Spelling ==
    {g \in [lead  : Words({" ", "tab"}, 0, MaxLen - 4),
            mark  : {<<>>, <<"%">>},
            area  : {c \in Alphabet : Upper(c) \in DOMAIN AreaOf},
            x     : {<<>>} \cup {<<c>> : c \in {d \in Alphabet : Upper(d) = "X"}},
            byte  : Numeral(UintMax),
            bit   : Numeral(7),
            trail : Words({" ", "tab"}, 0, MaxLen - 4)] :
        Len(g.lead) + Len(g.mark) + Len(g.x) + Len(g.byte) + Len(g.bit)
            + Len(g.trail) + 2 <= MaxLen}

Body(g) == g.mark \o <<g.area>> \o g.x \o g.byte \o <<".">> \o g.bit

Text(g) == g.lead \o Body(g) \o g.trail

Grammar == {<<Text(g), Accepted(AreaOf[Upper(g.area)], Value(g.byte), Value(g.bit))>> :
                g \in Spelling}

Spelled == {m[1] : m \in Grammar}

\* Exactly the documented spellings are accepted, with optional %, X, case and
\* surrounding whitespace in every combination, and each with its value: nothing
\* too large for uint32_t, no bit above 7, no trailing junk gets through.
ParserMeetsGrammar ==
    LET r == ParseBitAddress(input)
    IN  IF r.ok THEN <<input, r>> \in Grammar ELSE input \notin Spelled

\* "to_string round-trips through the parser" (test_address.cpp): what an
\* accepted address is printed as parses to the same address.
RoundTrip ==
    LET r == ParseBitAddress(input)
    IN  r.ok => ParseBitAddress(AddressToString(r)) = r

\* "Unsupported addressing modes explain themselves" (test_address.cpp): a bit
\* index above 7 in an otherwise correct address, and a byte, word or double-word
\* access, are rejected with their own message, in every spelling.
HighBit ==
    {Text(g) : g \in {[h EXCEPT !.bit = b] : h \in Spelling,
                       b \in Numeral(UintMax) \ Numeral(7)}}

ExplainsUnsupported ==
    LET r == ParseBitAddress(input)
        s == Trim(input)
        a == IF At(s, 1) = "%" THEN 2 ELSE 1
    IN  /\ input \in HighBit => ~r.ok /\ r.reason = "bit_range"
        /\ Upper(At(s, a)) \in DOMAIN AreaOf /\ Upper(At(s, a + 1)) \in {"B", "W", "D"}
              => ~r.ok /\ r.reason = "wide_access"

=============================================================================
