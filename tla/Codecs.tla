------------------------------- MODULE Codecs -------------------------------
(***************************************************************************)
(* The text codecs and the helpers on byte arrays: Base32 and Base32Hex,   *)
(* Base16 and Hex16, Uu, DeEnCoder, Extensions.  They keep no state; the   *)
(* state here is their input, which grows up to MaxLen.                    *)
(*                                                                         *)
(* A text is a sequence of character codes, a byte array one of bytes.     *)
(***************************************************************************)
EXTENDS Integers, Sequences, FiniteSetsExt, SequencesExt

CONSTANTS
    IntBits,        \* bits of an int: 32 in the code, 16 for TLC, whose own have 32
    Bytes, Texts, Controls,  \* what the three kinds of input are made of
    MaxLen,         \* bound on the input
    BlockSize       \* of GetBytesFromString

ASSUME CodecAssumption ==
    /\ IntBits \in {16, 32}
    /\ Bytes \subseteq 0..255 /\ Texts \subseteq 0..255 /\ Controls \subseteq 0..255
    /\ MaxLen \in Nat /\ BlockSize \in Nat \ {0}

VARIABLES kind, input
inputVars == <<kind, input>>

\* An exception; no text and no array is like it.
Throws == <<-1>>

-----------------------------------------------------------------------------
(* Base 32.  hex is TRUE for Base32Hex, whose digits come before letters.  *)

_shift == 5
Equals == 61
\* What Trim() takes away.
White == (9..13) \union {32, 133, 160}

\* An int keeps its low bits, and its sign bit is one of them.
Wrap(x) == ((x + 2 ^ (IntBits - 1)) % (2 ^ IntBits)) - 2 ^ (IntBits - 1)
ShiftIn(buffer, bits, value) == Wrap(buffer * 2 ^ bits) + value

Digit(hex, v) ==
    IF hex THEN IF v < 10 THEN 48 + v ELSE 55 + v
    ELSE IF v < 26 THEN 65 + v ELSE 24 + v

\* char.IsUpper, char.IsLower and ToUpper on the characters up to 255, two of
\* which become others.
IsUpper(c) == c \in (65..90) \union (192..222) \union {376, 924} /\ c # 215
IsLower(c) == c \in (97..122) \union (223..255) \union {181} /\ c # 247
ToUpper(c) ==
    CASE c = 255 -> 376 [] c = 181 -> 924 [] c = 223 -> c
      [] OTHER -> IF IsLower(c) THEN c - 32 ELSE c

\* Mutant: one digit too many.
CharToInt_OneMore(hex, c) ==
    CASE IsUpper(c) -> c - 65 + (IF hex THEN 10 ELSE 0)
      [] ~hex /\ c \in 50..56 -> c - 24
      [] hex /\ c \in 48..57 -> c - 48
      [] OTHER -> -1

\* Any letter has a value; what is no letter and no digit has -1.
CharToInt(hex, c) ==
    CASE IsUpper(c) -> c - 65 + (IF hex THEN 10 ELSE 0)
      [] IsLower(c) -> c - 97 + (IF hex THEN 10 ELSE 0)
      [] ~hex /\ c \in 50..55 -> c - 24
      [] hex /\ c \in 48..57 -> c - 48
      [] OTHER -> -1

\* The part of a text between characters of S at its ends.
TrimStart(t, S) == SubSeq(t, Min({i \in DOMAIN t : t[i] \notin S} \union {Len(t) + 1}), Len(t))
TrimEnd(t, S) == SubSeq(t, 1, Max({i \in DOMAIN t : t[i] \notin S} \union {0}))

\* Mutant: a byte is complete when a ninth bit has come.
DecodeTurn_Late(m, value) ==
    LET bits == m.bitsLeft + _shift
        buffer == ShiftIn(m.buffer, _shift, value % 32)
    IN  IF bits > 8
        THEN [buffer |-> buffer, bitsLeft |-> bits - 8,
              result |-> Append(m.result, (buffer \div 2 ^ (bits - 8)) % 256)]
        ELSE [m EXCEPT !.buffer = buffer, !.bitsLeft = bits]

DecodeTurn(m, value) ==
    LET bits == m.bitsLeft + _shift
        buffer == ShiftIn(m.buffer, _shift, value % 32)
    IN  IF bits >= 8
        THEN [buffer |-> buffer, bitsLeft |-> bits - 8,
              result |-> Append(m.result, (buffer \div 2 ^ (bits - 8)) % 256)]
        ELSE [m EXCEPT !.buffer = buffer, !.bitsLeft = bits]

FromBase32(hex, encoded) ==
    LET trimmed == TrimEnd(TrimEnd(TrimStart(encoded, White), White), {Equals})
        values == [i \in DOMAIN trimmed |-> CharToInt(hex, ToUpper(trimmed[i]))]
    IN  IF \E i \in DOMAIN values : values[i] < 0 THEN Throws
        ELSE FoldLeft(DecodeTurn, [buffer |-> 0, bitsLeft |-> 0, result |-> <<>>], values).result

\* At least _shift bits are in the buffer: the next byte's, or zeroes.
Refill(m) ==
    CASE m.bitsLeft >= _shift -> m
      [] m.bitsLeft < _shift /\ m.offset < Len(m.data) ->
           [m EXCEPT !.buffer = ShiftIn(@, 8, m.data[m.offset + 1]),
                     !.bitsLeft = @ + 8, !.offset = @ + 1]
      [] OTHER -> [m EXCEPT !.buffer = ShiftIn(@, _shift - m.bitsLeft, 0), !.bitsLeft = _shift]

\* The n-th turn of the loop of ToBase32, if it comes to that.
EncodeTurn(m, n) ==
    IF m.bitsLeft > 0 \/ m.offset < Len(m.data)
    THEN LET f == Refill(m)
         IN  [f EXCEPT !.bitsLeft = @ - _shift,
                       !.result = Append(@, (f.buffer \div 2 ^ (f.bitsLeft - _shift)) % 32)]
    ELSE m

\* No byte takes more than two turns.
EncodeLoop(data) ==
    FoldLeft(EncodeTurn,
             [data |-> data, buffer |-> data[1], bitsLeft |-> 8, offset |-> 1, result |-> <<>>],
             [n \in 1 .. 2 * Len(data) |-> n]).result

Padding(n) == IF n % 8 = 0 THEN 0 ELSE 8 - (n % 8)

ToBase32(hex, data, padOutput) ==
    LET values == EncodeLoop(data)
        padding == IF padOutput THEN Padding(Len(values)) ELSE 0
    IN  IF data = <<>> THEN <<>>
        ELSE [i \in 1..Len(values) |-> Digit(hex, values[i])] \o [i \in 1..padding |-> Equals]

IsValidBase32(hex, t) == \A i \in DOMAIN t : t[i] \in {Digit(hex, v) : v \in 0..31} \union {Equals}

-----------------------------------------------------------------------------
(* Base 16, and Uu on top of it.                                           *)

HexDigit(upper, v) == IF v < 10 THEN 48 + v ELSE IF upper THEN 55 + v ELSE 87 + v
HexValue(c) ==
    CASE c \in 48..57 -> c - 48 [] c \in 65..70 -> c - 55 [] c \in 97..102 -> c - 87
      [] OTHER -> -1

HexString(upper, bytes) ==
    [i \in 1..2 * Len(bytes) |->
        LET b == bytes[(i + 1) \div 2]
        IN  HexDigit(upper, IF i % 2 = 1 THEN b \div 16 ELSE b % 16)]

\* An array without bytes is refused, by these but not by ToHexString.
ToHex16(upper, bytes) == IF bytes = <<>> THEN Throws ELSE HexString(upper, bytes)
ToHexString(bytes) == HexString(TRUE, bytes)

HexBytes(t) ==
    IF \E i \in DOMAIN t : HexValue(t[i]) < 0 THEN Throws
    ELSE [i \in 1..Len(t) \div 2 |-> HexValue(t[2 * i - 1]) * 16 + HexValue(t[2 * i])]

\* A last digit alone is the upper half of a byte; FromHexString leaves it out.
FromHex16(t) ==
    IF t = <<>> THEN Throws
    ELSE HexBytes(IF Len(t) % 2 = 1 THEN Append(t, 48) ELSE t)
FromHexString(t) == HexBytes(SubSeq(t, 1, (Len(t) \div 2) * 2))

IsValidHex16(upper, t) == \A i \in DOMAIN t : t[i] \in {HexDigit(upper, v) : v \in 0..15}

\* Encoding.ASCII has a question mark for what it has not.
ASCII(bytes) == [i \in DOMAIN bytes |-> IF bytes[i] < 128 THEN bytes[i] ELSE 63]

UUEncoded(t) == [uu |-> t]
UUDecoded(u) == u.uu

ToUu(bytes, originalUue) == UUEncoded(IF originalUue THEN ASCII(bytes) ELSE ToHex16(FALSE, bytes))
FromUu(u, originalUue) == IF originalUue THEN ASCII(UUDecoded(u)) ELSE FromHex16(UUDecoded(u))

-----------------------------------------------------------------------------
(* Helpers on bytes and texts.                                             *)

\* The last place whose byte is another one, from 0; or -1.
ArrayIndexOf(bytes, value) == Max({i - 1 : i \in {j \in DOMAIN bytes : bytes[j] # value}} \union {-1})

\* upStretchToCorrectBlockSize: at least one null is added.
GetBytesFromString(bytes) ==
    bytes \o [i \in 1 .. (Len(bytes) \div BlockSize + 1) * BlockSize - Len(bytes) |-> 0]

\* Both leave bytes alone when no byte but the first is other than null.
GetStringFromBytesTrimNulls(bytes) ==
    LET ig == ArrayIndexOf(bytes, 0) IN IF ig > 0 THEN SubSeq(bytes, 1, ig + 1) ELSE bytes
GetBytesTrimNulls(bytes) ==
    LET ig == ArrayIndexOf(bytes, 0) IN IF ig > 0 THEN SubSeq(bytes, 1, ig) ELSE bytes

\* Mutant: needleIt is not set back.
Advance_Keeps(needleIt) == needleIt
\* The place in the needle after a mismatch.
Advance(needleIt) == 0

\* The loop of BytesBytes at the place fFwdIt of the hayStack, from 0; with
\* matchBytes it stops comparing behind the byte of that place.
ScanTurn(m, fFwdIt) ==
    LET last == IF m.matchBytes \in 1 .. Len(m.needle) - 1 THEN m.matchBytes
                ELSE Len(m.needle) - 1
        differ == {k \in 1..last : m.hayStack[fFwdIt + k + 1] # m.needle[k + 1]}
    IN  IF m.found >= 0 \/ m.hayStack[fFwdIt + 1] # m.needle[m.needleIt + 1] THEN m
        ELSE IF differ = {} THEN [m EXCEPT !.found = fFwdIt]
        ELSE [m EXCEPT !.needleIt = Advance(Min(differ))]

BytesBytes(hayStack, needle, matchBytes) ==
    IF needle = <<>> \/ Len(needle) > Len(hayStack) THEN -1
    ELSE FoldLeft(ScanTurn,
                  [hayStack |-> hayStack, needle |-> needle, matchBytes |-> matchBytes,
                   needleIt |-> 0, found |-> -1],
                  [i \in 1 .. Len(hayStack) - Len(needle) |-> i - 1]).found

\* The control characters but for tab, line feed, vertical tab, form feed and
\* carriage return, in their order.
charList == [i \in 1..26 |-> IF i < 9 THEN i ELSE i + 5]
SpecialControls == ToSet(charList)

\* A text without the members of S.
Keep(m, c) == IF c \in m.drop THEN m ELSE [m EXCEPT !.kept = Append(@, c)]
Drop(t, S) == FoldLeft(Keep, [drop |-> S, kept |-> <<>>], t).kept

Without(t, i) == SubSeq(t, 1, i - 1) \o SubSeq(t, i + 1, Len(t))

\* Mutant: one of each is removed.
RemoveInside_Once(t, ch) ==
    LET at == {i \in DOMAIN t : t[i] = ch}
    IN  IF at = {} \/ Min(at) = 1 THEN t ELSE Without(t, Min(at))

\* While the first is not at the beginning it is removed.
RemoveInside(t, ch) ==
    IF t # <<>> /\ t[1] = ch THEN t ELSE Drop(t, {ch})

Trim_Decrypted_Text(t) ==
    LET trimmed == TrimStart(TrimEnd(t, SpecialControls), SpecialControls)
    IN  FoldLeft(RemoveInside, Drop(trimmed, {0}), charList)

-----------------------------------------------------------------------------
(* The inputs.                                                             *)

InitInput == kind \in {"bytes", "text", "control"} /\ input = <<>>

Extend ==
    /\ Len(input) < MaxLen
    /\ \E x \in CASE kind = "bytes" -> Bytes [] kind = "text" -> Texts [] OTHER -> Controls :
           input' = Append(input, x)
    /\ UNCHANGED kind

InputSpec == InitInput /\ [][Extend]_inputVars

-----------------------------------------------------------------------------
(* Properties. *)

\* Reference: the bits of the bytes, first bit first, in groups of five.
BitOf(bytes, k) == IF k >= 8 * Len(bytes) THEN 0
                   ELSE (bytes[k \div 8 + 1] \div 2 ^ (7 - (k % 8))) % 2
Group(bytes, n) ==
    LET bit(j) == BitOf(bytes, 5 * n + j)
    IN  16 * bit(0) + 8 * bit(1) + 4 * bit(2) + 2 * bit(3) + bit(4)
Groups(bytes) == [n \in 1 .. (8 * Len(bytes) + 4) \div 5 |-> Group(bytes, n - 1)]

\* Whatever falls out of the 32 bits of the buffer, ToBase32 writes the groups
\* of five bits of its bytes, up to a multiple of eight characters, and every
\* decoder gives back the bytes its encoder was given: uu only bytes of ASCII
\* unless it goes through hexadecimals, and a stretched text only if it is
\* longer than a character and does not end in a null.
EncodingsUndone ==
    kind = "bytes" =>
    /\ \A hex, pad \in BOOLEAN :
          LET text == ToBase32(hex, input, pad)
              digits == TrimEnd(text, {Equals})
          IN  /\ digits = [i \in DOMAIN Groups(input) |-> Digit(hex, Groups(input)[i])]
              /\ pad => Len(text) % 8 = 0 /\ Len(text) - Len(digits) < 8
              /\ FromBase32(hex, text) = input
    /\ FromHexString(ToHexString(input)) = input
    /\ input # <<>> =>
          /\ \A upper \in BOOLEAN : FromHex16(ToHex16(upper, input)) = input
          /\ FromUu(ToUu(input, FALSE), FALSE) = input
    /\ FromUu(ToUu(input, TRUE), TRUE) = input <=> \A i \in DOMAIN input : input[i] < 128
    /\ Len(input) > 1 /\ Last(input) # 0 =>
          GetStringFromBytesTrimNulls(GetBytesFromString(input)) = input

OnlyOf(S, t, first, last) == \A i \in first..last : t[i] \in S

\* What IsValidBase32 accepts FromBase32 decodes, but for padding that is not
\* at the end.  What FromBase32 takes has, beside digits, only letters of any
\* kind in their place, white space before or behind all the rest, and padding
\* behind all but that.  What IsValidHex16 accepts FromHex16 decodes, but for
\* the empty text.
AcceptedTexts ==
    kind = "text" =>
    /\ \A hex \in BOOLEAN :
          LET taken == FromBase32(hex, input) # Throws
              valid == IsValidBase32(hex, input)
          IN  /\ valid /\ ~taken => \E i \in 1 .. Len(input) - 1 :
                                       input[i] = Equals /\ input[i + 1] # Equals
              /\ taken => \A i \in DOMAIN input :
                    \/ \E v \in 0..31 : input[i] = Digit(hex, v)
                    \/ IsUpper(input[i]) \/ IsLower(input[i])
                    \/ OnlyOf(White, input, 1, i) \/ OnlyOf(White, input, i, Len(input))
                    \/ /\ input[i] = Equals
                       /\ OnlyOf(White \union {Equals}, input, i, Len(input))
    /\ \A upper \in BOOLEAN :
          IsValidHex16(upper, input) /\ input # <<>> => FromHex16(input) # Throws

\* The scan of BytesBytes forgets a partial match: it finds the first place it
\* looks at where the needle stands, whatever matched in part before.  It
\* looks at none at the very end of the hayStack and, given matchBytes, at
\* matchBytes + 1 bytes; FindsFirst and MatchesFirstBytes are what its comment
\* says instead, and it does not keep to that.
FindsBytes ==
    kind = "bytes" =>
    \A needle \in BoundedSeq(Bytes, 3) \ {<<>>}, matchBytes \in {-1, 1, 2} :
        LET start == SubSeq(needle, 1, IF matchBytes > 0 /\ matchBytes < Len(needle)
                                       THEN matchBytes + 1 ELSE Len(needle))
            places == {p \in 0 .. Len(input) - Len(needle) - 1 :
                          IsPrefix(start, SubSeq(input, p + 1, Len(input)))}
        IN  BytesBytes(input, needle, matchBytes) = Min(IF places = {} THEN {-1} ELSE places)

\* What Trim_Decrypted_Text leaves has no null, nothing but nulls and special
\* controls is taken, and of these only one stays: that which a null before it
\* made the first character, everywhere.  RemovesAllControls is what the
\* method's comment says instead, and it does not keep to that.
ControlsRemoved ==
    kind = "control" =>
    LET left == Trim_Decrypted_Text(input)
    IN  /\ \A i \in DOMAIN left :
              /\ left[i] # 0
              /\ left[i] \in SpecialControls =>
                    left[1] = left[i] /\ TrimStart(input, SpecialControls)[1] = 0
        /\ Drop(left, SpecialControls \union {0}) = Drop(input, SpecialControls \union {0})

(* What comments promise of four helpers, as statements about one input.    *)

\* "searches hayStack for the first occurence of needle" (Extensions.cs:177),
\* "inspired by unix posix c function strstr" (178): BytesBytes gives the first
\* place where the needle occurs, wherever that is.
FindsFirst(hayStack) ==
    \A needle \in BoundedSeq(Bytes, 3) \ {<<>>} :
        LET places == {p \in 0 .. Len(hayStack) - Len(needle) :
                          IsPrefix(needle, SubSeq(hayStack, p + 1, Len(hayStack)))}
        IN  BytesBytes(hayStack, needle, -1) = Min(IF places = {} THEN {-1} ELSE places)

\* "match the only first matchBytes of needle" (Extensions.cs:182): where the
\* first matchBytes bytes of the needle stand and the whole of it would fit
\* before the end, BytesBytes finds something.
MatchesFirstBytes(hayStack) ==
    \A needle \in BoundedSeq(Bytes, 3) \ {<<>>} : \A matchBytes \in 1 .. Len(needle) :
        (\E p \in 0 .. Len(hayStack) - Len(needle) - 1 :
            IsPrefix(SubSeq(needle, 1, matchBytes), SubSeq(hayStack, p + 1, Len(hayStack))))
        => BytesBytes(hayStack, needle, matchBytes) >= 0

\* "removes all special control characters from a text string"
\* (DeEnCoder.cs:109): Trim_Decrypted_Text leaves none.
RemovesAllControls(t) == ToSet(Trim_Decrypted_Text(t)) \intersect SpecialControls = {}

\* "gets a byte[] from binary byte[] data and truncate all 0 byte at the end"
\* (DeEnCoder.cs:88): GetBytesTrimNulls takes away nulls and nothing else.
TruncatesNulls(bytes) == TrimEnd(GetBytesTrimNulls(bytes), {0}) = TrimEnd(bytes, {0})

\* Each of these comments is meant for every input, so at least one of them
\* should be right about any: an input that refutes this refutes all four.
SomeCommentHolds ==
    kind = "bytes" =>
    \/ FindsFirst(input) \/ MatchesFirstBytes(input)
    \/ RemovesAllControls(input) \/ TruncatesNulls(input)
=============================================================================
